---------------------------- MODULE GatewayService ----------------------------
(***************************************************************************)
(* What the daemon promises its operator, without saying how: it serves    *)
(* one configuration at a time, bridges only run while one is served, and  *)
(* it drains every running bridge before it serves another configuration   *)
(* or ends.  Versions of the configuration never go back.                  *)
(***************************************************************************)
EXTENDS Integers

CONSTANTS
    Bridges,     \* the bridges that can run
    MaxVersion   \* bound: versions of the configuration file

VARIABLES
    phase,       \* "idle", "serving", "draining" or "ended"
    version,     \* the configuration served last
    active       \* the bridges that are running

vars == <<phase, version, active>>

Init == phase = "idle" /\ version = 0 /\ active = {}

\* Take up the current configuration, one at least as new as the last.
Adopt ==
    /\ phase = "idle" /\ active = {}
    /\ phase' = "serving" /\ version' \in version .. MaxVersion
    /\ UNCHANGED active

Start(b) ==
    /\ phase = "serving" /\ b \notin active
    /\ active' = active \cup {b}
    /\ UNCHANGED <<phase, version>>

Drain ==
    /\ phase = "serving" /\ phase' = "draining"
    /\ UNCHANGED <<version, active>>

Finish(b) ==
    /\ phase = "draining" /\ b \in active
    /\ active' = active \ {b}
    /\ UNCHANGED <<phase, version>>

\* Nothing runs any more: take up a configuration again, or end.
Release ==
    /\ phase = "draining" /\ active = {}
    /\ phase' \in {"idle", "ended"}
    /\ UNCHANGED <<version, active>>

\* There is no configuration to take up.
GiveUp ==
    /\ phase = "idle" /\ active = {}
    /\ phase' = "ended"
    /\ UNCHANGED <<version, active>>

Next ==
    \/ Adopt \/ Drain \/ Release \/ GiveUp
    \/ \E b \in Bridges : Start(b) \/ Finish(b)

Spec == Init /\ [][Next]_vars
=============================================================================
