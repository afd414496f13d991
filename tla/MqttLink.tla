------------------------------- MODULE MqttLink -------------------------------
(***************************************************************************)
(* The way of an answer from a bridge to the subscribers: on_spi_rx hands  *)
(* it to mqtt_send_adapter, which publishes it through a mosquitto client  *)
(* of the bridge's own (conn_spi.c, bridge.c, conn_mqtt.c).  The bridges   *)
(* of a generation are started one after the other and stopped by the      *)
(* reload that starts the next generation (app.c); a bridge whose source   *)
(* cannot be started leaves its client behind.  libmosquitto, whose        *)
(* network thread reconnects by itself, TCP and the broker are external    *)
(* and modelled from what the code asks of them.                           *)
(***************************************************************************)
EXTENDS Integers, Sequences, FiniteSets

CONSTANTS
    Bridges,     \* every start of a bridge is one of its own
    Ids,         \* values of client_id
    Unset,       \* client_id is not given
    Worlds,      \* the client_ids, and generations of the bridges, to consider
    MaxAnswers,  \* bound: answers each bridge reads
    MaxDrops     \* bound: connections the network loses

Default == "iotgw"
NoOwner == "none"
CONNECT == 0

ASSUME LinkAssumption ==
    /\ Worlds \subseteq [id : [Bridges -> Ids \cup {Unset}], gen : [Bridges -> Nat]]
    /\ Unset \notin Ids \cup {Default}
    /\ IsFiniteSet(Bridges) /\ NoOwner \notin Bridges
    /\ MaxAnswers \in Nat /\ MaxDrops \in Nat

VARIABLES
    world,     \* cfg->params.client_id and generation of each bridge
    bridge,    \* what has become of the bridge
    link,      \* what its client, if there is one, makes of its connection
    libRefs,   \* mosquitto_lib_init calls that no mosquitto_lib_cleanup has undone
    wire,      \* packets sent over the current connection and not yet read
    session,   \* the broker's owner of each client id in use
    read,      \* answers the bridge has read
    accepted,  \* history: answers mosquitto_publish returned success for
    got,       \* history: answers the broker has passed on
    drops      \* connections lost so far

daemonVars == <<bridge, libRefs>>
vars == <<world, daemonVars, link, wire, session, read, accepted, got, drops>>

\* "noClient": mosquitto_new failed; "orphan": the source failed to start.
BridgeState == {"new", "starting", "running", "noClient", "failed", "orphan", "closed"}

\* "dead": the connection is gone and the client has not noticed.
LinkState == {"none", "up", "dead", "down"}

\* A slip: without a client_id of its own the client gets none.
SessionIdRaw(b) == world.id[b]

\* A slip: every client is called the same.
SessionIdFixed(b) == Default

\* A slip: a client gets a new name with every start.
SessionIdPerStart(b) == IF world.gen[b] = 1 THEN "x" ELSE "y"

\* mqtt_connect_from_config: the client is called client_id, or "iotgw".
SessionId(b) == IF world.id[b] # Unset THEN world.id[b] ELSE Default

Init ==
    /\ world \in Worlds
    /\ bridge = [b \in Bridges |-> "new"] /\ libRefs = 0
    /\ link = [b \in Bridges |-> "none"] /\ wire = [b \in Bridges |-> <<>>]
    /\ session = [id \in {} |-> NoOwner]
    /\ read = [b \in Bridges |-> 0] /\ accepted = [b \in Bridges |-> <<>>]
    /\ got = [b \in Bridges |-> <<>>] /\ drops = 0

(***************************************************************************)
(* The daemon.                                                             *)
(***************************************************************************)

\* start_all_bridges, after stop_all_bridges for the generations before.
MayStart(b) ==
    /\ bridge[b] = "new"
    /\ \A c \in Bridges :
          /\ bridge[c] # "starting"
          /\ world.gen[c] < world.gen[b] => bridge[c] \notin {"new", "running"}
          /\ world.gen[c] > world.gen[b] => bridge[c] = "new"

\* mosquitto_connect returns when CONNECT is sent; loop_start starts the network
\* thread.  Nobody waits for the broker's answer.
Connect(b) ==
    /\ MayStart(b)
    /\ bridge' = [bridge EXCEPT ![b] = "starting"] /\ libRefs' = libRefs + 1
    /\ link' = [link EXCEPT ![b] = "up"] /\ wire' = [wire EXCEPT ![b] = <<CONNECT>>]
    /\ UNCHANGED <<world, session, read, accepted, got, drops>>

\* A slip: the library is cleaned up on every failing path, also by the caller.
ConnectFailsTwice(b) ==
    /\ MayStart(b)
    /\ bridge' = [bridge EXCEPT ![b] = "failed"]
    /\ libRefs' = libRefs - 1
    /\ UNCHANGED <<world, link, wire, session, read, accepted, got, drops>>

\* mosquitto_new fails and the library is not cleaned up; or there is no connection;
\* or there is no thread, when CONNECT has been sent.
ConnectFails(b) ==
    /\ MayStart(b)
    /\ \/ /\ bridge' = [bridge EXCEPT ![b] = "noClient"] /\ libRefs' = libRefs + 1
          /\ UNCHANGED wire
       \/ /\ bridge' = [bridge EXCEPT ![b] = "failed"]
          /\ UNCHANGED libRefs
          /\ wire' \in {wire, [wire EXCEPT ![b] = <<CONNECT>>]}
    /\ UNCHANGED <<world, link, session, read, accepted, got, drops>>

\* The source is started too, or fails: then nothing closes the client.
SourceStarts(b) ==
    /\ bridge[b] = "starting"
    /\ bridge' = [bridge EXCEPT ![b] = "running"]
    /\ UNCHANGED <<world, libRefs, link, wire, session, read, accepted, got, drops>>

SourceFails(b) ==
    /\ bridge[b] = "starting"
    /\ bridge' = [bridge EXCEPT ![b] = "orphan"]
    /\ UNCHANGED <<world, libRefs, link, wire, session, read, accepted, got, drops>>

\* The initial pass, while the bridge is being started, and its worker publish.
Publishing(b) == bridge[b] \in {"starting", "running"} /\ read[b] < MaxAnswers

\* A slip: the newest packet is sent first.
PublishFirst(b) ==
    /\ Publishing(b)
    /\ read' = [read EXCEPT ![b] = @ + 1]
    /\ wire' = [wire EXCEPT ![b] = IF link[b] = "up" THEN <<read'[b]>> \o @ ELSE @]
    /\ accepted' = [accepted EXCEPT ![b] =
                        IF link[b] = "down" THEN @ ELSE Append(@, read'[b])]
    /\ UNCHANGED <<world, daemonVars, link, session, got, drops>>

\* A slip: a publication that was taken is tried once more.
PublishRetries(b) ==
    /\ Publishing(b)
    /\ read' = [read EXCEPT ![b] = @ + 1]
    /\ wire' = [wire EXCEPT ![b] =
                    IF link[b] = "up" THEN @ \o <<read'[b], read'[b]>> ELSE @]
    /\ accepted' = [accepted EXCEPT ![b] =
                        IF link[b] = "down" THEN @ ELSE Append(@, read'[b])]
    /\ UNCHANGED <<world, daemonVars, link, session, got, drops>>

\* on_spi_rx, spi_to_mqtt_default and mqtt_send_adapter: the answer is published with
\* QoS 0.  While the client knows that it is not connected, mosquitto_publish fails
\* and the answer is dropped (on_spi_rx ignores the result).
Publish(b) ==
    /\ Publishing(b)
    /\ read' = [read EXCEPT ![b] = @ + 1]
    /\ wire' = [wire EXCEPT ![b] = IF link[b] = "up" THEN Append(@, read'[b]) ELSE @]
    /\ accepted' = [accepted EXCEPT ![b] =
                        IF link[b] = "down" THEN @ ELSE Append(@, read'[b])]
    /\ UNCHANGED <<world, daemonVars, link, session, got, drops>>

\* mqtt_close, after the worker has ended: the network thread is stopped at once and
\* the client destroyed; what has not left by then is lost.  Bridges are stopped when
\* all of their generation have been started.
Close(b) ==
    /\ bridge[b] = "running"
    /\ \A c \in Bridges :
          world.gen[c] = world.gen[b] => bridge[c] \notin {"new", "starting"}
    /\ bridge' = [bridge EXCEPT ![b] = "closed"] /\ libRefs' = libRefs - 1
    /\ link' = [link EXCEPT ![b] = "none"]
    /\ \E sent \in 0 .. Len(wire[b]) :
          wire' = [wire EXCEPT ![b] = SubSeq(@, 1, sent)]
    /\ UNCHANGED <<world, session, read, accepted, got, drops>>

(***************************************************************************)
(* libmosquitto's network thread, the network and the broker.              *)
(***************************************************************************)

Notice(b) ==
    /\ link[b] = "dead"
    /\ link' = [link EXCEPT ![b] = "down"]
    /\ UNCHANGED <<world, daemonVars, wire, session, read, accepted, got, drops>>

\* The client connects anew under its id, and sends nothing of before again: that is
\* what the code asks for with QoS 0.
Reconnect(b) ==
    /\ link[b] = "down"
    /\ link' = [link EXCEPT ![b] = "up"] /\ wire' = [wire EXCEPT ![b] = <<CONNECT>>]
    /\ UNCHANGED <<world, daemonVars, session, read, accepted, got, drops>>

Drop(b) ==
    /\ link[b] = "up" /\ drops < MaxDrops
    /\ drops' = drops + 1
    /\ link' = [link EXCEPT ![b] = "dead"] /\ wire' = [wire EXCEPT ![b] = <<>>]
    /\ UNCHANGED <<world, daemonVars, session, read, accepted, got>>

Pending(b) == wire[b] # <<>> /\ Head(wire[b]) = CONNECT

\* A CONNECT takes the client id over: the broker closes the connection that had it.
Admit(b) ==
    /\ Pending(b)
    /\ session' = [id \in DOMAIN session \cup {SessionId(b)} |->
                      IF id = SessionId(b) THEN b ELSE session[id]]
    /\ LET ousted(o) == /\ o # b /\ ~Pending(o)
                        /\ SessionId(b) \in DOMAIN session /\ session[SessionId(b)] = o
       IN  /\ link' = [o \in Bridges |->
                          IF ousted(o) /\ link[o] = "up" THEN "dead" ELSE link[o]]
           /\ wire' = [o \in Bridges |->
                          IF o = b THEN Tail(wire[b])
                          ELSE IF ousted(o) THEN <<>> ELSE wire[o]]
    /\ UNCHANGED <<world, daemonVars, read, accepted, got, drops>>

\* A publication is passed on to the subscribers.
Deliver(b) ==
    /\ wire[b] # <<>> /\ ~Pending(b)
    /\ got' = [got EXCEPT ![b] = Append(@, Head(wire[b]))]
    /\ wire' = [wire EXCEPT ![b] = Tail(@)]
    /\ UNCHANGED <<world, daemonVars, link, session, read, accepted, drops>>

Network(b) == Notice(b) \/ Reconnect(b) \/ Admit(b) \/ Deliver(b)
Next ==
    \E b \in Bridges :
        \/ Connect(b) \/ ConnectFails(b) \/ SourceStarts(b) \/ SourceFails(b)
        \/ Publish(b) \/ Close(b) \/ Drop(b) \/ Network(b)

Spec == Init /\ [][Next]_vars

\* The network thread and the broker keep running; loss is never bound to happen.
FairSpec ==
    /\ Spec
    /\ \A b \in Bridges : /\ WF_vars(Notice(b)) /\ WF_vars(Reconnect(b))
                          /\ WF_vars(Admit(b)) /\ WF_vars(Deliver(b))

(***************************************************************************)
(* Properties.                                                             *)
(***************************************************************************)

TypeOK ==
    /\ world \in Worlds /\ bridge \in [Bridges -> BridgeState]
    /\ link \in [Bridges -> LinkState] /\ libRefs \in 0 .. Cardinality(Bridges)
    /\ wire \in [Bridges -> Seq(0 .. MaxAnswers)]
    /\ DOMAIN session \subseteq Ids \cup {Default}
    /\ \A id \in DOMAIN session : session[id] \in Bridges
    /\ read \in [Bridges -> 0 .. MaxAnswers]
    /\ accepted \in [Bridges -> Seq(1 .. MaxAnswers)]
    /\ got \in [Bridges -> Seq(1 .. MaxAnswers)] /\ drops \in 0 .. MaxDrops

\* The library all clients share is initialised as long as there is a client, and
\* what keeps it so when there is none is a client that could not be made: starts
\* that fail at any step, and reloads, give back as much as they take.
LibraryHeld ==
    libRefs = Cardinality({b \in Bridges : link[b] # "none" \/ bridge[b] = "noClient"})

\* Two connectors name their clients alike, counting that no name means "iotgw".
SameName(b, c) ==
    \/ world.id[b] = world.id[c]
    \/ {world.id[b], world.id[c]} = {Default, Unset}

DistinctClients == \A b, c \in Bridges : b # c => ~SameName(b, c)

\* Only the first packet of a connection is a CONNECT.
Answers(packets) ==
    IF packets # <<>> /\ Head(packets) = CONNECT THEN Tail(packets) ELSE packets

\* As long as no connection is lost and the clients have different names, every
\* answer mosquitto_publish accepted from an open bridge has been delivered or is on
\* its way, in the order it was read, also what was published before the broker had
\* seen the CONNECT.
NothingElseLost ==
    drops = 0 /\ DistinctClients =>
        \A b \in Bridges : bridge[b] # "closed" =>
            accepted[b] = got[b] \o Answers(wire[b])

Channel == INSTANCE LossyChannel

\* Through drops, reconnections, take-overs of the client id and the closing of the
\* bridge, its answers arrive at most once and in the order they were read.
ImplementsChannel == Channel!Spec

\* A reload does not mix the answers of the old configuration with those of the new:
\* a client that has the name of one from before the reload takes its place, so that
\* nothing of the old one is passed on after the new one has been admitted, unless
\* the broker sees the CONNECT of the old one last.
NoOldAfterNew ==
    \A b, c \in Bridges :
        /\ world.gen[b] < world.gen[c] /\ SameName(b, c)
        /\ got[c] # <<>> /\ session[SessionId(c)] = c
        => wire[b] = <<>> \/ Pending(b)

\* Whether clients come and go by failing starts, reloads or drops: when those that
\* are left have different names and the network loses no more connections, every
\* one of them is connected in the end, for good.  The premise fails, and a client is
\* thrown off again and again, for two bridges that share a name, and after a reload
\* for the one that a failed start has left behind.
LiveDistinct ==
    \A b, c \in Bridges :
        b # c /\ link[b] # "none" /\ link[c] # "none" => ~SameName(b, c)

ConnectionsSettle ==
    <>[]LiveDistinct => <>[](\A b \in Bridges : link[b] \notin {"dead", "down"})

\* "qos {0,1,2} default 1" (connectors.h): with QoS 1 or 2 a publication the client
\* has accepted is delivered although the connection is lost in between, unless the
\* bridge is closed.
AcceptedIsDelivered ==
    \A b \in Bridges, n \in 1 .. MaxAnswers :
        (\E m \in DOMAIN accepted[b] : accepted[b][m] = n)
            ~> (bridge[b] = "closed" \/ \E m \in DOMAIN got[b] : got[b][m] = n)
=============================================================================
