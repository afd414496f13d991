----------------------------- MODULE LossyChannel -----------------------------
(***************************************************************************)
(* What a bridge to MQTT promises its subscribers: of the answers it read, *)
(* each is delivered at most once and in the order they were read; any of  *)
(* them may never arrive.                                                  *)
(***************************************************************************)
EXTENDS Integers, Sequences

CONSTANTS Bridges

VARIABLES
    read,  \* how many answers each bridge has read
    got    \* the answers delivered, by their number

Init ==
    /\ read = [b \in Bridges |-> 0]
    /\ got = [b \in Bridges |-> <<>>]

Read(b) ==
    /\ read' = [read EXCEPT ![b] = @ + 1]
    /\ UNCHANGED got

Newest(b) == IF got[b] = <<>> THEN 0 ELSE got[b][Len(got[b])]

Deliver(b) ==
    /\ \E n \in Newest(b) + 1 .. read[b] : got' = [got EXCEPT ![b] = Append(@, n)]
    /\ UNCHANGED read

Next == \E b \in Bridges : Read(b) \/ Deliver(b)

Spec == Init /\ [][Next]_<<read, got>>
=============================================================================
