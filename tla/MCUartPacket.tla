----------------------------- MODULE MCUartPacket -----------------------------
(***************************************************************************)
(* Instances of UartStream over two byte values.  Start and end sequences  *)
(* are chosen to overlap themselves (<<0, 0>>), to have a prefix in common *)
(* with what precedes them (<<0, 1>> after 0), and to overlap each other.  *)
(***************************************************************************)
EXTENDS UartStream

MCByte == {0, 1}

MCPackets ==
    [start : {<<>>, <<0>>, <<0, 1>>, <<0, 0, 1>>},
     end : {<<>>, <<1>>, <<0, 1>>, <<1, 1>>},
     length : {0, 2, 4}, hexOk : {TRUE}]
    \cup {[start |-> <<>>, end |-> <<1>>, length |-> 0, hexOk |-> FALSE]}
=============================================================================
