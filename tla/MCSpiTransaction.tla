-------------------------- MODULE MCSpiTransaction --------------------------
(***************************************************************************)
(* Instances of SpiTransaction: one transaction of every shape (lengths in *)
(* and out of range, strings of one digit to more than the buffer holds,   *)
(* with and without 0x, not hexadecimal), then a read of another length.   *)
(***************************************************************************)
EXTENDS SpiTransaction

MCStrings == { <<Zero, X, 10>>, <<1, 2>>, <<0, X, 1, 2, 3>>, <<1, 2, 3, 4, 5, 6, 7, 8, 9>>,
               <<1, X, 2>>, <<Zero, X>>, <<>>, <<3, Junk>> }

MCItems ==
    [op : {"read", "write", "transfer"}, len : {Absent, 0, 1, 2, 3, 4},
     tx : MCStrings \cup {Absent}, rx_len : {Absent, 0, 1, 3, 4}]

MCLists ==
    {<<>>} \cup
    {<<item, [op |-> "read", len |-> 1, tx |-> Absent, rx_len |-> 2]>> : item \in MCItems}
=============================================================================
