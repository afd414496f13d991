------------------------------ MODULE MCUartPort ------------------------------
(***************************************************************************)
(* Instances of UartPort: each setting at its values, unset and, where the *)
(* code checks it, at one it refuses; a port left raw, and one left with   *)
(* every flag set that the code has to clear.                              *)
(***************************************************************************)
EXTENDS UartPort

MCParams ==
    [baudrate : {9600, 14400}, bytesize : {Unset, 5, 9},
     parity : {Unset, "N", "E", "O", "M", "S", "X"}, stopbits : {Unset, "1", "1.5", "2"},
     rtscts : {Unset, TRUE}, xonxoff : {Unset, TRUE},
     timeout_ms : {Unset, 0, 150, 25600, 60001}]

Settings(flag) ==
    [speed |-> 115200, csize |-> 8, parenb |-> flag, parodd |-> flag, cmspar |-> flag,
     cstopb |-> flag, crtscts |-> flag, ixon |-> flag, ixoff |-> flag,
     vmin |-> 1, vtime |-> 0]

MCLeftover == {Settings(flag) : flag \in BOOLEAN}

MCData == <<1, 2>>
=============================================================================
