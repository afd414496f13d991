------------------------------ MODULE MCGateway ------------------------------
(***************************************************************************)
(* Small instances of Gateway.  The configurations are the ones whose      *)
(* bridges take different paths through bridge.c: two that start, one that *)
(* fails before or after one that starts, and a file the loader refuses.   *)
(***************************************************************************)
EXTENDS Gateway

SpiToMqtt == [from |-> "SPI", to |-> "MQTT"]
OtherToMqtt == [from |-> "OTHER", to |-> "MQTT"]
SpiToOther == [from |-> "SPI", to |-> "OTHER"]
Dangling == [from |-> "SPI", to |-> "MISSING"]

File(bridges) == [valid |-> TRUE, bridges |-> bridges]

MCContents ==
    { File(<<SpiToMqtt, SpiToMqtt>>),
      File(<<OtherToMqtt, SpiToMqtt>>),
      File(<<Dangling, SpiToOther>>),
      [valid |-> FALSE, bridges |-> <<>>] }

\* For the run about the client that a failing SPI source leaves behind.
MCSpiOnly ==
    { File(<<SpiToMqtt, SpiToMqtt>>), [valid |-> FALSE, bridges |-> <<>>] }

\* For the runs whose subject is the signals: enough to start, to fail, to refuse.
MCOneBridge ==
    { File(<<SpiToMqtt>>), [valid |-> FALSE, bridges |-> <<>>] }
=============================================================================
