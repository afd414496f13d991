------------------------------ MODULE MCMqttLink ------------------------------
(***************************************************************************)
(* Instances of MqttLink: two bridges of one configuration, or the same    *)
(* bridge before and after a reload, whose clients have different names,   *)
(* the same name, or the name that a missing one stands for.               *)
(***************************************************************************)
EXTENDS MqttLink

MCBridges == {"b1", "b2"}
MCIds == {"x", "y", Default}
Pair(first, second) == [b \in MCBridges |-> IF b = "b1" THEN first ELSE second]
Together == Pair(1, 1)
Reloaded == Pair(1, 2)
World(ids, gens) == [id |-> ids, gen |-> gens]

MCWorlds ==
    {World(ids, Together) :
        ids \in {Pair("x", "y"), Pair("x", Unset), Pair("x", "x"), Pair(Default, Unset)}}
    \cup {World(ids, Reloaded) :
        ids \in {Pair("x", "y"), Pair("x", "x"), Pair(Unset, Default)}}
MCApart == {World(Pair("x", "y"), Together)}
=============================================================================
