----------------------------- MODULE ConfigMerge -----------------------------
(***************************************************************************)
(* How the daemon reads a configuration: config_load_file parses the main  *)
(* file and appends the connectors of its includes, one file after the     *)
(* other; prepare_bridge_runtime_t then looks up the ends of each bridge   *)
(* by name (config_loader.c, connector_registry.c, bridge.c).  The other   *)
(* reader of the same files, scripts/validate_cfg.py, is run by hand on    *)
(* them beforehand; Accepted says when it is content.  What the two make   *)
(* of the parameters of a connector or a bridge is in Parameters.          *)
(***************************************************************************)
EXTENDS Integers, Sequences, Parameters

CONSTANTS
    Names,      \* connector ids
    Types,      \* "type" values the files use
    Paths,      \* files an "includes" list can name
    Mains,      \* what the main file can hold
    Fragments   \* what an included file can hold

\* A document as the YAML parser yields it.  An item of "connectors" or "bridges"
\* counts only if its value is a mapping.  Keys of one mapping are unique, as YAML
\* demands; neither parser checks it.
ASSUME DocumentsAssumption ==
    \A doc \in Mains \cup Fragments :
        /\ doc.readable \in BOOLEAN /\ doc.mapping \in BOOLEAN
        /\ doc.connectors \in Seq(Range(doc.connectors))
        /\ \A m \in DOMAIN doc.connectors :
              LET row == doc.connectors[m]
              IN  row.name \in Names /\ row.type \in Types /\ row.isMap \in BOOLEAN
                  /\ IsParams(row.params)
        /\ doc.bridges \in Seq(Range(doc.bridges))
        /\ \A m \in DOMAIN doc.bridges :
              LET row == doc.bridges[m]
              IN  {row.from, row.to} \subseteq Names /\ row.isMap \in BOOLEAN
                  /\ IsParams(row.params)
        /\ doc.includes \in Seq(Paths)
        /\ \A m, n \in DOMAIN doc.connectors :
              doc.connectors[m].name = doc.connectors[n].name => m = n
        /\ \A m, n \in DOMAIN doc.bridges : doc.bridges[m].id = doc.bridges[n].id => m = n

VARIABLES
    main,       \* the main configuration file
    file,       \* the files it can include
    pc,         \* where the loader is
    n,          \* index of its loops
    table,      \* cfg->connectors
    bridges,    \* cfg->bridges
    warned,     \* includes it could not load
    resolved    \* what the ends of the bridges were found to be

vars == <<main, file, pc, n, table, bridges, warned, resolved>>
docVars == <<main, file>>

\* CONNECTOR_REGISTRY: the kinds bridge.c knows, and those kept as opaque text.
KindOf(type) ==
    CASE type = "mqtt" -> "MQTT"
      [] type = "spi" -> "SPI"
      [] type \in {"modbus-rtu", "modbus-tcp", "http-server", "uart", "i2c", "ble",
                   "coap", "lorawan", "onewire", "opcua", "socketcan", "zigbee"} -> "OTHER"
      [] OTHER -> "UNKNOWN"

Entry(row) ==
    [name |-> row.name, kind |-> KindOf(row.type), params |-> Parse(row.type, row.params)]
Route(row) ==
    [from |-> row.from, to |-> row.to, params |-> Parse("bridge", row.params)]

\* parse_connectors_map: an item per mapping; the parsers of parameters never fail.
Rows(doc) ==
    LET items == Mappings(doc.connectors)
    IN  [m \in DOMAIN items |-> Entry(items[m])]

\* parse_bridges.
Routes(doc) ==
    LET items == Mappings(doc.bridges)
    IN  [m \in DOMAIN items |-> Route(items[m])]

\* A slip: the last definition of a name is found.
FindLast(name) ==
    LET found == {m \in DOMAIN table : table[m].name = name}
    IN  IF found = {} THEN "MISSING"
        ELSE table[CHOOSE m \in found : \A k \in found : m >= k].kind

\* config_find_connector: the first one of that name.
Find(name) ==
    LET found == {m \in DOMAIN table : table[m].name = name}
    IN  IF found = {} THEN "MISSING"
        ELSE table[CHOOSE m \in found : \A k \in found : m <= k].kind

Init ==
    /\ main \in Mains /\ file \in [Paths -> Fragments]
    /\ pc = "load" /\ n = 1
    /\ table = <<>> /\ bridges = <<>> /\ warned = {} /\ resolved = <<>>

LoadMain ==
    /\ pc = "load" /\ main.readable /\ main.mapping
    /\ table' = Rows(main) /\ bridges' = Routes(main)
    /\ pc' = "merge"
    /\ UNCHANGED <<docVars, n, warned, resolved>>

\* The file cannot be opened or parsed, or its root is no mapping: -1.
LoadMainFails ==
    /\ pc = "load" /\ ~(main.readable /\ main.mapping)
    /\ pc' = "failed"
    /\ UNCHANGED <<docVars, n, table, bridges, warned, resolved>>

\* A slip: the array is allocated anew for every file.
MergeIncludeForgets ==
    /\ pc = "merge" /\ n <= Len(main.includes)
    /\ file[main.includes[n]].readable
    /\ table' = Rows(file[main.includes[n]]) /\ n' = n + 1
    /\ UNCHANGED <<docVars, pc, bridges, warned, resolved>>

\* A slip: the bridges of the file are taken too.
MergeIncludeBridges ==
    /\ pc = "merge" /\ n <= Len(main.includes)
    /\ file[main.includes[n]].readable
    /\ table' = table \o Rows(file[main.includes[n]])
    /\ bridges' = bridges \o Routes(file[main.includes[n]]) /\ n' = n + 1
    /\ UNCHANGED <<docVars, pc, warned, resolved>>

\* Only the connectors of an included file are taken, after those already there; a
\* root that is no mapping has none.
MergeInclude ==
    /\ pc = "merge" /\ n <= Len(main.includes)
    /\ file[main.includes[n]].readable
    /\ table' = table \o Rows(file[main.includes[n]]) /\ n' = n + 1
    /\ UNCHANGED <<docVars, pc, bridges, warned, resolved>>

\* An included file that cannot be loaded is warned about, and the loader goes on.
SkipInclude ==
    /\ pc = "merge" /\ n <= Len(main.includes)
    /\ ~file[main.includes[n]].readable
    /\ warned' = warned \cup {main.includes[n]} /\ n' = n + 1
    /\ UNCHANGED <<docVars, pc, table, bridges, resolved>>

\* A slip: the first file that cannot be loaded ends the list.
LoadDoneEarly ==
    /\ pc = "merge" /\ (n > Len(main.includes) \/ warned # {})
    /\ pc' = "resolve" /\ n' = 1
    /\ UNCHANGED <<docVars, table, bridges, warned, resolved>>

\* config_load_file returns 0.
LoadDone ==
    /\ pc = "merge" /\ n > Len(main.includes)
    /\ pc' = "resolve" /\ n' = 1
    /\ UNCHANGED <<docVars, table, bridges, warned, resolved>>

\* start_all_bridges: prepare_bridge_runtime_t resolves the bridges in their order.
Resolve ==
    /\ pc = "resolve" /\ n <= Len(bridges)
    /\ resolved' = Append(resolved,
                          [from |-> Find(bridges[n].from), to |-> Find(bridges[n].to)])
    /\ n' = n + 1
    /\ UNCHANGED <<docVars, pc, table, bridges, warned>>

ResolveDone ==
    /\ pc = "resolve" /\ n > Len(bridges)
    /\ pc' = "done"
    /\ UNCHANGED <<docVars, n, table, bridges, warned, resolved>>

Next ==
    \/ LoadMain \/ LoadMainFails \/ MergeInclude \/ SkipInclude \/ LoadDone
    \/ Resolve \/ ResolveDone

Spec == Init /\ [][Next]_vars

(***************************************************************************)
(* The validator.                                                          *)
(***************************************************************************)

\* The main file and then its includes.
Documents == <<main>> \o [m \in DOMAIN main.includes |-> file[main.includes[m]]]

ConnectorIds(doc) == {doc.connectors[m].name : m \in DOMAIN doc.connectors}
BridgeIds(doc) == {doc.bridges[m].id : m \in DOMAIN doc.bridges}

\* load_with_includes and merge_config end without an error: every file can be read
\* and is an object, and no two define the same id.
Merges ==
    /\ \A d \in DOMAIN Documents : Documents[d].readable /\ Documents[d].mapping
    /\ \A d, e \in DOMAIN Documents : d # e =>
          /\ ConnectorIds(Documents[d]) \cap ConnectorIds(Documents[e]) = {}
          /\ BridgeIds(Documents[d]) \cap BridgeIds(Documents[e]) = {}

\* The schema wants a connector and a bridge at least, and every one to be an object, of
\* a known type, with the parameters of that type.
SchemaOk ==
    /\ \E d \in DOMAIN Documents : Documents[d].connectors # <<>>
    /\ \E d \in DOMAIN Documents : Documents[d].bridges # <<>>
    /\ \A d \in DOMAIN Documents :
        /\ \A m \in DOMAIN Documents[d].connectors :
              LET row == Documents[d].connectors[m]
              IN  row.isMap /\ KindOf(row.type) # "UNKNOWN" /\ ParamsOk(row.type, row.params)
        /\ \A m \in DOMAIN Documents[d].bridges :
              LET row == Documents[d].bridges[m]
              IN  row.isMap /\ ParamsOk("bridge", row.params)

\* cross_checks: both ends of every bridge are ids of connectors.
CrossChecks ==
    LET known == UNION {ConnectorIds(Documents[d]) : d \in DOMAIN Documents}
    IN  \A d \in DOMAIN Documents : \A m \in DOMAIN Documents[d].bridges :
            {Documents[d].bridges[m].from, Documents[d].bridges[m].to} \subseteq known

Accepted == Merges /\ SchemaOk /\ CrossChecks

(***************************************************************************)
(* Properties.                                                             *)
(***************************************************************************)

End == {"SPI", "MQTT", "OTHER", "UNKNOWN", "MISSING"}

TypeOK ==
    /\ main \in Mains /\ file \in [Paths -> Fragments]
    /\ pc \in {"load", "failed", "merge", "resolve", "done"} /\ n \in Nat
    /\ \A m \in DOMAIN table : table[m].name \in Names /\ table[m].kind \in End
    /\ Len(resolved) <= Len(bridges)
    /\ Len(bridges) <= Len(main.bridges) /\ warned \subseteq Paths
    /\ \A m \in DOMAIN resolved : resolved[m] \in [from : End, to : End]

\* The connector that document doc defines under a name is of this kind.
Defines(doc, name, kind) ==
    \E m \in DOMAIN doc.connectors :
        LET row == doc.connectors[m]
        IN  row.name = name /\ row.isMap /\ KindOf(row.type) = kind

\* A name means what the first readable document, of the main file and its includes
\* in their order, defines it to be; nothing that can be read is left out, however
\* many of the files before it could not.
FirstDefinitionCounts ==
    pc \in {"resolve", "done"} =>
        \A name \in Names, kind \in End \ {"MISSING"} :
            Find(name) = kind <=>
                \E d \in DOMAIN Documents :
                    /\ Documents[d].readable /\ Defines(Documents[d], name, kind)
                    /\ \A e \in 1 .. d - 1 : Documents[e].readable =>
                          \A other \in End : ~Defines(Documents[e], name, other)

\* What a name has been found to mean does not change while more files are merged:
\* no included file redefines a connector of the main file.
MeaningIsStable ==
    [][\A name \in Names : Find(name) # "MISSING" => Find(name)' = Find(name)]_vars

\* Files the validator accepts give the daemon bridges whose two ends exist, and are
\* what the validator took them for, for every bridge of the main file.
AcceptedBridgesResolve ==
    pc = "done" /\ Accepted =>
        /\ Len(resolved) = Len(main.bridges) /\ warned = {}
        /\ \A m \in DOMAIN resolved :
              /\ \E d \in DOMAIN Documents :
                    Defines(Documents[d], main.bridges[m].from, resolved[m].from)
              /\ \E d \in DOMAIN Documents :
                    Defines(Documents[d], main.bridges[m].to, resolved[m].to)

\* The parameters that the validator accepts reach the connector and the bridge as the
\* validator took them, every key and nothing else: no member is too narrow for the range
\* of the schema, no key is misspelt or forgotten, no item of a list lost.  It holds for
\* Booleans and numbers written plainly, of the width of an int, and not for 0x10, 010,
\* 9600.0 or yes.
AcceptedParamsArrive ==
    pc = "done" /\ Accepted =>
        /\ \A d \in DOMAIN Documents : \A m \in DOMAIN Documents[d].connectors :
              LET row == Documents[d].connectors[m]
              IN  row.type \in Parsed /\ IsPlain(row.params) =>
                    \E e \in DOMAIN table :
                        /\ table[e].name = row.name
                        /\ table[e].params = AsValidated(row.type, row.params)
        /\ \A m \in DOMAIN main.bridges :
              IsPlain(main.bridges[m].params) =>
                  bridges[m].params = AsValidated("bridge", main.bridges[m].params)
=============================================================================
