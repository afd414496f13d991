---------------------------- MODULE MCConfigMerge ----------------------------
(***************************************************************************)
(* Instances of ConfigMerge: a main file with or without each connector,   *)
(* up to two includes (also the same file twice), fragments that repeat a  *)
(* name with another type, cannot be read, or are no mapping; and, one per *)
(* main file, parameters at the ends of their ranges, beyond them, and     *)
(* spelled in ways that the two readers take differently.                  *)
(***************************************************************************)
EXTENDS ConfigMerge, TLC

MCNames == {"a", "b", "c"}
MCTypes ==
    {"spi", "mqtt", "uart", "modbus-tcp", "modbus-rtu", "http-server", "i2c", "canopen"}
MCPaths == {"f", "g"}
MCHexTexts == {"0xA55A"}

Document(connectors, br, includes) ==
    [readable |-> TRUE, mapping |-> TRUE, connectors |-> connectors, bridges |-> br,
     includes |-> includes]

T(s) == [is |-> "text", n |-> 0, s |-> s, spelled |-> "plain"]
N(v) == [is |-> "int", n |-> v, s |-> "#", spelled |-> "plain"]
R(v) == [is |-> "real", n |-> v, s |-> "#", spelled |-> "plain"]
True == [is |-> "bool", n |-> 1, s |-> "true", spelled |-> "plain"]
False == [is |-> "bool", n |-> 0, s |-> "false", spelled |-> "plain"]
Yes == [is |-> "bool", n |-> 1, s |-> "yes", spelled |-> "foreign"]
Spelled(x, how) == [x EXCEPT !.spelled = how]
Hex == Spelled(T("0xA55A"), "quoted")

Params(fields, items) == [fields |-> fields, items |-> items]
Map(fields) == [isMap |-> TRUE, fields |-> fields]

Spi == [device |-> T("/dev/spidev0.0")]
Uart == [port |-> T("/dev/ttyS0"), baudrate |-> N(115200), bytesize |-> N(8),
         parity |-> T("N"), stopbits |-> R(10)]
Mqtt == [client_id |-> T("gw"), host |-> T("127.0.0.1"), port |-> N(1883)]
Point == [name |-> T("temp"), func |-> T("discrete"), addr |-> N(65535), count |-> N(4),
          type |-> T("double"), signed |-> True, scale |-> R(1)]
Slave == Point @@ [unit_id |-> N(247), poll_ms |-> N(60000)]
Tcp == [host |-> T("10.0.0.1"), port |-> N(65535), unit_id |-> N(255), timeout_ms |-> N(50),
        retries |-> N(0)]
Rtu == [port |-> T("/dev/ttyUSB0"), baudrate |-> N(115200), parity |-> T("E"),
        stopbits |-> N(2), timeout_ms |-> N(5000), rts_time_before_ms |-> N(0)]
Http == [bind |-> T(":8080"), user |-> T("admin"), pass |-> T("secret")]

Usual ==
    [spi |-> Params(Spi, <<>>), mqtt |-> Params(Mqtt, <<>>), uart |-> Params(Uart, <<>>),
     canopen |-> Params(<<>>, <<>>)]

Row(name, type) ==
    [name |-> name, type |-> type, isMap |-> TRUE, params |-> Usual[type]]
NullRow(name) == [Row(name, "spi") EXCEPT !.isMap = FALSE]
Bridge(id, from, to) ==
    [id |-> id, from |-> from, to |-> to, isMap |-> TRUE, params |-> Params(<<>>, <<>>)]
NullBridge(id) == [Bridge(id, "a", "b") EXCEPT !.isMap = FALSE]

Broken == {[Document(<<>>, <<>>, <<>>) EXCEPT !.readable = FALSE],
           [Document(<<>>, <<>>, <<>>) EXCEPT !.mapping = FALSE]}

\* Parameters by type: the first ones of each are accepted, the others are not or are
\* spelled in another way.
SpiCases ==
    LET write == [op |-> T("write"), len |-> N(1), tx |-> Hex]
        both == [op |-> T("transfer"), len |-> N(4096), rx_len |-> N(4096)]
    IN  {Params(Spi @@ [mode |-> N(3), bits_per_word |-> N(32), speed_hz |-> N(50000000),
                        lsb_first |-> True, cs_change |-> False], <<Map(write), Map(both)>>),
         Params(Spi, <<Map([both EXCEPT !.len = N(4097)])>>),
         Params(Spi, <<Map([write EXCEPT !.tx = T("A5 5A"), !.op = T("send")])>>),
         Params(Spi, <<[isMap |-> FALSE, fields |-> <<>>], Map(both)>>),
         Params(Spi @@ [mode |-> Spelled(N(1), "quoted"), cs_change |-> Yes], <<>>),
         Params(Spi @@ [cs_change |-> Yes], <<>>)}

UartCases ==
    {Params([Uart EXCEPT !.stopbits = R(15), !.parity = T("S")] @@
            [timeout_ms |-> N(60000), rtscts |-> True, xonxoff |-> False,
             packet_start |-> Hex, packet_length |-> N(2048)], <<>>),
     Params([Uart EXCEPT !.baudrate = Spelled(N(9600), "foreign")], <<>>),
     Params(Uart @@ [timeout_ms |-> Spelled(N(8), "octal")], <<>>),
     Params(Uart @@ [timeout_ms |-> Spelled(N(0), "blank"), baud |-> N(1)], <<>>)}

MqttCases ==
    {Params(Mqtt @@ [url |-> T("mqtt://h")], <<>>),
     Params(Mqtt, <<Map([topic |-> T("t"), qos |-> N(2)])>>)}

TcpCases ==
    {Params(Tcp, <<Map(Point)>>), Params(Tcp, <<>>),
     Params([Tcp EXCEPT !.unit_id = N(256)], <<Map([Point EXCEPT !.addr = N(65536)])>>)}

RtuCases ==
    {Params(Rtu, <<Map(Slave), Map([Slave EXCEPT !.unit_id = N(1), !.func = T("input")])>>),
     Params(Rtu, <<Map([Slave EXCEPT !.unit_id = N(0)])>>)}

HttpCases ==
    {Params(Http @@ [tls_cert_file |-> T("c"), tls_key_file |-> T("k")],
            <<Map([path |-> T("/a"), method |-> T("GET")]),
              Map([path |-> T("/b"), method |-> T("DELETE")])>>),
     Params(<<>>, <<Map([path |-> T("/a"), method |-> T("get")])>>)}

BridgeCases ==
    {Params([topic |-> T("t"), format |-> T("kv"), timestamp |-> True,
             max_msgs_per_sec |-> R(25), burst |-> N(0), size |-> N(70000),
             policy |-> T("drop_new")], <<>>),
     Params([format |-> T("raw"), policy |-> T("drop_oldest")], <<>>),
     Params([format |-> T("xml"), size |-> N(-1),
             max_msgs_per_sec |-> Spelled(R(25), "blank")], <<>>)}

Tried(type, cases) ==
    {Document(<<Row("a", "spi"), [name |-> "b", type |-> type, isMap |-> TRUE,
                                  params |-> params]>>,
              <<Bridge(1, "a", "b")>>, <<>>) : params \in cases}

ParamMains ==
    UNION {Tried("spi", SpiCases), Tried("uart", UartCases), Tried("mqtt", MqttCases),
           Tried("modbus-tcp", TcpCases), Tried("modbus-rtu", RtuCases),
           Tried("http-server", HttpCases), Tried("i2c", {Params(Spi, <<>>)}),
           {Document(<<Row("a", "spi")>>, <<[Bridge(1, "a", "a") EXCEPT !.params = params]>>,
                     <<>>) : params \in BridgeCases}}

MCMains ==
    {Document(connectors, br, includes) :
        connectors \in {<<>>, <<Row("a", "spi")>>, <<Row("b", "mqtt"), Row("a", "spi")>>,
                        <<NullRow("a"), Row("b", "uart")>>},
        br \in {<<>>, <<Bridge(1, "a", "b")>>, <<NullBridge(1), Bridge(2, "c", "b")>>},
        includes \in {<<>>, <<"f">>, <<"f", "g">>, <<"g", "g">>}}
    \cup Broken \cup ParamMains

MCFragments ==
    {Document(connectors, br, <<>>) :
        connectors \in {<<>>, <<Row("b", "mqtt")>>, <<Row("b", "uart"), Row("c", "spi")>>,
                        <<NullRow("b"), Row("a", "mqtt")>>, <<Row("c", "canopen")>>},
        br \in {<<>>, <<Bridge(1, "a", "b")>>}}
    \cup Broken
=============================================================================
