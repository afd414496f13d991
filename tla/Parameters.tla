----------------------------- MODULE Parameters ------------------------------
(***************************************************************************)
(* The "params" of a connector and the options of a bridge, read twice:    *)
(* the parsers of params_parsers.c take the text of a YAML scalar apart    *)
(* with strtol, atof and strcmp, key by key; the schemas under files/      *)
(* check the value PyYAML makes of the same text.                          *)
(*                                                                         *)
(* The keys of nested mappings stand beside those around them, with a      *)
(* prefix where two would clash.  Of the lists, only the one of mappings   *)
(* that a type may have is kept (transactions, topics, slaves, map,        *)
(* routes), each slave with one point.  A number that a schema calls       *)
(* "number" is given in tenths, and is "real".  What a schema requires      *)
(* inside a nested mapping is left out.                                    *)
(***************************************************************************)
EXTENDS Integers, Sequences, Functions

CONSTANT
    HexTexts    \* hexadecimal digits, with or without 0x; no file gives a single one

ASSUME HexTextsAssumption == HexTexts \subseteq STRING

\* Numbers are those that fit an int.  The schemas give the port of MQTT and the burst and
\* size of bridges no upper bound, and a greater one would be cut; TLC has none to try.
MaxInt == 2147483647

\* A scalar of a file: its text s (of a number, no more than a mark), and what YAML 1.1
\* takes the text for.  A number is plain (decimal), octal (010) or foreign to strtol
\* (0x10, 1_000, 9600.0); a Boolean is plain (true, false) or foreign to strcmp (yes,
\* On, True).  A blank is null.  A number in tenths is plain, quoted or blank.
Scalar ==
    [is : {"int", "real", "bool", "text"}, n : -MaxInt .. MaxInt, s : STRING,
     spelled : {"plain", "quoted", "octal", "foreign", "blank"}]

\* Written as the examples under files/protocols write it.
Plain(x) ==
    /\ x.spelled = "plain" \/ (x.spelled = "quoted" /\ x.is = "text")
    /\ x.is = "bool" => \/ x.s = "true" /\ x.n = 1
                        \/ x.s = "false" /\ x.n = 0

\* The parameters of one connector or bridge.
IsParams(params) ==
    /\ \A k \in DOMAIN params.fields : params.fields[k] \in Scalar
    /\ params.items \in Seq(Range(params.items))
    /\ \A m \in DOMAIN params.items :
          LET item == params.items[m]
          IN  item.isMap \in BOOLEAN /\ \A k \in DOMAIN item.fields : item.fields[k] \in Scalar

(***************************************************************************)
(* The daemon.                                                             *)
(***************************************************************************)

\* yscalar_int: strtol in base 10 has to stop at the end of the text, and gives 0 for
\* an empty one.  Octal texts have two digits after the 0.
IsDecimal(x) ==
    x.spelled = "blank" \/ (x.is = "int" /\ x.spelled \in {"plain", "quoted", "octal"})

Decimal(x) ==
    CASE x.spelled = "blank" -> 0
      [] x.spelled = "octal" -> 10 * (x.n \div 8) + (x.n % 8)
      [] OTHER -> x.n

IsTrue(x) == x.s \in {"true", "1"}

Tenths(x) == IF x.is = "real" /\ x.spelled # "blank" THEN x.n ELSE 0

\* How a parser takes a text: into a member of this type, or as one of the words it
\* knows, any other one being taken for the last one.
As(type) == [as |-> type, words |-> {}, other |-> ""]
Among(words, other) == [as |-> "word", words |-> words, other |-> other]

\* The largest numbers of uint8_t and uint16_t, and the longest SPI transaction.
Max8 == 255
Max16 == 65535
MaxLen == 4096

\* A member is set only if the text converts: a length also has to be in range, bytes
\* to be hexadecimal; strtod too gives 0 for an empty text.
Converts(how, x) ==
    CASE how.as \in {"int", "uint8", "uint16", "uint32"} -> IsDecimal(x)
      [] how.as = "len" -> IsDecimal(x) /\ Decimal(x) \in 1 .. MaxLen
      [] how.as = "hex" -> x.s \in HexTexts
      [] how.as = "double" -> x.is = "real" \/ x.spelled = "blank"
      [] OTHER -> TRUE

Amount(v) == [n |-> v, s |-> ""]
Word(w) == [n |-> 0, s |-> w]

\* The member's value: the cast to its type cuts a number to 8 or 16 bits (uint32_t
\* keeps what int keeps, if it is not negative); s[0] of a parity is the whole of it.
Convert(how, x) ==
    CASE how.as \in {"int", "uint32"} -> Amount(Decimal(x))
      [] how.as = "uint8" -> Amount(Decimal(x) % (Max8 + 1))
      [] how.as \in {"uint16", "len"} -> Amount(Decimal(x) % (Max16 + 1))
      [] how.as \in {"real", "double"} -> Amount(Tenths(x))
      [] how.as = "bool" -> Amount(IF IsTrue(x) THEN 1 ELSE 0)
      [] how.as = "word" -> Word(IF x.s \in how.words THEN x.s ELSE how.other)
      [] OTHER -> Word(x.s)

toInt == As("int")
toUint8 == As("uint8")
toUint16 == As("uint16")
toUint32 == As("uint32")
toLen == As("len")
toReal == As("real")
toDouble == As("double")
toBool == As("bool")
toText == As("text")
toHex == As("hex")
toOp == Among({"read", "write"}, "transfer")
toFunc == Among({"holding", "input", "coil"}, "discrete")
toDatatype == Among({"u16", "s16", "u32", "s32", "float"}, "double")
toMethod == Among({"POST", "PUT", "PATCH", "DELETE", "HEAD", "OPTIONS"}, "GET")
toFormat == Among({"json", "kv"}, "raw")
toPolicy == Among({"drop_new"}, "drop_oldest")

SpiFields ==
    [device |-> toText, mode |-> toInt, bits_per_word |-> toInt, speed_hz |-> toInt,
     lsb_first |-> toBool, cs_change |-> toBool]

TransactionFields == [op |-> toOp, len |-> toLen, tx |-> toHex, rx_len |-> toLen]

UartFields ==
    [port |-> toText, baudrate |-> toInt, bytesize |-> toInt, parity |-> toText,
     stopbits |-> toReal, rtscts |-> toBool, xonxoff |-> toBool, timeout_ms |-> toInt,
     packet_start |-> toText, packet_end |-> toText, packet_length |-> toInt]

MqttFields ==
    [url |-> toText, host |-> toText, port |-> toInt, client_id |-> toText,
     keepalive_s |-> toInt, qos |-> toInt, clean_session |-> toBool, retain |-> toBool,
     username |-> toText, password |-> toText, tls_ca_file |-> toText,
     tls_cert_file |-> toText, tls_key_file |-> toText, tls_enabled |-> toBool,
     tls_insecure_skip_verify |-> toBool]

TopicFields == [topic |-> toText, qos |-> toInt]

\* A slip: the address has the width of the count.
PointFieldsNarrow ==
    [name |-> toText, func |-> toFunc, addr |-> toUint8, count |-> toUint8,
     type |-> toDatatype, scale |-> toReal, signed |-> toBool]

PointFields ==
    [name |-> toText, func |-> toFunc, addr |-> toUint16, count |-> toUint8,
     type |-> toDatatype, scale |-> toReal, signed |-> toBool]

ModbusTcpFields ==
    [host |-> toText, port |-> toUint16, unit_id |-> toUint8, timeout_ms |-> toInt,
     retries |-> toInt]

ModbusRtuFields ==
    [port |-> toText, baudrate |-> toInt, parity |-> toText, stopbits |-> toInt,
     timeout_ms |-> toInt, rts_time_before_ms |-> toInt, rts_time_after_ms |-> toInt]

SlaveFields ==
    [unit_id |-> toUint8, poll_ms |-> toUint32, name |-> toText, func |-> toFunc,
     addr |-> toUint16, count |-> toUint8, type |-> toDatatype, scale |-> toReal,
     signed |-> toBool]

\* "tls" is no key this parser looks at.
HttpFields == [bind |-> toText, user |-> toText, pass |-> toText]

RouteFields == [path |-> toText, method |-> toMethod]

BridgeFields ==
    [topic |-> toText, format |-> toFormat, timestamp |-> toBool,
     max_msgs_per_sec |-> toDouble, burst |-> toInt, size |-> toInt, policy |-> toPolicy]

\* Types whose registry entry has a parser; the others keep their parameters as JSON
\* that only a report reads, which is left out, as are their schemas.
Parsed == {"spi", "uart", "mqtt", "modbus-tcp", "modbus-rtu", "http-server", "bridge"}

Fields(type) ==
    CASE type = "spi" -> SpiFields
      [] type = "uart" -> UartFields
      [] type = "mqtt" -> MqttFields
      [] type = "modbus-tcp" -> ModbusTcpFields
      [] type = "modbus-rtu" -> ModbusRtuFields
      [] type = "http-server" -> HttpFields
      [] type = "bridge" -> BridgeFields
      [] OTHER -> <<>>

ItemFields(type) ==
    CASE type = "spi" -> TransactionFields
      [] type = "mqtt" -> TopicFields
      [] type = "modbus-tcp" -> PointFields
      [] type = "modbus-rtu" -> SlaveFields
      [] type = "http-server" -> RouteFields
      [] OTHER -> <<>>

\* The members that are set, from the keys that are given.
Members(table, given) ==
    LET set == {k \in DOMAIN given \cap DOMAIN table : Converts(table[k], given[k])}
    IN  [k \in set |-> Convert(table[k], given[k])]

\* Items of a list that are no mappings are passed over.
AddMapping(maps, item) == IF item.isMap THEN Append(maps, item) ELSE maps
Mappings(items) ==
    LET upto[m \in 0 .. Len(items)] ==
            IF m = 0 THEN <<>> ELSE AddMapping(upto[m - 1], items[m])
    IN  upto[Len(items)]

Parse(type, params) ==
    LET maps == Mappings(params.items)
    IN  [fields |-> Members(Fields(type), params.fields),
         items  |-> [m \in DOMAIN maps |-> Members(ItemFields(type), maps[m].fields)]]

(***************************************************************************)
(* The validator.                                                          *)
(***************************************************************************)

\* What PyYAML makes of a scalar: its class and its value.
ClassOf(x) ==
    CASE x.spelled = "quoted" -> "text"
      [] x.spelled = "blank" -> "null"
      [] OTHER -> x.is

Meaning(x) == IF ClassOf(x) = "text" THEN Word(x.s) ELSE Amount(x.n)

Text == [is |-> "text", of |-> STRING]
OneOf(words) == [is |-> "text", of |-> words]
Integer(range) == [is |-> "int", of |-> range]
Number(tenths) == [is |-> "real", of |-> tenths]
Boolean == [is |-> "bool", of |-> {0, 1}]

MaxSpeed == 50000000

SpiSchema ==
    [device |-> Text, mode |-> Integer(0 .. 3), bits_per_word |-> Integer({8, 16, 32}),
     speed_hz |-> Integer(1000 .. MaxSpeed), lsb_first |-> Boolean, cs_change |-> Boolean]

TransactionSchema ==
    [op |-> OneOf({"read", "write", "transfer"}), len |-> Integer(1 .. MaxLen),
     tx |-> OneOf(HexTexts), rx_len |-> Integer(1 .. MaxLen)]

MaxWait == 60000

BaudRates == {1200, 2400, 4800, 9600, 19200, 38400, 57600, 115200}
FastBaudRates == BaudRates \cup {230400, 460800, 921600}

UartSchema ==
    [port |-> Text, baudrate |-> Integer(FastBaudRates),
     bytesize |-> Integer(5 .. 8), parity |-> OneOf({"N", "E", "O", "M", "S"}),
     stopbits |-> Number({10, 15, 20}), rtscts |-> Boolean, xonxoff |-> Boolean,
     timeout_ms |-> Integer(0 .. MaxWait), packet_start |-> OneOf(HexTexts),
     packet_end |-> OneOf(HexTexts), packet_length |-> Integer(1 .. 2048)]

\* It has no "url", and wants one.
MqttSchema ==
    [host |-> Text, port |-> Integer(Int), client_id |-> Text, clean_session |-> Boolean,
     keepalive_s |-> Integer(10 .. 600), qos |-> Integer(0 .. 2), retain |-> Boolean,
     username |-> Text, password |-> Text, tls_enabled |-> Boolean, tls_ca_file |-> Text,
     tls_cert_file |-> Text, tls_key_file |-> Text,
     tls_insecure_skip_verify |-> Boolean]

TopicSchema == [topic |-> Text, qos |-> Integer(0 .. 2)]

PointSchema ==
    [name |-> Text, func |-> OneOf({"holding", "input", "coil", "discrete"}),
     addr |-> Integer(0 .. Max16), count |-> Integer(1 .. 4),
     type |-> OneOf({"u16", "s16", "u32", "s32", "float", "double"}),
     scale |-> Number(Int), signed |-> Boolean]

ModbusTcpSchema ==
    [host |-> Text, port |-> Integer(1 .. Max16), unit_id |-> Integer(0 .. Max8),
     timeout_ms |-> Integer(50 .. 5000), retries |-> Integer(0 .. 10)]

ModbusRtuSchema ==
    [port |-> Text, baudrate |-> Integer(BaudRates),
     parity |-> OneOf({"N", "E", "O"}), stopbits |-> Integer({1, 2}),
     timeout_ms |-> Integer(50 .. 5000), rts_time_before_ms |-> Integer(0 .. 50),
     rts_time_after_ms |-> Integer(0 .. 50)]

SlaveSchema ==
    [unit_id |-> Integer(1 .. 247), poll_ms |-> Integer(100 .. MaxWait), name |-> Text,
     func |-> OneOf({"holding", "input", "coil", "discrete"}),
     addr |-> Integer(0 .. Max16), count |-> Integer(1 .. 4),
     type |-> OneOf({"u16", "s16", "u32", "s32", "float", "double"}),
     scale |-> Number(Int), signed |-> Boolean]

HttpSchema ==
    [bind |-> Text, user |-> Text, pass |-> Text, tls_cert_file |-> Text,
     tls_key_file |-> Text]

RouteSchema ==
    [path |-> Text, method |-> OneOf({"GET", "POST", "PUT", "PATCH", "DELETE", "HEAD",
                                      "OPTIONS"})]

BridgeSchema ==
    [topic |-> Text, format |-> OneOf({"json", "kv", "raw"}), timestamp |-> Boolean,
     max_msgs_per_sec |-> Number(Nat), burst |-> Integer(Nat), size |-> Integer(Nat),
     policy |-> OneOf({"drop_oldest", "drop_new"})]

\* The schema of each type's own keys and of its items, with the keys it requires.
Schema(type) ==
    CASE type = "spi" -> [keys |-> SpiSchema, required |-> {"device"}]
      [] type = "uart" ->
            [keys |-> UartSchema,
             required |-> {"port", "baudrate", "bytesize", "parity", "stopbits"}]
      [] type = "mqtt" -> [keys |-> MqttSchema, required |-> {"url", "client_id"}]
      [] type = "modbus-tcp" ->
            [keys |-> ModbusTcpSchema,
             required |-> {"host", "port", "unit_id", "timeout_ms"}]
      [] type = "modbus-rtu" ->
            [keys |-> ModbusRtuSchema,
             required |-> {"port", "baudrate", "parity", "stopbits", "timeout_ms"}]
      [] type = "http-server" -> [keys |-> HttpSchema, required |-> {"bind"}]
      [] type = "bridge" -> [keys |-> BridgeSchema, required |-> {}]

ItemSchema(type) ==
    CASE type = "spi" -> [keys |-> TransactionSchema, required |-> {"op", "len"}]
      [] type = "mqtt" -> [keys |-> TopicSchema, required |-> {"topic"}]
      [] type = "modbus-tcp" ->
            [keys |-> PointSchema, required |-> {"name", "func", "addr", "count", "type"}]
      [] type = "modbus-rtu" ->
            [keys |-> SlaveSchema, required |-> DOMAIN SlaveSchema \ {"scale", "signed"}]
      [] type = "http-server" -> [keys |-> RouteSchema, required |-> {"path", "method"}]
      [] OTHER -> [keys |-> <<>>, required |-> {}]

\* Types whose list the schema requires, with one item at least.
NeedsItems == {"modbus-tcp", "modbus-rtu"}

\* A value of the class and in the range its schema gives.
ValueOk(want, x) ==
    ClassOf(x) = want.is /\ (IF want.is = "text" THEN x.s ELSE x.n) \in want.of

\* No other key than the schema's, and none of the required ones missing.
Fits(schema, given) ==
    /\ schema.required \subseteq DOMAIN given /\ DOMAIN given \subseteq DOMAIN schema.keys
    /\ \A k \in DOMAIN given : ValueOk(schema.keys[k], given[k])

ParamsOk(type, params) == type \in Parsed =>
    /\ Fits(Schema(type), params.fields)
    /\ \A m \in DOMAIN params.items :
          params.items[m].isMap /\ Fits(ItemSchema(type), params.items[m].fields)
    /\ type \in NeedsItems => params.items # <<>>

Meanings(table, given) == [k \in DOMAIN given \cap DOMAIN table |-> Meaning(given[k])]

\* What the validator took the parameters for, as far as the daemon has members for them
\* (it has none for the "tls" of an HTTP server).
AsValidated(type, params) ==
    [fields |-> Meanings(Fields(type), params.fields),
     items  |-> [m \in DOMAIN params.items |->
                    Meanings(ItemFields(type), params.items[m].fields)]]

IsPlain(params) ==
    /\ \A k \in DOMAIN params.fields : Plain(params.fields[k])
    /\ \A m \in DOMAIN params.items : \A k \in DOMAIN params.items[m].fields :
          Plain(params.items[m].fields[k])
=============================================================================
