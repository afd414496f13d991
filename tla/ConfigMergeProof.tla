--------------------------- MODULE ConfigMergeProof --------------------------
(***************************************************************************)
(* What holds of ConfigMerge for any files: how the lists of a file are    *)
(* read, what a name means after any sequence of includes, and that what   *)
(* the validator accepts reaches the daemon.  First, of Parameters: no     *)
(* range of a schema is wider than the member that the parsers store it    *)
(* in, so that whatever is accepted and written plainly keeps its value.   *)
(***************************************************************************)
EXTENDS ConfigMerge, Recursion, SequenceTheorems, TLAPS

\* A member that can hold every number of a range.
KeepsRange(how, range) ==
    \/ how.as \in {"int", "uint32"}
    \/ how.as = "uint8" /\ range \subseteq 0 .. Max8
    \/ how.as = "uint16" /\ range \subseteq 0 .. Max16
    \/ how.as = "len" /\ range \subseteq 1 .. MaxLen

\* One that keeps every text of a set.
KeepsText(how, texts) ==
    \/ how.as = "text"
    \/ how.as = "hex" /\ texts \subseteq HexTexts
    \/ how.as = "word" /\ texts \subseteq how.words \cup {how.other}

\* A conversion that keeps every plain value a schema entry lets through.
Suits(how, want) ==
    \/ want.is = "int" /\ KeepsRange(how, want.of)
    \/ want.is = "text" /\ KeepsText(how, want.of)
    \/ want.is = "bool" /\ how.as = "bool"
    \/ want.is = "real" /\ how.as \in {"real", "double"}

\* The cast to an unsigned type keeps what the type can hold.
LEMMA CutKeeps ==
    ASSUME NEW max \in Nat, NEW v \in 0 .. max
    PROVE  v % (max + 1) = v
BY SMT

\* What the proofs use of the four bounds; their values are left alone otherwise.
LEMMA Maxima ==
    /\ 4 <= Max8 /\ 247 <= Max8
    /\ Max8 \in Nat /\ Max16 \in Nat /\ MaxLen \in Nat /\ MaxLen <= Max16
    /\ MaxInt \in Nat
BY SMT DEF Max8, Max16, MaxLen, MaxInt

\* A suitable conversion succeeds and keeps the value.
LEMMA SuitableKeeps ==
    ASSUME NEW how, NEW want, Suits(how, want),
           NEW x \in Scalar, Plain(x), ValueOk(want, x)
    PROVE  Converts(how, x) /\ Convert(how, x) = Meaning(x)
<1>1. CASE want.is = "int"
  <2>1. x.is = "int" /\ x.spelled = "plain" /\ x.n \in Int /\ x.n \in want.of
    BY <1>1, Maxima, SMT DEF Scalar, Plain, ValueOk, ClassOf
  <2>2. IsDecimal(x) /\ Decimal(x) = x.n /\ Meaning(x) = Amount(x.n)
    BY <2>1, SMT DEF IsDecimal, Decimal, Meaning, ClassOf
  <2>3. CASE how.as \in {"int", "uint32"}
    BY <2>2, <2>3, SMT DEF Converts, Convert
  <2>4. CASE how.as = "uint8" /\ want.of \subseteq 0 .. Max8
    <3>1. x.n % (Max8 + 1) = x.n
      BY <2>1, <2>4, CutKeeps, Maxima, SMT
    <3> QED BY <2>2, <2>4, <3>1, SMT DEF Converts, Convert
  <2>5. CASE how.as = "uint16" /\ want.of \subseteq 0 .. Max16
    <3>1. x.n % (Max16 + 1) = x.n
      BY <2>1, <2>5, CutKeeps, Maxima, SMT
    <3> QED BY <2>2, <2>5, <3>1, SMT DEF Converts, Convert
  <2>6. CASE how.as = "len" /\ want.of \subseteq 1 .. MaxLen
    <3>1. x.n \in 1 .. MaxLen /\ x.n \in 0 .. Max16
      BY <2>1, <2>6, Maxima, SMT
    <3>2. x.n % (Max16 + 1) = x.n
      BY <3>1, CutKeeps, Maxima, SMT
    <3> QED BY <2>2, <2>6, <3>1, <3>2, SMT DEF Converts, Convert
  <2>7. KeepsRange(how, want.of)
    BY <1>1, SMT DEF Suits
  <2> QED BY <2>3, <2>4, <2>5, <2>6, <2>7, SMT DEF KeepsRange
<1>2. CASE want.is = "real"
  <2>1. x.is = "real" /\ x.spelled = "plain"
    BY <1>2 DEF Scalar, Plain, ValueOk, ClassOf
  <2>2. how.as \in {"real", "double"}
    BY <1>2 DEF Suits
  <2>3. Tenths(x) = x.n /\ Meaning(x) = Amount(x.n)
    BY <2>1 DEF Tenths, Meaning, ClassOf
  <2> QED BY <2>1, <2>2, <2>3 DEF Converts, Convert
<1>3. CASE want.is = "bool"
  <2>1. x.is = "bool" /\ x.spelled = "plain"
    BY <1>3 DEF Scalar, Plain, ValueOk, ClassOf
  <2>2. how.as = "bool"
    BY <1>3 DEF Suits
  <2>3. (IF IsTrue(x) THEN 1 ELSE 0) = x.n
    BY <2>1 DEF IsTrue, Plain
  <2>4. Meaning(x) = Amount(x.n)
    BY <2>1 DEF Meaning, ClassOf
  <2> QED BY <2>2, <2>3, <2>4 DEF Converts, Convert
<1>4. CASE want.is = "text"
  <2>1. ClassOf(x) = "text" /\ x.s \in want.of
    BY <1>4 DEF ValueOk
  <2>2. Meaning(x) = Word(x.s)
    BY <2>1 DEF Meaning
  <2>3. CASE how.as = "text"
    BY <2>2, <2>3 DEF Converts, Convert
  <2>4. CASE how.as = "hex" /\ want.of \subseteq HexTexts
    BY <2>1, <2>2, <2>4 DEF Converts, Convert
  <2>5. CASE how.as = "word" /\ want.of \subseteq how.words \cup {how.other}
    <3>1. (IF x.s \in how.words THEN x.s ELSE how.other) = x.s
      BY <2>1, <2>5
    <3> QED BY <2>2, <2>5, <3>1 DEF Converts, Convert
  <2>6. KeepsText(how, want.of)
    BY <1>4, SMT DEF Suits
  <2> QED BY <2>3, <2>4, <2>5, <2>6, SMT DEF KeepsText
<1> QED BY <1>1, <1>2, <1>3, <1>4, SMT DEF Suits

\* A table of conversions that suits a schema, key by key.
SuitsAll(hows, keys) ==
    \A k \in DOMAIN hows \cap DOMAIN keys : Suits(hows[k], keys[k])

\* Conversions that keep any value of their class.
LEMMA WholeSuits ==
    /\ \A S : Suits(toInt, Integer(S)) /\ Suits(toUint32, Integer(S))
    /\ \A S : Suits(toReal, Number(S)) /\ Suits(toDouble, Number(S))
    /\ Suits(toBool, Boolean) /\ \A S : Suits(toText, OneOf(S))
    /\ Suits(toText, Text)
BY SMT DEF Suits, KeepsRange, KeepsText, As, toInt, toUint32, toReal, toDouble, toBool,
           toText, Integer, Number, Boolean, OneOf, Text

\* Members narrower than an int, on the ranges the schemas give their keys.
LEMMA RangeSuits ==
    /\ Suits(toUint8, Integer(0 .. Max8)) /\ Suits(toUint8, Integer(1 .. 4))
    /\ Suits(toUint8, Integer(1 .. 247))
    /\ Suits(toUint16, Integer(0 .. Max16)) /\ Suits(toUint16, Integer(1 .. Max16))
    /\ Suits(toLen, Integer(1 .. MaxLen))
<1> USE DEF Suits, KeepsRange, As, toUint8, toUint16, toLen, Integer
<1>1. Suits(toUint8, Integer(0 .. Max8))
  BY SMT
<1>2. Suits(toUint8, Integer(1 .. 4))
  BY Maxima, SMT
<1>3. Suits(toUint8, Integer(1 .. 247))
  BY Maxima, SMT
<1>4. Suits(toUint16, Integer(0 .. Max16))
  BY SMT
<1>5. Suits(toUint16, Integer(1 .. Max16))
  BY Maxima, SMT
<1>6. Suits(toLen, Integer(1 .. MaxLen))
  BY SMT
<1> QED BY <1>1, <1>2, <1>3, <1>4, <1>5, <1>6

\* Words, of which the last one is what a parser takes any other word for.
LEMMA WordSuits ==
    /\ Suits(toOp, OneOf({"read", "write", "transfer"}))
    /\ Suits(toFunc, OneOf({"holding", "input", "coil", "discrete"}))
    /\ Suits(toDatatype, OneOf({"u16", "s16", "u32", "s32", "float", "double"}))
    /\ Suits(toFormat, OneOf({"json", "kv", "raw"}))
    /\ Suits(toPolicy, OneOf({"drop_oldest", "drop_new"}))
    /\ Suits(toMethod, OneOf({"GET", "POST", "PUT", "PATCH", "DELETE", "HEAD",
                              "OPTIONS"}))
    /\ Suits(toHex, OneOf(HexTexts))
BY SMT DEF Suits, KeepsText, As, Among, toOp, toFunc, toDatatype, toFormat, toPolicy,
           toMethod, toHex, OneOf

\* spi.schema.json against parse_spi_params.
LEMMA SpiSuits == SuitsAll(SpiFields, SpiSchema)
BY WholeSuits, RangeSuits, WordSuits, SMT DEF SuitsAll, SpiFields, SpiSchema

\* Its transactions.
LEMMA TransactionSuits == SuitsAll(TransactionFields, TransactionSchema)
BY WholeSuits, RangeSuits, WordSuits, SMT
   DEF SuitsAll, TransactionFields, TransactionSchema

\* uart.schema.json against parse_uart_params.
LEMMA UartSuits == SuitsAll(UartFields, UartSchema)
BY WholeSuits, RangeSuits, WordSuits, SMT DEF SuitsAll, UartFields, UartSchema

\* mqtt.schema.json against parse_mqtt_params.
LEMMA MqttSuits == SuitsAll(MqttFields, MqttSchema)
BY WholeSuits, RangeSuits, WordSuits, SMT DEF SuitsAll, MqttFields, MqttSchema

\* Its topics.
LEMMA TopicSuits == SuitsAll(TopicFields, TopicSchema)
BY WholeSuits, RangeSuits, WordSuits, SMT DEF SuitsAll, TopicFields, TopicSchema

\* A point of modbus_tcp.schema.json against parse_modbus_tcp_params.
LEMMA PointSuits == SuitsAll(PointFields, PointSchema)
BY WholeSuits, RangeSuits, WordSuits, SMT DEF SuitsAll, PointFields, PointSchema

\* Its own keys.
LEMMA ModbusTcpSuits == SuitsAll(ModbusTcpFields, ModbusTcpSchema)
BY WholeSuits, RangeSuits, WordSuits, SMT DEF SuitsAll, ModbusTcpFields, ModbusTcpSchema

\* modbus_rtu.schema.json against parse_modbus_rtu_params.
LEMMA ModbusRtuSuits == SuitsAll(ModbusRtuFields, ModbusRtuSchema)
BY WholeSuits, RangeSuits, WordSuits, SMT DEF SuitsAll, ModbusRtuFields, ModbusRtuSchema

\* Its slaves, each with its point.
LEMMA SlaveSuits == SuitsAll(SlaveFields, SlaveSchema)
BY WholeSuits, RangeSuits, WordSuits, SMT DEF SuitsAll, SlaveFields, SlaveSchema

\* http_server.schema.json against parse_http_server_params.
LEMMA HttpSuits == SuitsAll(HttpFields, HttpSchema)
BY WholeSuits, RangeSuits, WordSuits, SMT DEF SuitsAll, HttpFields, HttpSchema

\* Its routes.
LEMMA RouteSuits == SuitsAll(RouteFields, RouteSchema)
BY WholeSuits, RangeSuits, WordSuits, SMT DEF SuitsAll, RouteFields, RouteSchema

\* The bridge of iotgw.schema.json against parse_bridge_one.
LEMMA BridgeSuits == SuitsAll(BridgeFields, BridgeSchema)
BY WholeSuits, RangeSuits, WordSuits, SMT DEF SuitsAll, BridgeFields, BridgeSchema

\* With a suitable table the members set are the keys given, each with its meaning.
LEMMA TableKeeps ==
    ASSUME NEW hows, NEW schema, SuitsAll(hows, schema.keys),
           NEW given, Fits(schema, given),
           \A k \in DOMAIN given : given[k] \in Scalar /\ Plain(given[k])
    PROVE  Members(hows, given) = Meanings(hows, given)
<1>1. \A k \in DOMAIN given \cap DOMAIN hows :
          Converts(hows[k], given[k]) /\ Convert(hows[k], given[k]) = Meaning(given[k])
  <2> TAKE k \in DOMAIN given \cap DOMAIN hows
  <2>1. k \in DOMAIN hows \cap DOMAIN schema.keys /\ ValueOk(schema.keys[k], given[k])
    BY SMT DEF Fits
  <2>2. Suits(hows[k], schema.keys[k])
    BY <2>1, SMT DEF SuitsAll
  <2> QED BY <2>1, <2>2, SuitableKeeps
<1>2. {k \in DOMAIN given \cap DOMAIN hows : Converts(hows[k], given[k])}
      = DOMAIN given \cap DOMAIN hows
  BY <1>1, SMT
<1>3. Members(hows, given)
      = [k \in DOMAIN given \cap DOMAIN hows |-> Convert(hows[k], given[k])]
  BY <1>2, Zenon DEF Members
<1> QED BY <1>1, <1>3, Zenon DEF Meanings

\* Whatever parameters the schema of a connector type or of a bridge accepts, written
\* plainly and of the width of an int: the parser sets the members of exactly the keys
\* given, to the values the validator checked (parse_*_params and parse_bridge_one
\* against files/schemas).
THEOREM AcceptedFieldsKept ==
    ASSUME NEW type \in Parsed, NEW given, Fits(Schema(type), given),
           \A k \in DOMAIN given : given[k] \in Scalar /\ Plain(given[k])
    PROVE  Members(Fields(type), given) = Meanings(Fields(type), given)
<1>1. SuitsAll(Fields(type), Schema(type).keys)
  BY SpiSuits, UartSuits, MqttSuits, ModbusTcpSuits, ModbusRtuSuits, HttpSuits,
     BridgeSuits, SMT DEF Parsed, Fields, Schema
<1> QED BY <1>1, TableKeeps

\* The same of each item of the list a type may have: SPI transactions, MQTT topics,
\* Modbus slaves and points, HTTP routes.
THEOREM AcceptedItemsKept ==
    ASSUME NEW type \in {"spi", "mqtt", "modbus-tcp", "modbus-rtu", "http-server"},
           NEW given, Fits(ItemSchema(type), given),
           \A k \in DOMAIN given : given[k] \in Scalar /\ Plain(given[k])
    PROVE  Members(ItemFields(type), given) = Meanings(ItemFields(type), given)
<1>1. SuitsAll(ItemFields(type), ItemSchema(type).keys)
  BY TransactionSuits, TopicSuits, PointSuits, SlaveSuits, RouteSuits, SMT
     DEF ItemFields, ItemSchema
<1> QED BY <1>1, TableKeeps

(***************************************************************************)
(* Lists: what the parsers keep of one.                                    *)
(***************************************************************************)

\* u has the mappings among the first m items, each of them and nothing else; all of
\* the items, if all are mappings.
KeptOf(items, m, u) ==
    /\ Len(u) <= m
    /\ \A e \in 1 .. Len(u) : \E j \in 1 .. m : items[j].isMap /\ u[e] = items[j]
    /\ \A j \in 1 .. m : items[j].isMap => \E e \in 1 .. Len(u) : u[e] = items[j]
    /\ (\A j \in 1 .. m : items[j].isMap) =>
          Len(u) = m /\ \A j \in 1 .. m : u[j] = items[j]

\* The loop passes one more item.
LEMMA KeptStep ==
    ASSUME NEW S, NEW items \in Seq(S), NEW m \in 1 .. Len(items), NEW u \in Seq(S),
           KeptOf(items, m - 1, u), items[m].isMap \in BOOLEAN
    PROVE  KeptOf(items, m, AddMapping(u, items[m]))
<1>1. /\ m \in Nat /\ Len(u) \in Nat /\ items[m] \in S /\ Len(u) <= m - 1
      /\ \A j \in 1 .. m : j \in 1 .. m - 1 \/ j = m
      /\ \A j \in 1 .. m - 1 : j \in 1 .. m
  BY DEF KeptOf
<1>2. CASE items[m].isMap
  <2> DEFINE v == Append(u, items[m])
  <2>1. /\ Len(v) = Len(u) + 1 /\ v[Len(u) + 1] = items[m]
        /\ \A e \in 1 .. Len(u) : v[e] = u[e]
        /\ \A e \in 1 .. Len(u) + 1 : e \in 1 .. Len(u) \/ e = Len(u) + 1
        /\ \A e \in 1 .. Len(u) : e \in 1 .. Len(u) + 1
        /\ Len(u) + 1 \in 1 .. Len(u) + 1 /\ Len(u) + 1 <= m
    BY <1>1
  <2> HIDE DEF v
  <2>2. \A e \in 1 .. Len(v) : \E j \in 1 .. m : items[j].isMap /\ v[e] = items[j]
    <3>1. \A e \in 1 .. Len(u) : \E j \in 1 .. m : items[j].isMap /\ u[e] = items[j]
      BY <1>1, Zenon DEF KeptOf
    <3>2. m \in 1 .. m
      BY <1>1
    <3> QED BY <1>2, <2>1, <3>1, <3>2, Zenon
  <2>3. \A j \in 1 .. m : items[j].isMap => \E e \in 1 .. Len(v) : v[e] = items[j]
    BY <1>1, <1>2, <2>1 DEF KeptOf
  <2>4. ASSUME \A j \in 1 .. m : items[j].isMap
        PROVE  Len(v) = m /\ \A j \in 1 .. m : v[j] = items[j]
    <3>1. Len(u) = m - 1 /\ \A j \in 1 .. m - 1 : u[j] = items[j]
      BY <1>1, <2>4 DEF KeptOf
    <3> QED BY <1>1, <2>1, <3>1
  <2>5. KeptOf(items, m, v)
    BY <2>1, <2>2, <2>3, <2>4 DEF KeptOf
  <2>6. AddMapping(u, items[m]) = v
    BY <1>2, Zenon DEF AddMapping, v
  <2> QED BY <2>5, <2>6, Zenon
<1>3. CASE ~items[m].isMap
  <2>1. Len(u) <= m
    BY <1>1
  <2>2. \A e \in 1 .. Len(u) : \E j \in 1 .. m : items[j].isMap /\ u[e] = items[j]
    BY <1>1 DEF KeptOf
  <2>3. \A j \in 1 .. m : items[j].isMap => \E e \in 1 .. Len(u) : u[e] = items[j]
    BY <1>1, <1>3 DEF KeptOf
  <2>4. m \in 1 .. m
    BY <1>1
  <2>5. KeptOf(items, m, u)
    <3>1. ~(\A j \in 1 .. m : items[j].isMap)
      BY <1>3, <2>4, Zenon
    <3> QED BY <2>1, <2>2, <2>3, <3>1, Zenon DEF KeptOf
  <2>6. AddMapping(u, items[m]) = u
    BY <1>3, Zenon DEF AddMapping
  <2> QED BY <2>5, <2>6, Zenon
<1> QED BY <1>2, <1>3

\* Mappings has the mappings of a list.
LEMMA MappingsKept ==
    ASSUME NEW S, NEW items \in Seq(S), \A m \in DOMAIN items : items[m].isMap \in BOOLEAN
    PROVE  Mappings(items) \in Seq(S) /\ KeptOf(items, Len(items), Mappings(items))
<1> DEFINE N == Len(items)
           base == <<>>
           step == [m \in 1 .. N |-> [u \in Seq(S) |-> AddMapping(u, items[m])]]
           Eq(f) == f = [m \in 0 .. Len(items) |->
                            IF m = 0 THEN <<>> ELSE AddMapping(f[m - 1], items[m])]
           upto == CHOOSE f : Eq(f)
<1>1. Mappings(items) = upto[N]
  BY DEF Mappings
<1>2. N \in Nat /\ base \in Seq(S) /\ Len(base) = 0
      /\ \A m \in 1 .. N : items[m] \in S /\ m - 1 \in 0 .. N /\ items[m].isMap \in BOOLEAN
  OBVIOUS
<1>3. ASSUME NEW u \in Seq(S), NEW item \in S
      PROVE  AddMapping(u, item) \in Seq(S)
  <2>1. Append(u, item) \in Seq(S)
    OBVIOUS
  <2> QED BY <2>1, Zenon DEF AddMapping
<1>4. \E f : Eq(f)
  <2>1. step \in Steps(N, Seq(S))
    BY <1>2, <1>3 DEF Steps
  <2>2. \A m \in 1 .. N : \A u \in Seq(S) : step[m][u] = AddMapping(u, items[m])
    OBVIOUS
  <2> HIDE DEF step
  <2>3. PICK f \in Courses(N, Seq(S), base, step) : TRUE
    <3> HIDE DEF N, base
    <3> QED BY <1>2, <2>1, CourseExists
  <2>4. /\ f \in [0 .. N -> Seq(S)] /\ f[0] = base
        /\ \A m \in 1 .. N : f[m] = step[m][f[m - 1]]
    BY <2>3 DEF Courses
  <2>5. \A m \in 1 .. N : f[m - 1] \in Seq(S)
    BY <1>2, <2>4
  <2>6. \A m \in 1 .. N : f[m] = AddMapping(f[m - 1], items[m])
    BY <2>2, <2>4, <2>5, Zenon
  <2>7. Eq(f)
    BY <2>4, <2>6
  <2> QED BY <2>7
<1>5. Eq(upto)
  BY <1>4, Zenon
<1> HIDE DEF step, upto
<1>6. /\ upto[0] = base
      /\ \A m \in 1 .. N : upto[m] = AddMapping(upto[m - 1], items[m])
  BY <1>5
<1> DEFINE Ts == {m \in 0 .. N : upto[m] \in Seq(S) /\ KeptOf(items, m, upto[m])}
<1>7. 0 \in Ts
  <2>1. upto[0] = <<>> /\ \A j : j \notin 1 .. 0
    BY <1>6
  <2>2. KeptOf(items, 0, <<>>) /\ <<>> \in Seq(S)
    BY DEF KeptOf
  <2>3. upto[0] \in Seq(S) /\ KeptOf(items, 0, upto[0])
    BY <2>1, <2>2, Zenon
  <2> QED BY <1>2, <2>3
<1>8. ASSUME NEW m \in 1 .. N, m - 1 \in Ts
      PROVE  m \in Ts
  <2>1. upto[m - 1] \in Seq(S) /\ KeptOf(items, m - 1, upto[m - 1])
    BY <1>8
  <2>2. upto[m] \in Seq(S)
    BY <1>2, <1>3, <1>6, <2>1, Zenon
  <2>3. KeptOf(items, m, AddMapping(upto[m - 1], items[m]))
    BY <1>2, <2>1, KeptStep
  <2>4. KeptOf(items, m, upto[m])
    BY <1>6, <2>3, Zenon
  <2> QED BY <2>2, <2>4
<1> HIDE DEF Ts
<1>9. \A m \in 0 .. N : m \in Ts
  BY <1>2, <1>7, <1>8, Induction
<1> QED BY <1>1, <1>2, <1>9 DEF Ts

\* A list of mappings is kept as it is.
LEMMA MappingsWhole ==
    ASSUME NEW S, NEW items \in Seq(S), \A m \in DOMAIN items : items[m].isMap = TRUE
    PROVE  Mappings(items) = items
<1>1. Mappings(items) \in Seq(S) /\ KeptOf(items, Len(items), Mappings(items))
  BY MappingsKept
<1>2. /\ Len(Mappings(items)) = Len(items)
      /\ \A j \in 1 .. Len(items) : Mappings(items)[j] = items[j]
  BY <1>1 DEF KeptOf
<1> QED BY <1>1, <1>2

(***************************************************************************)
(* The connectors of a document, and looking for one by name.              *)
(***************************************************************************)

Docs == Mains \cup Fragments
Kinds == End \ {"MISSING"}
Entries == UNION {{Entry(doc.connectors[m]) : m \in DOMAIN doc.connectors} : doc \in Docs}

\* What DocumentsAssumption says of the lists of a document.
LEMMA DocumentLists ==
    ASSUME NEW doc \in Docs
    PROVE  /\ doc.connectors \in Seq(Range(doc.connectors))
           /\ \A m \in DOMAIN doc.connectors :
                 /\ doc.connectors[m].isMap \in BOOLEAN /\ doc.connectors[m].name \in Names
                 /\ IsParams(doc.connectors[m].params)
           /\ doc.bridges \in Seq(Range(doc.bridges))
           /\ \A m \in DOMAIN doc.bridges :
                 doc.bridges[m].isMap \in BOOLEAN /\ IsParams(doc.bridges[m].params)
           /\ doc.includes \in Seq(Paths) /\ doc.readable \in BOOLEAN
           /\ \A l, m \in DOMAIN doc.connectors :
                 doc.connectors[l].name = doc.connectors[m].name => l = m
BY DocumentsAssumption DEF Docs

\* Every type has a kind.
LEMMA KindIsKind == \A type : KindOf(type) \in Kinds
BY DEF KindOf, Kinds, End

\* An entry of the table has a name and a kind.
LEMMA EntryTypes == \A e \in Entries : e.name \in Names /\ e.kind \in Kinds
<1> SUFFICES ASSUME NEW doc \in Docs, NEW m \in DOMAIN doc.connectors
             PROVE  /\ Entry(doc.connectors[m]).name \in Names
                    /\ Entry(doc.connectors[m]).kind \in Kinds
  BY DEF Entries
<1> QED BY DocumentLists, KindIsKind DEF Entry

\* parse_connectors_map makes an entry of every mapping, and no other.
LEMMA RowsKept ==
    ASSUME NEW doc \in Docs
    PROVE  /\ Rows(doc) \in Seq(Entries)
           /\ \A e \in DOMAIN Rows(doc) : \E m \in DOMAIN doc.connectors :
                 doc.connectors[m].isMap /\ Rows(doc)[e] = Entry(doc.connectors[m])
           /\ \A m \in DOMAIN doc.connectors : doc.connectors[m].isMap =>
                 \E e \in DOMAIN Rows(doc) : Rows(doc)[e] = Entry(doc.connectors[m])
<1> DEFINE rows == doc.connectors
           maps == Mappings(rows)
<1>1. /\ rows \in Seq(Range(rows)) /\ \A m \in DOMAIN rows : rows[m].isMap \in BOOLEAN
      /\ DOMAIN rows = 1 .. Len(rows)
  BY DocumentLists
<1> HIDE DEF rows
<1>2. maps \in Seq(Range(rows)) /\ KeptOf(rows, Len(rows), maps)
  BY <1>1, MappingsKept
<1> HIDE DEF maps
<1>3. /\ DOMAIN maps = 1 .. Len(maps) /\ Len(maps) \in Nat
      /\ \A e \in DOMAIN maps : \E m \in DOMAIN rows : rows[m].isMap /\ maps[e] = rows[m]
      /\ \A m \in DOMAIN rows : rows[m].isMap => \E e \in DOMAIN maps : maps[e] = rows[m]
  <2>1. DOMAIN maps = 1 .. Len(maps) /\ Len(maps) \in Nat
    BY <1>2
  <2> QED BY <1>1, <1>2, <2>1, Zenon DEF KeptOf
<1>4. Rows(doc) = [e \in DOMAIN maps |-> Entry(maps[e])]
  BY DEF Rows, maps, rows
<1>5. \A m \in DOMAIN rows : Entry(rows[m]) \in Entries
  BY DEF Entries, rows
<1>6. \A e \in DOMAIN maps : Entry(maps[e]) \in Entries
  BY <1>3, <1>5
<1> HIDE DEF Rows
<1>7. Rows(doc) \in Seq(Entries) /\ DOMAIN Rows(doc) = DOMAIN maps
      /\ \A e \in DOMAIN maps : Rows(doc)[e] = Entry(maps[e])
  BY <1>3, <1>4, <1>6
<1> QED BY <1>3, <1>7 DEF rows

\* Find, in any table.
FindIn(tb, name) ==
    LET found == {m \in DOMAIN tb : tb[m].name = name}
    IN  IF found = {} THEN "MISSING"
        ELSE tb[CHOOSE m \in found : \A k \in found : m <= k].kind

\* config_find_connector goes from the first entry on.
LEMMA FindFirst ==
    ASSUME NEW tb \in Seq(Entries), NEW name
    PROVE  \/ /\ \A m \in DOMAIN tb : tb[m].name # name
              /\ FindIn(tb, name) = "MISSING"
           \/ \E m \in DOMAIN tb :
                 /\ tb[m].name = name /\ FindIn(tb, name) = tb[m].kind
                 /\ tb[m].kind \in Kinds
                 /\ \A j \in DOMAIN tb : tb[j].name = name => m <= j
<1> DEFINE found == {m \in DOMAIN tb : tb[m].name = name}
<1>1. FindIn(tb, name) =
          IF found = {} THEN "MISSING"
          ELSE tb[CHOOSE m \in found : \A k \in found : m <= k].kind
  BY DEF FindIn
<1>2. found \in SUBSET Nat
  OBVIOUS
<1>3. CASE found = {}
  BY <1>1, <1>3
<1>4. CASE found # {}
  <2> DEFINE m == CHOOSE m \in found : \A k \in found : m <= k
  <2>1. m \in found /\ \A k \in found : m <= k
    <3> HIDE DEF found
    <3>1. \E i \in found : \A k \in found : i <= k
      BY <1>2, <1>4, SmallestOf
    <3> QED BY <3>1
  <2>2. FindIn(tb, name) = tb[m].kind
    BY <1>1, <1>4
  <2> HIDE DEF m
  <2>3. tb[m] \in Entries
    BY <2>1
  <2> QED BY <2>1, <2>2, <2>3, EntryTypes
<1> QED BY <1>3, <1>4

\* What comes after in the table changes no name that is found before.
LEMMA FindAppended ==
    ASSUME NEW tb \in Seq(Entries), NEW rows \in Seq(Entries), NEW name
    PROVE  FindIn(tb \o rows, name) =
               IF FindIn(tb, name) # "MISSING" THEN FindIn(tb, name) ELSE FindIn(rows, name)
<1> DEFINE both == tb \o rows
<1>1. /\ both \in Seq(Entries) /\ Len(tb) \in Nat /\ Len(rows) \in Nat
      /\ Len(both) = Len(tb) + Len(rows)
      /\ DOMAIN both = 1 .. Len(both) /\ DOMAIN tb = 1 .. Len(tb) /\ DOMAIN rows = 1 .. Len(rows)
  BY ConcatProperties
<1>2. /\ \A i \in DOMAIN tb : i \in DOMAIN both /\ both[i] = tb[i]
      /\ \A i \in DOMAIN rows : Len(tb) + i \in DOMAIN both /\ both[Len(tb) + i] = rows[i]
  BY <1>1, ConcatProperties
<1>3. \A i \in DOMAIN both : i \in DOMAIN tb \/ (i - Len(tb) \in DOMAIN rows
                                              /\ both[i] = rows[i - Len(tb)])
  BY <1>1, <1>2
<1> HIDE DEF both
<1>4. "MISSING" \notin Kinds
  BY DEF Kinds
<1>5. CASE \E m \in DOMAIN tb : /\ tb[m].name = name /\ FindIn(tb, name) = tb[m].kind
                               /\ tb[m].kind \in Kinds
                               /\ \A j \in DOMAIN tb : tb[j].name = name => m <= j
  <2>1. PICK m \in DOMAIN tb : /\ tb[m].name = name /\ FindIn(tb, name) = tb[m].kind
                               /\ tb[m].kind \in Kinds
                               /\ \A j \in DOMAIN tb : tb[j].name = name => m <= j
    BY <1>5
  <2>2. PICK l \in DOMAIN both : /\ both[l].name = name /\ FindIn(both, name) = both[l].kind
                                 /\ \A j \in DOMAIN both : both[j].name = name => l <= j
    <3>1. Len(tb) >= 0 /\ m \in DOMAIN both /\ both[m].name = name
      BY <1>1, <1>2, <2>1
    <3> QED BY <1>1, <3>1, FindFirst, Zenon
  <2>3. l <= m /\ l \in DOMAIN tb
    BY <1>1, <1>2, <2>1, <2>2
  <2>4. l = m
    BY <1>1, <1>2, <2>1, <2>2, <2>3
  <2> QED BY <1>2, <1>4, <2>1, <2>2, <2>4 DEF both
<1>6. CASE (\A m \in DOMAIN tb : tb[m].name # name) /\ FindIn(tb, name) = "MISSING"
  <2>1. CASE \E m \in DOMAIN rows : /\ rows[m].name = name /\ FindIn(rows, name) = rows[m].kind
                                   /\ \A j \in DOMAIN rows : rows[j].name = name => m <= j
    <3>1. PICK m \in DOMAIN rows : /\ rows[m].name = name /\ FindIn(rows, name) = rows[m].kind
                                   /\ \A j \in DOMAIN rows : rows[j].name = name => m <= j
      BY <2>1
    <3>2. PICK l \in DOMAIN both : /\ both[l].name = name /\ FindIn(both, name) = both[l].kind
                                   /\ \A j \in DOMAIN both : both[j].name = name => l <= j
      <4>1. Len(tb) + m \in DOMAIN both /\ both[Len(tb) + m].name = name
        BY <1>2, <3>1
      <4> QED BY <1>1, <4>1, FindFirst, Zenon
    <3>3. l <= Len(tb) + m
      BY <1>2, <3>1, <3>2
    <3>4. l - Len(tb) \in DOMAIN rows /\ both[l] = rows[l - Len(tb)]
      BY <1>2, <1>3, <1>6, <3>2
    <3>5. m <= l - Len(tb)
      BY <3>1, <3>2, <3>4
    <3>6. l - Len(tb) = m
      BY <1>1, <3>3, <3>5
    <3> QED BY <1>6, <3>1, <3>2, <3>4, <3>6 DEF both
  <2>2. CASE (\A m \in DOMAIN rows : rows[m].name # name) /\ FindIn(rows, name) = "MISSING"
    <3>1. \A i \in DOMAIN both : both[i].name # name
      BY <1>2, <1>3, <1>6, <2>2
    <3>2. FindIn(both, name) = "MISSING"
      BY <1>1, <3>1, FindFirst
    <3> QED BY <1>6, <2>2, <3>2 DEF both
  <2> QED BY <2>1, <2>2, FindFirst
<1> QED BY <1>5, <1>6, FindFirst

\* In one document a name is found to be what the document defines it to be.
LEMMA FindDefined ==
    ASSUME NEW doc \in Docs, NEW name, NEW kind \in Kinds
    PROVE  FindIn(Rows(doc), name) = kind <=> Defines(doc, name, kind)
<1>1. /\ Rows(doc) \in Seq(Entries)
      /\ \A e \in DOMAIN Rows(doc) : \E m \in DOMAIN doc.connectors :
            doc.connectors[m].isMap /\ Rows(doc)[e] = Entry(doc.connectors[m])
      /\ \A m \in DOMAIN doc.connectors : doc.connectors[m].isMap =>
            \E e \in DOMAIN Rows(doc) : Rows(doc)[e] = Entry(doc.connectors[m])
  BY RowsKept
<1>2. \A m : LET row == doc.connectors[m]
             IN  Entry(row).name = row.name /\ Entry(row).kind = KindOf(row.type)
  BY DEF Entry
<1>3. ASSUME FindIn(Rows(doc), name) = kind
      PROVE  Defines(doc, name, kind)
  <2>1. PICK e \in DOMAIN Rows(doc) : Rows(doc)[e].name = name /\ Rows(doc)[e].kind = kind
    BY <1>1, <1>3, FindFirst DEF Kinds
  <2> QED BY <1>1, <1>2, <2>1 DEF Defines
<1>4. ASSUME Defines(doc, name, kind)
      PROVE  FindIn(Rows(doc), name) = kind
  <2>1. PICK m \in DOMAIN doc.connectors :
            /\ doc.connectors[m].name = name /\ doc.connectors[m].isMap
            /\ KindOf(doc.connectors[m].type) = kind
    BY <1>4 DEF Defines
  <2>2. PICK e \in DOMAIN Rows(doc) : Rows(doc)[e] = Entry(doc.connectors[m])
    BY <1>1, <2>1
  <2>3. Rows(doc)[e].name = name
    BY <1>2, <2>1, <2>2
  <2>4. PICK l \in DOMAIN Rows(doc) :
            Rows(doc)[l].name = name /\ FindIn(Rows(doc), name) = Rows(doc)[l].kind
    BY <1>1, <2>3, FindFirst
  <2>5. PICK j \in DOMAIN doc.connectors : Rows(doc)[l] = Entry(doc.connectors[j])
    BY <1>1, <2>4
  <2>6. j = m
    BY <1>2, <2>1, <2>4, <2>5, DocumentLists
  <2> QED BY <1>2, <2>1, <2>4, <2>5, <2>6
<1> QED BY <1>3, <1>4

\* parse_bridges makes a bridge of every mapping.
LEMMA RoutesKept ==
    ASSUME NEW doc \in Docs
    PROVE  /\ Routes(doc) \in Seq(Range(Routes(doc))) /\ Len(Routes(doc)) <= Len(doc.bridges)
           /\ (\A m \in DOMAIN doc.bridges : doc.bridges[m].isMap) =>
                 Routes(doc) = [m \in DOMAIN doc.bridges |-> Route(doc.bridges[m])]
<1> DEFINE rows == doc.bridges
           maps == Mappings(rows)
<1>1. /\ rows \in Seq(Range(rows)) /\ \A m \in DOMAIN rows : rows[m].isMap \in BOOLEAN
  BY DocumentLists
<1> HIDE DEF rows
<1>2. maps \in Seq(Range(rows)) /\ KeptOf(rows, Len(rows), maps)
  BY <1>1, MappingsKept
<1>3. ASSUME \A m \in DOMAIN rows : rows[m].isMap
      PROVE  maps = rows
  BY <1>1, <1>3, MappingsWhole
<1> HIDE DEF maps
<1>4. Routes(doc) = [m \in DOMAIN maps |-> Route(maps[m])]
  BY DEF Routes, maps, rows
<1>5. Len(maps) \in Nat /\ DOMAIN maps = 1 .. Len(maps) /\ Len(maps) <= Len(rows)
  BY <1>2 DEF KeptOf
<1> HIDE DEF Routes
<1>6. Len(Routes(doc)) = Len(maps) /\ Routes(doc) \in Seq(Range(Routes(doc)))
  BY <1>4, <1>5 DEF Range
<1> QED BY <1>3, <1>4, <1>5, <1>6 DEF rows

(***************************************************************************)
(* What a name means after so many documents.                              *)
(***************************************************************************)

Typed == main \in Mains /\ file \in [Paths -> Fragments]

\* The main file and the includes, in their order.
LEMMA DocumentsAre ==
    ASSUME Typed
    PROVE  /\ Documents \in Seq(Docs) /\ DOMAIN Documents = 1 .. Len(Documents)
           /\ Len(main.includes) \in Nat /\ Len(Documents) = Len(main.includes) + 1
           /\ Documents[1] = main
           /\ \A j \in 1 .. Len(main.includes) :
                 main.includes[j] \in Paths /\ Documents[j + 1] = file[main.includes[j]]
<1> DEFINE names == main.includes
           included == [m \in DOMAIN names |-> file[names[m]]]
<1>1. main \in Docs /\ names \in Seq(Paths)
  BY DocumentLists DEF Typed, Docs
<1> HIDE DEF names
<1>2. /\ \A m \in DOMAIN names : names[m] \in Paths /\ file[names[m]] \in Docs
      /\ DOMAIN names = 1 .. Len(names) /\ Len(names) \in Nat
  BY <1>1 DEF Typed, Docs
<1>3. included \in Seq(Docs) /\ Len(included) = Len(names)
      /\ \A j \in 1 .. Len(names) : included[j] = file[names[j]]
  BY <1>2
<1>4. Documents = <<main>> \o included
  BY DEF Documents, names
<1> HIDE DEF included
<1>5. <<main>> \in Seq(Docs) /\ Len(<<main>>) = 1 /\ <<main>>[1] = main
  BY <1>1
<1>6. /\ Documents \in Seq(Docs) /\ Len(Documents) = 1 + Len(names)
      /\ \A i \in 1 .. 1 + Len(names) :
            Documents[i] = IF i <= 1 THEN <<main>>[i] ELSE included[i - 1]
  BY <1>3, <1>4, <1>5, ConcatProperties
<1> HIDE DEF Documents
<1>7. Documents[1] = main
  <2>1. 1 \in 1 .. 1 + Len(names) /\ 1 <= 1
    BY <1>2
  <2> QED BY <1>5, <1>6, <2>1
<1>8. ASSUME NEW j \in 1 .. Len(names)
      PROVE  Documents[j + 1] = included[j]
  <2>1. j + 1 \in 1 .. 1 + Len(names) /\ ~(j + 1 <= 1) /\ j + 1 - 1 = j
    BY <1>2
  <2> QED BY <1>6, <2>1
<1>9. /\ Documents \in Seq(Docs) /\ DOMAIN Documents = 1 .. Len(Documents)
      /\ Len(Documents) = Len(names) + 1
  BY <1>2, <1>6
<1> QED BY <1>2, <1>3, <1>7, <1>8, <1>9 DEF names

\* What FirstDefinitionCounts says of the first j documents.
Means(j, name, kind) ==
    \E d \in 1 .. j :
        /\ Documents[d].readable /\ Defines(Documents[d], name, kind)
        /\ \A e \in 1 .. d - 1 : Documents[e].readable =>
              \A other \in End : ~Defines(Documents[e], name, other)

\* If any of them defines a name, one does so first.
LEMMA FirstDefines ==
    ASSUME NEW j \in Nat, NEW name, NEW e \in 1 .. j, NEW other, Documents[e].readable,
           Defines(Documents[e], name, other)
    PROVE  \E kind \in Kinds : Means(j, name, kind)
<1> DEFINE defining == {d \in 1 .. j : Documents[d].readable
                                      /\ \E kind : Defines(Documents[d], name, kind)}
<1>1. defining \in SUBSET Nat /\ defining # {}
  BY DEF Defines
<1>2. PICK d \in defining : \A i \in defining : d <= i
  <2> HIDE DEF defining
  <2> QED BY <1>1, SmallestOf
<1>3. PICK kind : Defines(Documents[d], name, kind)
  BY <1>2
<1>4. kind \in Kinds
  BY <1>3, KindIsKind DEF Defines
<1>5. \A i \in 1 .. d - 1 : Documents[i].readable =>
          \A k : ~Defines(Documents[i], name, k)
  BY <1>2
<1> QED BY <1>2, <1>3, <1>4, <1>5 DEF Means

\* A table that the first j documents have been merged into.
Merged(tb, j) ==
    /\ tb \in Seq(Entries)
    /\ \A name \in Names, kind \in Kinds : FindIn(tb, name) = kind <=> Means(j, name, kind)
    /\ \A d \in 1 .. j : Documents[d].readable =>
          \A m \in DOMAIN Documents[d].connectors : Documents[d].connectors[m].isMap =>
              \E e \in DOMAIN tb : tb[e] = Entry(Documents[d].connectors[m])

\* What a name means in the next document counts only if none before defines it.
LEMMA MeansNext ==
    ASSUME NEW j \in Nat, NEW name, NEW kind \in Kinds
    PROVE  Means(j + 1, name, kind) <=>
               \/ Means(j, name, kind)
               \/ /\ Documents[j + 1].readable /\ Defines(Documents[j + 1], name, kind)
                  /\ ~\E other \in Kinds : Means(j, name, other)
<1>1. j + 1 - 1 = j /\ \A d \in 1 .. j + 1 : d \in 1 .. j \/ d = j + 1
  OBVIOUS
<1>2. \A d \in 1 .. j : d \in 1 .. j + 1
  OBVIOUS
<1>3. Means(j, name, kind) => Means(j + 1, name, kind)
  BY <1>2 DEF Means
<1>4. ASSUME Documents[j + 1].readable, Defines(Documents[j + 1], name, kind),
             ~\E other \in Kinds : Means(j, name, other)
      PROVE  Means(j + 1, name, kind)
  <2>1. \A e \in 1 .. j : Documents[e].readable =>
            \A other \in End : ~Defines(Documents[e], name, other)
    BY <1>4, FirstDefines
  <2>2. j + 1 \in 1 .. j + 1
    OBVIOUS
  <2> QED BY <1>1, <1>4, <2>1, <2>2 DEF Means
<1>5. ASSUME Means(j + 1, name, kind), ~Means(j, name, kind)
      PROVE  /\ Documents[j + 1].readable /\ Defines(Documents[j + 1], name, kind)
             /\ ~\E other \in Kinds : Means(j, name, other)
  <2>1. /\ Documents[j + 1].readable /\ Defines(Documents[j + 1], name, kind)
        /\ \A e \in 1 .. j : Documents[e].readable =>
              \A other \in End : ~Defines(Documents[e], name, other)
    BY <1>1, <1>5 DEF Means
  <2> QED BY <2>1 DEF Means, Kinds
<1> QED BY <1>3, <1>4, <1>5

\* A readable document is merged by appending its connectors, one that is not by leaving
\* it out.
LEMMA MergedNext ==
    ASSUME Typed, NEW j \in Nat, j + 1 \in 1 .. Len(Documents), NEW tb, Merged(tb, j)
    PROVE  IF Documents[j + 1].readable THEN Merged(tb \o Rows(Documents[j + 1]), j + 1)
           ELSE Merged(tb, j + 1)
<1> DEFINE doc == Documents[j + 1]
           rows == Rows(doc)
           all == tb \o rows
<1>1. doc \in Docs /\ tb \in Seq(Entries) /\ doc.readable \in BOOLEAN
  <2>1. Documents \in Seq(Docs)
    BY DocumentsAre
  <2>2. doc \in Docs
    BY <2>1
  <2> HIDE DEF doc
  <2> QED BY <2>2, DocumentLists DEF Merged
<1>2. \A d \in 1 .. j + 1 : d \in 1 .. j \/ d = j + 1
  OBVIOUS
<1>3. CASE ~doc.readable
  <2>1. \A name : \A kind \in Kinds : Means(j + 1, name, kind) <=> Means(j, name, kind)
    BY <1>3, MeansNext
  <2>2. Merged(tb, j + 1)
    <3>1. \A name \in Names, kind \in Kinds :
              FindIn(tb, name) = kind <=> Means(j + 1, name, kind)
      <4>1. \A name \in Names, kind \in Kinds : FindIn(tb, name) = kind <=> Means(j, name, kind)
        BY Zenon DEF Merged
      <4> QED BY <2>1, <4>1
    <3>2. \A d \in 1 .. j + 1 : Documents[d].readable => d \in 1 .. j
      BY <1>2, <1>3
    <3>3. \A d \in 1 .. j + 1 : Documents[d].readable =>
              \A m \in DOMAIN Documents[d].connectors : Documents[d].connectors[m].isMap =>
                  \E e \in DOMAIN tb : tb[e] = Entry(Documents[d].connectors[m])
      BY <3>2, Zenon DEF Merged
    <3> QED BY <1>1, <3>1, <3>3, Zenon DEF Merged
  <2> QED BY <1>3, <2>2
<1>4. CASE doc.readable
  <2>1. rows \in Seq(Entries)
    BY <1>1, RowsKept
  <2>2. /\ all \in Seq(Entries)
        /\ \A e \in DOMAIN tb : e \in DOMAIN all /\ all[e] = tb[e]
        /\ \A e \in DOMAIN rows : Len(tb) + e \in DOMAIN all /\ all[Len(tb) + e] = rows[e]
    <3> HIDE DEF rows
    <3> QED BY <1>1, <2>1, ConcatProperties
  <2>3. ASSUME NEW name \in Names, NEW kind \in Kinds
        PROVE  FindIn(all, name) = kind <=> Means(j + 1, name, kind)
    <3>1. FindIn(all, name) = IF FindIn(tb, name) # "MISSING" THEN FindIn(tb, name)
                              ELSE FindIn(rows, name)
      BY <1>1, <2>1, FindAppended
    <3>2. FindIn(rows, name) = kind <=> Defines(doc, name, kind)
      BY <1>1, FindDefined
    <3>3. Means(j + 1, name, kind) <=>
              \/ Means(j, name, kind)
              \/ Defines(doc, name, kind) /\ ~\E other \in Kinds : Means(j, name, other)
      BY <1>4, MeansNext
    <3>4. FindIn(tb, name) \in Kinds \cup {"MISSING"} /\ "MISSING" \notin Kinds
      BY <1>1, FindFirst DEF Kinds
    <3>5. \A other \in Kinds : FindIn(tb, name) = other <=> Means(j, name, other)
      BY DEF Merged
    <3> HIDE DEF all, rows, doc
    <3>6. CASE FindIn(tb, name) = "MISSING"
      BY <3>1, <3>2, <3>3, <3>4, <3>5, <3>6
    <3>7. CASE FindIn(tb, name) # "MISSING"
      BY <3>1, <3>3, <3>4, <3>5, <3>7
    <3> QED BY <3>6, <3>7
  <2>4. ASSUME NEW d \in 1 .. j + 1, Documents[d].readable,
               NEW m \in DOMAIN Documents[d].connectors, Documents[d].connectors[m].isMap
        PROVE  \E e \in DOMAIN all : all[e] = Entry(Documents[d].connectors[m])
    <3>1. CASE d \in 1 .. j
      <4>1. \E e \in DOMAIN tb : tb[e] = Entry(Documents[d].connectors[m])
        BY <2>4, <3>1, Zenon DEF Merged
      <4> HIDE DEF all
      <4> QED BY <2>2, <4>1, Zenon
    <3>2. CASE d = j + 1
      <4>1. PICK e \in DOMAIN rows : rows[e] = Entry(Documents[d].connectors[m])
        BY <1>1, <2>4, <3>2, RowsKept
      <4>2. Len(tb) + e \in DOMAIN all /\ all[Len(tb) + e] = rows[e]
        BY <2>2
      <4> HIDE DEF rows, all
      <4> QED BY <4>1, <4>2, Zenon
    <3> QED BY <1>2, <3>1, <3>2
  <2>5. Merged(all, j + 1)
    <3> HIDE DEF all
    <3> QED BY <2>2, <2>3, <2>4 DEF Merged
  <2> QED BY <1>4, <2>5
<1> QED BY <1>1, <1>3, <1>4

\* Nothing has been merged into an empty table.
LEMMA MergedNone == Merged(<<>>, 0)
<1>1. \A name : FindIn(<<>>, name) = "MISSING"
  BY DEF FindIn
<1>2. \A name, kind : ~Means(0, name, kind)
  BY DEF Means
<1> QED BY <1>1, <1>2 DEF Merged, Kinds

(***************************************************************************)
(* The loader.                                                             *)
(***************************************************************************)

Looked == [from : End, to : End]

\* How far the loader is decides what has been merged and resolved.
LoadInv ==
    /\ Typed /\ pc \in {"load", "failed", "merge", "resolve", "done"} /\ n \in Nat
    /\ pc \in {"load", "failed"} =>
          table = <<>> /\ bridges = <<>> /\ resolved = <<>> /\ warned = {}
    /\ pc = "load" => n = 1
    /\ pc \in {"merge", "resolve", "done"} => main.readable /\ bridges = Routes(main)
    /\ pc = "merge" => /\ n \in 1 .. Len(main.includes) + 1 /\ resolved = <<>>
                       /\ Merged(table, n)
    /\ pc \in {"resolve", "done"} => /\ Merged(table, Len(Documents))
                                     /\ n \in 1 .. Len(bridges) + 1 /\ Len(resolved) = n - 1
    /\ pc = "done" => n > Len(bridges)
    /\ resolved \in Seq(Looked)
    /\ \A m \in DOMAIN resolved :
          resolved[m] = [from |-> Find(bridges[m].from), to |-> Find(bridges[m].to)]
    /\ \A p \in warned : /\ p \in Paths /\ ~file[p].readable
                         /\ \E j \in DOMAIN main.includes : main.includes[j] = p

\* Where each include stands among the documents.
LEMMA DocumentPlaces ==
    ASSUME Typed
    PROVE  /\ Len(main.includes) \in Nat /\ Documents[1] = main
           /\ 1 \in DOMAIN Documents /\ DOMAIN Documents = 1 .. Len(Documents)
           /\ 0 + 1 \in 1 .. Len(Documents) /\ Documents[0 + 1] = main
           /\ \A j \in Nat : j = Len(main.includes) + 1 => j = Len(Documents)
           /\ \A j \in Nat : j >= 1 /\ j <= Len(main.includes) =>
                 /\ main.includes[j] \in Paths /\ Documents[j + 1] = file[main.includes[j]]
                 /\ j \in DOMAIN main.includes /\ j \in 1 .. Len(main.includes)
                 /\ j + 1 \in 1 .. Len(Documents) /\ j + 1 \in 1 .. Len(main.includes) + 1
<1> DEFINE most == Len(main.includes)
           all == Len(Documents)
<1>1. /\ most \in Nat /\ all = most + 1 /\ Documents[1] = main /\ DOMAIN Documents = 1 .. all
      /\ \A j \in 1 .. most : main.includes[j] \in Paths
                             /\ Documents[j + 1] = file[main.includes[j]]
  BY DocumentsAre, Zenon
<1>2. DOMAIN main.includes = 1 .. most
  <2>1. main.includes \in Seq(Paths)
    BY DocumentLists DEF Typed, Docs
  <2> QED BY <2>1
<1> HIDE DEF most, all
<1>3. \A j \in Nat : j >= 1 /\ j <= most =>
          j \in 1 .. most /\ j + 1 \in 1 .. all /\ j + 1 \in 1 .. most + 1
  BY <1>1
<1>4. 0 + 1 = 1 /\ 1 \in 1 .. all /\ \A j \in Nat : j = most + 1 => j = all
  BY <1>1
<1>5. 0 + 1 \in 1 .. all /\ Documents[0 + 1] = main
  BY <1>1, <1>4, Zenon
<1> QED BY <1>1, <1>2, <1>3, <1>4, <1>5, Zenon DEF most, all

\* Find is FindIn of the table there is.
LEMMA FindIsFindIn ==
    /\ \A name : Find(name) = FindIn(table, name)
    /\ \A name : Find(name)' = FindIn(table', name)
BY DEF Find, FindIn

\* The same documents, and the same of all that is said of them.
LEMMA SameDocuments ==
    ASSUME UNCHANGED docVars
    PROVE  /\ Documents' = Documents /\ Typed' = Typed
           /\ \A j, name, kind : Means(j, name, kind)' = Means(j, name, kind)
           /\ \A tb, j : Merged(tb, j)' = Merged(tb, j)
           /\ Routes(main)' = Routes(main)
<1>1. main' = main /\ file' = file
  BY DEF docVars
<1>2. Documents' = Documents
  BY <1>1 DEF Documents
<1> QED BY <1>1, <1>2 DEF Typed, Means, Merged

\* The main file is read, or is not.
LEMMA LoadMainPreserves == ASSUME LoadInv, LoadMain \/ LoadMainFails PROVE LoadInv'
<1>1. /\ Typed /\ n = 1 /\ n' = 1 /\ table = <<>> /\ bridges = <<>> /\ resolved = <<>>
      /\ resolved' = <<>> /\ warned = {} /\ warned' = {} /\ UNCHANGED docVars /\ pc = "load"
  BY DEF LoadInv, LoadMain, LoadMainFails
<1>2. Typed' /\ Routes(main)' = Routes(main) /\ \A tb, j : Merged(tb, j)' = Merged(tb, j)
  BY <1>1, SameDocuments
<1>3. <<>> \in Seq(Looked) /\ DOMAIN <<>> = {}
  OBVIOUS
<1>4. CASE LoadMain
  <2>1. main.readable /\ table' = Rows(main) /\ bridges' = Routes(main) /\ pc' = "merge"
    BY <1>4 DEF LoadMain
  <2>2. Rows(main) \in Seq(Entries)
    BY <1>1, RowsKept DEF Typed, Docs
  <2>3. <<>> \o Rows(main) = Rows(main)
    BY <2>2, ConcatEmptySeq
  <2>4. 0 + 1 \in 1 .. Len(Documents) /\ Documents[0 + 1] = main
    BY <1>1, DocumentPlaces
  <2>5. Merged(<<>> \o Rows(main), 0 + 1)
    <3>1. Documents[0 + 1].readable
      BY <2>1, <2>4
    <3>2. 0 \in Nat
      OBVIOUS
    <3>3. Merged(<<>> \o Rows(Documents[0 + 1]), 0 + 1)
      BY <1>1, <2>4, <3>1, <3>2, MergedNone, MergedNext
    <3> QED BY <2>4, <3>3
  <2>6. Merged(Rows(main), 1)
    <3>1. 0 + 1 = 1
      OBVIOUS
    <3> QED BY <2>3, <2>5, <3>1
  <2>7. main' = main /\ Len(main.includes) \in Nat
    BY <1>1, DocumentsAre DEF docVars
  <2>8. Merged(table, n)'
    BY <1>1, <1>2, <2>1, <2>6
  <2> QED BY <1>1, <1>2, <1>3, <2>1, <2>7, <2>8 DEF LoadInv
<1>5. CASE LoadMainFails
  <2>1. table' = <<>> /\ bridges' = <<>> /\ pc' = "failed"
    BY <1>1, <1>5 DEF LoadMainFails
  <2> QED BY <1>1, <1>2, <1>3, <2>1 DEF LoadInv
<1> QED BY <1>4, <1>5

\* One more include.
LEMMA IncludePreserves == ASSUME LoadInv, MergeInclude \/ SkipInclude PROVE LoadInv'
<1> DEFINE path == main.includes[n]
<1>1. /\ Typed /\ pc = "merge" /\ pc' = "merge" /\ UNCHANGED <<docVars, bridges, resolved>>
      /\ n \in 1 .. Len(main.includes) /\ n' = n + 1 /\ resolved = <<>> /\ Merged(table, n)
      /\ main.readable /\ bridges = Routes(main)
  <2>1. /\ Typed /\ pc = "merge" /\ pc' = "merge" /\ UNCHANGED <<docVars, bridges, resolved>>
        /\ n \in Nat /\ n >= 1 /\ n <= Len(main.includes) /\ n' = n + 1
    BY DEF LoadInv, MergeInclude, SkipInclude
  <2>2. resolved = <<>> /\ Merged(table, n) /\ main.readable /\ bridges = Routes(main)
    BY <2>1 DEF LoadInv
  <2>3. n \in 1 .. Len(main.includes)
    BY <2>1, DocumentPlaces, Zenon
  <2> QED BY <2>1, <2>2, <2>3
<1>2. /\ Typed' /\ Routes(main)' = Routes(main) /\ \A tb, j : Merged(tb, j)' = Merged(tb, j)
      /\ main' = main /\ file' = file
  BY <1>1, SameDocuments DEF docVars
<1>3. /\ path \in Paths /\ Documents[n + 1] = file[path] /\ n \in Nat
      /\ n + 1 \in 1 .. Len(Documents) /\ n + 1 \in 1 .. Len(main.includes) + 1
      /\ n \in DOMAIN main.includes
  <2>1. Len(main.includes) \in Nat
    BY <1>1, DocumentPlaces, Zenon
  <2>2. n \in Nat /\ n >= 1 /\ n <= Len(main.includes)
    BY <1>1, <2>1
  <2> QED BY <1>1, <2>2, DocumentPlaces, Zenon
<1>4. CASE MergeInclude
  <2>1. file[path].readable /\ table' = table \o Rows(file[path]) /\ warned' = warned
    BY <1>4 DEF MergeInclude
  <2>2. Merged(table', n + 1)
    BY <1>1, <1>3, <2>1, MergedNext
  <2> QED BY <1>1, <1>2, <1>3, <2>1, <2>2 DEF LoadInv
<1>5. CASE SkipInclude
  <2>1. ~file[path].readable /\ table' = table /\ warned' = warned \cup {path}
    BY <1>5 DEF SkipInclude
  <2>2. Merged(table', n + 1)
    BY <1>1, <1>3, <2>1, MergedNext
  <2>3. \A p \in warned' : /\ p \in Paths /\ ~file[p].readable
                           /\ \E j \in DOMAIN main.includes : main.includes[j] = p
    BY <1>3, <2>1 DEF LoadInv
  <2> HIDE DEF path
  <2> QED BY <1>1, <1>2, <1>3, <2>1, <2>2, <2>3 DEF LoadInv
<1> QED BY <1>4, <1>5

\* All of the list, and then the ends of one bridge after the other.
LEMMA ResolvePreserves == ASSUME LoadInv, LoadDone \/ Resolve \/ ResolveDone PROVE LoadInv'
<1>1. /\ Typed /\ pc \in {"merge", "resolve"} /\ UNCHANGED <<docVars, bridges, table, warned>>
      /\ main.readable /\ bridges = Routes(main)
  BY DEF LoadInv, LoadDone, Resolve, ResolveDone
<1>2. /\ Typed' /\ Routes(main)' = Routes(main) /\ \A tb, j : Merged(tb, j)' = Merged(tb, j)
      /\ main' = main /\ file' = file /\ Documents' = Documents
      /\ \A name : Find(name)' = Find(name)
  BY <1>1, SameDocuments, FindIsFindIn DEF docVars
<1>3. Len(bridges) \in Nat
  <2>1. main \in Docs
    BY <1>1 DEF Typed, Docs
  <2>2. Routes(main) \in Seq(Range(Routes(main)))
    BY <2>1, RoutesKept
  <2> HIDE DEF Routes
  <2> QED BY <1>1, <2>2
<1>4. CASE LoadDone
  <2>1. /\ pc = "merge" /\ n > Len(main.includes) /\ pc' = "resolve" /\ n' = 1
        /\ resolved' = resolved /\ resolved = <<>> /\ n \in 1 .. Len(main.includes) + 1
        /\ Merged(table, n)
    BY <1>4 DEF LoadDone, LoadInv
  <2>2. n = Len(Documents)
    <3>1. Len(main.includes) \in Nat
      BY <1>1, DocumentPlaces
    <3>2. n \in Nat /\ n = Len(main.includes) + 1
      BY <2>1, <3>1
    <3> QED BY <1>1, <3>2, DocumentPlaces, Zenon
  <2>3. Merged(table, Len(Documents))'
    BY <1>1, <1>2, <2>1, <2>2
  <2>4. Len(resolved') = 1 - 1 /\ 1 \in 1 .. Len(bridges) + 1
    BY <1>3, <2>1
  <2> QED BY <1>1, <1>2, <2>1, <2>3, <2>4 DEF LoadInv
<1>5. CASE Resolve
  <2> DEFINE ends == [from |-> Find(bridges[n].from), to |-> Find(bridges[n].to)]
  <2>1. /\ pc = "resolve" /\ pc' = "resolve" /\ n <= Len(bridges) /\ n' = n + 1
        /\ resolved' = Append(resolved, ends) /\ Merged(table, Len(Documents))
        /\ n \in 1 .. Len(bridges) + 1 /\ Len(resolved) = n - 1
        /\ resolved \in Seq(Looked)
    BY <1>5 DEF Resolve, LoadInv
  <2>2. ends \in Looked
    <3>1. table \in Seq(Entries)
      BY <2>1 DEF Merged
    <3>2. \A name : Find(name) \in End
      BY <3>1, FindFirst, FindIsFindIn DEF Kinds, End
    <3> QED BY <3>2 DEF Looked
  <2>3. Merged(table, Len(Documents))'
    BY <1>1, <1>2, <2>1
  <2> HIDE DEF ends
  <2>4. /\ resolved' \in Seq(Looked) /\ Len(resolved') = n /\ resolved'[n] = ends
        /\ \A m \in DOMAIN resolved : resolved'[m] = resolved[m]
        /\ \A m \in DOMAIN resolved' : m \in DOMAIN resolved \/ m = n
    BY <1>3, <2>1, <2>2
  <2>5. \A m \in DOMAIN resolved' :
            resolved'[m] = [from |-> Find(bridges[m].from), to |-> Find(bridges[m].to)]
    BY <2>4 DEF ends, LoadInv
  <2>6. \A m \in DOMAIN resolved' :
            resolved'[m] = [from |-> Find(bridges[m].from)', to |-> Find(bridges[m].to)']
    <3>1. \A m : Find(bridges[m].from)' = Find(bridges[m].from)
                 /\ Find(bridges[m].to)' = Find(bridges[m].to)
      BY <1>1, <1>2, FindIsFindIn
    <3> QED BY <2>5, <3>1
  <2>7. n + 1 \in 1 .. Len(bridges) + 1 /\ Len(resolved') = n + 1 - 1 /\ n + 1 \in Nat
    BY <1>3, <2>1, <2>4
  <2> QED BY <1>1, <1>2, <2>1, <2>3, <2>4, <2>6, <2>7 DEF LoadInv
<1>6. CASE ResolveDone
  <2>1. pc = "resolve" /\ pc' = "done" /\ n > Len(bridges) /\ UNCHANGED <<n, resolved>>
    BY <1>6 DEF ResolveDone
  <2>2. \A m : Find(bridges[m].from)' = Find(bridges[m].from)
               /\ Find(bridges[m].to)' = Find(bridges[m].to)
    BY <1>1, <1>2, FindIsFindIn
  <2> QED BY <1>1, <1>2, <2>1, <2>2 DEF LoadInv
<1> QED BY <1>4, <1>5, <1>6

\* The strengthening the others follow from.
THEOREM LoadInvariance == Spec => []LoadInv
<1>1. Init => LoadInv
  BY DEF Init, LoadInv, Typed
<1>2. LoadInv /\ UNCHANGED vars => LoadInv'
  <2> SUFFICES ASSUME LoadInv, UNCHANGED vars PROVE LoadInv'
    OBVIOUS
  <2>1. UNCHANGED <<docVars, pc, n, table, bridges, warned, resolved>>
    BY DEF vars, docVars
  <2>2. /\ Typed' /\ Routes(main)' = Routes(main) /\ \A tb, j : Merged(tb, j)' = Merged(tb, j)
        /\ main' = main /\ file' = file /\ Documents' = Documents
    BY <2>1, SameDocuments DEF docVars, LoadInv
  <2>3. \A m : Find(bridges[m].from)' = Find(bridges[m].from)
               /\ Find(bridges[m].to)' = Find(bridges[m].to)
    BY <2>1, FindIsFindIn
  <2> QED BY <2>1, <2>2, <2>3 DEF LoadInv
<1>3. LoadInv /\ Next => LoadInv'
  BY LoadMainPreserves, IncludePreserves, ResolvePreserves DEF Next
<1> QED BY <1>1, <1>2, <1>3, PTL DEF Spec
\* Types of the table and of what is resolved.
THEOREM TypeCorrect == Spec => []TypeOK
<1>1. LoadInv => TypeOK
  <2> SUFFICES ASSUME LoadInv PROVE TypeOK
    OBVIOUS
  <2>1. Typed /\ main \in Docs
    BY DEF LoadInv, Typed, Docs
  <2>2. \A m \in DOMAIN table : table[m].name \in Names /\ table[m].kind \in End
    <3>1. table \in Seq(Entries)
      <4>1. CASE pc \in {"load", "failed"}
        BY <4>1 DEF LoadInv
      <4>2. CASE pc \in {"merge", "resolve", "done"}
        BY <4>2 DEF LoadInv, Merged
      <4> QED BY <4>1, <4>2 DEF LoadInv
    <3>2. \A m \in DOMAIN table : table[m] \in Entries
      BY <3>1
    <3> QED BY <3>2, EntryTypes DEF Kinds
  <2>3. Len(bridges) <= Len(main.bridges) /\ Len(resolved) <= Len(bridges)
    <3>1. Len(main.bridges) \in Nat
      BY <2>1, DocumentLists
    <3>2. CASE pc \in {"load", "failed"}
      BY <3>1, <3>2 DEF LoadInv
    <3>3. CASE pc \in {"merge", "resolve", "done"}
      <4>1. bridges = Routes(main) /\ (pc = "merge" => resolved = <<>>)
            /\ (pc \in {"resolve", "done"} => n \in 1 .. Len(bridges) + 1
                                              /\ Len(resolved) = n - 1)
        BY <3>3 DEF LoadInv
      <4>2. Routes(main) \in Seq(Range(Routes(main)))
            /\ Len(Routes(main)) <= Len(main.bridges)
        BY <2>1, RoutesKept
      <4> HIDE DEF Routes
      <4>3. Len(bridges) \in Nat
        BY <4>1, <4>2
      <4> QED BY <3>3, <4>1, <4>2, <4>3
    <3> QED BY <3>2, <3>3 DEF LoadInv
  <2>4. \A m \in DOMAIN resolved : resolved[m] \in [from : End, to : End]
    <3>1. resolved \in Seq(Looked)
      BY DEF LoadInv
    <3>2. \A m \in DOMAIN resolved : resolved[m] \in Looked
      BY <3>1
    <3> QED BY <3>2, Zenon DEF Looked
  <2> QED BY <2>1, <2>2, <2>3, <2>4 DEF LoadInv, Typed, TypeOK
<1> QED BY <1>1, LoadInvariance, PTL

\* For any files, however many include one another's names and however many of them
\* cannot be read: once all are merged, a name means what the first readable document
\* that defines it says (config_load_file, config_find_connector).
THEOREM FirstDefinition == Spec => []FirstDefinitionCounts
<1>1. LoadInv => FirstDefinitionCounts
  <2> SUFFICES ASSUME LoadInv, pc \in {"resolve", "done"} PROVE FirstDefinitionCounts
    BY DEF FirstDefinitionCounts
  <2>1. Typed /\ Merged(table, Len(Documents))
    BY DEF LoadInv
  <2>2. DOMAIN Documents = 1 .. Len(Documents)
    BY <2>1, DocumentsAre
  <2>3. \A name \in Names, kind \in Kinds :
            Find(name) = kind <=> Means(Len(Documents), name, kind)
    BY <2>1, FindIsFindIn, Zenon DEF Merged
  <2> QED BY <2>2, <2>3, Zenon DEF FirstDefinitionCounts, Means, Kinds
<1> QED BY <1>1, LoadInvariance, PTL

\* A name that has been found once keeps its meaning, whatever is merged after.
THEOREM StableMeaning == Spec => MeaningIsStable
<1>1. LoadInv /\ [Next]_vars =>
          [\A name \in Names : Find(name) # "MISSING" => Find(name)' = Find(name)]_vars
  <2> SUFFICES ASSUME LoadInv, Next, NEW name \in Names, Find(name) # "MISSING"
               PROVE  Find(name)' = Find(name)
    BY Zenon
  <2>1. CASE LoadMain
    <3>1. table = <<>>
      BY <2>1 DEF LoadInv, LoadMain
    <3>2. Find(name) = "MISSING"
      BY <3>1 DEF Find
    <3> QED BY <3>2
  <2>2. CASE MergeInclude
    <3>1. /\ Typed /\ table \in Seq(Entries) /\ n \in Nat /\ n >= 1 /\ n <= Len(main.includes)
          /\ table' = table \o Rows(file[main.includes[n]])
      <4>1. Typed /\ n \in 1 .. Len(main.includes) + 1 /\ n \in Nat /\ Merged(table, n)
        BY <2>2 DEF LoadInv, MergeInclude
      <4>2. Len(main.includes) \in Nat
        BY <4>1, DocumentPlaces
      <4> QED BY <2>2, <4>1, <4>2 DEF MergeInclude, Merged
    <3>2. file[main.includes[n]] \in Docs
      <4>1. main.includes[n] \in Paths
        BY <3>1, DocumentPlaces, Zenon
      <4> QED BY <3>1, <4>1 DEF Typed, Docs
    <3>3. Rows(file[main.includes[n]]) \in Seq(Entries)
      BY <3>2, RowsKept
    <3>4. FindIn(table', name) = FindIn(table, name)
      BY <3>1, <3>3, FindAppended, FindIsFindIn
    <3> QED BY <3>4, FindIsFindIn
  <2>3. CASE LoadMainFails \/ SkipInclude \/ LoadDone \/ Resolve \/ ResolveDone
    <3>1. table' = table
      BY <2>3 DEF LoadMainFails, SkipInclude, LoadDone, Resolve, ResolveDone
    <3> QED BY <3>1, FindIsFindIn
  <2> QED BY <2>1, <2>2, <2>3 DEF Next
<1> QED BY <1>1, LoadInvariance, PTL DEF Spec, MeaningIsStable
(***************************************************************************)
(* What the validator accepts.                                             *)
(***************************************************************************)

\* All the parameters of a connector or a bridge: its own keys, and those of the items of
\* its list, of which none is lost.
LEMMA AcceptedKept ==
    ASSUME NEW type \in Parsed, NEW params, IsParams(params), IsPlain(params),
           ParamsOk(type, params)
    PROVE  Parse(type, params) = AsValidated(type, params)
<1> DEFINE items == params.items
<1>1. Members(Fields(type), params.fields) = Meanings(Fields(type), params.fields)
  <2>1. Fits(Schema(type), params.fields)
    BY DEF ParamsOk
  <2>2. \A k \in DOMAIN params.fields : params.fields[k] \in Scalar /\ Plain(params.fields[k])
    BY DEF IsParams, IsPlain
  <2> QED BY <2>1, <2>2, AcceptedFieldsKept
<1>2. /\ items \in Seq(Range(items))
      /\ \A m \in DOMAIN items : items[m].isMap \in BOOLEAN /\ items[m].isMap
  BY Zenon DEF IsParams, ParamsOk
<1>3. Mappings(items) = items
  <2>1. \A m \in DOMAIN items : items[m].isMap = TRUE
    BY <1>2
  <2> QED BY <1>2, <2>1, MappingsWhole
<1>4. ASSUME NEW m \in DOMAIN items
      PROVE  Members(ItemFields(type), items[m].fields)
             = Meanings(ItemFields(type), items[m].fields)
  <2>1. /\ Fits(ItemSchema(type), items[m].fields)
        /\ \A k \in DOMAIN items[m].fields :
              items[m].fields[k] \in Scalar /\ Plain(items[m].fields[k])
    BY Zenon DEF ParamsOk, IsParams, IsPlain
  <2>2. CASE type \in {"spi", "mqtt", "modbus-tcp", "modbus-rtu", "http-server"}
    BY <2>1, <2>2, AcceptedItemsKept
  <2>3. CASE type \in {"uart", "bridge"}
    <3>1. DOMAIN ItemFields(type) = {}
      BY <2>3 DEF ItemFields
    <3> QED BY <3>1 DEF Members, Meanings
  <2> QED BY <2>2, <2>3 DEF Parsed
<1> HIDE DEF items
<1>5. [m \in DOMAIN items |-> Members(ItemFields(type), items[m].fields)]
      = [m \in DOMAIN items |-> Meanings(ItemFields(type), items[m].fields)]
  BY <1>4
<1> QED BY <1>1, <1>3, <1>5, Zenon DEF Parse, AsValidated, items

\* Every accepted document can be read, and every bridge of the main file is there and
\* has been looked at.
LEMMA AcceptedDocuments ==
    ASSUME LoadInv, pc = "done", Accepted
    PROVE  /\ \A d \in DOMAIN Documents : Documents[d] \in Docs /\ Documents[d].readable
           /\ bridges = [m \in DOMAIN main.bridges |-> Route(main.bridges[m])]
           /\ Len(resolved) = Len(main.bridges) /\ DOMAIN resolved = DOMAIN main.bridges
           /\ warned = {}
<1> DEFINE rows == main.bridges
<1>1. /\ Typed /\ bridges = Routes(main) /\ n \in 1 .. Len(bridges) + 1 /\ n > Len(bridges)
      /\ Len(resolved) = n - 1 /\ resolved \in Seq(Looked)
  BY DEF LoadInv
<1>2. main \in Docs /\ Documents \in Seq(Docs) /\ DOMAIN Documents = 1 .. Len(Documents)
      /\ 1 \in DOMAIN Documents /\ Documents[1] = main
  BY <1>1, DocumentsAre, DocumentPlaces DEF Typed, Docs
<1>3. \A d \in DOMAIN Documents : Documents[d] \in Docs /\ Documents[d].readable
  <2>1. \A d \in DOMAIN Documents : Documents[d] \in Docs
    BY <1>2
  <2> QED BY <2>1 DEF Accepted, Merges
<1>4. rows \in Seq(Range(rows)) /\ \A m \in DOMAIN rows : rows[m].isMap
  <2>1. rows \in Seq(Range(rows))
    BY <1>2, DocumentLists
  <2> QED BY <1>2, <2>1, Zenon DEF Accepted, SchemaOk
<1>5. bridges = [m \in DOMAIN rows |-> Route(rows[m])]
  BY <1>1, <1>2, <1>4, RoutesKept
<1>6. Len(resolved) = Len(rows) /\ DOMAIN resolved = DOMAIN rows
  <2> HIDE DEF rows
  <2>1. Len(rows) \in Nat /\ DOMAIN rows = 1 .. Len(rows)
    BY <1>4
  <2>2. Len(bridges) = Len(rows)
    BY <1>5, <2>1
  <2>3. DOMAIN resolved = 1 .. Len(resolved)
    BY <1>1
  <2>4. Len(resolved) = Len(rows)
    BY <1>1, <2>1, <2>2
  <2> QED BY <2>1, <2>3, <2>4, Zenon
<1>7. warned = {}
  <2> SUFFICES ASSUME NEW p \in warned PROVE FALSE
    OBVIOUS
  <2>1. PICK j \in DOMAIN main.includes : main.includes[j] = p /\ ~file[p].readable
    BY DEF LoadInv
  <2>2. Documents[j + 1] = file[p] /\ j + 1 \in DOMAIN Documents
    <3>1. main.includes \in Seq(Paths)
      BY <1>2, DocumentLists
    <3>2. j \in Nat /\ j >= 1 /\ j <= Len(main.includes)
      BY <3>1
    <3> QED BY <1>1, <1>2, <2>1, <3>2, DocumentPlaces, Zenon
  <2> QED BY <1>3, <2>1, <2>2
<1> QED BY <1>3, <1>5, <1>6, <1>7 DEF rows

\* A name that any accepted document defines is found, and is what a document defines it
\* to be.
LEMMA AcceptedName ==
    ASSUME LoadInv, pc = "done", Accepted,
           NEW name \in UNION {ConnectorIds(Documents[d]) : d \in DOMAIN Documents}
    PROVE  \E d \in DOMAIN Documents : Defines(Documents[d], name, Find(name))
<1>0. PICK d \in DOMAIN Documents : name \in ConnectorIds(Documents[d])
  OBVIOUS
<1>1. PICK m \in DOMAIN Documents[d].connectors : Documents[d].connectors[m].name = name
  BY <1>0 DEF ConnectorIds
<1>2. /\ Typed /\ Merged(table, Len(Documents)) /\ DOMAIN Documents = 1 .. Len(Documents)
      /\ Len(Documents) \in Nat /\ Documents[d] \in Docs /\ Documents[d].readable
  <2>1. Typed /\ Merged(table, Len(Documents))
    BY DEF LoadInv
  <2>2. Documents \in Seq(Docs) /\ DOMAIN Documents = 1 .. Len(Documents)
    BY <2>1, DocumentsAre
  <2> QED BY <2>1, <2>2, AcceptedDocuments
<1>3. name \in Names
  BY <1>1, <1>2, DocumentLists
<1>4. Defines(Documents[d], name, KindOf(Documents[d].connectors[m].type))
  <2>1. Documents[d].connectors[m].isMap
    BY Zenon DEF Accepted, SchemaOk
  <2> QED BY <1>1, <2>1, Zenon DEF Defines
<1>5. PICK kind \in Kinds : Means(Len(Documents), name, kind)
  BY <1>2, <1>4, FirstDefines
<1>6. Find(name) = kind
  BY <1>2, <1>3, <1>5, FindIsFindIn, Zenon DEF Merged
<1> QED BY <1>2, <1>5, <1>6, Zenon DEF Means

\* For any files: what scripts/validate_cfg.py accepts gives the daemon every bridge of the
\* main file, with both of its ends (config_load_file, prepare_bridge_runtime_t).
THEOREM AcceptedResolve == Spec => []AcceptedBridgesResolve
<1>1. LoadInv => AcceptedBridgesResolve
  <2> SUFFICES ASSUME LoadInv, pc = "done", Accepted
               PROVE  /\ Len(resolved) = Len(main.bridges) /\ warned = {}
                      /\ \A m \in DOMAIN resolved :
                            /\ \E d \in DOMAIN Documents :
                                  Defines(Documents[d], main.bridges[m].from,
                                          resolved[m].from)
                            /\ \E d \in DOMAIN Documents :
                                  Defines(Documents[d], main.bridges[m].to, resolved[m].to)
    BY Zenon DEF AcceptedBridgesResolve
  <2>1. Len(resolved) = Len(main.bridges) /\ warned = {}
    BY AcceptedDocuments, Zenon
  <2>2. ASSUME NEW m \in DOMAIN resolved
        PROVE  /\ \E d \in DOMAIN Documents :
                     Defines(Documents[d], main.bridges[m].from, resolved[m].from)
               /\ \E d \in DOMAIN Documents :
                     Defines(Documents[d], main.bridges[m].to, resolved[m].to)
    <3> DEFINE row == main.bridges[m]
               known == UNION {ConnectorIds(Documents[d]) : d \in DOMAIN Documents}
    <3>1. m \in DOMAIN main.bridges /\ bridges[m].from = row.from /\ bridges[m].to = row.to
      BY <2>2, AcceptedDocuments DEF Route
    <3>2. resolved[m].from = Find(row.from) /\ resolved[m].to = Find(row.to)
      <4>1. resolved[m] = [from |-> Find(bridges[m].from), to |-> Find(bridges[m].to)]
        BY <2>2 DEF LoadInv
      <4> QED BY <3>1, <4>1
    <3>3. 1 \in DOMAIN Documents /\ Documents[1] = main
      <4>1. Typed
        BY DEF LoadInv
      <4> QED BY <4>1, DocumentPlaces, Zenon
    <3>4. row.from \in known /\ row.to \in known
      <4>1. {row.from, row.to} \subseteq known
        BY <3>1, <3>3, Zenon DEF Accepted, CrossChecks
      <4> HIDE DEF row, known
      <4> QED BY <4>1
    <3>5. /\ \E d \in DOMAIN Documents : Defines(Documents[d], row.from, Find(row.from))
          /\ \E d \in DOMAIN Documents : Defines(Documents[d], row.to, Find(row.to))
      BY <3>4, AcceptedName, Zenon
    <3> QED BY <3>2, <3>5, Zenon
  <2> QED BY <2>1, <2>2
<1> QED BY <1>1, LoadInvariance, PTL

\* For any files: the parameters that the schemas accept, written plainly, reach the daemon
\* with the values the validator checked, every key of a member it has and every item
\* (parse_connectors_map, parse_bridges and the parsers they call).
THEOREM AcceptedArrive == Spec => []AcceptedParamsArrive
<1>1. LoadInv => AcceptedParamsArrive
  <2> SUFFICES ASSUME LoadInv, pc = "done", Accepted PROVE AcceptedParamsArrive
    BY DEF AcceptedParamsArrive
  <2>1. /\ Typed /\ Merged(table, Len(Documents))
        /\ \A d \in DOMAIN Documents : Documents[d] \in Docs /\ Documents[d].readable
        /\ bridges = [m \in DOMAIN main.bridges |-> Route(main.bridges[m])]
    BY AcceptedDocuments DEF LoadInv
  <2>2. DOMAIN Documents = 1 .. Len(Documents) /\ 1 \in DOMAIN Documents
        /\ Documents[1] = main
    BY <2>1, DocumentPlaces, Zenon
  <2>3. ASSUME NEW d \in DOMAIN Documents, NEW m \in DOMAIN Documents[d].connectors,
               Documents[d].connectors[m].type \in Parsed,
               IsPlain(Documents[d].connectors[m].params)
        PROVE  \E e \in DOMAIN table :
                  /\ table[e].name = Documents[d].connectors[m].name
                  /\ table[e].params = AsValidated(Documents[d].connectors[m].type,
                                                   Documents[d].connectors[m].params)
    <3> DEFINE row == Documents[d].connectors[m]
    <3>1. row.isMap /\ ParamsOk(row.type, row.params)
      BY Zenon DEF Accepted, SchemaOk
    <3>2. IsParams(row.params)
      BY <2>1, DocumentLists
    <3>3. PICK e \in DOMAIN table : table[e] = Entry(row)
      BY <2>1, <2>2, <3>1, Zenon DEF Merged
    <3> HIDE DEF row
    <3>4. Parse(row.type, row.params) = AsValidated(row.type, row.params)
      BY <2>3, <3>1, <3>2, AcceptedKept DEF row
    <3>5. table[e].name = row.name /\ table[e].params = AsValidated(row.type, row.params)
      BY <3>3, <3>4 DEF Entry
    <3> QED BY <3>5, Zenon DEF row
  <2>4. ASSUME NEW m \in DOMAIN main.bridges, IsPlain(main.bridges[m].params)
        PROVE  bridges[m].params = AsValidated("bridge", main.bridges[m].params)
    <3>1. ParamsOk("bridge", main.bridges[m].params)
      BY <2>2, Zenon DEF Accepted, SchemaOk
    <3>2. IsParams(main.bridges[m].params) /\ "bridge" \in Parsed
      BY <2>1, DocumentLists DEF Typed, Docs, Parsed
    <3>3. Parse("bridge", main.bridges[m].params)
          = AsValidated("bridge", main.bridges[m].params)
      BY <2>4, <3>1, <3>2, AcceptedKept
    <3> QED BY <2>1, <3>3 DEF Route
  <2> QED BY <2>3, <2>4, Zenon DEF AcceptedParamsArrive
<1> QED BY <1>1, LoadInvariance, PTL
=============================================================================
