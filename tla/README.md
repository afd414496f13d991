# Verification of the iotgwd gateway

TLA+ modules, TLC configurations and TLAPS proofs about `iotgwd`, the daemon of
this repository, which reads answers from SPI devices and publishes them to an
MQTT broker, and about the connectors written for it. C sources are in
`meta-iotgw/recipes-iotgw/iotgwd/iotgwd/src/` (named here without their
directory); the validator is `scripts/validate_cfg.py`.

## 1. The system

| Part | State it keeps | Operations | Used by |
|---|---|---|---|
| Daemon (`main.c`, `app.c`) | stop and reload flags, the loaded configuration, the array of running bridges | `app_run`: load, start all, wait, stop all, reload; three signal handlers | the operator, by signals |
| Bridges (`bridge.c`) | per bridge: connectors found, source and destination runtime, sender, transform | `prepare_bridge_runtime_t`, `gw_bridge_start`, `gw_bridge_stop` | the daemon |
| SPI connector (`conn_spi.c`) | descriptor, copy of the parameters, callback and its user, polling thread and its stop flag | open, one pass over the transactions, start and stop polling, close, `on_spi_rx` | bridges; its own thread |
| MQTT connector (`conn_mqtt.c`) | a mosquitto client with its network thread; one static callback glue for all | connect, publish, close | bridges; the SPI thread publishes |
| HTTP connector (`conn_http_server.c`) | a libmicrohttpd daemon, an accumulator for each request, the callback | `on_access`, register the callback, start, stop, `on_http_rx` | nobody yet |
| UART connector (`conn_uart.c`) | a descriptor; the port keeps its termios settings | open, apply settings, write, read a packet, close | nobody yet |
| Configuration loader (`config_loader.c`, `connector_registry.c`, `adapters.c`, `params_parsers.c`) | table of connectors, list of bridges | load with includes, find a connector, free | the daemon |
| Validator (`validate_cfg.py`) | none | load, merge, schema, cross checks | the operator and CI, by hand |

A bridge's data path is: polling thread -> `spi_run_transactions` ->
`spi_exec_transaction` -> `on_spi_rx` -> `spi_to_mqtt_default` ->
`mqtt_send_adapter` -> libmosquitto -> broker. The main thread shares with it the
runtimes, the configuration and the stop flag, without locks: safety rests on
the order of `pthread_join`, `close`, `mqtt_close` and `free`.

What is hard here: signals at any point of a start or a stop; threads working
while the main thread releases things; a start that fails half-way and leaves a
slot to the next bridge; pointers into a configuration that a reload frees;
allocation or system calls failing with resources already taken; connections
lost, and noticed late, under a library that reconnects by itself; byte streams
cut anywhere. What makes each part correct:

- daemon and bridges: nothing is used after release, no thread is lost, what
  was started is released, every signal takes effect;
- SPI: buffers balance on every path, what is sent is what the file says,
  answers are published once and in order;
- MQTT: at most once and in order, nothing lost without a cause, a reload does not
  mix old and new answers, the shared library is given back, connections settle;
- HTTP: whole bodies once, every request answered unless its first call had no memory,
  nothing forgotten but in four known ways;
- UART: framing as asked whatever the port was left with, no descriptor leaked,
  exactly the first frame, and of many frames only those that a call gave up on lost;
- configuration: a name has one meaning, what the validator accepts resolves, and
  its parameters reach the connectors as the validator took them.

`PROJECT.json` lists the hazards one by one, each with its line and the
properties about it.

## 2. The modules

| Module | Models |
|---|---|
| `Gateway` | `app.c` and `bridge.c`, with what their calls do to SPI device and thread, MQTT client, runtimes and configuration |
| `GatewayService` | abstract: what the daemon promises its operator |
| `SpiTransaction` | one `spi_run_transactions`, from the parsed item to the published bytes |
| `MqttLink` | publications from `mqtt_send_adapter` to the subscribers, for several bridges and across reloads |
| `LossyChannel` | abstract: at most once, in order |
| `HttpAccess` | `on_access`, its accumulators, the callback, start and stop of the server |
| `UartPort` | `uart_open` with the settings, `uart_write`, `uart_close` |
| `UartPacket` | one call of `uart_read_packet` |
| `UartStream` | many calls on one line, with a sender of frames at its other end; refines `LossyChannel` |
| `Parameters` | all `parse_*_params` and the options of a bridge, and the schemas that check the same keys |
| `ConfigMerge` | `config_load_file`, look-up of a bridge's ends, and when the validator is content |
| `...Proof` | the theorems about `Gateway`, `MqttLink`, `HttpAccess`, `SpiTransaction`, `UartPort`, `UartStream` and `ConfigMerge` with `Parameters` |
| `Recursion` | induction over the naturals and the values of recursive functions, for the proofs about loops |
| `MC...` | constants for TLC |

In every module an action is one C call or one branch of a loop, its guard the
conditions on the way, and `pc` (or `phase`) where the thread is. Failing calls
are alternatives of the same action or an action of their own (`...Fails`).
Actions whose comment begins with "A slip" are not part of `Next`: they are
plausible bugs, used to see that the properties notice them.

**Gateway.** The i-th entry of the g-th configuration loaded is the *attempt*
`<<g, i>>`. Every object that `prepare` and `start` create belongs to one attempt,
so heap objects, descriptors, threads and clients are functions on attempts;
`arr` and `count` are the array of runtimes and `running_count`, and `user[a]` is
the slot whose address was handed to `on_spi_rx`. `Prepare` to `StartPolling` are
the steps of `start_all_bridges`, `StopBridge` to `FreeCfg` those of a stop. The
polling thread of an attempt runs `PollCheck`, `PollReceive` or `PollNothing`,
`PollPublish`, `PollSleep`. Signal handlers (`Terminate`, `Hup`) and the operator
(`Edit`) act between any two steps. The flags are read and written in single
steps: they are aligned words and the code reads each at one place; `stop` is
never cleared and `reload` only by the main thread. When `app_run` returns the
process ends, and the threads with it.

`GatewayService` says the same in five kinds of steps: adopt a configuration, start
bridges, drain, finish each, adopt again or end. `Gateway!ImplementsService` maps
`phase` to groups of `pc`, `version` to `loadedVer` and `active` to the attempts
with a thread not yet joined.

**SpiTransaction.** `Parsed` is what the parameter parser keeps of an item,
`HexBytes` the hexadecimal parser, one character after the other, `Message` the three shapes of
`spi_send_once`; `heap` is the set of buffers allocated. The bytes a device answers
are symbolic (which transaction, which clock). The branch of
`spi_exec_transaction` for a `tx` that cannot be parsed (337-339) is unreachable
after the parser's regular expression, and not in the model.

**MqttLink.** Every start of a bridge is an element of `Bridges` with a generation:
`start_all_bridges` starts those of one generation one after the other, and those of
the next only when all running ones have been closed. `link[b]` is what the client of
b believes of its connection; "dead" is a connection that is lost and not yet
noticed, when publications are accepted and go nowhere. An "orphan" is a bridge whose
source failed and whose client nobody closes. `libRefs` counts `mosquitto_lib_init`
against `mosquitto_lib_cleanup` on every path of `mqtt_connect_from_config` and
`mqtt_close`. A CONNECT travels like a packet (number 0), so that a client can publish
before the broker has admitted it, and a connection that is closed can still deliver
what it had sent. The network, libmosquitto's thread and the broker are external: the
thread reconnects, the broker closes the older of two connections with one client id.
`accepted` and `got` are history variables.

**HttpAccess.** libmicrohttpd calls `on_access` once for the headers, then for data,
then once more, from one thread (`MHD_USE_INTERNAL_POLLING_THREAD`), so calls for
different requests interleave but do not overlap. Each action is a branch of
`on_access`; the server starts before the callback is registered and may stop with
requests open. An answer may be refused (`Queue`): `MHD_queue_response` takes none in the
middle of an upload or without memory, and `on_access` passes its MHD_NO on, which closes
the connection. `stalled` marks a connection whose latest call neither consumed its data
nor, at the end of the body, queued an answer: libmicrohttpd may call again, or not.

**UartPort, UartPacket, UartStream.** The termios structure is a record of the flags
that decide framing and flow control; `VTIME` keeps its 8 bits. In `UartPacket` each
`read` is a step that delivers bytes, times out or fails. `IsFrame` defines the first
frame on a line without window or buffer and is the reference for the algorithm.
`UartStream` puts that call on a line: either noise, any bytes at all, or a sender that
uses the same parameters and sends frames whose payload does not imitate the start
sequence (`Payloads`). A call that gives up loses what it has read; the next ones have
to find the beginning of the next frame.

**Parameters, ConfigMerge.** Documents are records as the YAML parsers yield them, a
scalar is its text with the value and the class YAML 1.1 gives it. `Parse` is the
daemon's half, one table per type: which key, converted by what into a member of what
width. `Fits` is the validator's half, one table per schema. `ConfigMerge` is a state
machine over the files in their order, with each connector's and bridge's parameters
parsed on the way; the validator's half is the predicate `Accepted`.

## 3. The runs

| Run | Instance | Shows |
|---|---|---|
| `gateway` | 2 bridges (both start; one of another kind first; dangling and unsupported ends; an invalid file), 1 SIGHUP, 1 edit; 294,706 states | `TypeOK`, `WorkersUseLiveObjects`, `NoForgottenThread`, `StartedBridgesReleased`, `ImplementsService` |
| `gateway_live` | 1 bridge, 2 SIGHUPs, 2 edits, fairness | `HupTakesEffect`, `StopTakesEffect` |
| `uart_port` | every setting given, unset or refused, 2 leftover states, 2 bytes to write; 130,176 states | `TypeOK`, `OpenedAsAsked`, `NoDescriptorLeft`, `WritesPrefix` |
| `uart_packet` | 2 byte values, 49 packet formats, a buffer of 3; noise of 7 bytes, or 3 frames with 2 calls that give up; 70,358 states | `TypeOK`, `ReturnsFirstFrame`, `NoFrameMissed`, `OnlyTornFramesLost`, `ImplementsLine` |
| `spi` | transactions of every shape with a second one after them, transfers up to 3 bytes; 61,486 states | `TypeOK`, `BuffersBalanced`, `SendsWhatIsWritten`, `PublishesEachAnswer` |
| `config` | 3 names, 8 types, main file and 2 includes, parameters of every parsed type at and beyond the ends of their ranges and in other spellings; 58,032 states | `TypeOK`, `FirstDefinitionCounts`, `MeaningIsStable`, `AcceptedBridgesResolve`, `AcceptedParamsArrive` |
| `mqtt` | 2 bridges of one configuration, or before and after a reload, 7 ways to name their clients, 2 answers each, every step of a start failing, 1 lost connection, fairness; 266,121 states | `TypeOK`, `NothingElseLost`, `LibraryHeld`, `NoOldAfterNew`, `ImplementsChannel`, `ConnectionsSettle` |
| `http` | 2 requests of 5 kinds, bodies up to 4 bytes, 2 failing allocations for each, fairness; 244,980 states | `TypeOK`, `AccumulatorSound`, `WholeBodyOnce`, `LeaksAccounted`, `Answered` |
| `gateway_callback`, `uart_timeout`, `spi_chip_select`, `mqtt_qos` | as above or smaller | four disagreements, section 6 |

Why the bounds are enough. In `gateway`, two entries give every pair of a failing
and a starting bridge, in particular the reuse of a slot, and one reload every
pair of successive configurations; the theorems of section 5 hold for all bounds.
Two SIGHUPs let one arrive while another is served. Words of 7 over two byte
values hold a start sequence of 3 that is met only after a false start, and an
end that overlaps it; a buffer of 3 is smaller than some frames. Three frames with two
calls giving up let a call lose its frame, the next one begin in the middle of it or
at the one after, and the third be received: 12 bytes (`MaxTaken`) are more than a call
can find before it ends. An SPI limit of 3 bytes (4096 in the code) has lengths below,
at and above it, and strings shorter and longer than it, also with an odd digit. A
first accumulator of 2 bytes (1024 in the code) has to double for bodies of 4. One lost
connection and the take-overs of a shared name between two clients reach every pair of
link states. Parameters stand one set to a main file, since parsers keep no state from
one to the next.

Fairness. `Gateway`: weak fairness of the main thread and of each polling thread,
which Linux's scheduler gives every runnable thread; SPI transfers and
libmosquitto calls are taken to return. Nobody is obliged to send a signal.
`MqttLink`: weak fairness of the library's network thread and of the broker, none
of bridges or of losses; a bound on losses means "once the network loses no more
connections". `HttpAccess`: weak fairness of the polling thread's calls for a connection
that is not stalled, and of the arrival of a body the client announced, unless it
disconnects. A stalled connection is owed no call: libmicrohttpd only warns that a handler
which leaves its upload unprocessed without suspending the connection may hang it.

Deadlock checking is on for `Gateway` and `UartStream`, and off where the system
really stops: one pass, one port, one load, a bounded number of answers, one request
for each connection.

## 4. Validity of the properties

For every property of a passing run `PROJECT.json` names a slip in a mapped
definition that makes TLC find the property violated: a join left out, a flag
cleared too late, an error path that forgets a buffer, a window that restarts
instead of shifting, a default not applied, and the like.

## 5. The proofs

Each proof module states what holds for every value of its component's constants,
from the assumptions the component names (`...Assumption`) only. In each, none of the
properties is inductive as it stands; `Invariance`, `Spec => []IInv`, proves the
strengthening `IInv` action by action, and the theorems follow from it. Where a second
strengthening is built upon it, it has a name of its own (`RoomInv`, `WireInv`, `LineInv`),
and so has that of the loader, `LoadInv`.

Loops inside one step of a model are recursive functions (`HexBytes`, `Grown`,
`Mappings`). `Recursion` says of sets and functions what is needed to prove about them:
a set of naturals that is not empty has a smallest element (`SmallestOf`), what is true
of 0 and kept by each of n steps is true of n (`Induction`), and the values a loop goes
through exist, so that the recursive definition is one (`CourseExists`).

| Module | Theorem | Statement |
|---|---|---|
| `GatewayProof` | `TypeCorrect` | `Spec => []TypeOK` |
| | `WorkersSafe` | `Spec => []WorkersUseLiveObjects` |
| | `NoThreadForgotten` | `Spec => []NoForgottenThread` |
| | `ReleasedWhenStopped` | `Spec => []StartedBridgesReleased` |
| | `Implementation` | `Spec => ImplementsService` |
| `MqttLinkProof` | `TypeCorrect` | `Spec => []TypeOK` |
| | `LibraryKept` | `Spec => []LibraryHeld` |
| | `NoneLost` | `Spec => []NothingElseLost` |
| | `OldBeforeNew` | `Spec => []NoOldAfterNew` |
| | `Implementation` | `Spec => ImplementsChannel` |
| `HttpAccessProof` | `TypeCorrect` | `Spec => []TypeOK` |
| | `AccumulatorsSound` | `Spec => []AccumulatorSound` |
| | `LeaksNamed` | `Spec => []LeaksAccounted` |
| | `BodyWholeOrNot` | `Spec => []WholeBodyOnce` |
| `SpiTransactionProof` | `TypeCorrect` | `Spec => []TypeOK` |
| | `BytesAsWritten` | `Spec => []SendsWhatIsWritten` |
| | `BuffersReturned` | `Spec => []BuffersBalanced` |
| | `EachAnswerPublished` | `Spec => []PublishesEachAnswer` |
| `UartPortProof` | `TypeCorrect` | `Spec => []TypeOK` |
| | `FramedAsAsked` | `Spec => []OpenedAsAsked` |
| | `DescriptorReturned` | `Spec => []NoDescriptorLeft` |
| | `PrefixWritten` | `Spec => []WritesPrefix` |
| `UartStreamProof` | `TypeCorrect` | `StreamSpec => []TypeOK` |
| | `FirstFrameReturned` | `StreamSpec => []ReturnsFirstFrame` |
| | `NoneMissed` | `StreamSpec => []NoFrameMissed` |
| | `FramesKept` | `StreamSpec => []OnlyTornFramesLost` |
| | `Implementation` | `StreamSpec => ImplementsLine` |
| `ConfigMergeProof` | `TypeCorrect` | `Spec => []TypeOK` |
| | `FirstDefinition` | `Spec => []FirstDefinitionCounts` |
| | `StableMeaning` | `Spec => MeaningIsStable` |
| | `AcceptedResolve` | `Spec => []AcceptedBridgesResolve` |
| | `AcceptedArrive` | `Spec => []AcceptedParamsArrive` |
| | `AcceptedFieldsKept`, `AcceptedItemsKept` | the daemon's parsers keep what a schema accepts |

With these, every invariant, action property and refinement that a run finds to hold is
also a theorem; what is left to TLC is at the end of this section.

**Gateway**, for every set `Contents`, any number of bridges, signals and edits. That a
thread's objects are live says nothing of the slot the stop loop will look in. `IInv`
adds what the code relies on silently. `StartLoop`: the slot being filled is beyond
those that count, and entries before `i` filled no more slots than there are. `Trying`:
what the current attempt holds at each step. `UnjoinedThreads` (by `Owned`): a thread
not joined works through a slot that counts, holds that very attempt, and is still
ahead of the stop loop. `JoinedThreads`: what was joined is released, or is the one
being released. `ThreadsOfThePast`: entries not yet reached have no thread, so creating
one overwrites none. `LoadsCounted`: each load but the first uses up a SIGHUP, which
keeps `gen` within its bound. The step is proved action by action (`TypeStep` for types,
`MainStep`, `PollStep`, `EnvironmentStep`), with `OthersKept` for the many steps of the
start loop that leave the bridges already started alone. `Implementation` maps each
action to a step of `GatewayService` or to stuttering, under `IInv`.

**MqttLink**, for any finite set of bridges, any names, reloads, answers and losses.
`Linked`: from what state of a bridge it has a client. `Ordered`: what has arrived and
what is on its way form one chain of growing numbers (`Chain`), the CONNECT first, so
that `Deliver` takes the next one: this is the refinement of `LossyChannel`. `Owned`: a
client that has been admitted and can still get something through is the one the broker
holds under its name, so that a client admitted later has ousted it: this gives
`NoOldAfterNew`. `NoLoss`: without lost connections and shared names every connection
is up. `LibraryHeld` is inductive with `Linked`, by what adding and removing a bridge
does to a cardinality.

**HttpAccess**, for any number of connections and any requests. `Progress`: where a
request is decides what `on_access` has done of it; `Collected`: a live accumulator holds
exactly the part of the body that has been taken. From these, an accumulator is
pointed to while it lives (`Pointed`), a body is whole when it is handed on (`Whole`),
and a way of leaving one behind has a name (`Accounted`). All are per connection, and
an action leaves the connections it is not about alone. `RoomInv`, proved upon `IInv`:
what is collected, with its terminator, fits the room. It rests on `GrownSuffices`, that
doubling a room often enough gets it beyond any length and that the loop stops there.

**SpiTransaction**, for lists of any length. `Buffers` says for each place of the pass
which buffers are allocated, `Done` what has become of the transactions before and what
`rx_buf` holds, `InOrder` that publications are those of growing indices that succeeded.
`WireInv`, proved upon it: what is sent is `tx_buf`. `HexBytesPairs` says what the
hexadecimal parser has made of the first characters of a text, whatever they are, by what
one more character does (`HexStepAfter`): the pairs of its digits, until as many bytes as
there is room for. `BytesAsWritten` puts this beside the definition of the property, which
knows of no parser.

**UartPort**, for all parameters, leftover settings, buffers and timeouts. `Progress`: the
descriptor and the result follow the place in `uart_open`; `Settled`: the speed is set
before the framing and neither is touched afterwards; `Writing`: no wait begins after
the bound has passed.

**UartStream**, for all packet parameters, sizes of `out_buf` and lines, and however many
calls. The definitions of a frame are first repeated position by position (`EndsAt`,
`Begins`, `Follows`): `CompleteFrame`, `NoneComplete` and `NoStartNoFrame` say by them what a
frame is and when there is none. `Seeking`: the window is the end of what the call has
read, and no start sequence ends in what it has read. `Collecting`: the buffer is what
came since the first start sequence, and shows no end. `Returned`: how the latest call
returned agrees with what it read.

For many calls on a sender's line, `LineInv` relates the running call to what is left on
the line, and says nothing of a noisy one but that it stays `Silent`. `OnTheWire`: what
has not been read is the rest of the latest frame. `Behind`: what a call that looks for a
start has read, with that rest, is the end of two consecutive frames, and a call that a
frame's start has passed by began after the frame's first byte. `Within`: what a call has
collected, with that rest, is the frame's payload and end. `InTime`: a frame in the middle
of which the line stands is read by a call that was there for its beginning, or has been
given up on. `Received`: a frame is returned only after the whole of it was read. The
argument turns on `StartPlace`: as no payload imitates the start sequence, it is seen in
two consecutive frames only where one of them begins, also where it would reach across
from one frame into the next.

**ConfigMerge**, for any files. First, of `Parameters`: for each key of each table the
conversion *suits* the schema (`Suits`), which is that the member holds the range the
schema allows, and a word the schema allows is one the parser knows. `SuitableKeeps` is
that a suitable conversion succeeds and keeps a value that is written plainly and of the
width of an int; `AcceptedFieldsKept` and `AcceptedItemsKept` put keys and items together,
and `AcceptedKept` lists, of which none is lost as all are mappings (`MappingsKept`,
`MappingsWhole`).

Then the loader. `Merged(tb, j)` is what a table knows after j documents: a name is found in
it just if one of them defines it, as what the first of them does, and every connector of a
readable document has an entry. `MergedNext` is the step from j to j + 1, for a document that
is read and for one that is not; `FindAppended`, that a name once found keeps its meaning
when entries are appended, is most of it and also `StableMeaning`. `LoadInv` says how many
documents have been merged and how many bridges looked up at each place, and that only
includes that cannot be read are warned about. What the validator accepts can all be read
(`AcceptedDocuments`), so that each end of a bridge is defined by a document, by a first one
therefore (`FirstDefines`), and found (`AcceptedName`).

Only model-checked: the liveness properties (`HupTakesEffect`, `StopTakesEffect`,
`ConnectionsSettle`, `Answered`), since the prover has no backend for fairness and
ENABLED.

## 6. What the runs found

1. `gateway_callback` (`CallbackTargetLive`). A bridge whose source fails to open leaves
   its MQTT client connected, with no one to close it (bridge.c:174-177,
   app.c:38-43). All clients share the static glue of conn_mqtt.c:91, so its next
   `on_connect` writes into the runtime of the bridge that connected last, freed or
   not. The client also outlives the reload and has the name of its successor, so
   that the two throw each other off the broker.
2. `uart_timeout` (`TimeoutHonoured`). Read timeouts above 25.5 s wrap around in VTIME
   (conn_uart.c:143); connectors.h:565 allows 60 s.
3. `spi_chip_select` (`ChipSelectHeld`). `cs_change = 1` on the command segment releases
   the chip select that two comments say is held (conn_spi.c:238, 293).
4. `mqtt_qos` (`AcceptedIsDelivered`). Publications use QoS 0 whatever the connector's
   `qos`, documented to default to 1 (conn_mqtt.c:184, connectors.h:197).

Other differences between code and documentation, met while reading and not
checked by a run:

- bridge.h:6 says that HTTP to MQTT is supported; `gw_bridge_start` refuses both
  kinds with -2.
- `gw_send_fn` is declared (message, context) (gw_msg.h:53); `on_spi_rx` calls and
  `mqtt_send_adapter` is defined with (context, message); `on_http_rx` calls with
  (message, context).
- config_loader.h:4-5 promises a non-zero result when any load fails; an include
  that cannot be loaded is a warning.
- validate_cfg.py:118 lets fragments hold bridges; the daemon takes only their
  connectors. A key given twice in one mapping: the daemon takes the first, PyYAML
  the last.
- a reload of a file that cannot be loaded ends the daemon (app.c:74-77).
- the unit file asks for READY and WATCHDOG notifications that are never sent.
- the timeout of `uart_write` bounds each wait, not the call; a timeout inside a
  frame is reported like one on an idle line and drops what was read
  (conn_uart.h:73); stop bits 1.5 are allowed by connectors.h:562 and refused.
- `on_access` never frees the accumulator of a request it answers with 405 or "oom",
  nor of one whose connection closes early or when the server stops (`LeaksAccounted`
  says that there is no fifth way).
- when the `calloc` of the first call fails, `on_access` says MHD_YES without an
  accumulator (conn_http_server.c:66-68). The next call allocates one and consumes nothing
  of its data, or leaves a complete request without an answer, and the connection may hang:
  the daemon is started without a timeout (conn_http_server.c:107-111). `Answered` says
  that no other request is left so.
- "oom", and "POST only" for a request with a body, are queued in the middle of the
  upload, where libmicrohttpd refuses them: the client sees its connection closed.
- clients of one name that are both alive, be it that two connectors have no `client_id`
  (conn_mqtt.c:65) or that a bridge has left one behind (bridge.c:176), throw each other
  off the broker for ever. `ConnectionsSettle` has its premise `LiveDistinct` for them.
- mqtt.schema.json requires `url` and has no such property, and allows no others: no
  MQTT connector validates, so that test_config_example_validates
  (tests/test_example_config.py:25-34) cannot hold; connectors.h:192-194 notes the clash.
  In `config` an MQTT connector is therefore never accepted.
- the schema of http-server and connectors.h:85 know `tls`, which no parser looks at.
- the parsers take numbers with `strtol` in base 10 and Booleans by `strcmp`. What YAML 1.1
  takes for the same text differs for 0x10, 1_000, 9600.0, yes and On (dropped by the
  daemon, or false) and for 010 (8 to the validator, ten to the daemon).
- the `size` and `burst` of a bridge and the `port` of an MQTT connector have no maximum in
  the schemas and are cast to int (config_loader.c:286); the port in the `bind` of an HTTP
  server may have five digits and is cut to 16 bits (conn_http_server.c:33, 105).
- the gateway settings and bridges of a fragment are merged by the validator and ignored
  by the daemon.
- `config_free` frees the first pointer of a connector's typed parameters and forgets the
  strings and lists behind the others.

## 7. Not modelled

Logging and reports, `sdwrap`, `main_gateway.c` and the demos (not in the service
binary), the systemd unit, image recipes. TLS and URL parsing, subscriptions (no
callback is ever given), `spi_send_adapter` and `mqtt_publish_text` (no caller),
`uart_flush` (one `tcflush`). Of the configuration: gateway settings, tags, the transform
and fields lists, the JSON kept of connectors without a parser and their schemas (no
code reads them), text patterns other than hexadecimal ones, and what a schema requires
inside a nested mapping. A data race on `stop_flag`, `stop` and `reload` is modelled as
an atomic access; a compiler that hoisted the read of the volatile flags is not
considered. `pthread_cancel` inside libmosquitto (`mosquitto_loop_stop` with force) is
taken to end the network thread between two of its actions.

## 8. Plan

Done: the daemon, each connector, the configuration and its parameters, and the proofs
of section 5. Left, in this order:

1. The bound of `uart_write` as a property, once conn_uart.h says what "per-call timeout"
   promises.
2. Subscriptions, once a bridge gives its client a message callback.
