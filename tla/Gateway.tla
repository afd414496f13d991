------------------------------- MODULE Gateway -------------------------------
(***************************************************************************)
(* The life cycle of the iotgwd daemon: the main thread of app_run, which  *)
(* loads the configuration, starts one bridge per entry, waits for signals *)
(* and stops the bridges again (app.c, bridge.c), together with what those *)
(* calls do to the objects other threads use: the SPI device and its       *)
(* polling thread (conn_spi.c), the MQTT client (conn_mqtt.c), the array   *)
(* of bridge runtimes and the configuration itself.                        *)
(*                                                                         *)
(* The i-th entry of the g-th configuration loaded is the attempt <<g, i>> *)
(* to run a bridge.  An attempt has at most one SPI runtime and one MQTT   *)
(* runtime (source_ctx and dest_ctx), so the state of every heap object,   *)
(* descriptor, thread and client is a function on attempts.                *)
(***************************************************************************)
EXTENDS Integers, Sequences

CONSTANTS
    Contents,    \* what the configuration file can contain
    MaxBridges,  \* bound: entries of a configuration's "bridges" list
    MaxHups,     \* bound: SIGHUPs sent to the daemon
    MaxEdits     \* bound: times the configuration file is rewritten

\* What config_find_connector finds for a bridge's "from" or "to": a connector
\* of a kind bridge.c tells apart, or nothing.
Endpoint == {"SPI", "MQTT", "OTHER", "MISSING"}
BridgeEntry == [from : Endpoint, to : Endpoint]

ASSUME BoundsAssumption ==
    /\ MaxBridges \in Nat
    /\ MaxHups \in Nat
    /\ MaxEdits \in Nat

ASSUME ContentsAssumption ==
    /\ Contents \subseteq [valid : BOOLEAN, bridges : Seq(BridgeEntry)]
    /\ \A c \in Contents : Len(c.bridges) <= MaxBridges

Gens == 1 .. (MaxHups + 1)
Slots == 1 .. MaxBridges
Attempts == Gens \X Slots
NoBridge == <<0, 0>>

VARIABLES
    pc,         \* where the main thread is
    i,          \* index of the for loop the main thread is in
    exiting,    \* stop_all_bridges was called to return, not to reload
    rc,         \* how app_run returned
    stop,       \* app->stop
    reload,     \* app->reload
    gen,        \* configurations loaded so far
    cfg,        \* bridges of the configuration loaded last
    cfgLive,    \* that configuration has not been freed
    loadedVer,  \* version of the file it was read from
    arr,        \* the array of bridge runtimes: which attempt fills a slot
    arrLive,    \* that array has not been freed
    count,      \* running_count: slots 1..count hold started bridges
    spiMem,     \* the attempt's spi_runtime_t
    fd,         \* its SPI device
    user,       \* its rt->user: the slot on_spi_rx takes its runtime from
    stopFlag,   \* its rt->stop_flag
    thread,     \* its polling thread
    mqttMem,    \* the attempt's mqtt_runtime_t
    client,     \* its mosquitto client, with the library's network thread
    glue,       \* the static cb_glue_t: whose runtime every on_connect writes to
    file,       \* the configuration file
    fileVer,    \* how often it has been rewritten
    hups        \* SIGHUPs sent so far

mainVars == <<pc, i, exiting, rc>>
flagVars == <<stop, reload>>
cfgVars == <<gen, cfg, cfgLive, loadedVer>>
arrVars == <<arr, arrLive, count>>
spiVars == <<spiMem, fd, user, stopFlag>>
mqttVars == <<mqttMem, client, glue>>
envVars == <<file, fileVer, hups>>
vars == <<mainVars, flagVars, cfgVars, arrVars, spiVars, thread, mqttVars,
          envVars>>

Mem == {"none", "live", "freed"}
Fd == {"none", "open", "closed"}
Client == {"none", "live", "destroyed"}
ThreadState == {"none", "check", "xfer", "publish", "sleep", "ended", "joined"}
MainState ==
    {"load", "prepare", "connect", "open", "firstPass", "poll",  \* start
     "checkStop", "checkReload",                                 \* service loop
     "stopBridge", "join", "closeSpi", "closeMqtt", "freeCfg",   \* stop
     "exited"}

\* The attempt the start loop is working on, and the slot it works in: arr[n]
\* is the first one that holds no started bridge.
Current == <<gen, i>>
Slot == count + 1
Entry == cfg[i]

\* A thread has been created and not yet been joined.
Unjoined(a) == thread[a] \notin {"none", "joined"}

Init ==
    /\ pc = "load" /\ i = 1 /\ exiting = FALSE /\ rc = "running"
    /\ stop = FALSE /\ reload = FALSE
    /\ gen = 0 /\ cfg = <<>> /\ cfgLive = FALSE /\ loadedVer = 0
    /\ arr = [s \in Slots |-> NoBridge] /\ arrLive = FALSE /\ count = 0
    /\ spiMem = [a \in Attempts |-> "none"]
    /\ fd = [a \in Attempts |-> "none"]
    /\ user = [a \in Attempts |-> 0]
    /\ stopFlag = [a \in Attempts |-> FALSE]
    /\ thread = [a \in Attempts |-> "none"]
    /\ mqttMem = [a \in Attempts |-> "none"]
    /\ client = [a \in Attempts |-> "none"] /\ glue = NoBridge
    /\ file \in Contents /\ fileVer = 0 /\ hups = 0

(***************************************************************************)
(* Main thread: load the configuration.                                    *)
(***************************************************************************)

\* config_load_file succeeds, and start_all_bridges allocates its array.
Load ==
    /\ pc = "load" /\ file.valid
    /\ gen' = gen + 1 /\ cfg' = file.bridges /\ cfgLive' = TRUE
    /\ loadedVer' = fileVer
    /\ arr' = [s \in Slots |-> NoBridge] /\ arrLive' = TRUE /\ count' = 0
    /\ i' = 1 /\ pc' = "prepare"
    /\ UNCHANGED <<exiting, rc, flagVars, spiVars, thread, mqttVars, envVars>>

\* The file cannot be loaded, or there is no memory for the array (and the
\* configuration just loaded is freed again): app_run returns 1.
LoadFails ==
    /\ pc = "load"
    /\ rc' = "error" /\ pc' = "exited"
    /\ UNCHANGED <<i, exiting, flagVars, cfgVars, arrVars, spiVars, thread,
                   mqttVars, envVars>>

(***************************************************************************)
(* Main thread: start_all_bridges.                                         *)
(***************************************************************************)

\* "continue", or a failed gw_bridge_start: n is not incremented, so the next
\* entry is prepared in the same slot.
NextEntry == i' = i + 1 /\ pc' = "prepare"

Allocate(mem) == [mem EXCEPT ![Current] = "live"]

\* prepare_bridge_runtime_t clears the slot and allocates what the two kinds need.
Prepare ==
    /\ pc = "prepare" /\ i <= Len(cfg)
    /\ "MISSING" \notin {Entry.from, Entry.to}
    /\ arr' = [arr EXCEPT ![Slot] = Current]
    /\ mqttMem' = IF Entry.to = "MQTT" THEN Allocate(mqttMem) ELSE mqttMem
    /\ spiMem' = IF Entry.from = "SPI" THEN Allocate(spiMem) ELSE spiMem
    /\ pc' = "connect"
    /\ UNCHANGED <<i, exiting, rc, flagVars, cfgVars, arrLive, count, fd, user,
                   stopFlag, thread, client, glue, envVars>>

\* A name resolves to nothing, or calloc fails: for the destination's runtime,
\* or for the source's, when the destination's stays behind.
PrepareFails ==
    /\ pc = "prepare" /\ i <= Len(cfg)
    /\ arr' = [arr EXCEPT ![Slot] = Current]
    /\ \/ /\ "MISSING" \in {Entry.from, Entry.to}
          /\ UNCHANGED mqttMem
       \/ /\ "MISSING" \notin {Entry.from, Entry.to} /\ Entry.to = "MQTT"
          /\ UNCHANGED mqttMem
       \/ /\ "MISSING" \notin {Entry.from, Entry.to} /\ Entry.from = "SPI"
          /\ mqttMem' = IF Entry.to = "MQTT" THEN Allocate(mqttMem) ELSE mqttMem
    /\ NextEntry
    /\ UNCHANGED <<exiting, rc, flagVars, cfgVars, arrLive, count, spiVars,
                   thread, client, glue, envVars>>

\* gw_bridge_start, destination: mqtt_connect_from_config leaves a connected
\* client whose network thread runs, and points the callbacks of all clients at it.
Connect ==
    /\ pc = "connect" /\ Entry.to = "MQTT"
    /\ client' = [client EXCEPT ![Current] = "live"] /\ glue' = Current
    /\ pc' = "open"
    /\ UNCHANGED <<i, exiting, rc, flagVars, cfgVars, arrVars, spiVars, thread,
                   mqttMem, envVars>>

\* The destination is no MQTT connector (-2) or no client can be made; or the broker
\* is not reached (-1) and the client, already the callbacks' target, destroyed.
ConnectFails ==
    /\ pc = "connect"
    /\ glue' \in {glue} \cup (IF Entry.to = "MQTT" THEN {Current} ELSE {})
    /\ NextEntry
    /\ UNCHANGED <<exiting, rc, flagVars, cfgVars, arrVars, spiVars, thread,
                   mqttMem, client, envVars>>

\* gw_bridge_start, source: spi_open_from_config opens and configures the device
\* and hands it the slot's address for on_spi_rx.
Open ==
    /\ pc = "open" /\ Entry.from = "SPI"
    /\ fd' = [fd EXCEPT ![Current] = "open"]
    /\ user' = [user EXCEPT ![Current] = Slot]
    /\ pc' = "firstPass"
    /\ UNCHANGED <<i, exiting, rc, flagVars, cfgVars, arrVars, spiMem, stopFlag,
                   thread, mqttVars, envVars>>

\* The source is no SPI connector (-2), open() fails, or SPI_TRY_SET fails and
\* returns with the device open (-1).  The client stays connected.
OpenFails ==
    /\ pc = "open"
    /\ \/ UNCHANGED <<fd, user>>
       \/ /\ Entry.from = "SPI"
          /\ fd' = [fd EXCEPT ![Current] = "open"]
          /\ user' = [user EXCEPT ![Current] = Slot]
    /\ NextEntry
    /\ UNCHANGED <<exiting, rc, flagVars, cfgVars, arrVars, spiMem, stopFlag,
                   thread, mqttVars, envVars>>

\* The initial spi_run_transactions, in the main thread: it transfers on the
\* device and publishes through on_spi_rx.
FirstPass ==
    /\ pc = "firstPass"
    /\ pc' = "poll"
    /\ UNCHANGED <<i, exiting, rc, flagVars, cfgVars, arrVars, spiVars, thread,
                   mqttVars, envVars>>

\* A slip for the slot logic: the started bridge is not counted (n++ is missing),
\* so the next entry is prepared over its runtime.
StartPollingUncounted ==
    /\ pc = "poll"
    /\ stopFlag' = [stopFlag EXCEPT ![Current] = FALSE]
    /\ thread' = [thread EXCEPT ![Current] = "check"]
    /\ NextEntry
    /\ UNCHANGED <<exiting, rc, flagVars, cfgVars, arrVars, spiMem, fd, user,
                   mqttVars, envVars>>

\* A slip: the slot is counted where the bridge starts and again by the loop.
StartPollingCountedTwice ==
    /\ pc = "poll"
    /\ stopFlag' = [stopFlag EXCEPT ![Current] = FALSE]
    /\ thread' = [thread EXCEPT ![Current] = "check"]
    /\ count' = count + 2
    /\ NextEntry
    /\ UNCHANGED <<exiting, rc, flagVars, cfgVars, arr, arrLive, spiMem, fd,
                   user, mqttVars, envVars>>

\* spi_start_polling creates the thread: the bridge has started, its slot counts.
StartPolling ==
    /\ pc = "poll"
    /\ stopFlag' = [stopFlag EXCEPT ![Current] = FALSE]
    /\ thread' = [thread EXCEPT ![Current] = "check"]
    /\ count' = count + 1
    /\ NextEntry
    /\ UNCHANGED <<exiting, rc, flagVars, cfgVars, arr, arrLive, spiMem, fd,
                   user, mqttVars, envVars>>

\* pthread_create fails: gw_bridge_start returns -1 with device and client open.
StartPollingFails ==
    /\ pc = "poll"
    /\ NextEntry
    /\ UNCHANGED <<exiting, rc, flagVars, cfgVars, arrVars, spiVars, thread,
                   mqttVars, envVars>>

\* A slip: the request is cleared when the new bridges run, not when it is taken.
StartDoneClears ==
    /\ pc = "prepare" /\ i > Len(cfg)
    /\ pc' = "checkStop" /\ reload' = FALSE
    /\ UNCHANGED <<i, exiting, rc, stop, cfgVars, arrVars, spiVars, thread,
                   mqttVars, envVars>>

\* The start loop is over; running_count may be 0.
StartDone ==
    /\ pc = "prepare" /\ i > Len(cfg)
    /\ pc' = "checkStop"
    /\ UNCHANGED <<i, exiting, rc, flagVars, cfgVars, arrVars, spiVars, thread,
                   mqttVars, envVars>>

(***************************************************************************)
(* Main thread: the service loop.  sleep(1) is the step back to checkStop. *)
(***************************************************************************)

CheckStop ==
    /\ pc = "checkStop"
    /\ IF stop THEN exiting' = TRUE /\ i' = 1 /\ pc' = "stopBridge"
               ELSE pc' = "checkReload" /\ UNCHANGED <<i, exiting>>
    /\ UNCHANGED <<rc, flagVars, cfgVars, arrVars, spiVars, thread, mqttVars,
                   envVars>>

\* A slip: the configuration is replaced under the running bridges.
CheckReloadKeepsBridges ==
    /\ pc = "checkReload"
    /\ reload' = FALSE
    /\ pc' = IF reload THEN "freeCfg" ELSE "checkStop"
    /\ UNCHANGED <<i, exiting, rc, stop, cfgVars, arrVars, spiVars, thread,
                   mqttVars, envVars>>

CheckReload ==
    /\ pc = "checkReload"
    /\ IF reload THEN reload' = FALSE /\ i' = 1 /\ pc' = "stopBridge"
                 ELSE pc' = "checkStop" /\ UNCHANGED <<i, reload>>
    /\ UNCHANGED <<exiting, rc, stop, cfgVars, arrVars, spiVars, thread,
                   mqttVars, envVars>>

(***************************************************************************)
(* Main thread: stop_all_bridges, which calls gw_bridge_stop on the slots  *)
(* 1..count.  Only SPI sources and MQTT destinations ever start, so both   *)
(* switches of gw_bridge_stop take their one case.                         *)
(***************************************************************************)

\* A slip: the polling thread is told to stop and not waited for.
StopBridgeNoJoin ==
    /\ pc = "stopBridge" /\ i <= count
    /\ stopFlag' = [stopFlag EXCEPT ![arr[i]] = TRUE]
    /\ pc' = "closeSpi"
    /\ UNCHANGED <<i, exiting, rc, flagVars, cfgVars, arrVars, spiMem, fd, user,
                   thread, mqttVars, envVars>>

\* spi_stop_polling raises the thread's stop flag ...
StopBridge ==
    /\ pc = "stopBridge" /\ i <= count
    /\ stopFlag' = [stopFlag EXCEPT ![arr[i]] = TRUE]
    /\ pc' = "join"
    /\ UNCHANGED <<i, exiting, rc, flagVars, cfgVars, arrVars, spiMem, fd, user,
                   thread, mqttVars, envVars>>

\* ... and pthread_join returns once the thread has ended.
Join ==
    /\ pc = "join" /\ thread[arr[i]] = "ended"
    /\ thread' = [thread EXCEPT ![arr[i]] = "joined"]
    /\ pc' = "closeSpi"
    /\ UNCHANGED <<i, exiting, rc, flagVars, cfgVars, arrVars, spiVars, mqttVars,
                   envVars>>

\* spi_close closes the device; gw_bridge_stop frees source_ctx.
CloseSpi ==
    /\ pc = "closeSpi"
    /\ fd' = [fd EXCEPT ![arr[i]] = "closed"]
    /\ spiMem' = [spiMem EXCEPT ![arr[i]] = "freed"]
    /\ pc' = "closeMqtt"
    /\ UNCHANGED <<i, exiting, rc, flagVars, cfgVars, arrVars, user, stopFlag,
                   thread, mqttVars, envVars>>

\* A slip: the MQTT runtime is freed and its client kept.
CloseMqttKeepsClient ==
    /\ pc = "closeMqtt"
    /\ mqttMem' = [mqttMem EXCEPT ![arr[i]] = "freed"]
    /\ i' = i + 1 /\ pc' = "stopBridge"
    /\ UNCHANGED <<exiting, rc, flagVars, cfgVars, arrVars, spiVars, thread,
                   client, glue, envVars>>

\* mqtt_close stops the network thread and destroys the client; dest_ctx is freed.
CloseMqtt ==
    /\ pc = "closeMqtt"
    /\ client' = [client EXCEPT ![arr[i]] = "destroyed"]
    /\ mqttMem' = [mqttMem EXCEPT ![arr[i]] = "freed"]
    /\ i' = i + 1 /\ pc' = "stopBridge"
    /\ UNCHANGED <<exiting, rc, flagVars, cfgVars, arrVars, spiVars, thread,
                   glue, envVars>>

\* Every started bridge is stopped; the array is freed.
StopDone ==
    /\ pc = "stopBridge" /\ i > count
    /\ arrLive' = FALSE
    /\ pc' = "freeCfg"
    /\ UNCHANGED <<i, exiting, rc, flagVars, cfgVars, arr, count, spiVars, thread,
                   mqttVars, envVars>>

\* config_free; then app_run returns 0, or forgets the old array and loads again.
FreeCfg ==
    /\ pc = "freeCfg"
    /\ cfgLive' = FALSE /\ count' = 0
    /\ IF exiting THEN rc' = "ok" /\ pc' = "exited"
                  ELSE pc' = "load" /\ UNCHANGED rc
    /\ UNCHANGED <<i, exiting, flagVars, gen, cfg, loadedVer, arr, arrLive,
                   spiVars, thread, mqttVars, envVars>>

Main ==
    \/ Load \/ LoadFails
    \/ Prepare \/ PrepareFails \/ Connect \/ ConnectFails \/ Open \/ OpenFails
    \/ FirstPass \/ StartPolling \/ StartPollingFails \/ StartDone
    \/ CheckStop \/ CheckReload
    \/ StopBridge \/ Join \/ CloseSpi \/ CloseMqtt \/ StopDone \/ FreeCfg

(***************************************************************************)
(* The polling thread of an attempt (spi_poll_thread).  One transaction    *)
(* with received bytes stands for the list a pass runs.  The thread dies   *)
(* with the process when app_run returns.                                  *)
(***************************************************************************)

Goto(a, from, to) ==
    /\ pc # "exited" /\ thread[a] = from
    /\ thread' = [thread EXCEPT ![a] = to]
    /\ UNCHANGED <<mainVars, flagVars, cfgVars, arrVars, spiVars, mqttVars,
                   envVars>>

\* A slip: the loop never looks at the stop flag.
PollCheckForever(a) == Goto(a, "check", "xfer")

\* while (!rt->stop_flag)
PollCheck(a) == Goto(a, "check", IF stopFlag[a] THEN "ended" ELSE "xfer")

\* spi_exec_transaction transfers on the device, with bytes for on_spi_rx ...
PollReceive(a) == Goto(a, "xfer", "publish")

\* ... or fails, or only writes: the pass ends without a callback.
PollNothing(a) == Goto(a, "xfer", "sleep")

\* on_spi_rx publishes through the runtime in slot user[a] of the array.
PollPublish(a) == Goto(a, "publish", "sleep")

\* usleep
PollSleep(a) == Goto(a, "sleep", "check")

Poll(a) ==
    \/ PollCheck(a) \/ PollReceive(a) \/ PollNothing(a)
    \/ PollPublish(a) \/ PollSleep(a)

(***************************************************************************)
(* Environment: signals, which on_sigint, on_sigterm and on_sighup turn    *)
(* into flags at any point of the main thread, and edits of the file.      *)
(***************************************************************************)

Terminate ==
    /\ pc # "exited" /\ ~stop
    /\ stop' = TRUE
    /\ UNCHANGED <<mainVars, reload, cfgVars, arrVars, spiVars, thread, mqttVars,
                   envVars>>

Hup ==
    /\ pc # "exited" /\ hups < MaxHups
    /\ hups' = hups + 1 /\ reload' = TRUE
    /\ UNCHANGED <<mainVars, stop, cfgVars, arrVars, spiVars, thread, mqttVars,
                   file, fileVer>>

Edit ==
    /\ pc # "exited" /\ fileVer < MaxEdits
    /\ file' \in Contents /\ fileVer' = fileVer + 1
    /\ UNCHANGED <<mainVars, flagVars, cfgVars, arrVars, spiVars, thread,
                   mqttVars, hups>>

\* app_run has returned: nothing more happens.
Returned == pc = "exited" /\ UNCHANGED vars

Next ==
    \/ Main
    \/ \E a \in Attempts : Poll(a)
    \/ Terminate \/ Hup \/ Edit
    \/ Returned

Spec == Init /\ [][Next]_vars

\* The kernel schedules every runnable thread, and a call that has been made
\* returns.  Nobody is obliged to send a signal or to edit the file.
Fairness ==
    /\ WF_vars(Main)
    /\ \A a \in Attempts : WF_vars(Poll(a))

FairSpec == Spec /\ Fairness

(***************************************************************************)
(* Properties.                                                             *)
(***************************************************************************)

TypeOK ==
    /\ pc \in MainState /\ i \in 1 .. MaxBridges + 1 /\ exiting \in BOOLEAN
    /\ rc \in {"running", "ok", "error"}
    /\ stop \in BOOLEAN /\ reload \in BOOLEAN
    /\ gen \in 0 .. MaxHups + 1 /\ cfg \in Seq(BridgeEntry) /\ Len(cfg) <= MaxBridges
    /\ cfgLive \in BOOLEAN /\ loadedVer \in 0 .. MaxEdits
    /\ arr \in [Slots -> Attempts \cup {NoBridge}] /\ arrLive \in BOOLEAN
    /\ count \in 0 .. MaxBridges
    /\ spiMem \in [Attempts -> Mem] /\ fd \in [Attempts -> Fd]
    /\ user \in [Attempts -> 0 .. MaxBridges] /\ stopFlag \in [Attempts -> BOOLEAN]
    /\ thread \in [Attempts -> ThreadState]
    /\ mqttMem \in [Attempts -> Mem] /\ client \in [Attempts -> Client]
    /\ glue \in Attempts \cup {NoBridge}
    /\ file \in Contents /\ fileVer \in 0 .. MaxEdits /\ hups \in 0 .. MaxHups

\* What a transfer and on_spi_rx of attempt a dereference: its SPI runtime, open
\* device and transaction list (which lies in the configuration), the runtime in
\* the slot rt->user points to, and that runtime's MQTT client.
Usable(a) ==
    /\ spiMem[a] = "live" /\ fd[a] = "open"
    /\ cfgLive /\ a[1] = gen
    /\ arrLive /\ user[a] \in Slots /\ arr[user[a]] = a
    /\ mqttMem[a] = "live" /\ client[a] = "live"

\* Neither a polling thread nor the initial pass ever works on a device, a
\* runtime, a client or a configuration that is closed, freed, destroyed or
\* overwritten: every stop and every failed start releases them in an order that
\* the threads survive.
WorkersUseLiveObjects ==
    /\ \A a \in Attempts : Unjoined(a) => Usable(a)
    /\ pc \in {"firstPass", "poll"} => Usable(Current)

\* A thread that has been created and not joined belongs to a slot that
\* stop_all_bridges will still reach: none is lost when a later bridge fails and
\* its slot is used again, and none outlives app_run or its configuration.
NoForgottenThread ==
    \A a \in Attempts : Unjoined(a) =>
        /\ pc \notin {"load", "freeCfg", "exited"}
        /\ \E s \in 1 .. count :
              /\ arr[s] = a
              /\ pc \in {"stopBridge", "join"} => i <= s
              /\ pc \in {"closeSpi", "closeMqtt"} => i < s

\* When app_run returns 0 or loads again, every bridge that had been started has
\* given back its thread, device, client and both runtimes.
StartedBridgesReleased ==
    pc \in {"load", "freeCfg", "exited"} =>
        \A a \in Attempts : thread[a] # "none" =>
            /\ thread[a] = "joined"
            /\ fd[a] = "closed" /\ spiMem[a] = "freed"
            /\ client[a] = "destroyed" /\ mqttMem[a] = "freed"

\* "Opaque runtime contexts (allocated/owned by start/stop code)" (bridge.h): while a
\* client is connected, whose network thread calls on_connect at every reconnection,
\* the runtime that on_connect writes to has not been freed by the stop code.  The
\* client of a bridge that failed to start, which nothing stops, breaks this once the
\* bridge that connected last is stopped: all clients share one static glue.
CallbackTargetLive ==
    (\E a \in Attempts : client[a] = "live") => mqttMem[glue] # "freed"

\* A SIGHUP sent when the file is at version v is followed by a load of version v
\* or later, at whatever point of a start, a stop or a reload it arrives; or the
\* daemon ends.
HupTakesEffect ==
    \A v \in 0 .. MaxEdits :
        (reload /\ fileVer = v) ~> (pc = "exited" \/ (cfgLive /\ loadedVer >= v))

\* A SIGINT or SIGTERM ends the daemon, whatever reloads are pending: no join
\* waits for ever.
StopTakesEffect == stop ~> (pc = "exited")

\* The daemon as its operator sees it: which bridges run, and for which version.
Phase ==
    CASE pc = "load" -> "idle"
      [] pc = "exited" -> "ended"
      [] pc \in {"stopBridge", "join", "closeSpi", "closeMqtt", "freeCfg"} -> "draining"
      [] OTHER -> "serving"

Service == INSTANCE GatewayService WITH
    Bridges <- Attempts, MaxVersion <- MaxEdits,
    phase <- Phase, version <- loadedVer, active <- {a \in Attempts : Unjoined(a)}

\* app_run keeps the promise of GatewayService: no reload mixes bridges of two
\* configurations, none is served without being loaded, none runs undrained.
ImplementsService == Service!Spec
=============================================================================
