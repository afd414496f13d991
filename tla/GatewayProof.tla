----------------------------- MODULE GatewayProof -----------------------------
(***************************************************************************)
(* Proofs about Gateway, for every set of configurations and every bound.  *)
(* IInv is inductive: the invariants the model checker verifies on small   *)
(* instances follow from it, and so does the step simulation of            *)
(* GatewayService.                                                         *)
(***************************************************************************)
EXTENDS Gateway, TLAPS

(***************************************************************************)
(* The inductive invariant.                                                *)
(***************************************************************************)

TryStates == {"connect", "open", "firstPass", "poll"}
StartStates == TryStates \cup {"prepare"}
StopStates == {"stopBridge", "join", "closeSpi", "closeMqtt", "freeCfg"}

\* Every load but the first consumes a SIGHUP.
LoadsCounted ==
    gen + (IF reload THEN 1 ELSE 0)
      <= hups + (IF pc = "load" \/ (pc \in StopStates /\ ~exiting) THEN 0 ELSE 1)

\* The file has been read at the version it had then.
VersionRead == loadedVer <= fileVer

\* The configuration and the array live from load to free.
TablesLive ==
    /\ pc \notin {"load", "exited"} => cfgLive
    /\ pc \notin {"load", "freeCfg", "exited"} => arrLive

\* The start loop has a slot left for the entry it works on, and entries before
\* it fill the slots before.
StartLoop ==
    /\ pc \in StartStates => gen > 0 /\ count < i /\ i <= Len(cfg) + 1
    /\ pc \in TryStates => i <= Len(cfg) /\ arr[Slot] = Current

\* What the current attempt holds when gw_bridge_start works on it.
Trying ==
    /\ pc \in {"connect", "open"} /\ Entry.from = "SPI" => spiMem[Current] = "live"
    /\ pc = "connect" /\ Entry.to = "MQTT" => mqttMem[Current] = "live"
    /\ pc \in {"open", "firstPass", "poll"} =>
          mqttMem[Current] = "live" /\ client[Current] = "live"
    /\ pc \in {"firstPass", "poll"} =>
          /\ spiMem[Current] = "live" /\ fd[Current] = "open"
          /\ user[Current] = Slot

\* Slots that count hold an attempt; the stop loop is at one of them.
SlotsFilled ==
    /\ \A s \in 1 .. count : arr[s] \in Attempts
    /\ pc \in {"join", "closeSpi", "closeMqtt"} => i <= count
    /\ pc \in {"closeSpi", "closeMqtt"} => thread[arr[i]] = "joined"

\* Entries not yet reached have no thread.
ThreadsOfThePast ==
    \A a \in Attempts : thread[a] # "none" =>
        a[1] <= gen /\ (pc \in StartStates /\ a[1] = gen => a[2] < i)

\* A thread that was not joined uses live objects through a slot that counts and
\* that the stop loop has yet to reach.
Owned(a) ==
    /\ pc \notin {"load", "freeCfg", "exited"}
    /\ spiMem[a] = "live" /\ fd[a] = "open"
    /\ mqttMem[a] = "live" /\ client[a] = "live"
    /\ a[1] = gen
    /\ user[a] \in 1 .. count /\ arr[user[a]] = a
    /\ pc \in {"stopBridge", "join"} => i <= user[a]
    /\ pc \in {"closeSpi", "closeMqtt"} => i < user[a]

UnjoinedThreads == \A a \in Attempts : Unjoined(a) => Owned(a)

\* A bridge whose thread was joined is released, or being released.
JoinedThreads ==
    \A a \in Attempts : thread[a] = "joined" =>
        \/ pc = "closeSpi" /\ arr[i] = a
        \/ /\ fd[a] = "closed" /\ spiMem[a] = "freed"
           /\ \/ pc = "closeMqtt" /\ arr[i] = a
              \/ client[a] = "destroyed" /\ mqttMem[a] = "freed"

IInv ==
    /\ TypeOK
    /\ LoadsCounted /\ VersionRead /\ TablesLive
    /\ StartLoop /\ Trying /\ SlotsFilled
    /\ ThreadsOfThePast /\ UnjoinedThreads /\ JoinedThreads

\* Attempts are pairs of positive numbers: an empty slot holds none.
LEMMA AttemptType ==
    NoBridge \notin Attempts /\ \A a \in Attempts : a[1] \in Nat /\ a[2] \in Nat
  BY BoundsAssumption DEF Attempts, Gens, Slots, NoBridge

\* The start loop works on an attempt that has no thread yet, in a free slot.
LEMMA CurrentAttempt ==
    ASSUME TypeOK, StartLoop, ThreadsOfThePast,
           pc \in TryStates \/ (pc = "prepare" /\ i <= Len(cfg))
    PROVE  /\ Current \in Attempts /\ Slot \in Slots /\ Entry \in BridgeEntry
           /\ thread[Current] = "none"
<1>1. gen \in Gens /\ i \in Slots
  BY BoundsAssumption DEF TypeOK, StartLoop, StartStates, TryStates, Gens, Slots
<1>2. Current \in Attempts /\ Current[1] = gen /\ Current[2] = i
  BY <1>1 DEF Current, Attempts
<1>3. thread[Current] = "none"
  BY <1>2, SMT DEF ThreadsOfThePast, TypeOK, StartStates, TryStates, Slots
<1>4. Slot \in Slots /\ Entry \in BridgeEntry
  BY <1>1, BoundsAssumption
     DEF Slot, Slots, Entry, TypeOK, StartLoop, StartStates, TryStates
<1> QED BY <1>2, <1>3, <1>4

\* A step of the start loop that changes objects of the current attempt and free
\* slots only leaves the bridges started before as they are.
LEMMA OthersKept ==
    ASSUME IInv, pc \in StartStates, pc' \in StartStates \cup {"checkStop"},
           UNCHANGED <<thread, gen, count>>,
           \A a \in Attempts : a # Current =>
              /\ spiMem'[a] = spiMem[a] /\ fd'[a] = fd[a] /\ user'[a] = user[a]
              /\ mqttMem'[a] = mqttMem[a] /\ client'[a] = client[a],
           \A s \in 1 .. count : arr'[s] = arr[s]
    PROVE  UnjoinedThreads' /\ JoinedThreads'
<1>1. \A a \in Attempts : thread[a] # "none" => a # Current
  <2> SUFFICES ASSUME NEW a \in Attempts, thread[a] # "none", a = Current
               PROVE  FALSE
    OBVIOUS
  <2>1. a[1] = gen /\ a[2] = i
    BY DEF Current
  <2> QED
    BY <2>1 DEF IInv, ThreadsOfThePast, TypeOK
<1>2. UnjoinedThreads'
  BY <1>1 DEF IInv, UnjoinedThreads, Owned, Unjoined, StartStates, TryStates
<1>3. JoinedThreads'
  BY <1>1 DEF IInv, JoinedThreads, StartStates, TryStates
<1> QED BY <1>2, <1>3

\* The invariant holds when app_run has installed its handlers.
LEMMA InitInvariant == Init => IInv
<1> SUFFICES ASSUME Init PROVE IInv
  OBVIOUS
<1>1. TypeOK
  <2>1. cfg \in Seq(BridgeEntry) /\ Len(cfg) <= MaxBridges
    BY BoundsAssumption DEF Init
  <2>2. arr \in [Slots -> Attempts \cup {NoBridge}]
    BY DEF Init
  <2>3. /\ user \in [Attempts -> 0 .. MaxBridges]
        /\ stopFlag \in [Attempts -> BOOLEAN] /\ thread \in [Attempts -> ThreadState]
    BY BoundsAssumption DEF Init, ThreadState
  <2>4. /\ spiMem \in [Attempts -> Mem] /\ fd \in [Attempts -> Fd]
        /\ mqttMem \in [Attempts -> Mem] /\ client \in [Attempts -> Client]
    BY DEF Init, Mem, Fd, Client
  <2>5. /\ exiting \in BOOLEAN /\ stop \in BOOLEAN /\ reload \in BOOLEAN
        /\ cfgLive \in BOOLEAN /\ arrLive \in BOOLEAN
    BY DEF Init
  <2> QED
    BY <2>1, <2>2, <2>3, <2>4, <2>5, BoundsAssumption DEF Init, TypeOK, MainState
<1>2. LoadsCounted /\ VersionRead /\ TablesLive
  BY DEF Init, LoadsCounted, VersionRead, TablesLive, StopStates
<1>3. StartLoop /\ Trying /\ SlotsFilled
  BY DEF Init, StartLoop, Trying, SlotsFilled, StartStates, TryStates
<1>4. ThreadsOfThePast /\ UnjoinedThreads /\ JoinedThreads
  BY DEF Init, ThreadsOfThePast, UnjoinedThreads, Owned, JoinedThreads, Unjoined
<1> QED BY <1>1, <1>2, <1>3, <1>4 DEF IInv

\* Every step keeps the types; the bounds on gen and count need the other conjuncts.
LEMMA TypeStep ==
    ASSUME IInv, [Next]_vars PROVE TypeOK'
<1> USE BoundsAssumption, ContentsAssumption
    DEF IInv, TypeOK, MainState, Mem, Fd, Client, ThreadState
<1>1. CASE Load
  BY <1>1 DEF Load, Slots, Gens, LoadsCounted, mainVars, flagVars, cfgVars,
     arrVars, spiVars, mqttVars, envVars
<1>2. CASE LoadFails
  BY <1>2 DEF LoadFails, Slots, mainVars, flagVars, cfgVars, arrVars, spiVars,
     mqttVars, envVars
<1>3. CASE Prepare
  BY <1>3, CurrentAttempt DEF Prepare, Slots, NextEntry, Allocate, TryStates,
     StartLoop, StartStates, Slot, Current, mainVars, flagVars, cfgVars, arrVars,
     spiVars, mqttVars, envVars
<1>4. CASE PrepareFails
  <2>1. mqttMem' \in [Attempts -> Mem]
    BY <1>4 DEF PrepareFails, Allocate, spiVars
  <2>2. QED
    BY <1>4, <2>1, CurrentAttempt DEF PrepareFails, NextEntry, Slots, mainVars,
       flagVars, cfgVars, arrVars, spiVars, mqttVars, envVars, TryStates
<1>5. CASE Connect
  BY <1>5, CurrentAttempt DEF Connect, Slots, NextEntry, Allocate, TryStates,
     StartLoop, StartStates, Slot, Current, mainVars, flagVars, cfgVars, arrVars,
     spiVars, mqttVars, envVars
<1>6. CASE ConnectFails
  <2>1. glue' \in Attempts \cup {NoBridge}
    BY <1>6, CurrentAttempt DEF ConnectFails, TryStates
  <2>2. i' \in 1 .. MaxBridges + 1 /\ pc' \in MainState
    BY <1>6 DEF ConnectFails, NextEntry, StartLoop, TryStates
  <2> QED
    BY <1>6, <2>1, <2>2 DEF ConnectFails, mainVars, flagVars, cfgVars, arrVars,
       spiVars, mqttVars, envVars
<1>7. CASE Open
  BY <1>7, CurrentAttempt DEF Open, Slots, NextEntry, Allocate, TryStates,
     StartLoop, StartStates, Slot, Current, mainVars, flagVars, cfgVars, arrVars,
     spiVars, mqttVars, envVars
<1>8. CASE OpenFails
  <2>1. fd' \in [Attempts -> Fd]
    BY <1>8 DEF OpenFails
  <2>2. user' \in [Attempts -> 0 .. MaxBridges]
    <3>1. Slot \in 0 .. MaxBridges
      BY <1>8, CurrentAttempt DEF OpenFails, TryStates, Slots
    <3> QED
      BY <1>8, <3>1 DEF OpenFails
  <2>3. i' \in 1 .. MaxBridges + 1 /\ pc' = "prepare"
    BY <1>8 DEF OpenFails, NextEntry, StartLoop, TryStates
  <2> QED
    BY <1>8, <2>1, <2>2, <2>3 DEF OpenFails, mainVars, flagVars, cfgVars,
       arrVars, spiVars, mqttVars, envVars
<1>9. CASE FirstPass
  BY <1>9, CurrentAttempt DEF FirstPass, Slots, NextEntry, Allocate, TryStates,
     StartLoop, StartStates, Slot, Current, mainVars, flagVars, cfgVars, arrVars,
     spiVars, mqttVars, envVars
<1>10. CASE StartPolling
  BY <1>10, CurrentAttempt DEF StartPolling, Slots, NextEntry, Allocate,
     TryStates, StartLoop, StartStates, Slot, Current, mainVars, flagVars,
     cfgVars, arrVars, spiVars, mqttVars, envVars
<1>11. CASE StartPollingFails
  BY <1>11, CurrentAttempt DEF StartPollingFails, Slots, NextEntry, Allocate,
     TryStates, StartLoop, StartStates, Slot, Current, mainVars, flagVars,
     cfgVars, arrVars, spiVars, mqttVars, envVars
<1>12. CASE StartDone
  BY <1>12 DEF StartDone, Slots, mainVars, flagVars, cfgVars, arrVars, spiVars,
     mqttVars, envVars
<1>13. CASE CheckStop
  <2>1. exiting' \in BOOLEAN
    BY <1>13 DEF CheckStop
  <2>2. i' \in 1 .. MaxBridges + 1 /\ pc' \in MainState
    BY <1>13 DEF CheckStop
  <2> QED
    BY <1>13, <2>1, <2>2 DEF CheckStop, mainVars, flagVars, cfgVars, arrVars,
       spiVars, mqttVars, envVars
<1>14. CASE CheckReload
  <2>1. reload' \in BOOLEAN
    BY <1>14 DEF CheckReload, mainVars, flagVars, cfgVars, arrVars, spiVars,
       mqttVars, envVars
  <2>2. i' \in 1 .. MaxBridges + 1 /\ pc' \in MainState
    BY <1>14 DEF CheckReload, mainVars, flagVars, cfgVars, arrVars, spiVars,
       mqttVars, envVars
  <2> QED
    BY <1>14, <2>1, <2>2 DEF CheckReload, mainVars, flagVars, cfgVars, arrVars,
       spiVars, mqttVars, envVars
<1>15. CASE StopBridge
  BY <1>15 DEF StopBridge, Slots, mainVars, flagVars, cfgVars, arrVars, spiVars,
     mqttVars, envVars
<1>16. CASE Join
  BY <1>16 DEF Join, Slots, mainVars, flagVars, cfgVars, arrVars, spiVars,
     mqttVars, envVars
<1>17. CASE CloseSpi
  BY <1>17 DEF CloseSpi, Slots, mainVars, flagVars, cfgVars, arrVars, spiVars,
     mqttVars, envVars
<1>18. CASE CloseMqtt
  BY <1>18 DEF CloseMqtt, Slots, SlotsFilled, mainVars, flagVars, cfgVars,
     arrVars, spiVars, mqttVars, envVars
<1>19. CASE StopDone
  BY <1>19 DEF StopDone, Slots, mainVars, flagVars, cfgVars, arrVars, spiVars,
     mqttVars, envVars
<1>20. CASE FreeCfg
  <2>1. rc' \in {"running", "ok", "error"} /\ pc' \in MainState
    BY <1>20 DEF FreeCfg
  <2>2. cfgLive' \in BOOLEAN
    BY <1>20 DEF FreeCfg
  <2>3. count' \in 0 .. MaxBridges
    BY <1>20 DEF FreeCfg
  <2> QED
    BY <1>20, <2>1, <2>2, <2>3 DEF FreeCfg, mainVars, flagVars, cfgVars, arrVars,
       spiVars, mqttVars, envVars
<1>21. CASE Terminate
  BY <1>21 DEF Terminate, Slots, mainVars, flagVars, cfgVars, arrVars, spiVars,
     mqttVars, envVars
<1>22. CASE Hup
  BY <1>22 DEF Hup, Slots, mainVars, flagVars, cfgVars, arrVars, spiVars,
     mqttVars, envVars
<1>23. CASE Edit
  BY <1>23 DEF Edit, Slots, mainVars, flagVars, cfgVars, arrVars, spiVars,
     mqttVars, envVars
<1>24. CASE \E a \in Attempts : Poll(a)
  <2>1. PICK a \in Attempts : Poll(a)
    BY <1>24
  <2>2. /\ thread' = [thread EXCEPT ![a] = thread'[a]]
        /\ thread'[a] \in ThreadState
    BY <2>1 DEF Poll, PollCheck, PollReceive, PollNothing, PollPublish,
       PollSleep, Goto
  <2>3. thread' \in [Attempts -> ThreadState]
    BY <2>2
  <2>4. UNCHANGED <<mainVars, flagVars, cfgVars, arrVars, spiVars, mqttVars, envVars>>
    BY <2>1 DEF Poll, PollCheck, PollReceive, PollNothing, PollPublish,
       PollSleep, Goto
  <2> QED
    BY <2>3, <2>4 DEF mainVars, flagVars, cfgVars, arrVars, spiVars, mqttVars,
       envVars
<1>25. CASE UNCHANGED vars
  BY <1>25 DEF vars, mainVars, flagVars, cfgVars, arrVars, spiVars, mqttVars,
     envVars
<1> QED
  BY <1>1, <1>2, <1>3, <1>4, <1>5, <1>6, <1>7, <1>8, <1>9, <1>10, <1>11, <1>12,
     <1>13, <1>14, <1>15, <1>16, <1>17, <1>18, <1>19, <1>20, <1>21, <1>22, <1>23,
     <1>24, <1>25 DEF Next, Main, Returned

\* Every step of app_run keeps the invariant.
LEMMA MainStep ==
    ASSUME IInv, Main, TypeOK' PROVE IInv'
<1> USE BoundsAssumption, AttemptType
    DEF IInv, StartStates, TryStates, StopStates, NextEntry
<1>1. CASE Load
  <2> USE <1>1 DEF Load, mainVars, flagVars, cfgVars, arrVars, spiVars, mqttVars,
     envVars
  <2>1. LoadsCounted' /\ VersionRead' /\ TablesLive'
    BY DEF TypeOK, LoadsCounted, VersionRead, TablesLive
  <2>2. StartLoop' /\ SlotsFilled'
    BY CurrentAttempt DEF TypeOK, StartLoop, SlotsFilled, Slot, Slots, Current
  <2>3. ThreadsOfThePast'
    BY DEF TypeOK, ThreadsOfThePast, Current, UnjoinedThreads, Owned, Unjoined
  <2>4. Trying'
    BY CurrentAttempt DEF TypeOK, Trying, Allocate, StartLoop, Slots, Current,
       Slot, Entry
  <2>5. UnjoinedThreads'
    BY CurrentAttempt DEF TypeOK, Unjoined, UnjoinedThreads, Owned, SlotsFilled,
       StartLoop, Slot, Trying
  <2>6. JoinedThreads'
    BY CurrentAttempt DEF TypeOK, JoinedThreads, Unjoined, UnjoinedThreads,
       Owned, SlotsFilled
  <2> QED BY <2>1, <2>2, <2>3, <2>4, <2>5, <2>6
<1>2. CASE LoadFails
  <2> USE <1>2 DEF LoadFails, mainVars, flagVars, cfgVars, arrVars, spiVars,
     mqttVars, envVars
  <2>1. LoadsCounted' /\ VersionRead' /\ TablesLive'
    BY DEF TypeOK, LoadsCounted, VersionRead, TablesLive
  <2>2. StartLoop' /\ SlotsFilled'
    BY CurrentAttempt DEF TypeOK, StartLoop, SlotsFilled, Slot, Slots, Current
  <2>3. ThreadsOfThePast'
    BY DEF TypeOK, ThreadsOfThePast, Current, UnjoinedThreads, Owned, Unjoined
  <2>4. Trying'
    BY CurrentAttempt DEF TypeOK, Trying, Allocate, StartLoop, Slots, Current,
       Slot, Entry
  <2>5. UnjoinedThreads'
    BY CurrentAttempt DEF TypeOK, Unjoined, UnjoinedThreads, Owned, SlotsFilled,
       StartLoop, Slot, Trying
  <2>6. JoinedThreads'
    BY CurrentAttempt DEF TypeOK, JoinedThreads, Unjoined, UnjoinedThreads,
       Owned, SlotsFilled
  <2> QED BY <2>1, <2>2, <2>3, <2>4, <2>5, <2>6
<1>3. CASE Prepare
  <2> USE <1>3 DEF Prepare, mainVars, flagVars, cfgVars, arrVars, spiVars,
     mqttVars, envVars
  <2>1. LoadsCounted' /\ VersionRead' /\ TablesLive'
    BY DEF TypeOK, LoadsCounted, VersionRead, TablesLive
  <2>2. StartLoop' /\ SlotsFilled'
    BY CurrentAttempt DEF TypeOK, StartLoop, SlotsFilled, Slot, Slots, Current
  <2>3. ThreadsOfThePast'
    BY DEF TypeOK, ThreadsOfThePast, Current, UnjoinedThreads, Owned, Unjoined
  <2>4. Trying'
    BY CurrentAttempt DEF TypeOK, Trying, Allocate, StartLoop, Slots, Current,
       Slot, Entry
  <2>5. UnjoinedThreads' /\ JoinedThreads'
    BY OthersKept DEF Allocate, StartLoop, Slot, TypeOK
  <2> QED BY <2>1, <2>2, <2>3, <2>4, <2>5
<1>4. CASE Connect
  <2> USE <1>4 DEF Connect, mainVars, flagVars, cfgVars, arrVars, spiVars,
     mqttVars, envVars
  <2>1. LoadsCounted' /\ VersionRead' /\ TablesLive'
    BY DEF TypeOK, LoadsCounted, VersionRead, TablesLive
  <2>2. StartLoop' /\ SlotsFilled'
    BY CurrentAttempt DEF TypeOK, StartLoop, SlotsFilled, Slot, Slots, Current
  <2>3. ThreadsOfThePast'
    BY DEF TypeOK, ThreadsOfThePast, Current, UnjoinedThreads, Owned, Unjoined
  <2>4. Trying'
    BY CurrentAttempt DEF TypeOK, Trying, Allocate, StartLoop, Slots, Current,
       Slot, Entry
  <2>5. UnjoinedThreads' /\ JoinedThreads'
    BY OthersKept DEF Allocate, StartLoop, Slot, TypeOK
  <2> QED BY <2>1, <2>2, <2>3, <2>4, <2>5
<1>5. CASE Open
  <2> USE <1>5 DEF Open, mainVars, flagVars, cfgVars, arrVars, spiVars, mqttVars,
     envVars
  <2>1. LoadsCounted' /\ VersionRead' /\ TablesLive'
    BY DEF TypeOK, LoadsCounted, VersionRead, TablesLive
  <2>2. StartLoop' /\ SlotsFilled'
    BY CurrentAttempt DEF TypeOK, StartLoop, SlotsFilled, Slot, Slots, Current
  <2>3. ThreadsOfThePast'
    BY DEF TypeOK, ThreadsOfThePast, Current, UnjoinedThreads, Owned, Unjoined
  <2>4. Trying'
    BY CurrentAttempt DEF TypeOK, Trying, Allocate, StartLoop, Slots, Current,
       Slot, Entry
  <2>5. UnjoinedThreads' /\ JoinedThreads'
    BY OthersKept DEF Allocate, StartLoop, Slot, TypeOK
  <2> QED BY <2>1, <2>2, <2>3, <2>4, <2>5
<1>6. CASE PrepareFails \/ ConnectFails \/ OpenFails \/ StartPollingFails
  <2>1. /\ pc \in TryStates \/ (pc = "prepare" /\ i <= Len(cfg))
        /\ NextEntry
        /\ UNCHANGED <<exiting, flagVars, cfgVars, arrLive, count, thread, envVars>>
    BY <1>6 DEF PrepareFails, ConnectFails, OpenFails, StartPollingFails,
       arrVars, spiVars
  <2>2. /\ \A s \in 1 .. count : arr'[s] = arr[s]
        /\ \A a \in Attempts : a # Current =>
              /\ spiMem'[a] = spiMem[a] /\ fd'[a] = fd[a] /\ user'[a] = user[a]
              /\ mqttMem'[a] = mqttMem[a] /\ client'[a] = client[a]
    <3>1. CASE PrepareFails
      <4>1. /\ arr' = [arr EXCEPT ![Slot] = Current]
            /\ mqttMem' = mqttMem \/ mqttMem' = [mqttMem EXCEPT ![Current] = "live"]
            /\ UNCHANGED <<spiVars, client>>
        BY <3>1 DEF PrepareFails, Allocate
      <4>2. \A s \in 1 .. count : arr'[s] = arr[s]
        BY <4>1 DEF TypeOK, Slot
      <4>3. \A a \in Attempts : a # Current => mqttMem'[a] = mqttMem[a]
        BY <4>1 DEF TypeOK
      <4> QED
        BY <4>1, <4>2, <4>3 DEF spiVars
    <3>2. CASE OpenFails
      BY <3>2 DEF OpenFails, TypeOK, arrVars, mqttVars
    <3>3. CASE ConnectFails \/ StartPollingFails
      BY <3>3 DEF ConnectFails, StartPollingFails, arrVars, spiVars, mqttVars
    <3> QED BY <1>6, <3>1, <3>2, <3>3
  <2> USE <2>1, <2>2 DEF flagVars, cfgVars, envVars
  <2>3. LoadsCounted' /\ VersionRead' /\ TablesLive'
    BY DEF LoadsCounted, VersionRead, TablesLive
  <2>4. StartLoop' /\ SlotsFilled' /\ Trying'
    BY DEF TypeOK, StartLoop, SlotsFilled, Trying
  <2>5. ThreadsOfThePast'
    BY DEF TypeOK, ThreadsOfThePast
  <2>6. UnjoinedThreads' /\ JoinedThreads'
    BY OthersKept
  <2> QED BY <2>3, <2>4, <2>5, <2>6
<1>7. CASE FirstPass \/ StartDone
  <2> USE <1>7 DEF FirstPass, StartDone, mainVars, flagVars, cfgVars, arrVars,
     spiVars, mqttVars, envVars
  <2>1. LoadsCounted' /\ VersionRead' /\ TablesLive'
    BY DEF TypeOK, LoadsCounted, VersionRead, TablesLive
  <2>2. StartLoop' /\ SlotsFilled'
    BY CurrentAttempt DEF TypeOK, StartLoop, SlotsFilled, Slot, Slots, Current
  <2>3. ThreadsOfThePast'
    BY DEF TypeOK, ThreadsOfThePast, Current, UnjoinedThreads, Owned, Unjoined
  <2>4. Trying'
    BY CurrentAttempt DEF TypeOK, Trying, Allocate, StartLoop, Slots, Current,
       Slot, Entry
  <2>5. UnjoinedThreads' /\ JoinedThreads'
    BY OthersKept DEF Allocate, StartLoop, Slot, TypeOK
  <2> QED BY <2>1, <2>2, <2>3, <2>4, <2>5
<1>8. CASE StartPolling
  <2> USE <1>8 DEF StartPolling, mainVars, flagVars, cfgVars, arrVars, spiVars,
     mqttVars, envVars
  <2>1. LoadsCounted' /\ VersionRead' /\ TablesLive'
    BY DEF TypeOK, LoadsCounted, VersionRead, TablesLive
  <2>a. arr[count + 1] = Current /\ Current \in Attempts /\ thread[Current] = "none"
    BY CurrentAttempt DEF StartLoop, Slot
  <2>2. StartLoop' /\ SlotsFilled'
    <3>1. StartLoop'
      BY DEF StartLoop, TypeOK
    <3>2. SlotsFilled'
      BY <2>a DEF SlotsFilled, TypeOK
    <3> QED BY <3>1, <3>2
  <2>3. ThreadsOfThePast'
    BY DEF TypeOK, ThreadsOfThePast, Current, UnjoinedThreads, Owned, Unjoined
  <2>4. Trying'
    BY CurrentAttempt DEF TypeOK, Trying, Allocate, StartLoop, Slots, Current,
       Slot, Entry
  <2>5. UnjoinedThreads'
    <3> SUFFICES ASSUME NEW a \in Attempts, Unjoined(a)'
                 PROVE  Owned(a)'
      BY DEF UnjoinedThreads, Owned
    <3>1. CASE a = Current
      <4>1. a[1] = gen
        BY <3>1 DEF Current
      <4>2. /\ spiMem[a] = "live" /\ fd[a] = "open" /\ user[a] = count + 1
            /\ mqttMem[a] = "live" /\ client[a] = "live"
        BY <3>1 DEF Trying, Slot
      <4> QED
        BY <3>1, <4>1, <4>2, <2>a DEF Owned, TypeOK
    <3>2. CASE a # Current
      BY <3>2, <2>a DEF UnjoinedThreads, Owned, Unjoined, TypeOK
    <3> QED BY <3>1, <3>2
  <2>6. JoinedThreads'
    BY CurrentAttempt DEF TypeOK, JoinedThreads, Unjoined, UnjoinedThreads,
       Owned, SlotsFilled
  <2> QED BY <2>1, <2>2, <2>3, <2>4, <2>5, <2>6
<1>9. CASE CheckStop
  <2> USE <1>9 DEF CheckStop, mainVars, flagVars, cfgVars, arrVars, spiVars,
     mqttVars, envVars
  <2>1. LoadsCounted' /\ VersionRead' /\ TablesLive'
    BY DEF TypeOK, LoadsCounted, VersionRead, TablesLive
  <2>2. StartLoop' /\ SlotsFilled'
    BY CurrentAttempt DEF TypeOK, StartLoop, SlotsFilled, Slot, Slots, Current
  <2>3. ThreadsOfThePast'
    BY DEF TypeOK, ThreadsOfThePast, Current, UnjoinedThreads, Owned, Unjoined
  <2>4. Trying'
    BY CurrentAttempt DEF TypeOK, Trying, Allocate, StartLoop, Slots, Current,
       Slot, Entry
  <2>5. UnjoinedThreads'
    BY CurrentAttempt DEF TypeOK, Unjoined, UnjoinedThreads, Owned, SlotsFilled,
       StartLoop, Slot, Trying
  <2>6. JoinedThreads'
    BY CurrentAttempt DEF TypeOK, JoinedThreads, Unjoined, UnjoinedThreads,
       Owned, SlotsFilled
  <2> QED BY <2>1, <2>2, <2>3, <2>4, <2>5, <2>6
<1>10. CASE CheckReload
  <2> USE <1>10 DEF CheckReload, mainVars, flagVars, cfgVars, arrVars, spiVars,
     mqttVars, envVars
  <2>1. LoadsCounted' /\ VersionRead' /\ TablesLive'
    BY DEF TypeOK, LoadsCounted, VersionRead, TablesLive
  <2>2. StartLoop' /\ SlotsFilled'
    BY CurrentAttempt DEF TypeOK, StartLoop, SlotsFilled, Slot, Slots, Current
  <2>3. ThreadsOfThePast'
    BY DEF TypeOK, ThreadsOfThePast, Current, UnjoinedThreads, Owned, Unjoined
  <2>4. Trying'
    BY CurrentAttempt DEF TypeOK, Trying, Allocate, StartLoop, Slots, Current,
       Slot, Entry
  <2>5. UnjoinedThreads'
    BY CurrentAttempt DEF TypeOK, Unjoined, UnjoinedThreads, Owned, SlotsFilled,
       StartLoop, Slot, Trying
  <2>6. JoinedThreads'
    BY CurrentAttempt DEF TypeOK, JoinedThreads, Unjoined, UnjoinedThreads,
       Owned, SlotsFilled
  <2> QED BY <2>1, <2>2, <2>3, <2>4, <2>5, <2>6
<1>11. CASE StopBridge
  <2> USE <1>11 DEF StopBridge, mainVars, flagVars, cfgVars, arrVars, spiVars,
     mqttVars, envVars
  <2>1. LoadsCounted' /\ VersionRead' /\ TablesLive'
    BY DEF TypeOK, LoadsCounted, VersionRead, TablesLive
  <2>2. StartLoop' /\ SlotsFilled'
    BY CurrentAttempt DEF TypeOK, StartLoop, SlotsFilled, Slot, Slots, Current
  <2>3. ThreadsOfThePast'
    BY DEF TypeOK, ThreadsOfThePast, Current, UnjoinedThreads, Owned, Unjoined
  <2>4. Trying'
    BY CurrentAttempt DEF TypeOK, Trying, Allocate, StartLoop, Slots, Current,
       Slot, Entry
  <2>5. UnjoinedThreads'
    BY CurrentAttempt DEF TypeOK, Unjoined, UnjoinedThreads, Owned, SlotsFilled,
       StartLoop, Slot, Trying
  <2>6. JoinedThreads'
    BY CurrentAttempt DEF TypeOK, JoinedThreads, Unjoined, UnjoinedThreads,
       Owned, SlotsFilled
  <2> QED BY <2>1, <2>2, <2>3, <2>4, <2>5, <2>6
<1>12. CASE Join
  <2> USE <1>12 DEF Join, mainVars, flagVars, cfgVars, arrVars, spiVars,
     mqttVars, envVars
  <2>1. LoadsCounted' /\ VersionRead' /\ TablesLive'
    BY DEF TypeOK, LoadsCounted, VersionRead, TablesLive
  <2>2. StartLoop' /\ SlotsFilled'
    BY CurrentAttempt DEF TypeOK, StartLoop, SlotsFilled, Slot, Slots, Current
  <2>3. ThreadsOfThePast'
    BY DEF TypeOK, ThreadsOfThePast, Current, UnjoinedThreads, Owned, Unjoined
  <2>4. Trying'
    BY CurrentAttempt DEF TypeOK, Trying, Allocate, StartLoop, Slots, Current,
       Slot, Entry
  <2>5. UnjoinedThreads'
    BY CurrentAttempt DEF TypeOK, Unjoined, UnjoinedThreads, Owned, SlotsFilled,
       StartLoop, Slot, Trying
  <2>6. JoinedThreads'
    BY CurrentAttempt DEF TypeOK, JoinedThreads, Unjoined, UnjoinedThreads,
       Owned, SlotsFilled
  <2> QED BY <2>1, <2>2, <2>3, <2>4, <2>5, <2>6
<1>13. CASE CloseSpi
  <2> USE <1>13 DEF CloseSpi, mainVars, flagVars, cfgVars, arrVars, spiVars,
     mqttVars, envVars
  <2>1. LoadsCounted' /\ VersionRead' /\ TablesLive'
    BY DEF TypeOK, LoadsCounted, VersionRead, TablesLive
  <2>2. StartLoop' /\ SlotsFilled'
    BY CurrentAttempt DEF TypeOK, StartLoop, SlotsFilled, Slot, Slots, Current
  <2>3. ThreadsOfThePast'
    BY DEF TypeOK, ThreadsOfThePast, Current, UnjoinedThreads, Owned, Unjoined
  <2>4. Trying'
    BY CurrentAttempt DEF TypeOK, Trying, Allocate, StartLoop, Slots, Current,
       Slot, Entry
  <2>5. UnjoinedThreads'
    BY CurrentAttempt DEF TypeOK, Unjoined, UnjoinedThreads, Owned, SlotsFilled,
       StartLoop, Slot, Trying
  <2>6. JoinedThreads'
    BY CurrentAttempt DEF TypeOK, JoinedThreads, Unjoined, UnjoinedThreads,
       Owned, SlotsFilled
  <2> QED BY <2>1, <2>2, <2>3, <2>4, <2>5, <2>6
<1>14. CASE CloseMqtt
  <2> USE <1>14 DEF CloseMqtt, mainVars, flagVars, cfgVars, arrVars, spiVars,
     mqttVars, envVars
  <2>1. LoadsCounted' /\ VersionRead' /\ TablesLive'
    BY DEF TypeOK, LoadsCounted, VersionRead, TablesLive
  <2>2. StartLoop' /\ SlotsFilled'
    BY CurrentAttempt DEF TypeOK, StartLoop, SlotsFilled, Slot, Slots, Current
  <2>3. ThreadsOfThePast'
    BY DEF TypeOK, ThreadsOfThePast, Current, UnjoinedThreads, Owned, Unjoined
  <2>4. Trying'
    BY CurrentAttempt DEF TypeOK, Trying, Allocate, StartLoop, Slots, Current,
       Slot, Entry
  <2>5. UnjoinedThreads'
    BY CurrentAttempt DEF TypeOK, Unjoined, UnjoinedThreads, Owned, SlotsFilled,
       StartLoop, Slot, Trying
  <2>6. JoinedThreads'
    BY CurrentAttempt DEF TypeOK, JoinedThreads, Unjoined, UnjoinedThreads,
       Owned, SlotsFilled
  <2> QED BY <2>1, <2>2, <2>3, <2>4, <2>5, <2>6
<1>15. CASE StopDone
  <2> USE <1>15 DEF StopDone, mainVars, flagVars, cfgVars, arrVars, spiVars,
     mqttVars, envVars
  <2>1. LoadsCounted' /\ VersionRead' /\ TablesLive'
    BY DEF TypeOK, LoadsCounted, VersionRead, TablesLive
  <2>2. StartLoop' /\ SlotsFilled'
    BY CurrentAttempt DEF TypeOK, StartLoop, SlotsFilled, Slot, Slots, Current
  <2>3. ThreadsOfThePast'
    BY DEF TypeOK, ThreadsOfThePast, Current, UnjoinedThreads, Owned, Unjoined
  <2>4. Trying'
    BY CurrentAttempt DEF TypeOK, Trying, Allocate, StartLoop, Slots, Current,
       Slot, Entry
  <2>5. UnjoinedThreads'
    BY CurrentAttempt DEF TypeOK, Unjoined, UnjoinedThreads, Owned, SlotsFilled,
       StartLoop, Slot, Trying
  <2>6. JoinedThreads'
    BY CurrentAttempt DEF TypeOK, JoinedThreads, Unjoined, UnjoinedThreads,
       Owned, SlotsFilled
  <2> QED BY <2>1, <2>2, <2>3, <2>4, <2>5, <2>6
<1>16. CASE FreeCfg
  <2> USE <1>16 DEF FreeCfg, mainVars, flagVars, cfgVars, arrVars, spiVars,
     mqttVars, envVars
  <2>1. LoadsCounted' /\ VersionRead' /\ TablesLive'
    BY DEF TypeOK, LoadsCounted, VersionRead, TablesLive
  <2>2. StartLoop' /\ SlotsFilled'
    BY CurrentAttempt DEF TypeOK, StartLoop, SlotsFilled, Slot, Slots, Current
  <2>3. ThreadsOfThePast'
    BY DEF TypeOK, ThreadsOfThePast, Current, UnjoinedThreads, Owned, Unjoined
  <2>4. Trying'
    BY CurrentAttempt DEF TypeOK, Trying, Allocate, StartLoop, Slots, Current,
       Slot, Entry
  <2>5. UnjoinedThreads'
    BY CurrentAttempt DEF TypeOK, Unjoined, UnjoinedThreads, Owned, SlotsFilled,
       StartLoop, Slot, Trying
  <2>6. JoinedThreads'
    BY CurrentAttempt DEF TypeOK, JoinedThreads, Unjoined, UnjoinedThreads,
       Owned, SlotsFilled
  <2> QED BY <2>1, <2>2, <2>3, <2>4, <2>5, <2>6
<1> QED
  BY <1>1, <1>2, <1>3, <1>4, <1>5, <1>6, <1>7, <1>8, <1>9, <1>10, <1>11, <1>12,
     <1>13, <1>14, <1>15, <1>16 DEF Main

\* The polling threads move among the states of an unjoined thread.
LEMMA PollStep ==
    ASSUME IInv, NEW b \in Attempts, Poll(b), TypeOK' PROVE IInv'
<1>1. /\ pc # "exited" /\ Unjoined(b) /\ thread[b] # "ended"
      /\ thread' = [thread EXCEPT ![b] = thread'[b]]
      /\ thread'[b] \notin {"none", "joined"}
      /\ UNCHANGED <<mainVars, flagVars, cfgVars, arrVars, spiVars, mqttVars, envVars>>
  BY DEF Poll, PollCheck, PollReceive, PollNothing, PollPublish, PollSleep, Goto,
     Unjoined, IInv, TypeOK
<1>2. \A a \in Attempts : /\ Unjoined(a)' <=> Unjoined(a)
                          /\ thread'[a] = "none" <=> thread[a] = "none"
                          /\ thread'[a] = "joined" <=> thread[a] = "joined"
  BY <1>1 DEF Unjoined, IInv, TypeOK
<1> USE <1>1, <1>2 DEF IInv, mainVars, flagVars, cfgVars, arrVars, spiVars,
   mqttVars, envVars
<1>3. LoadsCounted' /\ VersionRead' /\ TablesLive' /\ StartLoop' /\ Trying'
  BY DEF LoadsCounted, VersionRead, TablesLive, StartLoop, Trying, Current, Slot,
     Entry
<1>4. SlotsFilled'
  BY DEF SlotsFilled, TypeOK
<1>5. ThreadsOfThePast' /\ UnjoinedThreads' /\ JoinedThreads'
  BY DEF ThreadsOfThePast, UnjoinedThreads, Owned, JoinedThreads
<1> QED BY <1>3, <1>4, <1>5

\* Signals and edits of the file keep the invariant.
LEMMA EnvironmentStep ==
    ASSUME IInv, Terminate \/ Hup \/ Edit \/ UNCHANGED vars, TypeOK' PROVE IInv'
<1> USE DEF IInv, Terminate, Hup, Edit, vars, mainVars, flagVars, cfgVars,
   arrVars, spiVars, mqttVars, envVars
<1>1. LoadsCounted'
  <2>1. CASE Hup
    BY <2>1, BoundsAssumption DEF LoadsCounted, TypeOK
  <2>2. CASE Terminate \/ Edit \/ UNCHANGED vars
    <3>1. UNCHANGED <<gen, reload, hups, pc, exiting>>
      BY <2>2
    <3> QED
      BY <3>1 DEF LoadsCounted
  <2> QED
    BY <2>1, <2>2
<1>2. VersionRead'
  BY BoundsAssumption DEF VersionRead, TypeOK
<1>3. TablesLive' /\ StartLoop' /\ Trying' /\ SlotsFilled'
  BY DEF TablesLive, StartLoop, Trying, SlotsFilled, Current, Slot, Entry
<1>4. ThreadsOfThePast' /\ UnjoinedThreads' /\ JoinedThreads'
  BY DEF ThreadsOfThePast, UnjoinedThreads, Owned, JoinedThreads, Unjoined
<1> QED BY <1>1, <1>2, <1>3, <1>4

\* The invariant is inductive.
LEMMA Inductive == IInv /\ [Next]_vars => IInv'
  BY TypeStep, MainStep, PollStep, EnvironmentStep DEF Next, Returned

\* The inductive invariant holds in every state of every behaviour of the daemon.
THEOREM Invariance == Spec => []IInv
  BY InitInvariant, Inductive, PTL DEF Spec

\* The variables of app_run, bridge.c, conn_spi.c and conn_mqtt.c that the model
\* keeps hold values of their types in every reachable state.
THEOREM TypeCorrect == Spec => []TypeOK
  BY Invariance, PTL DEF IInv

\* No thread works on a closed device, a freed runtime or configuration, or a
\* destroyed client, for every configuration file and every history of signals,
\* edits and failures.
THEOREM WorkersSafe == Spec => []WorkersUseLiveObjects
<1>1. IInv => WorkersUseLiveObjects
  <2> SUFFICES ASSUME IInv PROVE WorkersUseLiveObjects
    OBVIOUS
  <2>1. ASSUME NEW a \in Attempts, Unjoined(a) PROVE Usable(a)
    BY <2>1 DEF IInv, TypeOK, Slots, TablesLive, UnjoinedThreads, Owned, Usable
  <2>2. ASSUME pc \in {"firstPass", "poll"} PROVE Usable(Current)
    <3>1. Slot \in Slots /\ arr[Slot] = Current /\ Current[1] = gen
      BY <2>2, CurrentAttempt DEF IInv, StartLoop, TryStates, Current
    <3> QED
      BY <2>2, <3>1 DEF IInv, TablesLive, Trying, Usable
  <2> QED
    BY <2>1, <2>2 DEF WorkersUseLiveObjects
<1> QED
  BY <1>1, Invariance, PTL

\* stop_all_bridges reaches every thread ever created.
THEOREM NoThreadForgotten == Spec => []NoForgottenThread
<1>1. IInv => NoForgottenThread
  BY DEF IInv, NoForgottenThread, UnjoinedThreads, Owned
<1> QED
  BY <1>1, Invariance, PTL

\* Before a reload and at exit, every bridge that was started is released.
THEOREM ReleasedWhenStopped == Spec => []StartedBridgesReleased
<1>1. IInv => StartedBridgesReleased
  BY DEF IInv, StartedBridgesReleased, UnjoinedThreads, Owned, Unjoined,
         JoinedThreads
<1> QED
  BY <1>1, Invariance, PTL

(***************************************************************************)
(* Refinement: every step of the daemon is a step of GatewayService, or    *)
(* leaves what the service shows unchanged.                                *)
(***************************************************************************)

Active == {a \in Attempts : Unjoined(a)}

\* The daemon's initial states are idle.
LEMMA ServiceInit == Init => Service!Init
  BY DEF Init, Service!Init, Phase, Unjoined

\* Without an unjoined thread nothing is active.
LEMMA NothingActive ==
    ASSUME IInv, pc \in {"load", "freeCfg", "exited"} PROVE Active = {}
  BY DEF IInv, UnjoinedThreads, Owned, Active

\* Every step of the daemon maps to a step of the service or to a stutter.
LEMMA ServiceStep == IInv /\ [Next]_vars => [Service!Next]_(Service!vars)
<1> SUFFICES ASSUME IInv, [Next]_vars
             PROVE  Service!Next \/ UNCHANGED <<Phase, loadedVer, Active>>
  BY DEF Service!vars, Active
<1> USE DEF mainVars, flagVars, cfgVars, arrVars, spiVars, mqttVars, envVars
<1>1. CASE Load
  <2>1. Active = {} /\ Active' = Active
    BY <1>1, NothingActive DEF Load, Active, Unjoined
  <2>2. Phase = "idle" /\ Phase' = "serving"
    BY <1>1 DEF Load, Phase
  <2>3. loadedVer' \in loadedVer .. MaxEdits
    BY <1>1 DEF Load, IInv, TypeOK, VersionRead
  <2> QED
    BY <2>1, <2>2, <2>3 DEF Service!Next, Service!Adopt, Active
<1>2. CASE LoadFails
  <2>1. Active = {} /\ Active' = Active
    BY <1>2, NothingActive DEF LoadFails, Active, Unjoined
  <2>2. Phase = "idle" /\ Phase' = "ended" /\ loadedVer' = loadedVer
    BY <1>2 DEF LoadFails, Phase
  <2> QED
    BY <2>1, <2>2 DEF Service!Next, Service!GiveUp, Active
<1>3. CASE StartPolling
  <2>1. Current \in Attempts /\ thread[Current] = "none"
    BY <1>3, CurrentAttempt DEF StartPolling, IInv, TryStates
  <2>2. Current \notin Active /\ Active' = Active \cup {Current}
    BY <1>3, <2>1 DEF StartPolling, Active, Unjoined, IInv, TypeOK
  <2>3. Phase = "serving" /\ Phase' = "serving" /\ loadedVer' = loadedVer
    BY <1>3 DEF StartPolling, NextEntry, Phase
  <2> QED
    BY <2>1, <2>2, <2>3 DEF Service!Next, Service!Start, Active
<1>4. CASE Join
  <2>1. arr[i] \in Attempts /\ arr[i] \in Active /\ Active' = Active \ {arr[i]}
    BY <1>4 DEF Join, IInv, TypeOK, SlotsFilled, Active, Unjoined
  <2>2. Phase = "draining" /\ Phase' = "draining" /\ loadedVer' = loadedVer
    BY <1>4 DEF Join, Phase
  <2> QED
    BY <2>1, <2>2 DEF Service!Next, Service!Finish, Active
<1>5. CASE CheckStop \/ CheckReload
  <2>1. Active' = Active /\ loadedVer' = loadedVer
    BY <1>5 DEF CheckStop, CheckReload, Active, Unjoined
  <2>2. Phase = "serving" /\ Phase' \in {"serving", "draining"}
    BY <1>5 DEF CheckStop, CheckReload, Phase
  <2> QED
    BY <2>1, <2>2 DEF Service!Next, Service!Drain, Active
<1>6. CASE FreeCfg
  <2>1. Active = {} /\ Active' = Active
    BY <1>6, NothingActive DEF FreeCfg, Active, Unjoined
  <2>2. Phase = "draining" /\ Phase' \in {"idle", "ended"} /\ loadedVer' = loadedVer
    BY <1>6 DEF FreeCfg, Phase
  <2> QED
    BY <2>1, <2>2 DEF Service!Next, Service!Release, Active
<1>7. CASE \/ Prepare \/ PrepareFails \/ Connect \/ ConnectFails \/ Open \/ OpenFails
           \/ FirstPass \/ StartPollingFails \/ StartDone
  <2>1. thread' = thread /\ loadedVer' = loadedVer
    BY <1>7 DEF Prepare, PrepareFails, Connect, ConnectFails, Open, OpenFails,
                FirstPass, StartPollingFails, StartDone
  <2>2. Phase = "serving" /\ Phase' = "serving"
    BY <1>7 DEF Prepare, PrepareFails, Connect, ConnectFails, Open, OpenFails,
                FirstPass, StartPollingFails, StartDone, NextEntry, Phase
  <2> QED
    BY <2>1, <2>2 DEF Active, Unjoined
<1>8. CASE StopBridge \/ CloseSpi \/ CloseMqtt \/ StopDone
  <2>1. thread' = thread /\ loadedVer' = loadedVer
    BY <1>8 DEF StopBridge, CloseSpi, CloseMqtt, StopDone
  <2>2. Phase = "draining" /\ Phase' = "draining"
    BY <1>8 DEF StopBridge, CloseSpi, CloseMqtt, StopDone, Phase
  <2> QED
    BY <2>1, <2>2 DEF Active, Unjoined
<1>9. CASE \E a \in Attempts : Poll(a)
  <2>1. PICK a \in Attempts : Poll(a)
    BY <1>9
  <2>2. Active' = Active
    BY <2>1 DEF Poll, PollCheck, PollReceive, PollNothing, PollPublish, PollSleep,
                Goto, Active, Unjoined, IInv, TypeOK
  <2>3. Phase' = Phase /\ loadedVer' = loadedVer
    BY <2>1 DEF Poll, PollCheck, PollReceive, PollNothing, PollPublish, PollSleep,
                Goto, Phase
  <2> QED
    BY <2>2, <2>3
<1>10. CASE Terminate \/ Hup \/ Edit \/ UNCHANGED vars
  BY <1>10 DEF Terminate, Hup, Edit, vars, Phase, Active, Unjoined
<1> QED
  BY <1>1, <1>2, <1>3, <1>4, <1>5, <1>6, <1>7, <1>8, <1>9, <1>10
     DEF Next, Main, Returned

\* app_run implements the service: one configuration at a time, drained before
\* the next one.
THEOREM Implementation == Spec => ImplementsService
  BY ServiceInit, ServiceStep, Invariance, PTL DEF Spec, ImplementsService,
     Service!Spec
=============================================================================
