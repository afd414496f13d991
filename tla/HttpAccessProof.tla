--------------------------- MODULE HttpAccessProof ---------------------------
(***************************************************************************)
(* What holds of HttpAccess for any number of connections and any          *)
(* requests, however bodies are cut, connections closed and allocations    *)
(* fail.                                                                   *)
(***************************************************************************)
EXTENDS HttpAccess, Recursion, SequenceTheorems, TLAPS

USE HttpAssumption

\* TypeOK, but for the room of the accumulators.
Types ==
    /\ server \in {"none", "running", "stopped"} /\ onRx \in BOOLEAN /\ onRxUser \in BOOLEAN
    /\ phase \in [Conns -> {"none", "headers", "body", "replied", "closed"}]
    /\ fails \in [Conns -> Nat] /\ stalled \in [Conns -> BOOLEAN]
    /\ conCls \in [Conns -> BOOLEAN] /\ reply \in [Conns -> {0, 200, 404, 405, 500}]
    /\ req \in [Conns -> Requests] /\ taken \in [Conns -> Nat] /\ arrived \in [Conns -> Nat]
    /\ DOMAIN acc = Conns /\ DOMAIN sent = Conns
    /\ \A c \in Conns : /\ taken[c] <= arrived[c] /\ arrived[c] <= req[c].length
                        /\ DOMAIN acc[c] = {"data", "cap", "state"}
                        /\ acc[c].state \in {"none", "live", "freed"}

\* Where a request is decides what on_access has done of it.
Progress(c) ==
    /\ phase[c] \in {"none", "headers"} => ~conCls[c] /\ taken[c] = 0
    /\ phase[c] \in {"none", "headers", "body"} => reply[c] = 0 /\ sent[c] = <<>>
    /\ acc[c].state = "freed" => phase[c] \in {"replied", "closed"}

\* A live accumulator holds what has been taken of the body; without one, nothing has
\* been taken as long as the request lasts.
Collected(c) ==
    /\ conCls[c] => acc[c].data = SubSeq(Body(c), 1, taken[c])
    /\ ~conCls[c] /\ phase[c] = "body" => taken[c] = 0

\* The properties, of one connection.
Pointed(c) == conCls[c] <=> acc[c].state = "live"
Accounted(c) ==
    acc[c].state = "live" =>
        \/ phase[c] \in {"headers", "body"}
        \/ phase[c] = "closed" /\ reply[c] = 0
        \/ reply[c] = 405 /\ req[c].method # "POST"
        \/ reply[c] = 500 /\ fails[c] > 0 /\ taken[c] < req[c].length
Whole(c) ==
    /\ sent[c] \in {<<>>, <<Body(c)>>}
    /\ sent[c] # <<>> => req[c].method = "POST" /\ req[c].allowed
    /\ reply[c] = 200 => sent[c] # <<>>

Sound(c) == Progress(c) /\ Collected(c) /\ Pointed(c) /\ Accounted(c) /\ Whole(c)

IInv == Types /\ \A c \in Conns : Sound(c)

(***************************************************************************)
(* The body of a request.                                                  *)
(***************************************************************************)

\* A body is a sequence of its bytes.
LEMMA BodyIsSequence ==
    ASSUME Types, NEW c \in Conns
    PROVE  /\ Body(c) \in Seq({c} \X Nat) /\ Len(Body(c)) = req[c].length
           /\ req[c].length \in Nat
<1>1. req[c].length \in Nat
  BY DEF Types
<1>2. \A n \in 1 .. req[c].length : Byte(c, n) \in {c} \X Nat
  BY <1>1 DEF Byte
<1>3. Body(c) \in [1 .. req[c].length -> {c} \X Nat]
  BY <1>2 DEF Body
<1> QED BY <1>1, <1>3

\* What a call brings goes on where the calls before ended.
LEMMA Appended ==
    ASSUME Types, NEW c \in Conns, taken[c] < arrived[c]
    PROVE  SubSeq(Body(c), 1, taken[c]) \o SubSeq(Body(c), taken[c] + 1, arrived[c])
               = SubSeq(Body(c), 1, arrived[c])
<1>1. /\ Body(c) \in Seq({c} \X Nat) /\ Len(Body(c)) = req[c].length
      /\ req[c].length \in Nat /\ taken[c] \in Nat /\ arrived[c] \in Nat
      /\ arrived[c] <= req[c].length
  BY BodyIsSequence DEF Types
<1>2. /\ 1 \in 1 .. Len(Body(c)) + 1 /\ taken[c] \in 1 - 1 .. Len(Body(c))
      /\ arrived[c] \in taken[c] .. Len(Body(c))
  BY <1>1
<1> QED BY <1>1, <1>2, ConcatAdjacentSubSeq

\* Nothing of it, and all of it.
LEMMA BodyEnds ==
    ASSUME Types, NEW c \in Conns
    PROVE  /\ SubSeq(Body(c), 1, 0) = <<>>
           /\ SubSeq(Body(c), 1, req[c].length) = Body(c)
<1>1. Body(c) \in Seq({c} \X Nat) /\ Len(Body(c)) = req[c].length
  BY BodyIsSequence
<1> QED BY <1>1, SubSeqEmpty, SubSeqFull

(***************************************************************************)
(* Types.                                                                  *)
(***************************************************************************)

\* The actions of a connection, on_access among them.
Step(c) ==
    \/ Request(c) \/ Arrive(c) \/ Disconnect(c)
    \/ FirstCall(c) \/ Collect(c) \/ RefuseRoute(c) \/ Forward(c) \/ RefuseMethod(c)

\* What a step of a connection leaves alone.
Others(c) ==
    \A d \in Conns \ {c} :
        UNCHANGED <<phase[d], taken[d], arrived[d], conCls[d], acc[d], reply[d], sent[d],
                    fails[d]>>

\* The record of an accumulator, whatever is done to it.
LEMMA AccTypes ==
    ASSUME Types, NEW c \in Conns
    PROVE  /\ DOMAIN NewAcc = {"data", "cap", "state"} /\ NewAcc.state = "live"
           /\ NewAcc.data = <<>>
           /\ \A data, cap :
                 LET new == [data |-> data, cap |-> cap, state |-> acc[c].state]
                 IN  /\ DOMAIN new = {"data", "cap", "state"} /\ new.data = data
                     /\ new.state = acc[c].state
           /\ LET freed == [acc[c] EXCEPT !.state = "freed"]
              IN  DOMAIN freed = {"data", "cap", "state"} /\ freed.state = "freed"
BY DEF Types, NewAcc

\* libmicrohttpd and the clients.
LEMMA OutsideTypes ==
    ASSUME Types, NEW c \in Conns, Request(c) \/ Arrive(c) \/ Disconnect(c)
    PROVE  Types' /\ Others(c)
<1> USE DEF Types, Others, mainVars, accessVars
<1>1. CASE Request(c)
  BY <1>1 DEF Request
<1>2. CASE Arrive(c)
  <2>1. arrived[c] + 1 \in Nat /\ arrived[c] + 1 <= req[c].length
    BY <1>2, BodyIsSequence DEF Arrive
  <2> QED BY <1>2, <2>1 DEF Arrive
<1>3. CASE Disconnect(c)
  BY <1>3 DEF Disconnect
<1> QED BY <1>1, <1>2, <1>3

\* A failed allocation counts for its connection.
LEMMA FailTypes ==
    ASSUME Types, NEW c \in Conns, fails' = fails \/ FailAlloc(c)
    PROVE  /\ fails' \in [Conns -> Nat] /\ \A d \in Conns \ {c} : fails'[d] = fails[d]
           /\ FailAlloc(c) => fails'[c] > 0
<1>1. CASE fails' = fails /\ ~FailAlloc(c)
  BY <1>1 DEF Types
<1>2. CASE FailAlloc(c)
  <2>1. fails[c] \in Nat /\ fails \in [Conns -> Nat]
    BY DEF Types
  <2>2. fails' = [fails EXCEPT ![c] = fails[c] + 1]
    BY <1>2 DEF FailAlloc
  <2> QED BY <2>1, <2>2
<1> QED BY <1>1, <1>2

\* An answer, which libmicrohttpd takes or not.
LEMMA QueueTypes ==
    ASSUME Types, NEW c \in Conns, NEW code \in {200, 404, 405, 500}, Queue(c, code)
    PROVE  /\ phase' \in [Conns -> {"none", "headers", "body", "replied", "closed"}]
           /\ reply' \in [Conns -> {0, 200, 404, 405, 500}]
           /\ stalled' \in [Conns -> BOOLEAN]
           /\ \A d \in Conns \ {c} : phase'[d] = phase[d] /\ reply'[d] = reply[d]
           /\ phase'[c] \in {"replied", "closed"} /\ reply'[c] = code
<1>1. PICK p \in {"replied", "closed"} : phase' = [phase EXCEPT ![c] = p]
  BY Zenon DEF Queue
<1>2. reply' = [reply EXCEPT ![c] = code] /\ stalled' = [stalled EXCEPT ![c] = FALSE]
  BY Zenon DEF Queue
<1> QED BY <1>1, <1>2 DEF Types

\* on_access.
LEMMA AccessTypes ==
    ASSUME Types, NEW c \in Conns,
           FirstCall(c) \/ Collect(c) \/ RefuseRoute(c) \/ Forward(c) \/ RefuseMethod(c)
    PROVE  Types' /\ Others(c)
<1> USE DEF mainVars
<1>1. CASE FirstCall(c)
  <2>1. /\ phase' = [phase EXCEPT ![c] = "body"]
        /\ \/ conCls' = [conCls EXCEPT ![c] = TRUE] /\ acc' = [acc EXCEPT ![c] = NewAcc]
           \/ UNCHANGED <<conCls, acc>>
        /\ fails' = fails \/ FailAlloc(c)
        /\ stalled' = [stalled EXCEPT ![c] = phase[c] = "body"]
        /\ UNCHANGED <<server, onRx, onRxUser, req, arrived, taken, reply, sent>>
    BY <1>1, Zenon DEF FirstCall
  <2>2. /\ phase' \in [Conns -> {"none", "headers", "body", "replied", "closed"}]
        /\ stalled' \in [Conns -> BOOLEAN]
    BY <2>1 DEF Types
  <2>3. fails' \in [Conns -> Nat] /\ \A d \in Conns \ {c} : fails'[d] = fails[d]
    BY <2>1, FailTypes
  <2>4. CASE conCls' = [conCls EXCEPT ![c] = TRUE] /\ acc' = [acc EXCEPT ![c] = NewAcc]
    BY <2>1, <2>2, <2>3, <2>4, AccTypes DEF Types, Others
  <2>5. CASE UNCHANGED <<conCls, acc>>
    BY <2>1, <2>2, <2>3, <2>5 DEF Types, Others
  <2> QED BY <2>1, <2>4, <2>5
<1>2. CASE Collect(c)
  <2> DEFINE data == acc[c].data \o SubSeq(Body(c), taken[c] + 1, arrived[c])
             cap == Grown(acc[c].cap, Len(data) + 1)
  <2>1. /\ \/ /\ acc' = [acc EXCEPT ![c] =
                            [data |-> data, cap |-> cap, state |-> acc[c].state]]
              /\ taken' = [taken EXCEPT ![c] = arrived[c]]
              /\ stalled' = [stalled EXCEPT ![c] = FALSE]
              /\ UNCHANGED <<phase, reply, fails>>
           \/ FailAlloc(c) /\ Queue(c, 500) /\ UNCHANGED <<acc, taken>>
        /\ UNCHANGED <<server, onRx, onRxUser, req, arrived, conCls, sent>>
    BY <1>2 DEF Collect
  <2> HIDE DEF data, cap
  <2>2. CASE /\ acc' = [acc EXCEPT ![c] = [data |-> data, cap |-> cap, state |-> acc[c].state]]
             /\ taken' = [taken EXCEPT ![c] = arrived[c]]
             /\ stalled' = [stalled EXCEPT ![c] = FALSE]
             /\ UNCHANGED <<phase, reply, fails>>
    BY <2>1, <2>2, AccTypes DEF Types, Others
  <2>3. CASE FailAlloc(c) /\ Queue(c, 500) /\ UNCHANGED <<acc, taken>>
    BY <2>1, <2>3, FailTypes, QueueTypes DEF Types, Others
  <2> QED BY <2>1, <2>2, <2>3
<1>3. CASE RefuseRoute(c) \/ Forward(c)
  <2>1. /\ acc' = [acc EXCEPT ![c] = [acc[c] EXCEPT !.state = "freed"]]
        /\ conCls' = [conCls EXCEPT ![c] = FALSE]
        /\ \E code \in {200, 404, 500} : Queue(c, code)
        /\ sent' = sent \/ sent' = [sent EXCEPT ![c] = Append(@, acc[c].data)]
        /\ UNCHANGED <<server, onRx, onRxUser, req, arrived, taken, fails>>
    BY <1>3 DEF RefuseRoute, Forward, Release, OnHttpRx
  <2>2. PICK code \in {200, 404, 500} : Queue(c, code)
    BY <2>1
  <2>3. /\ reply' \in [Conns -> {0, 200, 404, 405, 500}]
        /\ phase' \in [Conns -> {"none", "headers", "body", "replied", "closed"}]
        /\ stalled' \in [Conns -> BOOLEAN]
        /\ \A d \in Conns \ {c} : UNCHANGED <<reply[d], phase[d]>>
    BY <2>2, QueueTypes
  <2>4. conCls' \in [Conns -> BOOLEAN] /\ \A d \in Conns \ {c} : UNCHANGED conCls[d]
    BY <2>1 DEF Types
  <2>5. /\ DOMAIN sent' = Conns /\ DOMAIN acc' = Conns
        /\ \A d \in Conns \ {c} : UNCHANGED <<sent[d], acc[d]>>
        /\ DOMAIN acc'[c] = {"data", "cap", "state"} /\ acc'[c].state = "freed"
    BY <2>1, AccTypes DEF Types
  <2> QED BY <2>1, <2>3, <2>4, <2>5 DEF Types, Others
<1>4. CASE RefuseMethod(c)
  <2>1. /\ Queue(c, 405)
        /\ UNCHANGED <<server, onRx, onRxUser, req, arrived, taken, conCls, acc, sent, fails>>
    BY <1>4 DEF RefuseMethod
  <2> QED BY <2>1, QueueTypes DEF Types, Others
<1> QED BY <1>1, <1>2, <1>3, <1>4

(***************************************************************************)
(* Steps.                                                                  *)
(***************************************************************************)

\* A connection that a step leaves alone stays sound.
LEMMA Kept ==
    ASSUME Types, NEW c \in Conns, Sound(c), UNCHANGED req,
           UNCHANGED <<phase[c], taken[c], conCls[c], acc[c], reply[c], sent[c], fails[c]>>
    PROVE  Sound(c)'
<1>1. Body(c)' = Body(c)
  BY DEF Body, Byte
<1> QED BY <1>1 DEF Sound, Progress, Collected, Pointed, Accounted, Whole

\* Arrivals count for nothing until on_access takes them.
LEMMA OutsideSound ==
    ASSUME Types, NEW c \in Conns, Sound(c), Request(c) \/ Arrive(c) \/ Disconnect(c)
    PROVE  Sound(c)'
<1>1. Body(c)' = Body(c)
  BY DEF Request, Arrive, Disconnect, Body, Byte
<1> USE <1>1 DEF accessVars, Types, Sound, Progress, Collected, Pointed, Accounted, Whole
<1>2. CASE Request(c)
  BY <1>2 DEF Request
<1>3. CASE Arrive(c)
  BY <1>3 DEF Arrive
<1>4. CASE Disconnect(c)
  BY <1>4 DEF Disconnect
<1> QED BY <1>2, <1>3, <1>4

\* The call that allocates consumes nothing.
LEMMA FirstCallSound ==
    ASSUME Types, NEW c \in Conns, Sound(c), FirstCall(c)
    PROVE  Sound(c)'
<1>1. Body(c)' = Body(c) /\ req' = req
  BY DEF FirstCall, Body, Byte
<1>2. /\ phase[c] \in {"headers", "body"} /\ phase'[c] = "body"
      /\ taken'[c] = taken[c] /\ reply'[c] = reply[c] /\ sent'[c] = sent[c]
      /\ taken[c] = 0 /\ ~conCls[c]
  BY DEF FirstCall, Due, Types, Sound, Progress, Collected
<1>3. CASE conCls'[c] = TRUE /\ acc'[c] = NewAcc
  <2>1. acc'[c].data = <<>> /\ acc'[c].state = "live"
    BY <1>3 DEF NewAcc
  <2>2. SubSeq(Body(c), 1, 0) = <<>>
    BY BodyEnds
  <2>3. Progress(c)' /\ Pointed(c)' /\ Accounted(c)'
    BY <1>2, <1>3, <2>1 DEF Sound, Progress, Pointed, Accounted
  <2>4. Collected(c)'
    BY <1>1, <1>2, <1>3, <2>1, <2>2 DEF Collected
  <2>5. Whole(c)'
    BY <1>1, <1>2 DEF Sound, Progress, Whole
  <2> QED BY <2>3, <2>4, <2>5 DEF Sound
<1>4. CASE conCls'[c] = conCls[c] /\ acc'[c] = acc[c]
  BY <1>1, <1>2, <1>4 DEF Sound, Progress, Collected, Pointed, Accounted, Whole
<1>5. \/ conCls' = [conCls EXCEPT ![c] = TRUE] /\ acc' = [acc EXCEPT ![c] = NewAcc]
      \/ UNCHANGED <<conCls, acc>>
  BY Zenon DEF FirstCall
<1>6. \/ conCls'[c] = TRUE /\ acc'[c] = NewAcc
      \/ conCls'[c] = conCls[c] /\ acc'[c] = acc[c]
  BY <1>5 DEF Types
<1> QED BY <1>3, <1>4, <1>6

\* The data of a call goes to the end of the accumulator, or none of it does.
LEMMA CollectSound ==
    ASSUME Types, NEW c \in Conns, Sound(c), Collect(c)
    PROVE  Sound(c)'
<1> DEFINE data == acc[c].data \o SubSeq(Body(c), taken[c] + 1, arrived[c])
           cap == Grown(acc[c].cap, Len(data) + 1)
<1>1. Body(c)' = Body(c) /\ req' = req
  BY DEF Collect, Body, Byte
<1>2. /\ phase[c] = "body" /\ conCls[c] /\ conCls' = conCls /\ sent' = sent
      /\ taken[c] < arrived[c] /\ arrived[c] <= req[c].length /\ req[c].length \in Nat
      /\ taken[c] \in Nat /\ arrived[c] \in Nat
      /\ acc[c].state = "live"
  <2>1. phase[c] = "body"
    BY DEF Collect, Due, Sound, Progress, UploadSize
  <2> QED BY <2>1, BodyIsSequence DEF Collect, UploadSize, Types, Sound, Pointed
<1>3. CASE /\ acc' = [acc EXCEPT ![c] =
                          [data |-> data, cap |-> cap, state |-> acc[c].state]]
           /\ taken' = [taken EXCEPT ![c] = arrived[c]]
           /\ UNCHANGED <<phase, reply, fails>>
  <2>1. data = SubSeq(Body(c), 1, arrived[c])
    BY <1>2, Appended DEF Sound, Collected
  <2>2. acc'[c].data = data /\ acc'[c].state = "live" /\ taken'[c] = arrived[c]
    <3> HIDE DEF data, cap
    <3> QED BY <1>2, <1>3, AccTypes DEF Types
  <2> HIDE DEF data, cap
  <2> QED BY <1>1, <1>2, <1>3, <2>1, <2>2
          DEF Sound, Progress, Collected, Pointed, Accounted, Whole
<1>4. CASE FailAlloc(c) /\ Queue(c, 500) /\ UNCHANGED <<acc, taken>>
  <2>1. reply'[c] = 500 /\ phase'[c] \in {"replied", "closed"} /\ fails'[c] > 0
    BY <1>4, FailTypes, QueueTypes
  <2> QED BY <1>1, <1>2, <1>4, <2>1
          DEF Sound, Progress, Collected, Pointed, Accounted, Whole
<1> QED BY <1>3, <1>4 DEF Collect

\* A complete body has arrived and been taken to its last byte.
LEMMA CompleteBody ==
    ASSUME Types, NEW c \in Conns, Sound(c), Complete(c)
    PROVE  /\ phase[c] = "body" /\ conCls[c] /\ acc[c].data = Body(c)
           /\ sent[c] = <<>> /\ req[c].method = "POST"
<1>1. phase[c] = "body" /\ conCls[c]
  BY DEF Complete, Due, Sound, Progress
<1>2. taken[c] = req[c].length
  BY <1>1, BodyIsSequence DEF Complete, Due, UploadSize, Types
<1> QED BY <1>1, <1>2, BodyEnds DEF Complete, Sound, Progress, Collected

\* What is complete is handed on or refused, and its accumulator freed.
LEMMA ReleaseSound ==
    ASSUME Types, NEW c \in Conns, Sound(c), RefuseRoute(c) \/ Forward(c)
    PROVE  Sound(c)'
<1>1. Body(c)' = Body(c) /\ req' = req
  BY DEF RefuseRoute, Forward, Body, Byte
<1>2. /\ phase[c] = "body" /\ conCls[c] /\ acc[c].data = Body(c)
      /\ sent[c] = <<>> /\ req[c].method = "POST"
  BY CompleteBody DEF RefuseRoute, Forward
<1>3. acc'[c].state = "freed" /\ conCls'[c] = FALSE /\ phase'[c] \in {"replied", "closed"}
  <2>1. /\ acc' = [acc EXCEPT ![c] = [acc[c] EXCEPT !.state = "freed"]]
        /\ conCls' = [conCls EXCEPT ![c] = FALSE]
        /\ \E code \in {200, 404, 500} : Queue(c, code)
    BY DEF RefuseRoute, Forward, Release, OnHttpRx
  <2> QED BY <2>1, AccTypes, QueueTypes DEF Types
<1>4. \/ sent'[c] = <<>> /\ reply'[c] # 200
      \/ sent'[c] = <<Body(c)>> /\ req[c].allowed
  <2>1. CASE sent' = sent /\ reply' = [reply EXCEPT ![c] = 404]
    BY <1>2, <2>1 DEF Types
  <2>2. CASE sent' = sent /\ reply' = [reply EXCEPT ![c] = 500]
    BY <1>2, <2>2 DEF Types
  <2>3. CASE sent' = [sent EXCEPT ![c] = Append(@, acc[c].data)] /\ req[c].allowed
    BY <1>2, <2>3 DEF Types
  <2> QED BY <2>1, <2>2, <2>3 DEF RefuseRoute, Forward, OnHttpRx, Queue, Allowed
<1>5. Progress(c)' /\ Pointed(c)' /\ Accounted(c)' /\ Collected(c)'
  BY <1>3 DEF Progress, Pointed, Accounted, Collected
<1>6. Whole(c)'
  <2>1. <<Body(c)>> # <<>>
    OBVIOUS
  <2>2. CASE sent'[c] = <<>> /\ reply'[c] # 200
    BY <2>2 DEF Whole
  <2>3. CASE sent'[c] = <<Body(c)>> /\ req[c].allowed
    BY <1>1, <1>2, <2>1, <2>3 DEF Whole
  <2> QED BY <1>4, <2>2, <2>3
<1> QED BY <1>5, <1>6 DEF Sound

\* Nothing of a body has been handed on when its method is refused.
LEMMA RefuseMethodSound ==
    ASSUME Types, NEW c \in Conns, Sound(c), RefuseMethod(c)
    PROVE  Sound(c)'
<1>1. Body(c)' = Body(c) /\ req' = req
  BY DEF RefuseMethod, Body, Byte
<1>2. /\ reply'[c] = 405 /\ phase'[c] \in {"replied", "closed"}
      /\ phase[c] \in {"headers", "body"}
  BY QueueTypes DEF RefuseMethod, Due
<1>3. UNCHANGED <<acc, conCls, taken, sent, fails>> /\ req[c].method # "POST" /\ conCls[c]
  BY DEF RefuseMethod
<1> QED BY <1>1, <1>2, <1>3 DEF Sound, Progress, Collected, Pointed, Accounted, Whole

\* The main thread starts the server, registers the callback and stops the server.
LEMMA MainPreserves ==
    ASSUME IInv, Start \/ SetOnRx \/ SetOnRxUser \/ Stop
    PROVE  IInv'
<1>1. CASE Start \/ SetOnRx \/ SetOnRxUser
  <2>1. UNCHANGED <<req, phase, arrived, taken, conCls, acc, reply, sent, fails, stalled>>
    BY <1>1 DEF Start, SetOnRx, SetOnRxUser, connVars, accessVars
  <2>2. server' \in {"none", "running", "stopped"} /\ onRx' \in BOOLEAN /\ onRxUser' \in BOOLEAN
    BY <1>1 DEF IInv, Types, Start, SetOnRx, SetOnRxUser
  <2>3. Types'
    BY <2>1, <2>2 DEF IInv, Types
  <2> QED BY <2>1, <2>3, Kept DEF IInv
<1>2. CASE Stop
  <2>1. Types'
    BY <1>2 DEF IInv, Types, Stop, accessVars
  <2>2. ASSUME NEW c \in Conns
        PROVE  Sound(c)'
    <3>1. Body(c)' = Body(c)
      BY <1>2 DEF Stop, Body, Byte
    <3>2. /\ phase'[c] = IF phase[c] = "none" THEN "none" ELSE "closed"
          /\ UNCHANGED <<req, taken, conCls, acc, reply, sent, fails>>
      BY <1>2, <2>2 DEF Stop, accessVars
    <3> QED BY <3>1, <3>2
            DEF IInv, Sound, Progress, Collected, Pointed, Accounted, Whole
  <2> QED BY <2>1, <2>2 DEF IInv
<1> QED BY <1>1, <1>2

\* A connection's step keeps it sound and leaves the others alone.
LEMMA StepPreserves == ASSUME IInv, NEW c \in Conns, Step(c) PROVE IInv'
<1>1. Types' /\ Others(c)
  BY OutsideTypes, AccessTypes DEF Step, IInv
<1>2. Sound(c)'
  BY OutsideSound, FirstCallSound, CollectSound, ReleaseSound, RefuseMethodSound
     DEF Step, IInv
<1>3. req' = req
  BY DEF Step, Request, Arrive, Disconnect, FirstCall, Collect, RefuseRoute, Forward,
         RefuseMethod
<1>4. ASSUME NEW d \in Conns, d # c
      PROVE  Sound(d)'
  BY <1>1, <1>3, <1>4, Kept DEF Others, IInv
<1> QED BY <1>1, <1>2, <1>4 DEF IInv

(***************************************************************************)
(* The theorems.                                                           *)
(***************************************************************************)

\* No request has come.
LEMMA InitEstablishes == Init => IInv
<1> SUFFICES ASSUME Init PROVE IInv
  OBVIOUS
<1>1. Types
  <2>1. DOMAIN NoAcc = {"data", "cap", "state"} /\ NoAcc.state = "none"
    BY DEF NoAcc
  <2>2. \A c \in Conns : /\ taken[c] = 0 /\ arrived[c] = 0 /\ acc[c] = NoAcc
                         /\ req[c].length \in Nat
    BY DEF Init
  <2>3. \A c \in Conns : /\ taken[c] <= arrived[c] /\ arrived[c] <= req[c].length
                         /\ DOMAIN acc[c] = {"data", "cap", "state"}
                         /\ acc[c].state \in {"none", "live", "freed"}
    BY <2>1, <2>2
  <2>4. /\ taken \in [Conns -> Nat] /\ arrived \in [Conns -> Nat]
        /\ DOMAIN acc = Conns /\ DOMAIN sent = Conns
    BY DEF Init
  <2> QED BY <2>3, <2>4 DEF Init, Types
<1>2. ASSUME NEW c \in Conns
      PROVE  Sound(c)
  <2>1. acc[c].state = "none" /\ conCls[c] = FALSE
    BY DEF Init, NoAcc
  <2> QED BY <2>1 DEF Init, Sound, Progress, Collected, Pointed, Accounted, Whole
<1> QED BY <1>1, <1>2 DEF IInv

\* The strengthening the others follow from: an accumulator holds what has been taken
\* of the body, and nothing is taken, answered or handed on before its time.
THEOREM Invariance == Spec => []IInv
<1>1. Init => IInv
  BY InitEstablishes
<1>2. IInv /\ UNCHANGED vars => IInv'
  <2> SUFFICES ASSUME IInv, UNCHANGED vars PROVE IInv'
    OBVIOUS
  <2>1. Types'
    BY DEF IInv, Types, vars, mainVars, connVars, accessVars
  <2> QED BY <2>1, Kept DEF IInv, vars, mainVars, connVars, accessVars
<1>3. IInv /\ Next => IInv'
  <2> SUFFICES ASSUME IInv, Next PROVE IInv'
    OBVIOUS
  <2>1. (Start \/ SetOnRx \/ SetOnRxUser \/ Stop) \/ \E c \in Conns : Step(c)
    BY DEF Next, OnAccess, Step
  <2> QED BY <2>1, MainPreserves, StepPreserves
<1> QED BY <1>1, <1>2, <1>3, PTL DEF Spec

\* Only the four named ways of ending a request leave its accumulator allocated.
THEOREM LeaksNamed == Spec => []LeaksAccounted
<1>1. IInv => LeaksAccounted
  BY DEF IInv, Sound, Accounted, LeaksAccounted
<1> QED BY <1>1, Invariance, PTL

\* However a body is cut into calls and whatever fails, the callback gets the whole
\* of an allowed POST or nothing, and a client is told 200 only when it did.
THEOREM BodyWholeOrNot == Spec => []WholeBodyOnce
<1>1. IInv => WholeBodyOnce
  BY DEF IInv, Sound, Whole, WholeBodyOnce
<1> QED BY <1>1, Invariance, PTL

(***************************************************************************)
(* The room of an accumulator.                                             *)
(***************************************************************************)

\* The loop of accum_append ends within need doublings, with room for need.
LEMMA GrownSuffices ==
    ASSUME NEW cap \in Nat, NEW need \in Nat
    PROVE  Grown(cap, need) \in Nat /\ need <= Grown(cap, need)
<1> DEFINE first == IF cap > 0 THEN 2 * cap ELSE FirstCap
           step == [j \in 1 .. need |-> [x \in Nat |-> 2 * x]]
           Eq(f) == f = [j \in 0 .. need |->
                            IF j = 0 THEN (IF cap > 0 THEN 2 * cap ELSE FirstCap)
                            ELSE 2 * f[j - 1]]
           room == CHOOSE f : Eq(f)
           fits == {j \in 0 .. need : room[j] >= need}
<1>1. Grown(cap, need) = IF need <= cap THEN cap ELSE room[Min(fits)]
  BY DEF Grown
<1>2. first \in Nat /\ first >= 1
  OBVIOUS
<1>3. \E f : Eq(f)
  <2>1. step \in Steps(need, Nat) /\ \A i \in 1 .. need : \A x \in Nat : step[i][x] = 2 * x
    BY DEF Steps
  <2> HIDE DEF step
  <2>2. PICK f \in Courses(need, Nat, first, step) : TRUE
    <3> HIDE DEF first
    <3> QED BY <1>2, <2>1, CourseExists
  <2>3. f \in [0 .. need -> Nat] /\ f[0] = first /\ \A i \in 1 .. need : f[i] = step[i][f[i - 1]]
    BY <2>2 DEF Courses
  <2>4. \A i \in 1 .. need : i - 1 \in 0 .. need
    OBVIOUS
  <2>5. \A i \in 1 .. need : f[i] = 2 * f[i - 1]
    BY <2>1, <2>3, <2>4
  <2>6. Eq(f)
    BY <2>3, <2>5
  <2> QED BY <2>6
<1>4. Eq(room)
  BY <1>3, Zenon
<1> HIDE DEF step, room
<1>5. room[0] = first /\ \A j \in 1 .. need : room[j] = 2 * room[j - 1]
  BY <1>4
<1>6. \A j \in 0 .. need : room[j] \in Nat /\ room[j] >= j + 1
  <2> DEFINE T == {j \in 0 .. need : room[j] \in Nat /\ room[j] >= j + 1}
  <2>1. 0 \in T
    BY <1>2, <1>5
  <2>2. \A i \in 1 .. need : i - 1 \in T => i \in T
    BY <1>5
  <2> HIDE DEF T
  <2>3. \A i \in 0 .. need : i \in T
    BY <2>1, <2>2, Induction
  <2> QED BY <2>3 DEF T
<1>7. fits \in SUBSET Nat /\ need \in fits
  BY <1>6
<1> HIDE DEF fits
<1>8. Min(fits) \in fits
  <2>1. \E x \in fits : \A y \in fits : x <= y
    BY <1>7, SmallestOf
  <2> QED BY <2>1 DEF Min
<1>9. room[Min(fits)] \in Nat /\ room[Min(fits)] >= need
  BY <1>6, <1>8 DEF fits
<1> QED BY <1>1, <1>9

\* What an accumulator has, within its room, is of its own connection's body.
Roomy(c) ==
    /\ acc[c].cap \in Nat /\ acc[c].data \in Seq({c} \X (1 .. req[c].length))
    /\ acc[c].cap > 0 => Len(acc[c].data) < acc[c].cap

RoomInv == fails \in [Conns -> 0 .. MaxFails] /\ \A c \in Conns : Roomy(c)

\* A call makes room for what it adds.
LEMMA CollectRoomy ==
    ASSUME IInv, NEW c \in Conns, Roomy(c), Collect(c)
    PROVE  Roomy(c)'
<1> DEFINE piece == SubSeq(Body(c), taken[c] + 1, arrived[c])
           data == acc[c].data \o piece
           cap == Grown(acc[c].cap, Len(data) + 1)
           B == {c} \X (1 .. req[c].length)
<1>1. req' = req /\ req[c].length \in Nat
  BY BodyIsSequence DEF Collect, IInv
<1>2. piece \in Seq(B)
  <2>1. Body(c) \in Seq(B) /\ Len(Body(c)) = req[c].length
    <3>1. \A n \in 1 .. req[c].length : Byte(c, n) \in B
      BY <1>1 DEF Byte
    <3>2. Body(c) \in [1 .. req[c].length -> B]
      BY <3>1 DEF Body
    <3> QED BY <1>1, <3>2
  <2>2. /\ taken[c] + 1 \in 1 .. Len(Body(c)) + 1 /\ arrived[c] \in taken[c] .. Len(Body(c))
        /\ taken[c] \in Nat /\ arrived[c] \in Nat
    BY <1>1, <2>1 DEF IInv, Types, Collect, UploadSize
  <2> HIDE DEF B
  <2>3. \A i \in taken[c] + 1 .. arrived[c] : i \in 1 .. Len(Body(c))
    BY <2>2
  <2> QED BY <2>1, <2>3, <2>2, SubSeqProperties
<1> HIDE DEF B, piece
<1>3. data \in Seq(B) /\ Len(data) \in Nat
  BY <1>2 DEF Roomy, B
<1> HIDE DEF data
<1>4. cap \in Nat /\ Len(data) < cap
  <2>1. Len(data) + 1 \in Nat /\ acc[c].cap \in Nat
    BY <1>3 DEF Roomy
  <2>2. cap \in Nat /\ Len(data) + 1 <= cap
    BY <2>1, GrownSuffices
  <2> HIDE DEF cap
  <2> QED BY <1>3, <2>2
<1> HIDE DEF cap
<1>5. CASE acc' = [acc EXCEPT ![c] = [data |-> data, cap |-> cap, state |-> acc[c].state]]
  <2>1. acc'[c] = [data |-> data, cap |-> cap, state |-> acc[c].state]
    BY <1>5 DEF IInv, Types
  <2>2. acc'[c].data = data /\ acc'[c].cap = cap
    BY <2>1
  <2> QED BY <1>1, <1>3, <1>4, <2>2 DEF Roomy, B
<1>6. CASE acc' = acc
  BY <1>1, <1>6 DEF Roomy
<1>7. \/ acc' = [acc EXCEPT ![c] = [data |-> data, cap |-> cap, state |-> acc[c].state]]
      \/ acc' = acc
  BY DEF Collect, data, cap, piece
<1> QED BY <1>5, <1>6, <1>7

\* Other steps leave what an accumulator has, or start a new one.
LEMMA OtherRoomy ==
    ASSUME IInv, NEW c \in Conns, Roomy(c), Step(c), ~Collect(c)
    PROVE  Roomy(c)'
<1>1. req' = req /\ req[c].length \in Nat
  BY BodyIsSequence DEF Step, Request, Arrive, Disconnect, FirstCall, RefuseRoute, Forward,
                        RefuseMethod, IInv
<1>2. \/ UNCHANGED acc
      \/ acc' = [acc EXCEPT ![c] = NewAcc]
      \/ acc' = [acc EXCEPT ![c] = [acc[c] EXCEPT !.state = "freed"]]
  BY DEF Step, Request, Arrive, Disconnect, FirstCall, RefuseRoute, Forward, RefuseMethod,
         Release, accessVars
<1>3. \/ UNCHANGED <<acc[c].data, acc[c].cap>>
      \/ acc'[c].data = <<>> /\ acc'[c].cap = 0
  <2>1. DOMAIN acc = Conns /\ DOMAIN acc[c] = {"data", "cap", "state"}
    BY DEF IInv, Types
  <2>2. NewAcc.data = <<>> /\ NewAcc.cap = 0
    BY DEF NewAcc
  <2> QED BY <1>2, <2>1, <2>2
<1>4. CASE acc'[c].data = <<>> /\ acc'[c].cap = 0
  <2>1. <<>> \in Seq({c} \X (1 .. req[c].length))
    OBVIOUS
  <2> QED BY <1>1, <1>4, <2>1 DEF Roomy
<1>5. CASE UNCHANGED <<acc[c].data, acc[c].cap>>
  BY <1>1, <1>5 DEF Roomy
<1> QED BY <1>3, <1>4, <1>5

\* Whatever is collected of whichever body, and whichever allocations fail.
LEMMA RoomyStep == IInv /\ RoomInv /\ [Next]_vars => RoomInv'
<1> SUFFICES ASSUME IInv, RoomInv, [Next]_vars PROVE RoomInv'
  OBVIOUS
<1>1. CASE Start \/ SetOnRx \/ SetOnRxUser \/ Stop
  BY <1>1 DEF Start, SetOnRx, SetOnRxUser, Stop, connVars, accessVars, RoomInv, Roomy
<1>2. CASE UNCHANGED vars
  BY <1>2 DEF vars, connVars, accessVars, RoomInv, Roomy
<1>3. ASSUME NEW c \in Conns, Step(c)
      PROVE  RoomInv'
  <2>1. fails' \in [Conns -> 0 .. MaxFails] /\ req' = req
    <3>1. (fails' = fails \/ FailAlloc(c)) /\ req' = req
      BY <1>3 DEF Step, Request, Arrive, Disconnect, FirstCall, Collect, RefuseRoute, Forward,
                  RefuseMethod, accessVars
    <3>2. ASSUME FailAlloc(c)
          PROVE  fails' \in [Conns -> 0 .. MaxFails]
      <4>1. fails[c] + 1 \in 0 .. MaxFails /\ fails' = [fails EXCEPT ![c] = fails[c] + 1]
        BY <3>2 DEF FailAlloc, RoomInv
      <4> QED BY <4>1 DEF RoomInv
    <3> QED BY <3>1, <3>2 DEF RoomInv
  <2>2. Roomy(c)'
    BY <1>3, CollectRoomy, OtherRoomy DEF RoomInv
  <2>3. ASSUME NEW d \in Conns, d # c
        PROVE  Roomy(d)'
    <3>1. acc'[d] = acc[d]
      BY <1>3, <2>3, OutsideTypes, AccessTypes DEF Step, Others, IInv
    <3> QED BY <2>1, <2>3, <3>1 DEF RoomInv, Roomy
  <2> QED BY <2>1, <2>2, <2>3 DEF RoomInv
<1> QED BY <1>1, <1>2, <1>3 DEF Next, OnAccess, Step

\* No accumulator is written beyond its room, for any sizes of bodies, pieces and first
\* allocations.
THEOREM RoomInvariance == Spec => []RoomInv
<1>1. Init => RoomInv
  <2>1. NoAcc.data = <<>> /\ NoAcc.cap = 0
    BY DEF NoAcc
  <2>2. \A c : <<>> \in Seq({c} \X (1 .. req[c].length))
    OBVIOUS
  <2> SUFFICES ASSUME Init PROVE RoomInv
    OBVIOUS
  <2>3. ASSUME NEW c \in Conns
        PROVE  Roomy(c)
    <3>1. acc[c].data = <<>> /\ acc[c].cap = 0
      BY <2>1, <2>3 DEF Init
    <3> QED BY <2>2, <3>1 DEF Roomy
  <2>4. fails \in [Conns -> 0 .. MaxFails]
    BY DEF Init
  <2> QED BY <2>3, <2>4 DEF RoomInv
<1> QED BY <1>1, RoomyStep, Invariance, PTL DEF Spec

\* Whatever bodies, pieces and failures: *con_cls is set exactly while an accumulator is
\* allocated, and what is collected, with the byte after it, fits the room.
THEOREM AccumulatorsSound == Spec => []AccumulatorSound
<1>1. IInv /\ RoomInv => AccumulatorSound
  BY DEF IInv, Sound, Pointed, PointsToLive, AccumulatorSound, RoomInv, Roomy
<1> QED BY <1>1, Invariance, RoomInvariance, PTL

\* A step never takes more of a body than has arrived, nor bytes of another connection's.
THEOREM TypeCorrect == Spec => []TypeOK
<1>1. IInv /\ RoomInv => TypeOK
  BY DEF IInv, Types, RoomInv, Roomy, TypeOK
<1> QED BY <1>1, Invariance, RoomInvariance, PTL
=============================================================================
