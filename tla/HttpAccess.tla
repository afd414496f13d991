------------------------------ MODULE HttpAccess ------------------------------
(***************************************************************************)
(* The HTTP connector (conn_http_server.c): on_access, which libmicrohttpd *)
(* calls several times for every request from its one polling thread,      *)
(* collects the body of a POST and hands it to the callback on_http_rx;    *)
(* the main thread starts the server, then registers the callback, and     *)
(* stops the server.  libmicrohttpd and the clients are external.          *)
(***************************************************************************)
EXTENDS Integers, Sequences, FiniteSetsExt

CONSTANTS
    Conns,      \* connections, each with one request
    Requests,   \* the requests a client can make
    FirstCap,   \* first size of an accumulator: 1024
    MaxFails    \* bound: allocations that fail for one connection

ASSUME HttpAssumption ==
    /\ \A r \in Requests : r.method \in {"POST", "GET"} /\ r.allowed \in BOOLEAN
                           /\ r.length \in Nat
    /\ FirstCap \in Nat \ {0} /\ MaxFails \in Nat

VARIABLES
    server,    \* the daemon: "none", "running" or "stopped"
    onRx,      \* rt->on_rx is set
    onRxUser,  \* rt->on_rx_user is set
    req,       \* the request of each connection
    phase,     \* how far libmicrohttpd is with it
    arrived,   \* bytes of its body that have come in
    taken,     \* bytes of its body that on_access has consumed
    conCls,    \* *con_cls is set
    acc,       \* its accumulator: what is in it, the room, whether it is allocated
    reply,     \* the response on_access has asked libmicrohttpd to queue, 0 for none
    sent,      \* history: bodies given to send_fn
    fails,     \* allocations that have failed for it
    stalled    \* libmicrohttpd need not call on_access for it again

mainVars == <<server, onRx, onRxUser>>
accessVars == <<taken, conCls, acc, reply, sent, fails, stalled>>
connVars == <<req, phase, arrived, accessVars>>
vars == <<mainVars, connVars>>

Byte(c, n) == <<c, n>>
Body(c) == [n \in 1 .. req[c].length |-> Byte(c, n)]
NoAcc == [data |-> <<>>, cap |-> 0, state |-> "none"]
NewAcc == [data |-> <<>>, cap |-> 0, state |-> "live"]

Init ==
    /\ server = "none" /\ onRx = FALSE /\ onRxUser = FALSE
    /\ req \in [Conns -> Requests] /\ phase = [c \in Conns |-> "none"]
    /\ arrived = [c \in Conns |-> 0] /\ taken = [c \in Conns |-> 0]
    /\ conCls = [c \in Conns |-> FALSE] /\ acc = [c \in Conns |-> NoAcc]
    /\ reply = [c \in Conns |-> 0] /\ sent = [c \in Conns |-> <<>>]
    /\ fails = [c \in Conns |-> 0] /\ stalled = [c \in Conns |-> FALSE]

(***************************************************************************)
(* The main thread.                                                        *)
(***************************************************************************)

Start ==
    /\ server = "none"
    /\ server' = "running"
    /\ UNCHANGED <<onRx, onRxUser, connVars>>

\* conn_http_server_set_rx_cb writes two fields the polling thread reads.
SetOnRx ==
    /\ server = "running" /\ ~onRx
    /\ onRx' = TRUE
    /\ UNCHANGED <<server, onRxUser, connVars>>

SetOnRxUser ==
    /\ onRx /\ ~onRxUser
    /\ onRxUser' = TRUE
    /\ UNCHANGED <<server, onRx, connVars>>

\* MHD_stop_daemon closes all connections; no completion handler is registered.
Stop ==
    /\ server = "running" /\ onRx = onRxUser
    /\ server' = "stopped"
    /\ phase' = [c \in Conns |-> IF phase[c] = "none" THEN "none" ELSE "closed"]
    /\ UNCHANGED <<onRx, onRxUser, req, arrived, accessVars>>

(***************************************************************************)
(* The clients and libmicrohttpd.                                          *)
(***************************************************************************)

Request(c) ==
    /\ server = "running" /\ phase[c] = "none"
    /\ phase' = [phase EXCEPT ![c] = "headers"]
    /\ UNCHANGED <<mainVars, req, arrived, accessVars>>

Arrive(c) ==
    /\ phase[c] \in {"headers", "body"} /\ arrived[c] < req[c].length
    /\ arrived' = [arrived EXCEPT ![c] = @ + 1]
    /\ UNCHANGED <<mainVars, req, phase, accessVars>>

Disconnect(c) ==
    /\ phase[c] \in {"headers", "body"}
    /\ phase' = [phase EXCEPT ![c] = "closed"]
    /\ UNCHANGED <<mainVars, req, arrived, accessVars>>

\* on_access may be called for the headers, then for data that has come in, and when
\* the whole body is consumed, until there is a response.  After a call that consumed
\* none of its data, or left a complete request without a response, it need not be.
Due(c) ==
    \/ phase[c] = "headers"
    \/ phase[c] = "body" /\ (arrived[c] > taken[c] \/ taken[c] = req[c].length)
UploadSize(c) == IF phase[c] = "headers" THEN 0 ELSE arrived[c] - taken[c]

\* send_response.  MHD_queue_response refuses one in the middle of the upload, and
\* without memory; then on_access returns MHD_NO and the connection is closed.
Queue(c, code) ==
    /\ reply' = [reply EXCEPT ![c] = code]
    /\ \E p \in {"replied", "closed"} : phase' = [phase EXCEPT ![c] = p]
    /\ stalled' = [stalled EXCEPT ![c] = FALSE]

(***************************************************************************)
(* on_access.                                                              *)
(***************************************************************************)

FailAlloc(c) == fails[c] < MaxFails /\ fails' = [fails EXCEPT ![c] = @ + 1]

\* A slip: the data that comes with the call that allocates counts as consumed.
FirstCallConsumes(c) ==
    /\ Due(c) /\ ~conCls[c]
    /\ phase' = [phase EXCEPT ![c] = "body"]
    /\ taken' = [taken EXCEPT ![c] = @ + UploadSize(c)]
    /\ \/ /\ conCls' = [conCls EXCEPT ![c] = TRUE] /\ acc' = [acc EXCEPT ![c] = NewAcc]
          /\ UNCHANGED fails
       \/ FailAlloc(c) /\ UNCHANGED <<conCls, acc>>
    /\ stalled' = [stalled EXCEPT ![c] = phase[c] = "body"]
    /\ UNCHANGED <<mainVars, req, arrived, reply, sent>>

\* *con_cls is NULL: an accumulator is allocated and nothing is consumed.  Without
\* memory *con_cls stays NULL, and the next call, if there is one, is a first one again.
FirstCall(c) ==
    /\ Due(c) /\ ~conCls[c]
    /\ phase' = [phase EXCEPT ![c] = "body"]
    /\ \/ /\ conCls' = [conCls EXCEPT ![c] = TRUE] /\ acc' = [acc EXCEPT ![c] = NewAcc]
          /\ UNCHANGED fails
       \/ FailAlloc(c) /\ UNCHANGED <<conCls, acc>>
    /\ stalled' = [stalled EXCEPT ![c] = phase[c] = "body"]
    /\ UNCHANGED <<mainVars, req, arrived, taken, reply, sent>>

\* accum_append: the room doubles until need, with the byte after the last, fits.
Grown(cap, need) ==
    LET room[j \in 0 .. need] ==
            IF j = 0 THEN (IF cap > 0 THEN 2 * cap ELSE FirstCap) ELSE 2 * room[j - 1]
    IN  IF need <= cap THEN cap ELSE room[Min({j \in 0 .. need : room[j] >= need})]

\* A slip: as much is taken as the client has announced.
CollectAnnounced(c) ==
    /\ Due(c) /\ conCls[c] /\ req[c].method = "POST" /\ UploadSize(c) > 0
    /\ LET cap == Grown(acc[c].cap, req[c].length + 1)
       IN  acc' = [acc EXCEPT ![c] = [data |-> Body(c), cap |-> cap, state |-> @.state]]
    /\ taken' = [taken EXCEPT ![c] = req[c].length]
    /\ UNCHANGED <<mainVars, req, phase, arrived, conCls, reply, sent, fails, stalled>>

\* The data of this call is added and consumed; without memory for it the answer is
\* "oom", and the accumulator is not freed.
Collect(c) ==
    /\ Due(c) /\ conCls[c] /\ req[c].method = "POST" /\ UploadSize(c) > 0
    /\ LET data == acc[c].data \o SubSeq(Body(c), taken[c] + 1, arrived[c])
           cap == Grown(acc[c].cap, Len(data) + 1)
       IN  \/ /\ acc' = [acc EXCEPT ![c] = [data |-> data, cap |-> cap, state |-> @.state]]
              /\ taken' = [taken EXCEPT ![c] = arrived[c]]
              /\ stalled' = [stalled EXCEPT ![c] = FALSE]
              /\ UNCHANGED <<phase, reply, fails>>
           \/ /\ cap # acc[c].cap /\ FailAlloc(c)         \* realloc fails
              /\ Queue(c, 500)
              /\ UNCHANGED <<acc, taken>>
    /\ UNCHANGED <<mainVars, req, arrived, conCls, sent>>

Complete(c) == Due(c) /\ conCls[c] /\ req[c].method = "POST" /\ UploadSize(c) = 0
Release(c) ==
    /\ acc' = [acc EXCEPT ![c].state = "freed"]
    /\ conCls' = [conCls EXCEPT ![c] = FALSE]

\* allow_route: there is no list of routes, or the path is in it.
Allowed(c) == req[c].allowed

RefuseRoute(c) ==
    /\ Complete(c) /\ ~Allowed(c)
    /\ Release(c) /\ Queue(c, 404)
    /\ UNCHANGED <<mainVars, req, arrived, taken, sent, fails>>

\* on_http_rx fails without its user, and when the transform does; else send_fn has
\* the message, and its result is the callback's.
OnHttpRx(c) ==
    \/ Queue(c, 500) /\ UNCHANGED sent
    \/ /\ onRxUser /\ sent' = [sent EXCEPT ![c] = Append(@, acc[c].data)]
       /\ (Queue(c, 200) \/ Queue(c, 500))

\* A slip: the accumulator is freed and *con_cls still points to it.
ForwardKeepsCls(c) ==
    /\ Complete(c) /\ Allowed(c)
    /\ IF onRx THEN OnHttpRx(c) ELSE Queue(c, 500) /\ UNCHANGED sent
    /\ acc' = [acc EXCEPT ![c].state = "freed"]
    /\ UNCHANGED <<mainVars, req, arrived, taken, conCls, fails>>

\* A slip: the answer of a failed callback returns before the accumulator is freed.
ForwardLeaks(c) ==
    /\ Complete(c) /\ Allowed(c)
    /\ IF onRx THEN OnHttpRx(c) ELSE Queue(c, 500) /\ UNCHANGED sent
    /\ IF reply'[c] = 200 THEN Release(c) ELSE UNCHANGED <<acc, conCls>>
    /\ UNCHANGED <<mainVars, req, arrived, taken, fails>>

\* The callback, if there is one, gets the body; its result decides the answer.
Forward(c) ==
    /\ Complete(c) /\ Allowed(c)
    /\ IF onRx THEN OnHttpRx(c) ELSE Queue(c, 500) /\ UNCHANGED sent
    /\ Release(c)
    /\ UNCHANGED <<mainVars, req, arrived, taken, fails>>

\* A slip: the method is looked at when the body is complete.
RefuseMethodLate(c) ==
    /\ Due(c) /\ conCls[c] /\ req[c].method # "POST" /\ UploadSize(c) = 0
    /\ Queue(c, 405)
    /\ UNCHANGED <<mainVars, req, arrived, taken, conCls, acc, sent, fails>>

\* Another method: the accumulator is not freed.
RefuseMethod(c) ==
    /\ Due(c) /\ conCls[c] /\ req[c].method # "POST"
    /\ Queue(c, 405)
    /\ UNCHANGED <<mainVars, req, arrived, taken, conCls, acc, sent, fails>>

OnAccess(c) ==
    \/ FirstCall(c) \/ Collect(c) \/ RefuseRoute(c) \/ Forward(c) \/ RefuseMethod(c)

Next ==
    \/ Start \/ SetOnRx \/ SetOnRxUser \/ Stop
    \/ \E c \in Conns : Request(c) \/ Arrive(c) \/ Disconnect(c) \/ OnAccess(c)

Spec == Init /\ [][Next]_vars

\* The polling thread runs, and a client that stays sends what it announced.  Nothing is
\* promised to a connection that is stalled.
FairSpec ==
    Spec /\ \A c \in Conns : WF_vars(~stalled[c] /\ OnAccess(c)) /\ WF_vars(Arrive(c))

(***************************************************************************)
(* Properties.                                                             *)
(***************************************************************************)

TypeOK ==
    /\ server \in {"none", "running", "stopped"} /\ onRx \in BOOLEAN /\ onRxUser \in BOOLEAN
    /\ phase \in [Conns -> {"none", "headers", "body", "replied", "closed"}]
    /\ fails \in [Conns -> 0 .. MaxFails] /\ stalled \in [Conns -> BOOLEAN]
    /\ conCls \in [Conns -> BOOLEAN] /\ reply \in [Conns -> {0, 200, 404, 405, 500}]
    /\ \A c \in Conns :
          /\ req[c] \in Requests /\ taken[c] \in 0 .. arrived[c]
          /\ arrived[c] <= req[c].length
          /\ acc[c].state \in {"none", "live", "freed"} /\ acc[c].cap \in Nat
          /\ acc[c].data \in Seq({c} \X (1 .. req[c].length))

\* *con_cls points to an accumulator exactly while that is allocated: none is used
\* after it is freed, and none freed twice, on whichever call which memory runs out.
\* What is in it, with the byte after the last, is within its room.
PointsToLive == \A c \in Conns : conCls[c] <=> acc[c].state = "live"
AccumulatorSound ==
    PointsToLive /\ \A c \in Conns : acc[c].cap > 0 => Len(acc[c].data) < acc[c].cap

\* A request that is over has left its accumulator allocated in four cases only: it
\* was refused for its method, memory ran out for its body, or no answer was attempted
\* because its client disconnected or the server was stopped.  Whatever the callback or
\* the route say, whatever first calls failed, and whether libmicrohttpd takes the
\* answer or not, any other request gives back what it took.
LeaksAccounted ==
    \A c \in Conns :
        acc[c].state = "live" =>
            \/ phase[c] \in {"headers", "body"}
            \/ phase[c] = "closed" /\ reply[c] = 0
            \/ reply[c] = 405 /\ req[c].method # "POST"
            \/ reply[c] = 500 /\ fails[c] > 0 /\ taken[c] < req[c].length

\* Only the whole body of an allowed POST is handed on, as it was sent, and once;
\* the client is told 200 only then, also if memory ran out on the way or the
\* request came while the callback was being registered.
WholeBodyOnce ==
    \A c \in Conns :
        /\ sent[c] \in {<<>>, <<Body(c)>>}
        /\ sent[c] # <<>> => req[c].method = "POST" /\ req[c].allowed
        /\ reply[c] = 200 => sent[c] # <<>>

\* A request is answered in the end or its connection is closed, through every cut of
\* its body and every other request, with one exception: memory ran out in its first
\* call, so that a later call allocates and consumes nothing, and libmicrohttpd need
\* not make another.
Answered ==
    \A c \in Conns :
        phase[c] = "headers" ~> \/ phase[c] \in {"replied", "closed"}
                                \/ stalled[c] /\ fails[c] > 0
=============================================================================
