---------------------------- MODULE MqttLinkProof -----------------------------
(***************************************************************************)
(* What holds of MqttLink for any number of bridges, reloads, answers and  *)
(* lost connections, and any client ids: it implements LossyChannel, loses *)
(* nothing without a cause, keeps the library as long as it is used and    *)
(* lets no answer of the old configuration through after a new one.        *)
(***************************************************************************)
EXTENDS MqttLink, SequenceTheorems, FiniteSetTheorems, TLAPS

USE LinkAssumption DEF CONNECT

\* TypeOK, without the bound of the library's count, which LibraryHeld gives.
Types ==
    /\ world \in Worlds /\ bridge \in [Bridges -> BridgeState]
    /\ link \in [Bridges -> LinkState] /\ libRefs \in Int
    /\ wire \in [Bridges -> Seq(0 .. MaxAnswers)]
    /\ DOMAIN session \subseteq Ids \cup {Default}
    /\ \A id \in DOMAIN session : session[id] \in Bridges
    /\ read \in [Bridges -> 0 .. MaxAnswers]
    /\ accepted \in [Bridges -> Seq(1 .. MaxAnswers)]
    /\ got \in [Bridges -> Seq(1 .. MaxAnswers)] /\ drops \in 0 .. MaxDrops

\* A bridge has a client from its start to its closing, and nothing before.
Linked ==
    \A b \in Bridges :
        /\ link[b] = "none" <=> bridge[b] \in {"new", "noClient", "failed", "closed"}
        /\ bridge[b] = "new" => wire[b] = <<>> /\ accepted[b] = <<>> /\ got[b] = <<>>

\* Packets after answer n and up to answer r, each newer than those before it; a
\* CONNECT, being 0, can only come first.
Chain(packets, n, r) ==
    \A m \in 1 .. Len(packets) :
        /\ packets[m] <= r
        /\ packets[m] = CONNECT \/ n < packets[m]
        /\ \A l \in 1 .. m - 1 : packets[l] < packets[m]

\* What is on its way is newer than what has arrived.
Ordered ==
    \A b \in Bridges : /\ Channel!Newest(b) \in 0 .. read[b]
                       /\ Chain(wire[b], Channel!Newest(b), read[b])

\* A client whose CONNECT has been admitted, and that can still get something through,
\* is the one the broker has under its name.
Owned ==
    /\ \A id \in DOMAIN session : SessionId(session[id]) = id
    /\ \A b \in Bridges :
          (link[b] = "up" \/ wire[b] # <<>>) /\ ~Pending(b) =>
              SessionId(b) \in DOMAIN session /\ session[SessionId(b)] = b

\* A connection ends by a loss or by another client of its name.
NoLoss == drops = 0 /\ DistinctClients => \A b \in Bridges : link[b] \in {"none", "up"}

IInv == Types /\ Linked /\ Ordered /\ Owned /\ NoLoss /\ LibraryHeld /\ NothingElseLost

\* The actions, by bridge.
Step(b) ==
    \/ Connect(b) \/ ConnectFails(b) \/ SourceStarts(b) \/ SourceFails(b)
    \/ Publish(b) \/ Close(b) \/ Drop(b)
    \/ Notice(b) \/ Reconnect(b) \/ Admit(b) \/ Deliver(b)

\* The bridge that takes the step is the witness of Next.
LEMMA NextIsStep == Next <=> \E b \in Bridges : Step(b)
BY DEF Next, Step, Network

\* A client is called by an id of the configuration or by the default.
LEMMA NameIsId == ASSUME Types, NEW b \in Bridges PROVE SessionId(b) \in Ids \cup {Default}
<1>1. world.id \in [Bridges -> Ids \cup {Unset}]
  BY DEF Types
<1> QED BY <1>1 DEF SessionId

(***************************************************************************)
(* Types.                                                                  *)
(***************************************************************************)

\* Nothing has been read, sent or counted.
LEMMA InitTypes == Init => Types
<1> SUFFICES ASSUME Init PROVE Types
  OBVIOUS
<1>1. DOMAIN session = {}
  BY DEF Init
<1> QED BY <1>1 DEF Init, Types, BridgeState, LinkState

\* What goes over a connection has the type of a packet.
LEMMA PacketTypes ==
    ASSUME Types, NEW b \in Bridges
    PROVE  /\ wire[b] \in Seq(0 .. MaxAnswers) /\ Len(wire[b]) \in Nat
           /\ <<CONNECT>> \in Seq(0 .. MaxAnswers) /\ <<>> \in Seq(0 .. MaxAnswers)
           /\ wire[b] # <<>> => /\ Tail(wire[b]) \in Seq(0 .. MaxAnswers)
                                /\ Head(wire[b]) \in 0 .. MaxAnswers
           /\ \A n \in 1 .. MaxAnswers : Append(wire[b], n) \in Seq(0 .. MaxAnswers)
           /\ \A n \in 0 .. Len(wire[b]) : SubSeq(wire[b], 1, n) \in Seq(0 .. MaxAnswers)
<1>1. wire[b] \in Seq(0 .. MaxAnswers) /\ Len(wire[b]) \in Nat
  BY DEF Types
<1>2. wire[b] # <<>> => Tail(wire[b]) \in Seq(0 .. MaxAnswers) /\ Head(wire[b]) \in 0 .. MaxAnswers
  BY <1>1, HeadTailProperties
<1>3. \A n \in 0 .. Len(wire[b]) : SubSeq(wire[b], 1, n) \in Seq(0 .. MaxAnswers)
  BY <1>1, SubSeqProperties
<1>4. \A n \in 1 .. MaxAnswers : Append(wire[b], n) \in Seq(0 .. MaxAnswers)
  BY <1>1
<1>5. 0 \in 0 .. MaxAnswers
  OBVIOUS
<1> QED BY <1>1, <1>2, <1>3, <1>4, <1>5

\* Each action keeps the types of what it assigns.
LEMMA StepTypes == ASSUME Types, NEW b \in Bridges, Step(b) PROVE Types'
<1> USE DEF Types, daemonVars, BridgeState, LinkState
<1>1. CASE Connect(b)
  BY <1>1, PacketTypes DEF Connect
<1>2. CASE ConnectFails(b)
  <2>1. wire' = wire \/ wire' = [wire EXCEPT ![b] = <<CONNECT>>]
    BY <1>2, Zenon DEF ConnectFails
  <2>2. wire' \in [Bridges -> Seq(0 .. MaxAnswers)]
    BY <2>1, PacketTypes
  <2>3. /\ \/ bridge' = [bridge EXCEPT ![b] = "noClient"]
           \/ bridge' = [bridge EXCEPT ![b] = "failed"]
        /\ libRefs' = libRefs + 1 \/ libRefs' = libRefs
    BY <1>2, Zenon DEF ConnectFails
  <2>4. bridge' \in [Bridges -> BridgeState]
    BY <2>3
  <2>5. libRefs' \in Int
    BY <2>3
  <2> QED BY <1>2, <2>2, <2>4, <2>5 DEF ConnectFails
<1>3. CASE SourceStarts(b) \/ SourceFails(b)
  BY <1>3 DEF SourceStarts, SourceFails
<1>4. CASE Publish(b)
  <2>1. read[b] + 1 \in 1 .. MaxAnswers
    BY <1>4 DEF Publish, Publishing
  <2>2. read' = [read EXCEPT ![b] = read[b] + 1] /\ read'[b] = read[b] + 1
    BY <1>4 DEF Publish
  <2>3. wire' \in [Bridges -> Seq(0 .. MaxAnswers)]
    <3>1. CASE link[b] = "up"
      BY <1>4, <2>1, <2>2, <3>1, PacketTypes DEF Publish
    <3>2. CASE link[b] # "up"
      BY <1>4, <3>2 DEF Publish
    <3> QED BY <3>1, <3>2
  <2>4. accepted' \in [Bridges -> Seq(1 .. MaxAnswers)]
    <3>1. Append(accepted[b], read[b] + 1) \in Seq(1 .. MaxAnswers)
      BY <2>1
    <3> QED BY <1>4, <2>2, <3>1 DEF Publish
  <2> QED BY <1>4, <2>1, <2>2, <2>3, <2>4 DEF Publish
<1>5. CASE Close(b)
  BY <1>5, PacketTypes DEF Close
<1>6. CASE Drop(b)
  BY <1>6, PacketTypes DEF Drop
<1>7. CASE Notice(b)
  BY <1>7 DEF Notice
<1>8. CASE Reconnect(b)
  BY <1>8, PacketTypes DEF Reconnect
<1>9. CASE Admit(b)
  <2>1. wire' \in [Bridges -> Seq(0 .. MaxAnswers)] /\ link' \in [Bridges -> LinkState]
    BY <1>9, PacketTypes DEF Admit, Pending
  <2>2. /\ DOMAIN session' = DOMAIN session \cup {SessionId(b)}
        /\ \A id \in DOMAIN session' : session'[id] \in {b, session[id]}
    BY <1>9 DEF Admit
  <2>3. \A id \in DOMAIN session' : session'[id] \in Bridges
    BY <1>9, <2>2 DEF Admit
  <2> QED BY <1>9, <2>1, <2>2, <2>3, NameIsId DEF Admit
<1>10. CASE Deliver(b)
  <2>1. Head(wire[b]) \in 1 .. MaxAnswers
    BY <1>10, PacketTypes DEF Deliver, Pending
  <2> QED BY <1>10, <2>1, PacketTypes DEF Deliver
<1> QED BY <1>1, <1>2, <1>3, <1>4, <1>5, <1>6, <1>7, <1>8, <1>9, <1>10 DEF Step

(***************************************************************************)
(* Who has a client, and what the library is held for.                     *)
(***************************************************************************)

\* A client comes with Connect and goes with Close.
LEMMA StepLinked == ASSUME Types, Linked, NEW b \in Bridges, Step(b) PROVE Linked'
<1> USE DEF Types, Linked, daemonVars
<1>1. CASE Connect(b)
  BY <1>1 DEF Connect, MayStart
<1>2. CASE ConnectFails(b)
  BY <1>2 DEF ConnectFails, MayStart
<1>3. CASE SourceStarts(b) \/ SourceFails(b)
  BY <1>3 DEF SourceStarts, SourceFails
<1>4. CASE Publish(b)
  BY <1>4 DEF Publish, Publishing
<1>5. CASE Close(b)
  BY <1>5 DEF Close
<1>6. CASE Drop(b)
  BY <1>6 DEF Drop
<1>7. CASE Notice(b)
  BY <1>7 DEF Notice
<1>8. CASE Reconnect(b)
  BY <1>8 DEF Reconnect
<1>9. CASE Admit(b)
  BY <1>9 DEF Admit, Pending
<1>10. CASE Deliver(b)
  BY <1>10 DEF Deliver
<1> QED BY <1>1, <1>2, <1>3, <1>4, <1>5, <1>6, <1>7, <1>8, <1>9, <1>10 DEF Step

\* The bridges that hold the library, for LibraryHeld.
Holders == {b \in Bridges : link[b] # "none" \/ bridge[b] = "noClient"}

\* Connect, and mosquitto_new failing, take the library; Close gives it back.
LEMMA StepLibrary ==
    ASSUME Types, Linked, LibraryHeld, NEW b \in Bridges, Step(b)
    PROVE  LibraryHeld'
<1> USE DEF Types, Linked, daemonVars
<1>1. libRefs = Cardinality(Holders) /\ IsFiniteSet(Holders)
  BY FS_Subset DEF LibraryHeld, Holders
<1>2. SUFFICES libRefs' = Cardinality(Holders')
  BY DEF LibraryHeld, Holders
<1>3. CASE libRefs' = libRefs /\ Holders' = Holders
  BY <1>1, <1>3
<1>4. CASE libRefs' = libRefs + 1 /\ b \notin Holders /\ Holders' = Holders \cup {b}
  BY <1>1, <1>4, FS_AddElement
<1>5. CASE libRefs' = libRefs - 1 /\ b \in Holders /\ Holders' = Holders \ {b}
  BY <1>1, <1>5, FS_RemoveElement
<1>6. CASE Connect(b)
  BY <1>6, <1>4 DEF Connect, MayStart, Holders
<1>7. CASE ConnectFails(b)
  <2>1. CASE bridge' = [bridge EXCEPT ![b] = "noClient"] /\ libRefs' = libRefs + 1
    BY <1>7, <2>1, <1>4 DEF ConnectFails, MayStart, Holders
  <2>2. CASE bridge' = [bridge EXCEPT ![b] = "failed"] /\ libRefs' = libRefs
    BY <1>7, <2>2, <1>3 DEF ConnectFails, MayStart, Holders
  <2> QED BY <1>7, <2>1, <2>2 DEF ConnectFails
<1>8. CASE Close(b)
  BY <1>8, <1>5 DEF Close, Holders
<1>9. CASE SourceStarts(b) \/ SourceFails(b)
  BY <1>9, <1>3 DEF SourceStarts, SourceFails, Holders
<1>10. CASE Publish(b) \/ Deliver(b)
  BY <1>10, <1>3 DEF Publish, Deliver, Holders
<1>11. CASE Notice(b) \/ Reconnect(b) \/ Drop(b)
  BY <1>11, <1>3 DEF Notice, Reconnect, Drop, Holders
<1>12. CASE Admit(b)
  BY <1>12, <1>3 DEF Admit, Holders
<1> QED BY <1>6, <1>7, <1>8, <1>9, <1>10, <1>11, <1>12 DEF Step

(***************************************************************************)
(* Whom the broker has under a name.                                       *)
(***************************************************************************)

\* The client can get something through, and its CONNECT has been admitted.
Admitted(b) == (link[b] = "up" \/ wire[b] # <<>>) /\ ~Pending(b)

\* The two halves of Owned.
NamesTrue == \A id \in DOMAIN session : SessionId(session[id]) = id
Owns(b) == SessionId(b) \in DOMAIN session /\ session[SessionId(b)] = b

\* Owned is the truth of the names and the ownership of the admitted.
LEMMA OwnedHalves == Owned <=> NamesTrue /\ \A b \in Bridges : Admitted(b) => Owns(b)
BY DEF Owned, NamesTrue, Owns, Admitted

\* A step of one bridge that admits nobody.
LEMMA OwnedKept ==
    ASSUME Owned, NEW b \in Bridges, UNCHANGED <<world, session>>,
           \A c \in Bridges \ {b} : wire'[c] = wire[c] /\ link'[c] = link[c],
           Admitted(b)' => Admitted(b)
    PROVE  Owned'
<1>1. NamesTrue /\ \A c \in Bridges : Admitted(c) => Owns(c)
  BY OwnedHalves
<1>2. NamesTrue'
  BY <1>1 DEF NamesTrue, SessionId
<1>3. ASSUME NEW c \in Bridges, Admitted(c)'
      PROVE  Owns(c)'
  <2>1. Admitted(c)
    <3>1. CASE c = b
      BY <1>3, <3>1
    <3>2. CASE c # b
      BY <1>3, <3>2 DEF Admitted, Pending
    <3> QED BY <3>1, <3>2
  <2>2. Owns(c)
    BY <1>1, <2>1
  <2> QED BY <2>2 DEF Owns, SessionId
<1>4. (\A c \in Bridges : Admitted(c) => Owns(c))'
  BY <1>3
<1> QED BY <1>2, <1>4 DEF Owned, NamesTrue, Owns, Admitted

\* A CONNECT takes the name over from whoever had it.
LEMMA AdmitOwned == ASSUME Types, Owned, NEW b \in Bridges, Admit(b) PROVE Owned'
<1> DEFINE ousted(o) == /\ o # b /\ ~Pending(o)
                        /\ SessionId(b) \in DOMAIN session /\ session[SessionId(b)] = o
<1>1. NamesTrue /\ \A c \in Bridges : Admitted(c) => Owns(c)
  BY OwnedHalves
<1>2. /\ DOMAIN session' = DOMAIN session \cup {SessionId(b)}
      /\ \A id \in DOMAIN session' :
            session'[id] = IF id = SessionId(b) THEN b ELSE session[id]
  BY DEF Admit
<1>3. \A o \in Bridges : o # b =>
          /\ link'[o] = IF ousted(o) /\ link[o] = "up" THEN "dead" ELSE link[o]
          /\ wire'[o] = IF ousted(o) THEN <<>> ELSE wire[o]
  BY DEF Admit
<1>4. world' = world
  BY DEF Admit
<1>5. NamesTrue'
  BY <1>1, <1>2, <1>4 DEF NamesTrue, SessionId
<1>6. ASSUME NEW o \in Bridges, Admitted(o)'
      PROVE  Owns(o)'
  <2>1. CASE o = b
    BY <1>2, <1>4, <2>1 DEF Owns, SessionId
  <2>2. CASE o # b
    <3>1. ~ousted(o) /\ link'[o] = link[o] /\ wire'[o] = wire[o]
      BY <1>3, <1>6, <2>2 DEF Admitted
    <3>2. Admitted(o)
      BY <1>6, <3>1 DEF Admitted, Pending
    <3>3. Owns(o) /\ ~Pending(o)
      BY <1>1, <3>2 DEF Admitted
    <3>4. SessionId(o) # SessionId(b)
      BY <2>2, <3>1, <3>3 DEF Owns
    <3> QED BY <1>2, <1>4, <3>3, <3>4 DEF Owns, SessionId
  <2> QED BY <2>1, <2>2
<1>7. (\A o \in Bridges : Admitted(o) => Owns(o))'
  BY <1>6
<1> QED BY <1>5, <1>7 DEF Owned, NamesTrue, Owns, Admitted

\* The steps of a bridge whose client is not admitted by them.
LEMMA StepAdmits ==
    ASSUME Types, Linked, NEW b \in Bridges, Step(b), ~Admit(b)
    PROVE  /\ UNCHANGED <<world, session>>
           /\ \A c \in Bridges \ {b} : wire'[c] = wire[c] /\ link'[c] = link[c]
           /\ Admitted(b)' => Admitted(b)
<1>1. UNCHANGED <<world, session>>
  BY DEF Step, Connect, ConnectFails, SourceStarts, SourceFails, Publish, Close, Drop,
         Notice, Reconnect, Deliver
<1>2. wire \in [Bridges -> Seq(0 .. MaxAnswers)] /\ link \in [Bridges -> LinkState]
  BY DEF Types
<1>3. \A c \in Bridges \ {b} : wire'[c] = wire[c] /\ link'[c] = link[c]
  BY <1>2 DEF Step, Connect, ConnectFails, SourceStarts, SourceFails, Publish, Close, Drop,
              Notice, Reconnect, Deliver
<1>4. CASE wire'[b] = <<CONNECT>>
  <2>1. Head(<<CONNECT>>) = CONNECT
    OBVIOUS
  <2>2. Pending(b)'
    BY <1>4, <2>1 DEF Pending
  <2> QED BY <1>1, <1>3, <2>2 DEF Admitted
<1>5. CASE wire'[b] = wire[b] /\ (link'[b] = "up" => link[b] = "up")
  BY <1>1, <1>3, <1>5 DEF Admitted, Pending
<1>6. CASE Connect(b) \/ ConnectFails(b) \/ Reconnect(b)
  BY <1>2, <1>4, <1>5, <1>6 DEF Connect, ConnectFails, Reconnect
<1>7. CASE SourceStarts(b) \/ SourceFails(b) \/ Notice(b)
  BY <1>2, <1>5, <1>7 DEF SourceStarts, SourceFails, Notice
<1>8. CASE Publish(b)
  <2>1. CASE link[b] # "up"
    BY <1>2, <1>5, <1>8, <2>1 DEF Publish
  <2>2. CASE link[b] = "up"
    <3>1. wire'[b] = Append(wire[b], read'[b])
      BY <1>2, <1>8, <2>2 DEF Publish
    <3>2. wire[b] # <<>> => wire'[b] # <<>> /\ Head(wire'[b]) = Head(wire[b])
      BY <1>2, <3>1
    <3> QED BY <1>1, <1>3, <2>2, <3>2 DEF Admitted, Pending
  <2> QED BY <2>1, <2>2
<1>9. CASE Close(b)
  <2>1. PICK sent \in 0 .. Len(wire[b]) : wire' = [wire EXCEPT ![b] = SubSeq(@, 1, sent)]
    BY <1>9 DEF Close
  <2>2. wire[b] \in Seq(0 .. MaxAnswers) /\ wire'[b] = SubSeq(wire[b], 1, sent)
    BY <1>2, <2>1
  <2>3. sent = 0 => wire'[b] = <<>>
    BY <2>2, SubSeqProperties
  <2>4. ASSUME sent # 0
        PROVE  wire[b] # <<>> /\ wire'[b] # <<>> /\ Head(wire'[b]) = Head(wire[b])
    <3>1. Len(wire'[b]) = sent /\ wire'[b][1] = wire[b][1] /\ Len(wire[b]) >= sent
      BY <2>2, <2>4, SubSeqProperties
    <3>2. wire'[b] # <<>> /\ wire[b] # <<>>
      BY <2>4, <3>1
    <3> QED BY <3>1, <3>2
  <2>5. link'[b] = "none"
    BY <1>2, <1>9 DEF Close
  <2> QED BY <1>1, <1>3, <2>3, <2>4, <2>5 DEF Admitted, Pending
<1>10. CASE Drop(b)
  <2>1. wire'[b] = <<>> /\ link'[b] = "dead"
    BY <1>2, <1>10 DEF Drop
  <2> QED BY <1>1, <1>3, <2>1 DEF Admitted
<1>11. CASE Deliver(b)
  <2>1. Admitted(b)
    BY <1>11 DEF Deliver, Admitted
  <2> QED BY <1>1, <1>3, <2>1
<1> QED BY <1>6, <1>7, <1>8, <1>9, <1>10, <1>11 DEF Step

\* Only Admit gives a name to a client, and takes it from the one before.
LEMMA StepOwned == ASSUME Types, Linked, Owned, NEW b \in Bridges, Step(b) PROVE Owned'
<1>1. CASE Admit(b)
  BY <1>1, AdmitOwned
<1>2. CASE ~Admit(b)
  BY <1>2, StepAdmits, OwnedKept
<1> QED BY <1>1, <1>2

\* Two clients of one name are two connectors that name their clients alike.
LEMMA NamesAlike ==
    ASSUME Types, NEW b \in Bridges, NEW c \in Bridges
    PROVE  SessionId(b) = SessionId(c) <=> SameName(b, c)
<1>1. world.id \in [Bridges -> Ids \cup {Unset}]
  BY DEF Types
<1> QED BY <1>1 DEF SessionId, SameName

(***************************************************************************)
(* The order of the packets.                                               *)
(***************************************************************************)

\* What becomes of a chain when its first packet is taken, its last ones are lost or
\* the next answer comes after it.
LEMMA ChainKept ==
    ASSUME NEW w \in Seq(0 .. MaxAnswers), NEW n \in Nat, NEW r \in Nat, n <= r,
           Chain(w, n, r)
    PROVE  /\ Chain(<<>>, n, r) /\ Chain(<<CONNECT>>, n, r)
           /\ Chain(w, n, r + 1) /\ Chain(Append(w, r + 1), n, r + 1)
           /\ \A m \in 0 .. Len(w) : Chain(SubSeq(w, 1, m), n, r)
           /\ w # <<>> => Chain(Tail(w), n, r)
           /\ w # <<>> /\ Head(w) # CONNECT =>
                 Head(w) \in n + 1 .. r /\ Chain(Tail(w), Head(w), r)
<1> USE DEF Chain
<1>1. Len(w) \in Nat /\ \A m \in 1 .. Len(w) : w[m] \in 0 .. MaxAnswers
  OBVIOUS
<1>2. Chain(<<>>, n, r) /\ Chain(<<CONNECT>>, n, r)
  OBVIOUS
<1>3. Chain(w, n, r + 1)
  BY <1>1
<1>4. Chain(Append(w, r + 1), n, r + 1)
  BY <1>1
<1>5. \A m \in 0 .. Len(w) : Chain(SubSeq(w, 1, m), n, r)
  BY <1>1, SubSeqProperties
<1>6. ASSUME w # <<>>
      PROVE  /\ Head(w) = w[1] /\ Head(w) \in 0 .. MaxAnswers
             /\ Len(Tail(w)) = Len(w) - 1 /\ Len(w) >= 1
             /\ \A m \in 1 .. Len(Tail(w)) : Tail(w)[m] = w[m + 1]
  BY <1>1, <1>6, HeadTailProperties
<1>7. ASSUME w # <<>>
      PROVE  Chain(Tail(w), n, r)
  BY <1>1, <1>6, <1>7
<1>8. ASSUME w # <<>>, Head(w) # CONNECT
      PROVE  Head(w) \in n + 1 .. r /\ Chain(Tail(w), Head(w), r)
  BY <1>1, <1>6, <1>8
<1> QED BY <1>2, <1>3, <1>4, <1>5, <1>7, <1>8

\* Newest and read, of a bridge, as naturals.
LEMMA OrderTypes ==
    ASSUME Types, Ordered, NEW b \in Bridges
    PROVE  /\ Channel!Newest(b) \in Nat /\ read[b] \in Nat /\ Channel!Newest(b) <= read[b]
           /\ wire[b] \in Seq(0 .. MaxAnswers)
           /\ Chain(wire[b], Channel!Newest(b), read[b])
BY DEF Types, Ordered

\* A publication is the newest answer, and the broker takes packets from the front.
LEMMA StepOrdered ==
    ASSUME Types, Linked, Ordered, NEW b \in Bridges, Step(b)
    PROVE  Ordered'
<1> DEFINE Newest(c) == Channel!Newest(c)
           InOrder(c) == Newest(c) \in 0 .. read[c] /\ Chain(wire[c], Newest(c), read[c])
<1>1. /\ wire \in [Bridges -> Seq(0 .. MaxAnswers)]
      /\ read \in [Bridges -> 0 .. MaxAnswers]
      /\ got \in [Bridges -> Seq(1 .. MaxAnswers)]
  BY DEF Types
<1>2. ASSUME NEW c \in Bridges, wire'[c] = wire[c], read'[c] = read[c], got'[c] = got[c]
      PROVE  InOrder(c)'
  <2>1. Newest(c)' = Newest(c)
    BY <1>2 DEF Channel!Newest
  <2> QED BY <1>2, <2>1, OrderTypes
<1>3. ASSUME NEW c \in Bridges, read'[c] = read[c], got'[c] = got[c],
             \/ wire'[c] \in {wire[c], <<>>, <<CONNECT>>}
             \/ wire[c] # <<>> /\ wire'[c] = Tail(wire[c])
             \/ \E m \in 0 .. Len(wire[c]) : wire'[c] = SubSeq(wire[c], 1, m)
      PROVE  InOrder(c)'
  <2>1. Newest(c)' = Newest(c)
    BY <1>3 DEF Channel!Newest
  <2>2. /\ Newest(c) \in Nat /\ read[c] \in Nat /\ Newest(c) <= read[c]
        /\ wire[c] \in Seq(0 .. MaxAnswers) /\ Chain(wire[c], Newest(c), read[c])
    BY OrderTypes
  <2>3. Chain(wire'[c], Newest(c), read[c])
    <3>1. \A n, r \in Nat : n <= r /\ Chain(wire[c], n, r) =>
              /\ Chain(<<>>, n, r) /\ Chain(<<CONNECT>>, n, r)
              /\ \A m \in 0 .. Len(wire[c]) : Chain(SubSeq(wire[c], 1, m), n, r)
              /\ wire[c] # <<>> => Chain(Tail(wire[c]), n, r)
      BY <2>2, ChainKept
    <3>2. /\ Chain(<<>>, Newest(c), read[c]) /\ Chain(<<CONNECT>>, Newest(c), read[c])
          /\ \A m \in 0 .. Len(wire[c]) : Chain(SubSeq(wire[c], 1, m), Newest(c), read[c])
          /\ wire[c] # <<>> => Chain(Tail(wire[c]), Newest(c), read[c])
      BY <2>2, <3>1
    <3> QED BY <1>3, <2>2, <3>2, Zenon
  <2> QED BY <1>3, <2>1, <2>2, <2>3
<1>4. CASE UNCHANGED <<read, got>> /\ ~Admit(b)
  <2>1. \A c \in Bridges \ {b} : wire'[c] = wire[c]
    BY <1>1, <1>4 DEF Step, Connect, ConnectFails, SourceStarts, SourceFails, Publish, Close,
       Drop, Notice, Reconnect, Deliver
  <2>2. \/ wire'[b] \in {wire[b], <<>>, <<CONNECT>>}
        \/ \E m \in 0 .. Len(wire[b]) : wire'[b] = SubSeq(wire[b], 1, m)
    <3>1. CASE Close(b)
      BY <1>1, <3>1 DEF Close
    <3>2. CASE ~Close(b)
      BY <1>1, <1>4, <3>2 DEF Step, Connect, ConnectFails, SourceStarts, SourceFails, Publish,
         Drop, Notice, Reconnect, Deliver
    <3> QED BY <3>1, <3>2
  <2>3. InOrder(b)' /\ \A c \in Bridges \ {b} : InOrder(c)'
    BY <1>2, <1>3, <1>4, <2>1, <2>2
  <2> QED BY <2>3 DEF Ordered
<1>5. CASE Admit(b)
  <2>1. \A c \in Bridges : \/ wire'[c] \in {wire[c], <<>>}
                           \/ wire[c] # <<>> /\ wire'[c] = Tail(wire[c])
    BY <1>5 DEF Admit, Pending
  <2>2. UNCHANGED <<read, got>>
    BY <1>5 DEF Admit
  <2> QED BY <1>3, <2>1, <2>2 DEF Ordered
<1>6. CASE Publish(b)
  <2>1. \A c \in Bridges \ {b} : InOrder(c)'
    BY <1>1, <1>2, <1>6 DEF Publish
  <2>2. /\ read'[b] = read[b] + 1 /\ got' = got
        /\ wire'[b] = wire[b] \/ wire'[b] = Append(wire[b], read[b] + 1)
    BY <1>1, <1>6 DEF Publish
  <2>3. Newest(b)' = Newest(b)
    BY <2>2 DEF Channel!Newest
  <2>4. Chain(wire'[b], Newest(b), read[b] + 1)
    <3>1. /\ Newest(b) \in Nat /\ read[b] \in Nat /\ Newest(b) <= read[b]
          /\ wire[b] \in Seq(0 .. MaxAnswers) /\ Chain(wire[b], Newest(b), read[b])
      BY OrderTypes
    <3>2. \A n, r \in Nat : n <= r /\ Chain(wire[b], n, r) =>
              Chain(wire[b], n, r + 1) /\ Chain(Append(wire[b], r + 1), n, r + 1)
      BY <3>1, ChainKept
    <3> QED BY <2>2, <3>1, <3>2
  <2>5. InOrder(b)'
    BY <2>2, <2>3, <2>4, OrderTypes
  <2> QED BY <2>1, <2>5 DEF Ordered
<1>7. CASE Deliver(b)
  <2>1. \A c \in Bridges \ {b} : InOrder(c)'
    BY <1>1, <1>2, <1>7 DEF Deliver
  <2>2. /\ wire[b] # <<>> /\ Head(wire[b]) # CONNECT
        /\ wire'[b] = Tail(wire[b]) /\ got'[b] = Append(got[b], Head(wire[b])) /\ read' = read
    BY <1>1, <1>7 DEF Deliver, Pending
  <2>3. Newest(b)' = Head(wire[b])
    <3>1. got[b] \in Seq(1 .. MaxAnswers)
      BY <1>1
    <3>2. /\ Len(got'[b]) = Len(got[b]) + 1 /\ Len(got[b]) \in Nat
          /\ got'[b][Len(got'[b])] = Head(wire[b])
      BY <2>2, <3>1, AppendProperties
    <3>3. got'[b] # <<>>
      BY <3>2
    <3> QED BY <3>2, <3>3 DEF Channel!Newest
  <2>4. Head(wire[b]) \in 0 .. read[b] /\ Chain(Tail(wire[b]), Head(wire[b]), read[b])
    BY <2>2, OrderTypes, ChainKept
  <2>5. InOrder(b)'
    BY <2>2, <2>3, <2>4
  <2> QED BY <2>1, <2>5 DEF Ordered
<1> QED BY <1>4, <1>5, <1>6, <1>7 DEF Step, Connect, ConnectFails, SourceStarts, SourceFails,
           Close, Drop, Notice, Reconnect, daemonVars

(***************************************************************************)
(* What is lost, and why.                                                  *)
(***************************************************************************)

\* The premise of NoLoss and of NothingElseLost.
Undisturbed == drops = 0 /\ DistinctClients

\* Where it holds it has held, and no connection has just been dropped.
LEMMA UndisturbedBefore ==
    ASSUME Types, NEW b \in Bridges, Step(b), Undisturbed'
    PROVE  Undisturbed /\ ~Drop(b)
<1>1. world' = world
  BY DEF Step, Connect, ConnectFails, SourceStarts, SourceFails, Publish, Close, Drop,
         Notice, Reconnect, Admit, Deliver
<1>2. DistinctClients
  BY <1>1 DEF Undisturbed, DistinctClients, SameName
<1>3. drops \in Nat /\ drops' = 0
  BY DEF Types, Undisturbed
<1>4. drops' = drops /\ ~Drop(b)
  BY <1>3 DEF Step, Connect, ConnectFails, SourceStarts, SourceFails, Publish, Close, Drop,
              Notice, Reconnect, Admit, Deliver
<1> QED BY <1>2, <1>3, <1>4 DEF Undisturbed

\* Nobody is thrown off: what has the name is the client itself.
LEMMA NobodyOusted ==
    ASSUME Types, Owned, DistinctClients, NEW b \in Bridges, Admit(b)
    PROVE  link' = link /\ wire' = [wire EXCEPT ![b] = Tail(wire[b])]
<1>1. ASSUME NEW o \in Bridges, o # b,
             SessionId(b) \in DOMAIN session, session[SessionId(b)] = o
      PROVE  FALSE
  <2>1. SessionId(o) = SessionId(b)
    BY <1>1 DEF Owned
  <2> QED BY <1>1, <2>1, NamesAlike DEF DistinctClients
<1>2. /\ \A o \in Bridges : link'[o] = link[o]
      /\ \A o \in Bridges : wire'[o] = IF o = b THEN Tail(wire[b]) ELSE wire[o]
      /\ DOMAIN link' = Bridges /\ DOMAIN wire' = Bridges
      /\ link' = [o \in Bridges |-> link'[o]] /\ wire' = [o \in Bridges |-> wire'[o]]
  BY <1>1 DEF Admit
<1>3. link \in [Bridges -> LinkState] /\ wire \in [Bridges -> Seq(0 .. MaxAnswers)]
  BY DEF Types
<1> QED BY <1>2, <1>3

\* Without drops and shared names no connection ends under a client.
LEMMA StepNoLoss ==
    ASSUME Types, Linked, Owned, NoLoss, NEW b \in Bridges, Step(b)
    PROVE  NoLoss'
<1> SUFFICES ASSUME Undisturbed' PROVE (\A c \in Bridges : link[c] \in {"none", "up"})'
  BY DEF NoLoss, Undisturbed
<1>1. Undisturbed /\ ~Drop(b) /\ \A c \in Bridges : link[c] \in {"none", "up"}
  BY UndisturbedBefore DEF NoLoss, Undisturbed
<1>2. link \in [Bridges -> LinkState]
  BY DEF Types
<1>3. CASE Admit(b)
  BY <1>1, <1>3, NobodyOusted DEF Undisturbed
<1>4. CASE Notice(b) \/ Reconnect(b)
  BY <1>1, <1>4 DEF Notice, Reconnect
<1>5. CASE \/ Connect(b) \/ ConnectFails(b) \/ SourceStarts(b) \/ SourceFails(b)
           \/ Publish(b) \/ Close(b) \/ Deliver(b)
  BY <1>1, <1>2, <1>5 DEF Connect, ConnectFails, SourceStarts, SourceFails, Publish, Close,
                          Deliver
<1> QED BY <1>1, <1>3, <1>4, <1>5 DEF Step

\* An answer, or the admission of the client, moves on along a connection without
\* anything being lost.
LEMMA AnswersMove ==
    ASSUME NEW w \in Seq(0 .. MaxAnswers), NEW g \in Seq(1 .. MaxAnswers),
           NEW n \in Nat, NEW r \in Nat, Chain(w, n, r)
    PROVE  /\ \A x \in 1 .. MaxAnswers :
                 g \o Answers(Append(w, x)) = Append(g \o Answers(w), x)
           /\ w # <<>> => Answers(Tail(w)) = Tail(w)
           /\ w # <<>> /\ Head(w) # CONNECT => Append(g, Head(w)) \o Tail(w) = g \o w
<1>1. /\ Len(w) \in Nat /\ \A m \in 1 .. Len(w) : w[m] \in 0 .. MaxAnswers
      /\ w # <<>> => /\ Head(w) = w[1] /\ Tail(w) \in Seq(0 .. MaxAnswers)
                     /\ Len(Tail(w)) = Len(w) - 1 /\ Len(w) >= 1
                     /\ \A m \in 1 .. Len(Tail(w)) : Tail(w)[m] = w[m + 1]
  BY HeadTailProperties
<1>2. Answers(w) \in Seq(0 .. MaxAnswers)
  BY <1>1 DEF Answers
<1>3. ASSUME NEW x \in 1 .. MaxAnswers
      PROVE  Answers(Append(w, x)) = Append(Answers(w), x)
  <2>1. CASE w = <<>>
    BY <2>1 DEF Answers
  <2>2. CASE w # <<>> /\ Head(w) # CONNECT
    <3>1. Append(w, x) # <<>> /\ Head(Append(w, x)) = Head(w)
      BY <2>2
    <3> QED BY <2>2, <3>1 DEF Answers
  <2>3. CASE w # <<>> /\ Head(w) = CONNECT
    <3>1. Append(w, x) # <<>> /\ Head(Append(w, x)) = Head(w)
      BY <2>3
    <3>2. Tail(Append(w, x)) = Append(Tail(w), x)
      BY <1>1, <2>3
    <3> QED BY <2>3, <3>1, <3>2 DEF Answers
  <2> QED BY <2>1, <2>2, <2>3
<1>4. ASSUME NEW x \in 1 .. MaxAnswers
      PROVE  g \o Append(Answers(w), x) = Append(g \o Answers(w), x)
  BY <1>2
<1>5. ASSUME w # <<>>
      PROVE  Answers(Tail(w)) = Tail(w)
  <2>1. CASE Tail(w) = <<>>
    BY <2>1 DEF Answers
  <2>2. CASE Tail(w) # <<>>
    <3>1. Len(w) >= 2 /\ Head(Tail(w)) = w[2]
      BY <1>1, <1>5, <2>2
    <3>2. w[1] < w[2] /\ w[1] >= 0
      BY <1>1, <3>1 DEF Chain
    <3> QED BY <3>1, <3>2 DEF Answers
  <2> QED BY <2>1, <2>2
<1>6. ASSUME w # <<>>
      PROVE  Append(g, Head(w)) \o Tail(w) = g \o w
  BY <1>1, <1>6
<1> QED BY <1>3, <1>4, <1>5, <1>6

\* Of an open bridge, everything accepted has arrived or is on its way.
Complete(b) == bridge[b] # "closed" => accepted[b] = got[b] \o Answers(wire[b])

\* Publish adds to both sides, Deliver moves from one to the other.
LEMMA StepComplete ==
    ASSUME Types, Linked, Ordered, Owned, NoLoss, NothingElseLost,
           NEW b \in Bridges, Step(b)
    PROVE  NothingElseLost'
<1> SUFFICES ASSUME Undisturbed' PROVE (\A c \in Bridges : Complete(c))'
  BY DEF NothingElseLost, Undisturbed, Complete
<1>1. /\ Undisturbed /\ ~Drop(b)
      /\ \A c \in Bridges : link[c] \in {"none", "up"} /\ Complete(c)
  BY UndisturbedBefore DEF NoLoss, NothingElseLost, Undisturbed, Complete
<1>2. /\ wire \in [Bridges -> Seq(0 .. MaxAnswers)]
      /\ read \in [Bridges -> 0 .. MaxAnswers]
      /\ accepted \in [Bridges -> Seq(1 .. MaxAnswers)]
      /\ got \in [Bridges -> Seq(1 .. MaxAnswers)]
      /\ bridge \in [Bridges -> BridgeState]
  BY DEF Types
<1>3. ASSUME NEW c \in Bridges, wire'[c] = wire[c], accepted'[c] = accepted[c],
             got'[c] = got[c], bridge[c] # "closed"
      PROVE  Complete(c)'
  BY <1>1, <1>3 DEF Complete
<1>4. ASSUME NEW c \in Bridges, UNCHANGED <<wire[c], accepted[c], got[c], bridge[c]>>
      PROVE  Complete(c)'
  BY <1>1, <1>4 DEF Complete
<1>5. \A c \in Bridges \ {b} : Complete(c)'
  <2>1. CASE Admit(b)
    BY <1>1, <1>2, <1>4, <2>1, NobodyOusted DEF Admit, Undisturbed, daemonVars
  <2>2. CASE ~Admit(b)
    <3>1. \A c \in Bridges \ {b} : wire'[c] = wire[c]
      BY <2>2, StepAdmits
    <3>2. \A c \in Bridges \ {b} :
              accepted'[c] = accepted[c] /\ got'[c] = got[c] /\ bridge'[c] = bridge[c]
      BY <1>2 DEF Step, Connect, ConnectFails, SourceStarts, SourceFails, Publish, Close,
                  Drop, Notice, Reconnect, Admit, Deliver, daemonVars
    <3> QED BY <1>4, <3>1, <3>2
  <2> QED BY <2>1, <2>2
<1>6. /\ Channel!Newest(b) \in Nat /\ read[b] \in Nat
      /\ Chain(wire[b], Channel!Newest(b), read[b])
      /\ wire[b] \in Seq(0 .. MaxAnswers) /\ got[b] \in Seq(1 .. MaxAnswers)
  BY <1>2, OrderTypes
<1>7. CASE Connect(b) \/ ConnectFails(b)
  <2>1. accepted'[b] = <<>> /\ got'[b] = <<>> /\ wire[b] = <<>>
    BY <1>7 DEF Connect, ConnectFails, MayStart, Linked
  <2>2. wire'[b] \in {<<>>, <<CONNECT>>}
    BY <1>2, <1>7, <2>1 DEF Connect, ConnectFails
  <2>3. Answers(wire'[b]) = <<>> /\ got'[b] \o <<>> = <<>>
    <3>1. Answers(<<>>) = <<>> /\ Answers(<<CONNECT>>) = <<>>
      BY DEF Answers
    <3> QED BY <2>1, <2>2, <3>1
  <2>4. Complete(b)'
    BY <2>1, <2>3 DEF Complete
  <2> QED BY <1>5, <2>4
<1>8. CASE SourceStarts(b) \/ SourceFails(b)
  <2>1. Complete(b)'
    BY <1>3, <1>8 DEF SourceStarts, SourceFails
  <2> QED BY <1>5, <2>1
<1>9. CASE Publish(b)
  <2>1. link[b] = "up" /\ bridge[b] # "closed"
    BY <1>1, <1>9 DEF Publish, Publishing, Linked
  <2>2. /\ read[b] + 1 \in 1 .. MaxAnswers /\ got' = got /\ bridge' = bridge
        /\ wire'[b] = Append(wire[b], read[b] + 1)
        /\ accepted'[b] = Append(accepted[b], read[b] + 1)
    BY <1>2, <1>9, <2>1 DEF Publish, Publishing, daemonVars
  <2>3. got[b] \o Answers(wire'[b]) = Append(got[b] \o Answers(wire[b]), read[b] + 1)
    <3>1. \A x \in 1 .. MaxAnswers :
              got[b] \o Answers(Append(wire[b], x)) = Append(got[b] \o Answers(wire[b]), x)
      BY <1>6, AnswersMove
    <3> QED BY <2>2, <3>1
  <2>4. Complete(b)'
    BY <1>1, <2>1, <2>2, <2>3 DEF Complete
  <2> QED BY <1>5, <2>4
<1>10. CASE Close(b)
  <2>1. Complete(b)'
    BY <1>2, <1>10 DEF Close, Complete
  <2> QED BY <1>5, <2>1
<1>11. CASE Notice(b) \/ Reconnect(b)
  BY <1>1, <1>11 DEF Notice, Reconnect
<1>12. CASE Admit(b)
  <2>1. wire'[b] = Tail(wire[b]) /\ wire[b] # <<>> /\ Head(wire[b]) = CONNECT
    BY <1>1, <1>2, <1>12, NobodyOusted DEF Undisturbed, Admit, Pending
  <2>2. Answers(wire'[b]) = Tail(wire[b])
    BY <1>6, <2>1, AnswersMove
  <2>3. Answers(wire[b]) = Tail(wire[b])
    BY <2>1 DEF Answers
  <2>4. Complete(b)'
    BY <1>1, <1>12, <2>2, <2>3 DEF Complete, Admit, daemonVars
  <2> QED BY <1>5, <2>4
<1>13. CASE Deliver(b)
  <2>1. /\ wire[b] # <<>> /\ Head(wire[b]) # CONNECT /\ Head(wire[b]) \in 1 .. MaxAnswers
        /\ wire'[b] = Tail(wire[b]) /\ got'[b] = Append(got[b], Head(wire[b]))
        /\ accepted' = accepted /\ bridge' = bridge
    BY <1>2, <1>6, <1>13, PacketTypes DEF Deliver, Pending, daemonVars
  <2>2. /\ Answers(wire'[b]) = Tail(wire[b]) /\ Answers(wire[b]) = wire[b]
        /\ got'[b] \o Tail(wire[b]) = got[b] \o wire[b]
    BY <1>6, <2>1, AnswersMove DEF Answers
  <2>3. Complete(b)'
    BY <1>1, <2>1, <2>2 DEF Complete
  <2> QED BY <1>5, <2>3
<1> QED BY <1>1, <1>7, <1>8, <1>9, <1>10, <1>11, <1>12, <1>13 DEF Step

(***************************************************************************)
(* The theorems.                                                           *)
(***************************************************************************)

\* Nothing has started and nothing is held.
LEMMA InitEstablishes == Init => IInv
<1> SUFFICES ASSUME Init PROVE IInv
  OBVIOUS
<1>1. Types
  BY InitTypes
<1>2. Linked /\ NoLoss
  BY DEF Init, Linked, NoLoss
<1>3. \A b \in Bridges : got[b] = <<>> /\ accepted[b] = <<>> /\ wire[b] = <<>> /\ read[b] = 0
  BY DEF Init
<1>4. Ordered
  <2>1. \A b \in Bridges : Channel!Newest(b) = 0
    BY <1>3 DEF Channel!Newest
  <2> QED BY <1>3, <2>1 DEF Ordered, Chain
<1>5. Owned
  BY <1>3 DEF Init, Owned
<1>6. LibraryHeld
  <2>1. {b \in Bridges : link[b] # "none" \/ bridge[b] = "noClient"} = {}
    BY DEF Init
  <2> QED BY <2>1, FS_EmptySet DEF Init, LibraryHeld
<1>7. NothingElseLost
  <2>1. Answers(<<>>) = <<>> /\ <<>> \o <<>> = <<>>
    BY DEF Answers
  <2> QED BY <1>3, <2>1 DEF NothingElseLost
<1> QED BY <1>1, <1>2, <1>4, <1>5, <1>6, <1>7 DEF IInv

\* Nothing the invariant speaks of changes in a step of the environment.
LEMMA StutterPreserves == ASSUME IInv, UNCHANGED vars PROVE IInv'
<1> USE DEF IInv, vars, daemonVars
<1>1. Types' /\ Linked' /\ NoLoss' /\ LibraryHeld'
  BY DEF Types, Linked, NoLoss, LibraryHeld, DistinctClients, SameName
<1>2. Ordered' /\ NothingElseLost'
  BY DEF Ordered, Chain, Channel!Newest, NothingElseLost, Answers, DistinctClients, SameName
<1>3. Owned'
  BY DEF Owned, Pending, SessionId
<1> QED BY <1>1, <1>2, <1>3

\* The strengthening the others follow from: whose CONNECT has been admitted under
\* which name, what order packets are in, and what can have ended a connection.
THEOREM Invariance == Spec => []IInv
<1>1. Init => IInv
  BY InitEstablishes
<1>2. ASSUME IInv, Next
      PROVE  IInv'
  <2>1. PICK b \in Bridges : Step(b)
    BY <1>2, NextIsStep
  <2> QED BY <1>2, <2>1, StepTypes, StepLinked, StepOrdered, StepOwned, StepNoLoss,
             StepLibrary, StepComplete DEF IInv
<1>3. IInv /\ [Next]_vars => IInv'
  BY <1>2, StutterPreserves
<1> QED BY <1>1, <1>3, PTL DEF Spec

\* Every variable keeps its type, and the library is initialised at most once for
\* each bridge.
THEOREM TypeCorrect == Spec => []TypeOK
<1>1. ASSUME IInv
      PROVE  TypeOK
  <2>1. /\ Holders \subseteq Bridges /\ libRefs = Cardinality(Holders)
        /\ Cardinality(Holders) \in Nat /\ Cardinality(Bridges) \in Nat
        /\ Cardinality(Holders) <= Cardinality(Bridges)
    BY <1>1, FS_Subset, FS_CardinalityType DEF IInv, LibraryHeld, Holders
  <2>2. libRefs \in 0 .. Cardinality(Bridges)
    BY <2>1
  <2> QED BY <1>1, <2>2 DEF IInv, Types, TypeOK
<1>2. IInv => TypeOK
  BY <1>1
<1> QED BY <1>2, Invariance, PTL

\* Starts that fail at any step, and reloads, give the library back as often as they
\* take it, but for a client that could not be made.
THEOREM LibraryKept == Spec => []LibraryHeld
<1>1. IInv => LibraryHeld
  BY DEF IInv
<1> QED BY <1>1, Invariance, PTL

\* On connections that last, with names of their own, nothing mosquitto_publish
\* accepted is lost or overtaken before the bridge is closed.
THEOREM NoneLost == Spec => []NothingElseLost
<1>1. IInv => NothingElseLost
  BY DEF IInv
<1> QED BY <1>1, Invariance, PTL

\* An answer of the old configuration does not come after one of the new.
THEOREM OldBeforeNew == Spec => []NoOldAfterNew
<1>1. ASSUME IInv
      PROVE  NoOldAfterNew
  <2>1. SUFFICES ASSUME NEW b \in Bridges, NEW c \in Bridges,
                        world.gen[b] < world.gen[c], SameName(b, c),
                        session[SessionId(c)] = c
                 PROVE  wire[b] = <<>> \/ Pending(b)
    BY DEF NoOldAfterNew
  <2>2. world.gen[b] \in Nat /\ world.gen[c] \in Nat
    BY <1>1 DEF IInv, Types
  <2>3. b # c
    BY <2>1, <2>2
  <2>4. SessionId(b) = SessionId(c)
    BY <1>1, <2>1, NamesAlike DEF IInv
  <2> QED BY <1>1, <2>1, <2>3, <2>4 DEF IInv, Owned
<1>2. IInv => NoOldAfterNew
  BY <1>1
<1> QED BY <1>2, Invariance, PTL

\* Reading an answer and delivering one are the steps of a lossy channel; nothing else
\* adds to what the subscribers have got.
THEOREM Implementation == Spec => ImplementsChannel
<1>1. Init => Channel!Init
  BY DEF Init, Channel!Init
<1>2. ASSUME IInv, Next
      PROVE  Channel!Next \/ UNCHANGED <<read, got>>
  <2>1. PICK b \in Bridges : Step(b)
    BY <1>2, NextIsStep
  <2>2. CASE Publish(b)
    BY <2>2 DEF Publish, Channel!Next, Channel!Read
  <2>3. CASE Deliver(b)
    <3>1. wire[b] # <<>> /\ Head(wire[b]) # CONNECT
      BY <2>3 DEF Deliver, Pending
    <3>2. Head(wire[b]) \in Channel!Newest(b) + 1 .. read[b]
      BY <1>2, <3>1, OrderTypes, ChainKept DEF IInv
    <3>3. Channel!Deliver(b)
      BY <2>3, <3>2 DEF Deliver, Channel!Deliver
    <3> QED BY <3>3 DEF Channel!Next
  <2>4. CASE ~Publish(b) /\ ~Deliver(b)
    BY <2>1, <2>4 DEF Step, Connect, ConnectFails, SourceStarts, SourceFails, Close, Drop,
                      Notice, Reconnect, Admit
  <2> QED BY <2>2, <2>3, <2>4
<1>3. UNCHANGED vars => UNCHANGED <<read, got>>
  BY DEF vars
<1>4. IInv /\ [Next]_vars => [Channel!Next]_<<read, got>>
  BY <1>2, <1>3
<1> QED BY <1>1, <1>4, Invariance, PTL DEF Spec, ImplementsChannel, Channel!Spec
=============================================================================
