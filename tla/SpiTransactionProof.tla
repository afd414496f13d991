------------------------- MODULE SpiTransactionProof -------------------------
(***************************************************************************)
(* What holds of SpiTransaction for any list of transactions and any limit *)
(* on their length, whichever allocations and transfers fail.              *)
(***************************************************************************)
EXTENDS SpiTransaction, Recursion, SequenceTheorems, TLAPS

USE TransactionAssumption

Ops == {"read", "write", "transfer"}
Outcomes == {"none", "failed", "lost", "done"}

\* The bytes the device gives to transaction m.
Expected(m) ==
    LET t == Parsed(list[m])
        before == IF RxLen(t) = t.len THEN 0 ELSE t.len
    IN  [b \in 1 .. RxLen(t) |-> Answer(m, before + b)]

Publications == {[of |-> m, bytes |-> Expected(m)] : m \in DOMAIN list}

Types ==
    /\ list \in Lists /\ keepCs \in BOOLEAN
    /\ k \in 1 .. Len(list) + 1
    /\ pc \in {"start", "rx", "compose", "ioctl", "callback", "send", "free"}
    /\ pc # "start" => k <= Len(list) /\ T.len \in 1 .. MaxLen
    /\ outcome \in [DOMAIN list -> Outcomes]
    /\ published \in Seq(Publications)

\* The buffers of each place in the pass, and the message that is on its way.
RxHeap == IF RxLen(T) > 0 THEN {"rx"} ELSE {}
Buffers ==
    /\ pc = "start" => heap = {}
    /\ pc = "rx" => heap = {"tx"}
    /\ pc = "compose" => heap = {"tx"} \cup RxHeap
    /\ pc = "ioctl" =>
          /\ message = Message(T)
          /\ heap = {"tx"} \cup RxHeap \cup (IF RxLen(T) \in {0, T.len} THEN {} ELSE {"dummy"})
    /\ pc = "callback" => heap = {"tx", "rx"}
    /\ pc = "send" => heap = {"tx", "rx", "dup"}
    /\ pc = "free" => heap \subseteq {"tx", "rx"}

\* What has been published, and what is about to be.
Answered(n) ==
    /\ outcome[n] # "none"
    /\ outcome[n] = "done" /\ RxLen(Parsed(list[n])) > 0 =>
          \E p \in DOMAIN published : published[p].of = n
Done ==
    /\ \A n \in 1 .. k - 1 : Answered(n)
    /\ pc = "free" => Answered(k)
    /\ pc \in {"callback", "send"} => outcome[k] = "done" /\ received = Expected(k)
InOrder ==
    /\ \A n \in DOMAIN published :
          /\ published[n].of < k \/ (pc = "free" /\ published[n].of = k)
          /\ outcome[published[n].of] = "done"
    /\ \A n \in 1 .. Len(published) - 1 : published[n].of < published[n + 1].of

IInv == Types /\ Buffers /\ Done /\ InOrder

(***************************************************************************)
(* The transaction, its lengths and its message.                           *)
(***************************************************************************)

\* What the parser keeps of an item.
LEMMA ParsedTypes ==
    ASSUME Types, NEW m \in DOMAIN list
    PROVE  LET t == Parsed(list[m])
           IN  /\ t.op \in Ops /\ t.len \in 0 .. MaxLen
               /\ t.rxLen = Absent \/ t.rxLen \in 1 .. MaxLen
               /\ RxLen(t) \in 0 .. MaxLen
<1>1. list[m].op \in Ops
  <2> DEFINE Item == [op : Ops, len : Int \cup {Absent}, tx : Seq(0 .. Junk) \cup {Absent},
                      rx_len : Int \cup {Absent}]
  <2>1. list \in Seq(Item)
    BY DEF Types, Ops
  <2>2. list[m] \in Item
    <3> HIDE DEF Item
    <3> QED BY <2>1
  <2> QED BY <2>2
<1> DEFINE t == Parsed(list[m])
<1>2. t.op = list[m].op /\ t.len \in 0 .. MaxLen
  BY DEF Parsed, InRange
<1>3. t.rxLen = Absent \/ t.rxLen \in 1 .. MaxLen
  BY DEF Parsed, InRange
<1>4. RxLen(t) \in 0 .. MaxLen
  BY <1>2, <1>3 DEF RxLen
<1> QED BY <1>1, <1>2, <1>3, <1>4

\* Of a message that reads, what comes into rx_buf is what the device answers after
\* the command, or during it.
LEMMA ReadsAnswer ==
    ASSUME Types, pc = "ioctl", RxLen(T) > 0
    PROVE  WhatRx(Message(T)) = Expected(k)
<1> DEFINE msg == Message(T)
<1>1. k \in DOMAIN list /\ T = Parsed(list[k])
  BY DEF Types, T
<1>2. RxLen(T) \in 1 .. MaxLen /\ T.len \in 1 .. MaxLen
  BY <1>1, ParsedTypes DEF Types
<1>3. CASE RxLen(T) = T.len
  <2>1. msg = <<Segment(T.len, "tx", "rx", FALSE)>>
    <3>1. RxLen(T) # 0
      BY <1>2
    <3> QED BY <1>3, <3>1, Zenon DEF Message
  <2>2. DOMAIN msg = {1} /\ msg[1].rx = "rx" /\ msg[1].len = T.len
    BY <2>1 DEF Segment
  <2>3. (CHOOSE n \in DOMAIN msg : msg[n].rx = "rx") = 1
    BY <2>2
  <2> HIDE DEF msg
  <2>4. WhatRx(msg) = [n \in 1 .. T.len |-> Answer(k, 0 + n)]
    BY <2>2, <2>3 DEF WhatRx
  <2> QED BY <1>1, <1>3, <2>4 DEF Expected, msg
<1>4. CASE RxLen(T) # T.len
  <2>1. msg = <<Segment(T.len, "tx", "none", TRUE), Segment(RxLen(T), "dummy", "rx", keepCs)>>
    <3>1. RxLen(T) # 0
      BY <1>2
    <3> QED BY <1>4, <3>1, Zenon DEF Message
  <2>2. /\ DOMAIN msg = {1, 2} /\ msg[1].rx = "none" /\ msg[2].rx = "rx"
        /\ msg[1].len = T.len /\ msg[2].len = RxLen(T)
    BY <2>1 DEF Segment
  <2>3. (CHOOSE n \in DOMAIN msg : msg[n].rx = "rx") = 2
    BY <2>2
  <2> HIDE DEF msg
  <2>4. WhatRx(msg) = [n \in 1 .. RxLen(T) |-> Answer(k, T.len + n)]
    BY <2>2, <2>3 DEF WhatRx
  <2> QED BY <1>1, <1>4, <2>4 DEF Expected, msg
<1> QED BY <1>3, <1>4

(***************************************************************************)
(* Steps that publish nothing.                                             *)
(***************************************************************************)

\* The transaction in hand stays the same while the index does.
LEMMA SameTransaction ==
    ASSUME UNCHANGED list
    PROVE  /\ k' = k => T' = T /\ RxHeap' = RxHeap
           /\ \A m : Expected(m)' = Expected(m)
           /\ Publications' = Publications
BY DEF T, RxHeap, Expected, Publications

\* The type of what a step of the pass leaves.
LEMMA KeptTypes ==
    ASSUME Types, UNCHANGED <<list, keepCs, published>>,
           k <= Len(list), T.len \in 1 .. MaxLen \/ pc' = "start",
           k' = IF pc' = "start" THEN k + 1 ELSE k,
           pc' \in {"start", "rx", "compose", "ioctl", "callback", "send", "free"},
           \/ outcome' = outcome
           \/ \E result \in Outcomes : outcome' = [outcome EXCEPT ![k] = result]
    PROVE  Types'
<1>1. Len(list) \in Nat /\ Publications' = Publications
  BY SameTransaction DEF Types
<1>2. outcome' \in [DOMAIN list -> Outcomes]
  BY DEF Types
<1>3. k' = k => T' = T
  BY SameTransaction
<1>4. k' \in 1 .. Len(list) + 1
  BY <1>1 DEF Types
<1> QED BY <1>1, <1>2, <1>3, <1>4 DEF Types

\* What has been done stays done, whatever becomes of the transaction in hand.
LEMMA KeptOrder ==
    ASSUME Types, Done, InOrder, UNCHANGED <<list, published>>, pc # "free",
           k \in DOMAIN list,
           \/ outcome' = outcome
           \/ (\E result \in Outcomes : outcome' = [outcome EXCEPT ![k] = result]),
           k' \in {k, k + 1}
    PROVE  InOrder' /\ \A n \in 1 .. k - 1 : Answered(n)'
<1>1. \A n \in DOMAIN list : n # k => outcome'[n] = outcome[n]
  BY DEF Types
<1>2. Len(list) \in Nat /\ k \in Nat /\ DOMAIN list = 1 .. Len(list)
  BY DEF Types
<1>3. ASSUME NEW n \in DOMAIN published
      PROVE  published[n].of < k /\ published[n].of \in DOMAIN list
  <2>1. published[n] \in Publications
    BY DEF Types
  <2>2. published[n].of \in DOMAIN list
    BY <2>1 DEF Publications
  <2> QED BY <2>2 DEF InOrder
<1>4. InOrder'
  BY <1>1, <1>2, <1>3 DEF InOrder
<1>5. \A n \in 1 .. k - 1 : Answered(n)'
  BY <1>1, <1>2 DEF Done, Answered
<1> QED BY <1>4, <1>5

\* A transaction that has failed or whose bytes are lost needs no publication.
LEMMA Unpublished ==
    ASSUME Types, UNCHANGED <<list, published>>, k \in DOMAIN list,
           NEW result \in {"failed", "lost"}, outcome' = [outcome EXCEPT ![k] = result],
           NEW n, n = k
    PROVE  Answered(n)'
<1>1. outcome'[n] = result
  BY DEF Types
<1> QED BY <1>1 DEF Answered

\* A transaction that ends without memory for its buffers, or with a length of 0.
LEMMA EndPreserves ==
    ASSUME IInv, AllocTxFails \/ (AllocRx /\ k' # k)
    PROVE  IInv'
<1> USE DEF IInv
<1>1. /\ UNCHANGED <<list, keepCs, published>> /\ k <= Len(list) /\ k \in DOMAIN list
      /\ outcome' = [outcome EXCEPT ![k] = "failed"] /\ k' = k + 1 /\ pc' = "start"
      /\ pc \in {"start", "rx"}
  BY DEF AllocTxFails, AllocRx, EndWith, Types
<1>2. heap' = {}
  BY DEF AllocTxFails, AllocRx, EndWith, Buffers
<1>3. Types'
  BY <1>1, KeptTypes DEF Outcomes
<1>4. Buffers'
  BY <1>1, <1>2 DEF Buffers
<1>5. InOrder' /\ \A n \in 1 .. k - 1 : Answered(n)'
  BY <1>1, KeptOrder DEF Outcomes
<1>6. \A n \in 1 .. k' - 1 : Answered(n)'
  <2>1. \A n \in 1 .. k' - 1 : n \in 1 .. k - 1 \/ n = k
    BY <1>1 DEF Types
  <2> QED BY <1>1, <1>5, <2>1, Unpublished
<1>7. Done'
  BY <1>1, <1>6 DEF Done
<1> QED BY <1>3, <1>4, <1>5, <1>7

\* tx_buf.
LEMMA AllocTxPreserves == ASSUME IInv, AllocTx PROVE IInv'
<1> USE DEF IInv, AllocTx
<1>1. k \in DOMAIN list /\ T' = T /\ RxHeap' = RxHeap
  BY SameTransaction DEF Types
<1>2. Types'
  BY KeptTypes
<1>3. Buffers'
  BY DEF Buffers
<1>4. InOrder' /\ \A n \in 1 .. k - 1 : Answered(n)'
  BY <1>1, KeptOrder
<1> QED BY <1>2, <1>3, <1>4 DEF Done

\* rx_buf.
LEMMA AllocRxPreserves == ASSUME IInv, AllocRx, k' = k PROVE IInv'
<1> USE DEF IInv, AllocRx
<1>1. /\ pc = "rx" /\ pc' = "compose" /\ UNCHANGED <<list, keepCs, outcome, published>>
      /\ heap' = heap \cup RxHeap
  BY DEF RxHeap, EndWith, Types
<1>2. k \in DOMAIN list /\ T' = T /\ RxHeap' = RxHeap
  BY <1>1, SameTransaction DEF Types
<1>3. k <= Len(list) /\ T.len \in 1 .. MaxLen
  BY <1>1 DEF Types
<1>4. Types'
  BY <1>1, <1>3, KeptTypes
<1>5. Buffers'
  BY <1>1, <1>2 DEF Buffers
<1>6. InOrder' /\ \A n \in 1 .. k - 1 : Answered(n)'
  BY <1>1, <1>2, KeptOrder
<1> QED BY <1>1, <1>4, <1>5, <1>6 DEF Done

\* spi_send_once up to the ioctl.
LEMMA ComposePreserves == ASSUME IInv, Compose PROVE IInv'
<1> USE DEF IInv
<1>1. /\ pc = "compose" /\ k' = k /\ UNCHANGED <<list, keepCs, published>>
      /\ k <= Len(list) /\ k \in DOMAIN list /\ T.len \in 1 .. MaxLen
  BY DEF Compose, Types
<1>2. T' = T /\ RxHeap' = RxHeap
  BY <1>1, SameTransaction
<1>3. CASE /\ message' = Message(T) /\ pc' = "ioctl" /\ UNCHANGED outcome
           /\ heap' = heap \cup (IF RxLen(T) \in {0, T.len} THEN {} ELSE {"dummy"})
  <2>1. Types'
    BY <1>1, <1>3, KeptTypes
  <2>2. Message(T)' = Message(T)
    BY <1>1, <1>2 DEF Message
  <2>3. Buffers'
    BY <1>1, <1>2, <1>3, <2>2 DEF Buffers
  <2>4. InOrder' /\ \A n \in 1 .. k - 1 : Answered(n)'
    BY <1>1, <1>3, KeptOrder
  <2> QED BY <1>1, <1>3, <2>1, <2>3, <2>4 DEF Done
<1>4. CASE /\ outcome' = [outcome EXCEPT ![k] = "failed"] /\ pc' = "free" /\ UNCHANGED heap
  <2>1. Types'
    BY <1>1, <1>4, KeptTypes DEF Outcomes
  <2>2. Buffers'
    BY <1>1, <1>4 DEF Buffers, RxHeap
  <2>3. InOrder' /\ \A n \in 1 .. k - 1 : Answered(n)'
    BY <1>1, <1>4, KeptOrder DEF Outcomes
  <2>4. Answered(k)'
    BY <1>1, <1>4, Unpublished
  <2> QED BY <1>1, <1>4, <2>1, <2>2, <2>3, <2>4 DEF Done
<1> QED BY <1>3, <1>4 DEF Compose

\* The ioctl.
LEMMA TransferPreserves == ASSUME IInv, Transfer PROVE IInv'
<1> USE DEF IInv
<1>1. /\ pc = "ioctl" /\ k' = k /\ UNCHANGED <<list, keepCs, published>>
      /\ k <= Len(list) /\ k \in DOMAIN list /\ T.len \in 1 .. MaxLen
      /\ heap' = heap \ {"dummy"}
  BY DEF Transfer, Types
<1>2. T' = T /\ RxHeap' = RxHeap /\ Expected(k)' = Expected(k)
  BY <1>1, SameTransaction
<1>3. heap' = {"tx"} \cup RxHeap
  BY <1>1 DEF Buffers, RxHeap
<1>4. RxLen(T) \in Nat /\ T = Parsed(list[k])
  BY <1>1, ParsedTypes DEF T
<1>5. CASE /\ received' = IF RxLen(T) > 0 THEN WhatRx(message) ELSE received
           /\ pc' = IF RxLen(T) > 0 THEN "callback" ELSE "free"
           /\ outcome' = [outcome EXCEPT ![k] = "done"]
  <2>1. Types'
    BY <1>1, <1>5, KeptTypes DEF Outcomes
  <2>2. Buffers'
    BY <1>3, <1>5 DEF Buffers, RxHeap
  <2>3. InOrder' /\ \A n \in 1 .. k - 1 : Answered(n)'
    BY <1>1, <1>5, KeptOrder DEF Outcomes
  <2>4. outcome'[k] = "done"
    BY <1>1, <1>5 DEF Types
  <2>5. pc' = "callback" => received' = Expected(k)
    BY <1>1, <1>5, ReadsAnswer DEF Buffers
  <2>6. pc' = "free" => Answered(k)'
    BY <1>1, <1>4, <1>5, <2>4 DEF Answered
  <2> QED BY <1>1, <1>2, <1>5, <2>1, <2>2, <2>3, <2>4, <2>5, <2>6 DEF Done
<1>6. CASE /\ outcome' = [outcome EXCEPT ![k] = "failed"]
           /\ pc' = "free" /\ UNCHANGED received
  <2>1. Types'
    BY <1>1, <1>6, KeptTypes DEF Outcomes
  <2>2. Buffers'
    BY <1>3, <1>6 DEF Buffers, RxHeap
  <2>3. InOrder' /\ \A n \in 1 .. k - 1 : Answered(n)'
    BY <1>1, <1>6, KeptOrder DEF Outcomes
  <2>4. Answered(k)'
    BY <1>1, <1>6, Unpublished
  <2> QED BY <1>1, <1>6, <2>1, <2>2, <2>3, <2>4 DEF Done
<1> QED BY <1>5, <1>6 DEF Transfer

\* The copy on_spi_rx makes.
LEMMA DuplicatePreserves == ASSUME IInv, Duplicate PROVE IInv'
<1> USE DEF IInv
<1>1. /\ pc = "callback" /\ k' = k /\ UNCHANGED <<list, keepCs, published, received>>
      /\ k <= Len(list) /\ k \in DOMAIN list /\ T.len \in 1 .. MaxLen
  BY DEF Duplicate, Types, wireVars
<1>2. Expected(k)' = Expected(k)
  BY <1>1, SameTransaction
<1>3. CASE heap' = heap \cup {"dup"} /\ pc' = "send" /\ UNCHANGED outcome
  <2>1. Types'
    BY <1>1, <1>3, KeptTypes
  <2>2. Buffers'
    BY <1>1, <1>3 DEF Buffers
  <2>3. InOrder' /\ \A n \in 1 .. k - 1 : Answered(n)'
    BY <1>1, <1>3, KeptOrder
  <2> QED BY <1>1, <1>2, <1>3, <2>1, <2>2, <2>3 DEF Done
<1>4. CASE outcome' = [outcome EXCEPT ![k] = "lost"] /\ pc' = "free" /\ UNCHANGED heap
  <2>1. Types'
    BY <1>1, <1>4, KeptTypes DEF Outcomes
  <2>2. Buffers'
    BY <1>1, <1>4 DEF Buffers
  <2>3. InOrder' /\ \A n \in 1 .. k - 1 : Answered(n)'
    BY <1>1, <1>4, KeptOrder DEF Outcomes
  <2>4. Answered(k)'
    BY <1>1, <1>4, Unpublished
  <2> QED BY <1>1, <1>4, <2>1, <2>2, <2>3, <2>4 DEF Done
<1> QED BY <1>3, <1>4 DEF Duplicate

\* send_fn gets the answer of the transaction in hand, which none before had.
LEMMA SendPreserves == ASSUME IInv, Send PROVE IInv'
<1> USE DEF IInv
<1> DEFINE new == [of |-> k, bytes |-> received]
<1>1. /\ pc = "send" /\ pc' = "free" /\ k' = k /\ UNCHANGED <<list, keepCs, outcome>>
      /\ k <= Len(list) /\ k \in DOMAIN list /\ T.len \in 1 .. MaxLen
      /\ published' = Append(published, new) /\ heap' = heap \ {"dup"}
  BY DEF Send, Types
<1>2. T' = T /\ Publications' = Publications
  BY <1>1, SameTransaction
<1>3. new \in Publications /\ new.of = k
  BY <1>1 DEF Done, Publications
<1>4. published \in Seq(Publications)
  BY DEF Types
<1> HIDE DEF new
<1>5. /\ published' \in Seq(Publications) /\ Len(published') = Len(published) + 1
      /\ Len(published) \in Nat /\ published'[Len(published) + 1] = new
      /\ \A n \in 1 .. Len(published) : published'[n] = published[n]
  BY <1>1, <1>3, <1>4
<1>6. Types'
  BY <1>1, <1>2, <1>5 DEF Types
<1>7. Buffers'
  BY <1>1 DEF Buffers
<1>8. DOMAIN published = 1 .. Len(published) /\ DOMAIN published' = 1 .. Len(published')
  BY <1>4, <1>5
<1>9. InOrder'
  <2>1. ASSUME NEW n \in DOMAIN published'
        PROVE  published'[n].of <= k /\ outcome[published'[n].of] = "done"
               /\ (n <= Len(published) => published'[n].of < k)
    <3>1. CASE n = Len(published) + 1
      BY <1>1, <1>3, <1>5, <3>1 DEF Done, Types
    <3>2. CASE n \in 1 .. Len(published)
      <4>1. published[n].of < k /\ outcome[published[n].of] = "done"
        BY <1>1, <1>8, <3>2 DEF InOrder
      <4>2. published[n] \in Publications
        BY <1>4, <3>2
      <4>3. published[n].of \in Nat
        BY <4>2 DEF Publications, Types
      <4> QED BY <1>5, <3>2, <4>1, <4>3 DEF Types
    <3> QED BY <1>5, <1>8, <2>1, <3>1, <3>2
  <2>2. \A n \in 1 .. Len(published') - 1 : published'[n].of < published'[n + 1].of
    <3>1. \A n \in 1 .. Len(published) - 1 : published[n].of < published[n + 1].of
      BY DEF InOrder
    <3>2. ASSUME NEW n \in 1 .. Len(published') - 1
          PROVE  published'[n].of < published'[n + 1].of
      <4>1. CASE n = Len(published)
        BY <1>3, <1>5, <1>8, <2>1, <4>1
      <4>2. CASE n # Len(published)
        BY <1>5, <3>1, <4>2
      <4> QED BY <4>1, <4>2
    <3> QED BY <3>2
  <2>3. \A n \in DOMAIN published' : published'[n].of < k \/ published'[n].of = k
    <3>1. \A n \in DOMAIN published' : published'[n].of \in Nat
      BY <1>5, <1>8 DEF Publications, Types
    <3> QED BY <2>1, <3>1 DEF Types
  <2> QED BY <1>1, <2>1, <2>2, <2>3 DEF InOrder
<1>10. Done'
  <2>1. \A n \in 1 .. k - 1 : Answered(n)'
    BY <1>1, <1>5, <1>8 DEF Done, Answered
  <2>2. Answered(k)'
    BY <1>1, <1>3, <1>5, <1>8 DEF Done, Answered
  <2> QED BY <1>1, <2>1, <2>2 DEF Done
<1> QED BY <1>6, <1>7, <1>9, <1>10

\* The buffers are freed and the loop goes on.
LEMMA FreePreserves == ASSUME IInv, Free PROVE IInv'
<1> USE DEF IInv
<1>1. /\ pc = "free" /\ pc' = "start" /\ k' = k + 1
      /\ UNCHANGED <<list, keepCs, published, outcome>>
      /\ k <= Len(list) /\ k \in Nat
      /\ heap' = heap \ {"tx", "rx"}
  BY DEF Free, Types
<1>2. Types'
  BY <1>1, KeptTypes
<1>3. Buffers'
  BY <1>1 DEF Buffers
<1>4. InOrder'
  <2>1. \A n \in DOMAIN published : published[n].of \in Nat
    BY DEF Publications, Types
  <2>2. \A n \in DOMAIN published : published[n].of < k + 1
    BY <1>1, <2>1 DEF InOrder
  <2> QED BY <1>1, <2>2 DEF InOrder
<1>5. \A n \in 1 .. k' - 1 : Answered(n)'
  BY <1>1 DEF Done, Answered
<1> QED BY <1>1, <1>2, <1>3, <1>4, <1>5 DEF Done

(***************************************************************************)
(* The theorems.                                                           *)
(***************************************************************************)

\* Nothing is allocated and nothing done.
LEMMA InitEstablishes == Init => IInv
<1> SUFFICES ASSUME Init PROVE IInv
  OBVIOUS
<1>1. Len(list) \in Nat
  BY DEF Init
<1>2. Types
  BY <1>1 DEF Init, Types, Outcomes
<1>3. Buffers /\ Done /\ InOrder
  BY DEF Init, Buffers, Done, InOrder
<1> QED BY <1>2, <1>3 DEF IInv

\* The strengthening the others follow from: the place in the pass decides which
\* buffers there are, what rx_buf holds and what has been published.
THEOREM Invariance == Spec => []IInv
<1>1. Init => IInv
  BY InitEstablishes
<1>2. IInv /\ UNCHANGED vars => IInv'
  <2> SUFFICES ASSUME IInv, UNCHANGED vars PROVE IInv'
    OBVIOUS
  <2>1. T' = T /\ RxHeap' = RxHeap /\ Publications' = Publications
        /\ \A m : Expected(m)' = Expected(m)
    BY SameTransaction DEF vars
  <2>2. Types'
    BY <2>1 DEF IInv, Types, vars
  <2>3. Message(T)' = Message(T)
    BY <2>1 DEF Message, vars
  <2>4. Buffers'
    BY <2>1, <2>3 DEF IInv, Buffers, vars
  <2>5. Done' /\ InOrder'
    BY <2>1 DEF IInv, Done, Answered, InOrder, vars
  <2> QED BY <2>2, <2>4, <2>5 DEF IInv
<1>3. IInv /\ Next => IInv'
  BY EndPreserves, AllocTxPreserves, AllocRxPreserves, ComposePreserves, TransferPreserves,
     DuplicatePreserves, SendPreserves, FreePreserves DEF Next
<1> QED BY <1>1, <1>2, <1>3, PTL DEF Spec

\* Whatever fails, a transaction gives back every buffer before the next begins, and
\* the driver is never given one that is not there.
THEOREM BuffersReturned == Spec => []BuffersBalanced
<1>1. ASSUME IInv
      PROVE  BuffersBalanced
  <2>1. ASSUME pc = "ioctl", NEW n \in DOMAIN message
        PROVE  {message[n].tx, message[n].rx} \ {"none"} \subseteq heap
    <3>1. /\ message = Message(T)
          /\ heap = {"tx"} \cup RxHeap
                    \cup (IF RxLen(T) \in {0, T.len} THEN {} ELSE {"dummy"})
          /\ RxLen(T) \in Nat
      BY <1>1, <2>1, ParsedTypes DEF IInv, Buffers, T, Types
    <3>2. CASE RxLen(T) = 0
      <4>1. message = <<Segment(T.len, "tx", "none", keepCs)>>
        BY <3>1, <3>2, Zenon DEF Message
      <4> QED BY <2>1, <3>1, <4>1 DEF Segment
    <3>3. CASE RxLen(T) # 0 /\ RxLen(T) = T.len
      <4>1. message = <<Segment(T.len, "tx", "rx", FALSE)>>
        BY <3>1, <3>3, Zenon DEF Message
      <4> QED BY <2>1, <3>1, <3>3, <4>1 DEF Segment, RxHeap
    <3>4. CASE RxLen(T) # 0 /\ RxLen(T) # T.len
      <4>1. message = <<Segment(T.len, "tx", "none", TRUE),
                        Segment(RxLen(T), "dummy", "rx", keepCs)>>
        BY <3>1, <3>4, Zenon DEF Message
      <4> QED BY <2>1, <3>1, <3>4, <4>1 DEF Segment, RxHeap
    <3> QED BY <3>2, <3>3, <3>4
  <2> QED BY <1>1, <2>1 DEF IInv, Buffers, BuffersBalanced
<1>2. IInv => BuffersBalanced
  BY <1>1
<1> QED BY <1>2, Invariance, PTL

\* Every transaction that reads and succeeds is published once, in the order of the
\* list, with the bytes the device gave it.
THEOREM EachAnswerPublished == Spec => []PublishesEachAnswer
<1>1. ASSUME IInv
      PROVE  PublishesEachAnswer
  <2>1. ASSUME NEW n \in DOMAIN published
        PROVE  /\ outcome[published[n].of] = "done"
               /\ published[n].bytes = Expected(published[n].of)
    <3>1. published[n] \in Publications
      BY <1>1 DEF IInv, Types
    <3> QED BY <1>1, <3>1 DEF IInv, InOrder, Publications
  <2> QED BY <1>1, <2>1 DEF IInv, InOrder, Done, Answered, PublishesEachAnswer, Expected
<1>2. IInv => PublishesEachAnswer
  BY <1>1
<1> QED BY <1>2, Invariance, PTL

(***************************************************************************)
(* What parse_hex_bytes makes of a string.                                 *)
(***************************************************************************)

Bytes == 0 .. 255

\* What its loop keeps: the bytes so far and the digit that waits for another.
HexStates == [out : Seq(Bytes), high : -1 .. 15]

\* A state after the first n digits of d: they are in the bytes, two in each, and the
\* last one waits, or was dropped when max bytes were there.
After(d, n, max, st) ==
    /\ st \in HexStates /\ Len(st.out) <= max
    /\ \A i \in 1 .. Len(st.out) : st.out[i] = 16 * d[2 * i - 1] + d[2 * i]
    /\ st.high = -1 => n = 2 * Len(st.out)
    /\ st.high # -1 =>
          /\ n >= 2 * Len(st.out) + 1
          /\ Len(st.out) < max => n = 2 * Len(st.out) + 1 /\ st.high = d[n]

\* Two digits are a byte.
LEMMA PairIsByte == \A h, c \in Nibble : 16 * h + c \in Bytes
BY DEF Nibble, Bytes

\* The loop takes one more digit.
LEMMA HexStepAfter ==
    ASSUME NEW d \in Seq(Nibble), NEW n \in 1 .. Len(d), NEW max \in Nat, NEW st,
           After(d, n - 1, max, st)
    PROVE  After(d, n, max, HexStep(st, d[n], max))
<1> DEFINE c == d[n]
           o == Len(st.out)
<1>1. /\ c \in Nibble /\ Len(d) \in Nat /\ n \in Nat
      /\ st \in HexStates /\ st.out \in Seq(Bytes) /\ o \in Nat /\ st.high \in -1 .. 15
      /\ DOMAIN st = {"out", "high"} /\ o <= max
  BY DEF After, HexStates
<1>2. \A i \in 1 .. o : st.out[i] = 16 * d[2 * i - 1] + d[2 * i]
  BY DEF After
<1>3. CASE st.high = -1
  <2> DEFINE new == [st EXCEPT !.high = c]
  <2>1. HexStep(st, c, max) = new
    BY <1>1, <1>3, Zenon DEF HexStep
  <2>2. new.out = st.out /\ new.high = c /\ new \in HexStates /\ c # -1
    BY <1>1 DEF HexStates, Nibble
  <2>3. n - 1 = 2 * o
    BY <1>3 DEF After
  <2>4. n = 2 * o + 1
    BY <1>1, <2>3
  <2> HIDE DEF new, c
  <2>5. After(d, n, max, new)
    BY <1>1, <1>2, <2>2, <2>4 DEF After, c
  <2> QED BY <2>1, <2>5 DEF c
<1>4. CASE st.high # -1 /\ o < max
  <2> DEFINE byte == 16 * st.high + c
             new == [out |-> Append(st.out, byte), high |-> -1]
  <2>1. HexStep(st, c, max) = new
    BY <1>1, <1>4, Zenon DEF HexStep
  <2>2. n - 1 = 2 * o + 1 /\ st.high = d[n - 1]
    BY <1>4 DEF After
  <2>3. n = 2 * (o + 1) /\ n - 1 = 2 * (o + 1) - 1
    BY <1>1, <2>2
  <2>4. byte = 16 * d[2 * (o + 1) - 1] + d[2 * (o + 1)] /\ st.high \in Nibble
    BY <1>1, <1>4, <2>2, <2>3 DEF Nibble
  <2>5. byte \in Bytes
    BY <1>1, <2>4, PairIsByte
  <2> HIDE DEF byte
  <2>6. /\ Append(st.out, byte) \in Seq(Bytes) /\ Len(Append(st.out, byte)) = o + 1
        /\ \A i \in 1 .. o : Append(st.out, byte)[i] = st.out[i]
        /\ Append(st.out, byte)[o + 1] = byte
    BY <1>1, <2>5
  <2>7. new.out = Append(st.out, byte) /\ new.high = -1 /\ new \in HexStates
    BY <2>6 DEF HexStates
  <2> HIDE DEF new
  <2>8. ASSUME NEW i \in 1 .. o + 1
        PROVE  new.out[i] = 16 * d[2 * i - 1] + d[2 * i]
    <3>1. CASE i \in 1 .. o
      BY <1>2, <2>6, <2>7, <3>1
    <3>2. CASE i = o + 1
      BY <2>4, <2>6, <2>7, <3>2
    <3> QED BY <1>1, <3>1, <3>2
  <2>9. Len(new.out) = o + 1 /\ o + 1 <= max
    BY <1>1, <1>4, <2>6, <2>7
  <2> HIDE DEF o
  <2>10. After(d, n, max, new)
    BY <2>3, <2>7, <2>8, <2>9 DEF After
  <2> QED BY <2>1, <2>10
<1>5. CASE st.high # -1 /\ ~(o < max)
  <2>1. HexStep(st, c, max) = st
    BY <1>1, <1>5, Zenon DEF HexStep
  <2>2. n - 1 >= 2 * o + 1
    BY <1>5 DEF After
  <2>3. n >= 2 * o + 1
    BY <1>1, <2>2
  <2> HIDE DEF c
  <2>4. After(d, n, max, st)
    BY <1>1, <1>2, <1>5, <2>3 DEF After
  <2> QED BY <2>1, <2>4 DEF c
<1> QED BY <1>3, <1>4, <1>5

\* Its state after n digits, as HexBytes defines it.
LEMMA HexCourse ==
    ASSUME NEW d \in Seq(Nibble), NEW max \in Nat
    PROVE  LET after[n \in 0 .. Len(d)] ==
                   IF n = 0 THEN [out |-> <<>>, high |-> -1]
                   ELSE HexStep(after[n - 1], d[n], max)
           IN  After(d, Len(d), max, after[Len(d)])
<1> DEFINE N == Len(d)
           base == [out |-> <<>>, high |-> -1]
           step == [n \in 1 .. N |-> [st \in HexStates |-> HexStep(st, d[n], max)]]
           Eq(f) == f = [n \in 0 .. Len(d) |->
                            IF n = 0 THEN [out |-> <<>>, high |-> -1]
                            ELSE HexStep(f[n - 1], d[n], max)]
           after == CHOOSE f : Eq(f)
<1>1. N \in Nat /\ base \in HexStates /\ base.out = <<>> /\ base.high = -1
  BY DEF HexStates
<1>2. ASSUME NEW st \in HexStates, NEW c \in Nibble
      PROVE  HexStep(st, c, max) \in HexStates
  <2>1. /\ st.out \in Seq(Bytes) /\ st.high \in -1 .. 15 /\ DOMAIN st = {"out", "high"}
        /\ c \in -1 .. 15
    BY DEF HexStates, Nibble
  <2>2. CASE st.high = -1
    <3>1. HexStep(st, c, max) = [st EXCEPT !.high = c]
      BY <2>2, Zenon DEF HexStep
    <3> QED BY <2>1, <3>1 DEF HexStates
  <2>3. CASE st.high # -1 /\ Len(st.out) < max
    <3>1. HexStep(st, c, max) = [out |-> Append(st.out, 16 * st.high + c), high |-> -1]
      BY <2>3, Zenon DEF HexStep
    <3>2. st.high \in Nibble
      BY <2>1, <2>3 DEF Nibble
    <3>3. 16 * st.high + c \in Bytes
      BY <3>2, PairIsByte
    <3>4. \A b \in Bytes : Append(st.out, b) \in Seq(Bytes)
      BY <2>1
    <3>5. Append(st.out, 16 * st.high + c) \in Seq(Bytes)
      BY <3>3, <3>4, Zenon
    <3> QED BY <3>1, <3>5 DEF HexStates
  <2>4. CASE st.high # -1 /\ ~(Len(st.out) < max)
    <3>1. HexStep(st, c, max) = st
      BY <2>4, Zenon DEF HexStep
    <3> QED BY <3>1
  <2> QED BY <2>2, <2>3, <2>4
<1>3. \E f : Eq(f)
  <2>1. \A n \in 1 .. N : d[n] \in Nibble /\ n - 1 \in 0 .. N
    OBVIOUS
  <2>2. step \in Steps(N, HexStates)
    BY <1>2, <2>1 DEF Steps
  <2>3. \A n \in 1 .. N : \A st \in HexStates : step[n][st] = HexStep(st, d[n], max)
    OBVIOUS
  <2> HIDE DEF step
  <2>4. PICK f \in Courses(N, HexStates, base, step) : TRUE
    <3> HIDE DEF base, N
    <3> QED BY <1>1, <2>2, CourseExists
  <2>5. /\ f \in [0 .. N -> HexStates] /\ f[0] = base
        /\ \A n \in 1 .. N : f[n] = step[n][f[n - 1]]
    BY <2>4 DEF Courses
  <2>6. \A n \in 1 .. N : f[n] = HexStep(f[n - 1], d[n], max)
    BY <2>1, <2>3, <2>5
  <2>7. Eq(f)
    BY <2>5, <2>6
  <2> QED BY <2>7
<1>4. Eq(after)
  BY <1>3, Zenon
<1> HIDE DEF step, after, base
<1>5. after[0] = base /\ \A n \in 1 .. N : after[n] = HexStep(after[n - 1], d[n], max)
  BY <1>4 DEF base
<1> DEFINE Ts == {n \in 0 .. N : After(d, n, max, after[n])}
<1>6. 0 \in Ts
  BY <1>1, <1>5 DEF After
<1>7. \A n \in 1 .. N : n - 1 \in Ts => n \in Ts
  BY <1>5, HexStepAfter
<1> HIDE DEF Ts
<1>8. \A n \in 0 .. N : n \in Ts
  BY <1>1, <1>6, <1>7, Induction
<1>9. After(d, N, max, after[N])
  BY <1>1, <1>8 DEF Ts
<1> QED BY <1>9 DEF after

\* The bytes that d stands for, over a buffer of max zeros.
Pair(d, n) ==
    IF 2 * n <= Len(d) THEN 16 * d[2 * n - 1] + d[2 * n]
    ELSE IF 2 * n - 1 <= Len(d) THEN d[2 * n - 1] ELSE 0

\* parse_hex_bytes fills no more than its buffer, and what it leaves is past the digits.
LEMMA HexBytesPairs ==
    ASSUME NEW s, Digits(s) \in Seq(Nibble), NEW max \in Nat
    PROVE  LET bytes == HexBytes(s, max)
               d == Digits(s)
           IN  /\ bytes \in Seq(Bytes) /\ Len(bytes) <= max
               /\ \A i \in 1 .. Len(bytes) : bytes[i] = Pair(d, i)
               /\ \A i \in Len(bytes) + 1 .. max : Pair(d, i) = 0
<1> DEFINE d == Digits(s)
           after[n \in 0 .. Len(d)] ==
               IF n = 0 THEN [out |-> <<>>, high |-> -1]
               ELSE HexStep(after[n - 1], d[n], max)
           end == after[Len(d)]
           o == Len(end.out)
           bytes == HexBytes(s, max)
<1>1. After(d, Len(d), max, end)
  <2> HIDE DEF d
  <2> QED BY HexCourse DEF d
<1>2. bytes = IF end.high # -1 /\ o < max THEN Append(end.out, end.high) ELSE end.out
  BY DEF HexBytes
<1> HIDE DEF end, after, bytes, d
<1>3. /\ d \in Seq(Nibble) /\ Len(d) \in Nat /\ end \in HexStates
      /\ end.out \in Seq(Bytes) /\ o \in Nat /\ o <= max /\ end.high \in -1 .. 15
  BY <1>1 DEF After, HexStates, d
<1>4. \A i \in 1 .. o : end.out[i] = 16 * d[2 * i - 1] + d[2 * i]
  BY <1>1 DEF After
<1>5. Len(d) >= 2 * o
  BY <1>1, <1>3 DEF After
<1>6. \A i \in 1 .. o : end.out[i] = Pair(d, i)
  BY <1>3, <1>4, <1>5 DEF Pair
<1>7. CASE end.high = -1
  <2>1. Len(d) = 2 * o /\ bytes = end.out
    BY <1>1, <1>2, <1>7 DEF After
  <2>2. \A i \in o + 1 .. max : Pair(d, i) = 0
    BY <1>3, <2>1 DEF Pair
  <2> QED BY <1>3, <1>6, <2>1, <2>2 DEF d, bytes
<1>8. CASE end.high # -1 /\ o < max
  <2>1. Len(d) = 2 * o + 1 /\ end.high = d[Len(d)] /\ bytes = Append(end.out, end.high)
    BY <1>1, <1>2, <1>8 DEF After
  <2>2. Pair(d, o + 1) = end.high
    BY <1>3, <2>1 DEF Pair
  <2>3. end.high \in Bytes
    BY <1>3, <1>8 DEF Bytes
  <2>4. /\ bytes \in Seq(Bytes) /\ Len(bytes) = o + 1 /\ bytes[o + 1] = end.high
        /\ \A i \in 1 .. o : bytes[i] = end.out[i]
    BY <1>3, <2>1, <2>3
  <2>5. \A i \in 1 .. o + 1 : i \in 1 .. o \/ i = o + 1
    BY <1>3
  <2>6. \A i \in 1 .. o + 1 : bytes[i] = Pair(d, i)
    BY <1>6, <2>2, <2>4, <2>5
  <2>7. \A i \in o + 2 .. max : Pair(d, i) = 0
    BY <1>3, <2>1 DEF Pair
  <2>8. o + 1 <= max
    BY <1>3, <1>8
  <2> QED BY <1>3, <2>4, <2>6, <2>7, <2>8 DEF d, bytes
<1>9. CASE end.high # -1 /\ ~(o < max)
  <2>1. bytes = end.out /\ o = max
    BY <1>2, <1>3, <1>9
  <2> QED BY <1>3, <1>6, <2>1 DEF d, bytes
<1> QED BY <1>3, <1>7, <1>8, <1>9

(***************************************************************************)
(* What is clocked out.                                                    *)
(***************************************************************************)

\* The string that counts: none for a read.
Written(t) == IF t.op = "read" \/ t.tx = Absent THEN <<>> ELSE Digits(t.tx)

\* A string parse_spi_params keeps is of hexadecimal digits.
LEMMA WrittenDigits ==
    ASSUME Types, NEW m \in DOMAIN list
    PROVE  Written(Parsed(list[m])) \in Seq(Nibble)
<1> DEFINE item == list[m]
           tx == item.tx
<1>1. tx = Absent \/ tx \in Seq(0 .. Junk)
  <2> DEFINE Item == [op : Ops, len : Int \cup {Absent}, tx : Seq(0 .. Junk) \cup {Absent},
                      rx_len : Int \cup {Absent}]
  <2>1. list \in Seq(Item)
    BY DEF Types, Ops
  <2>2. list[m] \in Item
    <3> HIDE DEF Item
    <3> QED BY <2>1
  <2> QED BY <2>2
<1>2. Parsed(item).tx = IF tx # Absent /\ IsHex(Digits(tx)) THEN tx ELSE Absent
  BY DEF Parsed
<1> HIDE DEF tx
<1>3. ASSUME tx \in Seq(0 .. Junk), IsHex(Digits(tx))
      PROVE  Digits(tx) \in Seq(Nibble)
  <2>1. Digits(tx) \in Seq(0 .. Junk)
    <3>1. Len(tx) \in Nat
      BY <1>3
    <3>2. ASSUME Len(tx) >= 2
          PROVE  SubSeq(tx, 3, Len(tx)) \in Seq(0 .. Junk)
      <4>1. \A i \in 3 .. Len(tx) : i \in 1 .. Len(tx)
        BY <3>1
      <4>2. \A i \in 1 .. Len(tx) : tx[i] \in 0 .. Junk
        <5>1. \A S : \A q \in Seq(S) : \A i \in 1 .. Len(q) : q[i] \in S
          OBVIOUS
        <5> QED BY <1>3, <5>1, Zenon
      <4> HIDE DEF Junk
      <4> QED BY <3>1, <4>1, <4>2, SubSeqProperties
    <3> QED BY <1>3, <3>2 DEF Digits, Prefixed
  <2>2. \A n \in DOMAIN Digits(tx) : Digits(tx)[n] \in Nibble
    BY <1>3 DEF IsHex
  <2> HIDE DEF Digits
  <2> QED BY <2>1, <2>2
<1>4. <<>> \in Seq(Nibble)
  OBVIOUS
<1> QED BY <1>1, <1>2, <1>3, <1>4 DEF Written

\* tx_buf has the digits of the string in pairs, and then zeros.
LEMMA BufferPairs ==
    ASSUME Types, NEW m \in DOMAIN list
    PROVE  LET t == Parsed(list[m])
           IN  /\ TxBuffer(t) = [n \in 1 .. t.len |-> Pair(Written(t), n)]
               /\ TxBuffer(t) \in Seq(Bytes) /\ Len(TxBuffer(t)) = t.len
<1> DEFINE t == Parsed(list[m])
           d == Written(t)
           bytes == IF t.op # "read" /\ t.tx # Absent THEN HexBytes(t.tx, t.len) ELSE <<>>
           rest == Zeros(t.len - Len(bytes))
<1>1. t.len \in Nat /\ d \in Seq(Nibble)
  BY ParsedTypes, WrittenDigits
<1>2. /\ bytes \in Seq(Bytes) /\ Len(bytes) <= t.len
      /\ \A i \in 1 .. Len(bytes) : bytes[i] = Pair(d, i)
      /\ \A i \in Len(bytes) + 1 .. t.len : Pair(d, i) = 0
  <2>1. CASE t.op # "read" /\ t.tx # Absent
    <3>1. bytes = HexBytes(t.tx, t.len) /\ d = Digits(t.tx)
      BY <2>1 DEF Written
    <3> HIDE DEF t, bytes, d
    <3> QED BY <1>1, <3>1, HexBytesPairs
  <2>2. CASE ~(t.op # "read" /\ t.tx # Absent)
    <3>1. bytes = <<>> /\ d = <<>>
      BY <2>2 DEF Written
    <3>2. \A i \in 1 .. t.len : Pair(<<>>, i) = 0
      BY <1>1 DEF Pair
    <3> HIDE DEF t, bytes, d
    <3> QED BY <1>1, <3>1, <3>2
  <2> QED BY <2>1, <2>2
<1>3. TxBuffer(t) = bytes \o rest
  BY DEF TxBuffer
<1> HIDE DEF t, bytes, d
<1>4. /\ rest \in Seq(Bytes) /\ Len(rest) = t.len - Len(bytes)
      /\ \A i \in 1 .. t.len - Len(bytes) : rest[i] = 0
  <2>1. t.len - Len(bytes) \in Nat
    BY <1>1, <1>2
  <2>2. \A n \in Nat : Zeros(n) \in Seq(Bytes) /\ Len(Zeros(n)) = n
                      /\ \A i \in 1 .. n : Zeros(n)[i] = 0
    BY DEF Zeros, Bytes
  <2> QED BY <2>1, <2>2
<1> HIDE DEF rest
<1>5. bytes \o rest \in Seq(Bytes) /\ Len(bytes \o rest) = t.len
  <2>1. bytes \o rest \in Seq(Bytes) /\ Len(bytes \o rest) = Len(bytes) + Len(rest)
    BY <1>2, <1>4
  <2>2. Len(bytes) \in Nat
    BY <1>2
  <2> QED BY <1>1, <1>4, <2>1, <2>2
<1>6. ASSUME NEW n \in 1 .. t.len
      PROVE  (bytes \o rest)[n] = Pair(d, n)
  <2>1. CASE n \in 1 .. Len(bytes)
    <3>1. (bytes \o rest)[n] = bytes[n]
      BY <1>2, <1>4, <2>1
    <3> QED BY <1>2, <2>1, <3>1
  <2>2. CASE n \in Len(bytes) + 1 .. t.len
    <3> DEFINE i == n - Len(bytes)
    <3>1. i \in 1 .. t.len - Len(bytes) /\ n \in 1 .. Len(bytes) + Len(rest)
      BY <1>1, <1>2, <1>4, <2>2
    <3>2. ~(n <= Len(bytes))
      BY <1>2, <2>2
    <3>3. (bytes \o rest)[n] = IF n <= Len(bytes) THEN bytes[n] ELSE rest[n - Len(bytes)]
      BY <1>2, <1>4, <3>1, ConcatProperties
    <3>4. (bytes \o rest)[n] = rest[i] /\ rest[i] = 0
      BY <1>4, <3>1, <3>2, <3>3
    <3>5. Pair(d, n) = 0
      BY <1>2, <2>2
    <3> QED BY <3>4, <3>5
  <2>3. Len(bytes) \in Nat
    BY <1>2
  <2>4. n \in 1 .. Len(bytes) \/ n \in Len(bytes) + 1 .. t.len
    BY <1>1, <2>3
  <2> QED BY <2>1, <2>2, <2>4, Zenon
<1>7. bytes \o rest = [n \in 1 .. t.len |-> Pair(d, n)]
  <2> DEFINE buf == bytes \o rest
  <2>1. buf \in Seq(Bytes) /\ Len(buf) = t.len /\ \A n \in 1 .. t.len : buf[n] = Pair(d, n)
    BY <1>5, <1>6
  <2> HIDE DEF buf
  <2>2. buf = [n \in 1 .. t.len |-> Pair(d, n)]
    BY <2>1
  <2> QED BY <2>2 DEF buf
<1> QED BY <1>3, <1>5, <1>7 DEF t, d

\* The buffers the driver is given, and what comes back.
WireInv ==
    /\ pc # "start" => sent = TxBuffer(T)
    /\ sent \in Seq(Bytes) /\ Len(sent) <= MaxLen
    /\ Len(message) <= 2 /\ Len(received) <= MaxLen

\* What a transaction receives, or is about to, is as long as it asked for.
LEMMA ReceivedLength ==
    ASSUME Types, NEW m \in DOMAIN list
    PROVE  Len(Zeros(RxLen(Parsed(list[m])))) <= MaxLen /\ Len(Expected(m)) <= MaxLen
<1> DEFINE n == RxLen(Parsed(list[m]))
<1>1. n \in 0 .. MaxLen
  BY ParsedTypes
<1>2. Len(Zeros(n)) = n /\ Len(Expected(m)) = n
  BY <1>1 DEF Zeros, Expected
<1> QED BY <1>1, <1>2

\* Compose is the only step that changes the message.
LEMMA MessageLength ==
    ASSUME NEW t
    PROVE  Len(Message(t)) <= 2
<1>1. \A a, b : Len(<<a>>) <= 2 /\ Len(<<a, b>>) <= 2
  OBVIOUS
<1> QED BY <1>1, Zenon DEF Message

\* Steps in the middle of a transaction keep it and what it sends.
LEMMA WireStep == IInv /\ WireInv /\ [Next]_vars => WireInv'
<1> SUFFICES ASSUME IInv, WireInv, [Next]_vars PROVE WireInv'
  OBVIOUS
<1>1. Types /\ (pc # "start" => k \in DOMAIN list) /\ T = Parsed(list[k])
  BY DEF IInv, Types, T
<1>2. CASE AllocTx
  <2>1. k \in DOMAIN list /\ T' = T /\ sent' = TxBuffer(T) /\ UNCHANGED <<message, received>>
    BY <1>1, <1>2 DEF AllocTx, T, wireVars, Types
  <2>2. sent' \in Seq(Bytes) /\ Len(sent') = T.len /\ T.len \in 1 .. MaxLen
    BY <1>1, <1>2, <2>1, BufferPairs DEF AllocTx
  <2>3. TxBuffer(T)' = TxBuffer(T)
    BY <2>1 DEF TxBuffer
  <2> QED BY <2>1, <2>2, <2>3 DEF WireInv
<1>3. CASE AllocTxFails
  BY <1>3 DEF AllocTxFails, EndWith, WireInv, wireVars
<1>4. CASE AllocRx
  <2>1. pc = "rx" /\ k \in DOMAIN list /\ UNCHANGED <<sent, message, list>>
    BY <1>1, <1>4 DEF AllocRx
  <2>2. /\ received' = received \/ received' = Zeros(RxLen(T))
        /\ pc' = "start" \/ k' = k
    BY <1>4 DEF AllocRx, EndWith
  <2>3. Len(received') <= MaxLen
    BY <1>1, <2>1, <2>2, ReceivedLength DEF WireInv
  <2>4. k' = k => TxBuffer(T)' = TxBuffer(T)
    BY <2>1 DEF T, TxBuffer
  <2> QED BY <2>1, <2>2, <2>3, <2>4 DEF WireInv
<1>5. CASE Compose
  <2>1. pc = "compose" /\ UNCHANGED <<sent, received, list, k>>
    BY <1>5 DEF Compose
  <2>2. message' = Message(T) \/ message' = message
    BY <1>5 DEF Compose
  <2>3. Len(message') <= 2
    BY <2>2, MessageLength DEF WireInv
  <2>4. TxBuffer(T)' = TxBuffer(T)
    BY <2>1 DEF T, TxBuffer
  <2> QED BY <2>1, <2>3, <2>4 DEF WireInv
<1>6. CASE Transfer
  <2>1. pc = "ioctl" /\ k \in DOMAIN list /\ UNCHANGED <<sent, message, list, k>>
    BY <1>1, <1>6 DEF Transfer
  <2>2. received' = received \/ (RxLen(T) > 0 /\ received' = WhatRx(message))
    BY <1>6 DEF Transfer
  <2>3. message = Message(T)
    BY <2>1 DEF IInv, Buffers
  <2>4. received' = received \/ received' = Expected(k)
    BY <1>1, <2>1, <2>2, <2>3, ReadsAnswer
  <2>5. Len(received') <= MaxLen
    BY <1>1, <2>1, <2>4, ReceivedLength DEF WireInv
  <2>6. TxBuffer(T)' = TxBuffer(T)
    BY <2>1 DEF T, TxBuffer
  <2> QED BY <2>1, <2>5, <2>6 DEF WireInv
<1>7. CASE Duplicate \/ Send \/ Free \/ UNCHANGED vars
  <2>1. /\ UNCHANGED <<sent, message, received, list>>
        /\ pc' = "start" \/ (k' = k /\ pc # "start")
    BY <1>7 DEF Duplicate, Send, Free, vars, wireVars
  <2>2. k' = k => TxBuffer(T)' = TxBuffer(T)
    BY <2>1 DEF T, TxBuffer
  <2> QED BY <2>1, <2>2 DEF WireInv
<1> QED BY <1>2, <1>3, <1>4, <1>5, <1>6, <1>7 DEF Next

\* From its first buffer to the last free, a transaction's bytes are in tx_buf, and no
\* message or answer is longer than its buffer can be.
THEOREM WireInvariance == Spec => []WireInv
<1>1. Init => WireInv
  BY DEF Init, WireInv
<1> QED BY <1>1, WireStep, Invariance, PTL DEF Spec

\* For any string of the configuration and any length: the driver is given its digits
\* in pairs, a digit left over by itself, cut off or filled with zeros.
THEOREM BytesAsWritten == Spec => []SendsWhatIsWritten
<1>1. ASSUME IInv, WireInv, pc # "start"
      PROVE  LET d == IF T.op = "read" \/ T.tx = Absent THEN <<>> ELSE Digits(T.tx)
                 byte(n) == IF 2 * n <= Len(d) THEN 16 * d[2 * n - 1] + d[2 * n]
                            ELSE IF 2 * n - 1 <= Len(d) THEN d[2 * n - 1] ELSE 0
             IN  sent = [n \in 1 .. T.len |-> byte(n)]
  <2>1. Types /\ k \in DOMAIN list /\ T = Parsed(list[k])
    BY <1>1 DEF IInv, Types, T
  <2>2. sent = [n \in 1 .. T.len |-> Pair(Written(T), n)]
    BY <1>1, <2>1, BufferPairs DEF WireInv
  <2> QED BY <2>2 DEF Pair, Written
<1>2. IInv /\ WireInv => SendsWhatIsWritten
  BY <1>1 DEF SendsWhatIsWritten
<1> QED BY <1>2, Invariance, WireInvariance, PTL

\* Bytes are bytes, and lengths stay within those of the buffers they are for.
THEOREM TypeCorrect == Spec => []TypeOK
<1>1. ASSUME IInv, WireInv
      PROVE  TypeOK
  <2>1. heap \subseteq {"tx", "rx", "dummy", "dup"}
    BY <1>1 DEF IInv, Types, Buffers, RxHeap
  <2> QED BY <1>1, <2>1 DEF IInv, Types, WireInv, TypeOK, Bytes, Outcomes
<1> QED BY <1>1, Invariance, WireInvariance, PTL
=============================================================================
