--------------------------- MODULE UartStreamProof ----------------------------
(***************************************************************************)
(* What holds of uart_read_packet for all packet parameters, sizes of the  *)
(* buffer and lines: nothing is stored beyond out_buf, and a call returns  *)
(* the first frame of what it has read, or has let none go by; then, of    *)
(* many calls on a sender's line, that only torn frames are lost.          *)
(*                                                                         *)
(* The definitions of UartPacket are repeated position by position, for    *)
(* any parameters pk and any line t.                                       *)
(***************************************************************************)
EXTENDS UartStream, Recursion, SequenceTheorems, TLAPS

Formats == [start : Seq(Byte), end : Seq(Byte), length : Nat, hexOk : BOOLEAN]

(***************************************************************************)
(* Sequences that end in others.                                           *)
(***************************************************************************)

\* The first n elements of s end in pat.
EndsAt(pat, s, n) ==
    /\ Len(pat) <= n
    /\ \A i \in 1 .. Len(pat) : s[n - Len(pat) + i] = pat[i]

\* IsSuffix, position by position.
LEMMA SuffixIsEnd ==
    ASSUME NEW S, NEW pat \in Seq(S), NEW s \in Seq(S)
    PROVE  IsSuffix(pat, s) <=> EndsAt(pat, s, Len(s))
<1> DEFINE rp == Reverse(pat)
           rs == Reverse(s)
<1>1. Len(pat) \in Nat /\ Len(s) \in Nat
  OBVIOUS
<1>2. /\ rp \in Seq(S) /\ Len(rp) = Len(pat)
      /\ \A i \in 1 .. Len(pat) : rp[i] = pat[Len(pat) - i + 1]
  <2>1. \A i \in 1 .. Len(pat) : pat[Len(pat) - i + 1] \in S
    BY <1>1
  <2>2. rp \in [1 .. Len(pat) -> S]
    BY <2>1 DEF Reverse
  <2> QED BY <1>1, <2>2 DEF Reverse
<1>3. /\ rs \in Seq(S) /\ Len(rs) = Len(s)
      /\ \A i \in 1 .. Len(s) : rs[i] = s[Len(s) - i + 1]
  <2>1. \A i \in 1 .. Len(s) : s[Len(s) - i + 1] \in S
    BY <1>1
  <2>2. rs \in [1 .. Len(s) -> S]
    BY <2>1 DEF Reverse
  <2> QED BY <1>1, <2>2 DEF Reverse
<1>4. IsSuffix(pat, s) <=> Len(rp) <= Len(rs) /\ SubSeq(rp, 1, Len(rp)) = SubSeq(rs, 1, Len(rp))
  BY DEF IsSuffix, IsPrefix
<1> HIDE DEF rp, rs
<1>5. ASSUME Len(pat) <= Len(s)
      PROVE  SubSeq(rp, 1, Len(rp)) = SubSeq(rs, 1, Len(rp)) <=>
                 \A i \in 1 .. Len(pat) : rp[i] = rs[i]
  <2>1. SubSeq(rp, 1, Len(rp)) = rp
    BY <1>2
  <2>2. /\ SubSeq(rs, 1, Len(rp)) \in Seq(S) /\ Len(SubSeq(rs, 1, Len(rp))) = Len(pat)
        /\ \A i \in 1 .. Len(pat) : SubSeq(rs, 1, Len(rp))[i] = rs[i]
    BY <1>1, <1>2, <1>3, <1>5
  <2> QED BY <1>2, <2>1, <2>2, SeqEqual
<1>6. ASSUME Len(pat) <= Len(s)
      PROVE  (\A i \in 1 .. Len(pat) : rp[i] = rs[i]) <=>
                 \A i \in 1 .. Len(pat) : s[Len(s) - Len(pat) + i] = pat[i]
  <2>1. ASSUME \A i \in 1 .. Len(pat) : rp[i] = rs[i], NEW i \in 1 .. Len(pat)
        PROVE  s[Len(s) - Len(pat) + i] = pat[i]
    <3> DEFINE j == Len(pat) - i + 1
    <3>1. /\ j \in 1 .. Len(pat) /\ j \in 1 .. Len(s) /\ Len(pat) - j + 1 = i
          /\ Len(s) - j + 1 = Len(s) - Len(pat) + i
      BY <1>1, <1>6
    <3> QED BY <1>2, <1>3, <2>1, <3>1
  <2>2. ASSUME \A i \in 1 .. Len(pat) : s[Len(s) - Len(pat) + i] = pat[i],
               NEW i \in 1 .. Len(pat)
        PROVE  rp[i] = rs[i]
    <3> DEFINE j == Len(pat) - i + 1
    <3>1. /\ j \in 1 .. Len(pat) /\ i \in 1 .. Len(s)
          /\ Len(s) - i + 1 = Len(s) - Len(pat) + j
      BY <1>1, <1>6
    <3> QED BY <1>2, <1>3, <2>2, <3>1
  <2> QED BY <2>1, <2>2
<1> QED BY <1>1, <1>2, <1>3, <1>4, <1>5, <1>6 DEF EndsAt

\* What the beginning of a sequence ends in.
LEMMA PrefixEnds ==
    ASSUME NEW S, NEW pat \in Seq(S), NEW s \in Seq(S), NEW n \in 0 .. Len(s)
    PROVE  /\ SubSeq(s, 1, n) \in Seq(S) /\ Len(SubSeq(s, 1, n)) = n
           /\ \A i \in 1 .. n : SubSeq(s, 1, n)[i] = s[i]
           /\ IsSuffix(pat, SubSeq(s, 1, n)) <=> EndsAt(pat, s, n)
<1>1. /\ SubSeq(s, 1, n) \in Seq(S) /\ Len(SubSeq(s, 1, n)) = n
      /\ \A i \in 1 .. n : SubSeq(s, 1, n)[i] = s[i]
  OBVIOUS
<1>2. IsSuffix(pat, SubSeq(s, 1, n)) <=> EndsAt(pat, SubSeq(s, 1, n), n)
  BY <1>1, SuffixIsEnd
<1>3. EndsAt(pat, SubSeq(s, 1, n), n) <=> EndsAt(pat, s, n)
  <2>1. Len(pat) \in Nat /\ n \in Nat
    OBVIOUS
  <2>2. Len(pat) <= n => \A i \in 1 .. Len(pat) : n - Len(pat) + i \in 1 .. n
    BY <2>1
  <2> QED BY <1>1, <2>1, <2>2 DEF EndsAt
<1> QED BY <1>1, <1>2, <1>3

\* The first place where pat has been seen.
LEMMA FirstIs ==
    ASSUME NEW S, NEW pat \in Seq(S), NEW s \in Seq(S), NEW n \in 0 .. Len(s),
           EndsAt(pat, s, n), \A m \in 0 .. n - 1 : ~EndsAt(pat, s, m)
    PROVE  FirstMatch(pat, s) = n
<1> DEFINE seen == {m \in 0 .. Len(s) : IsSuffix(pat, SubSeq(s, 1, m))}
<1>1. \A m \in 0 .. Len(s) : m \in seen <=> EndsAt(pat, s, m)
  BY PrefixEnds
<1>2. n \in seen /\ seen \subseteq 0 .. Len(s)
  BY <1>1
<1>3. \A m \in seen : n <= m
  BY <1>1
<1>4. FirstMatch(pat, s) = IF seen = {} THEN -1
                           ELSE CHOOSE l \in seen : \A m \in seen : l <= m
  BY DEF FirstMatch
<1> HIDE DEF seen
<1>5. \A l \in seen : (\A m \in seen : l <= m) => l = n
  BY <1>2, <1>3
<1> QED BY <1>2, <1>3, <1>4, <1>5

\* It has not been seen.
LEMMA FirstNone ==
    ASSUME NEW S, NEW pat \in Seq(S), NEW s \in Seq(S),
           \A m \in 0 .. Len(s) : ~EndsAt(pat, s, m)
    PROVE  FirstMatch(pat, s) = -1
<1> DEFINE seen == {m \in 0 .. Len(s) : IsSuffix(pat, SubSeq(s, 1, m))}
<1>1. seen = {}
  BY PrefixEnds
<1>2. FirstMatch(pat, s) = IF seen = {} THEN -1
                           ELSE CHOOSE l \in seen : \A m \in seen : l <= m
  BY DEF FirstMatch
<1> QED BY <1>1, <1>2

(***************************************************************************)
(* Frames.                                                                 *)
(***************************************************************************)

\* The start sequence has been seen for the first time at d.
Begins(pk, t, d) ==
    /\ d \in 0 .. Len(t) /\ EndsAt(pk.start, t, d)
    /\ \A m \in 0 .. d - 1 : ~EndsAt(pk.start, t, m)

\* b is what comes last in t.
Follows(t, b) ==
    /\ Len(b) <= Len(t)
    /\ \A i \in 1 .. Len(b) : b[i] = t[Len(t) - Len(b) + i]

\* IsFrame, Cap and the body of NoFrameMissed for parameters pk and a line t.
FrameIn(pk, s, p) ==
    LET n == FirstMatch(pk.start, s)
        rest == SubSeq(s, n + 1, Len(s))
    IN  /\ n >= 0
        /\ IF pk.end # <<>>
           THEN FirstMatch(pk.end, rest) = Len(rest) /\ rest = p \o pk.end
           ELSE Len(rest) = pk.length /\ p = rest

Room(pk) == IF pk.length > 0 /\ pk.length < OutSize THEN pk.length ELSE OutSize

Unmissed(pk, t) ==
    \A k \in 0 .. Len(t), j \in 0 .. Len(t) :
        LET s == SubSeq(t, 1, k)
            p == SubSeq(s, j + 1, Len(s) - Len(pk.end))
        IN  pk.hexOk /\ (pk.end # <<>> \/ pk.length > 0) /\ FrameIn(pk, s, p)
                => Len(p) + Len(pk.end) > Room(pk)

\* Where the start of a frame is in a part of the line.
LEMMA StartInPart ==
    ASSUME NEW pk \in Formats, NEW t \in Seq(Byte), NEW d, Begins(pk, t, d),
           NEW k \in 0 .. Len(t)
    PROVE  FirstMatch(pk.start, SubSeq(t, 1, k)) = IF d <= k THEN d ELSE -1
<1> DEFINE s == SubSeq(t, 1, k)
<1>1. /\ pk.start \in Seq(Byte) /\ s \in Seq(Byte) /\ Len(s) = k
      /\ \A i \in 1 .. k : s[i] = t[i]
      /\ Len(pk.start) \in Nat /\ d \in Nat /\ k \in Nat
  BY DEF Formats, Begins
<1> HIDE DEF s
<1>2. \A m \in 0 .. k : EndsAt(pk.start, s, m) <=> EndsAt(pk.start, t, m)
  <2>1. ASSUME NEW m \in 0 .. k, Len(pk.start) <= m, NEW i \in 1 .. Len(pk.start)
        PROVE  s[m - Len(pk.start) + i] = t[m - Len(pk.start) + i]
    <3>1. m - Len(pk.start) + i \in 1 .. k
      BY <1>1, <2>1
    <3> QED BY <1>1, <3>1
  <2> QED BY <2>1 DEF EndsAt
<1>3. CASE d <= k
  <2>1. d \in 0 .. Len(s) /\ EndsAt(pk.start, s, d)
    BY <1>1, <1>2, <1>3 DEF Begins
  <2>2. \A m \in 0 .. d - 1 : ~EndsAt(pk.start, s, m)
    BY <1>1, <1>2, <1>3 DEF Begins
  <2>3. FirstMatch(pk.start, s) = d
    BY <1>1, <2>1, <2>2, FirstIs
  <2> QED BY <1>3, <2>3 DEF s
<1>4. CASE ~(d <= k)
  <2>1. \A m \in 0 .. Len(s) : ~EndsAt(pk.start, s, m)
    BY <1>1, <1>2, <1>4 DEF Begins
  <2>2. FirstMatch(pk.start, s) = -1
    BY <1>1, <2>1, FirstNone
  <2> QED BY <1>4, <2>2 DEF s
<1> QED BY <1>3, <1>4

\* Without a start there is no frame.
LEMMA NoStartNoFrame ==
    ASSUME NEW pk \in Formats, NEW t \in Seq(Byte),
           \A m \in 0 .. Len(t) : ~EndsAt(pk.start, t, m)
    PROVE  Unmissed(pk, t)
<1>1. pk.start \in Seq(Byte) /\ Len(pk.start) \in Nat
  BY DEF Formats
<1>2. ASSUME NEW k \in 0 .. Len(t)
      PROVE  FirstMatch(pk.start, SubSeq(t, 1, k)) = -1
  <2> DEFINE s == SubSeq(t, 1, k)
  <2>1. /\ s \in Seq(Byte) /\ Len(s) = k /\ k \in Nat
        /\ \A i \in 1 .. k : s[i] = t[i]
    OBVIOUS
  <2> HIDE DEF s
  <2>2. \A m \in 0 .. k : EndsAt(pk.start, s, m) => EndsAt(pk.start, t, m)
    <3>1. ASSUME NEW m \in 0 .. k, Len(pk.start) <= m, NEW i \in 1 .. Len(pk.start)
          PROVE  s[m - Len(pk.start) + i] = t[m - Len(pk.start) + i]
      <4>1. m - Len(pk.start) + i \in 1 .. k
        BY <1>1, <2>1, <3>1
      <4> QED BY <2>1, <4>1
    <3> QED BY <3>1 DEF EndsAt
  <2>3. \A m \in 0 .. Len(s) : ~EndsAt(pk.start, s, m)
    BY <2>1, <2>2
  <2>4. FirstMatch(pk.start, s) = -1
    BY <1>1, <2>1, <2>3, FirstNone
  <2> QED BY <2>4 DEF s
<1>3. \A k \in 0 .. Len(t) : \A p : ~FrameIn(pk, SubSeq(t, 1, k), p)
  BY <1>2 DEF FrameIn
<1> QED BY <1>3 DEF Unmissed

\* After the start of a frame, b is the last of the line and does not hold the rest of
\* it, as far as there is room.
LEMMA NoneComplete ==
    ASSUME NEW pk \in Formats, NEW t \in Seq(Byte), NEW b \in Seq(Byte),
           Follows(t, b), Begins(pk, t, Len(t) - Len(b)),
           pk.end = <<>> => Len(b) < pk.length,
           pk.end # <<>> =>
               \A m \in 0 .. Len(b) : m <= Room(pk) => ~EndsAt(pk.end, b, m)
    PROVE  Unmissed(pk, t)
<1> DEFINE d == Len(t) - Len(b)
<1>1. /\ pk.start \in Seq(Byte) /\ pk.end \in Seq(Byte) /\ pk.length \in Nat
      /\ Len(pk.end) \in Nat /\ Len(t) \in Nat /\ Len(b) \in Nat /\ d \in 0 .. Len(t)
      /\ Room(pk) \in Nat
  BY PacketAssumption DEF Formats, Begins, Room
<1>2. SUFFICES ASSUME NEW k \in 0 .. Len(t), NEW j \in 0 .. Len(t), NEW s, NEW p,
                      s = SubSeq(t, 1, k), p = SubSeq(s, j + 1, Len(s) - Len(pk.end)),
                      FrameIn(pk, s, p)
               PROVE  Len(p) + Len(pk.end) > Room(pk)
  BY DEF Unmissed
<1>3. /\ s \in Seq(Byte) /\ Len(s) = k /\ k \in Nat
      /\ \A i \in 1 .. k : s[i] = t[i]
  BY <1>2
<1>4. d <= k /\ FirstMatch(pk.start, s) = d
  BY <1>1, <1>2, StartInPart DEF FrameIn
<1> DEFINE rest == SubSeq(s, d + 1, Len(s))
<1>5. /\ rest \in Seq(Byte) /\ Len(rest) = k - d /\ k - d \in 0 .. Len(b)
      /\ \A i \in 1 .. k - d : rest[i] = b[i]
  <2>1. rest \in Seq(Byte) /\ Len(rest) = k - d /\ k - d \in 0 .. Len(b)
    <3>1. \A i \in d + 1 .. k : s[i] \in Byte
      BY <1>1, <1>3
    <3>2. rest \in Seq(Byte) /\ Len(rest) = k - d
      <4>1. rest = SubSeq(s, d + 1, k) /\ d + 1 \in Int /\ k \in Int /\ d + 1 <= k + 1
        BY <1>1, <1>3, <1>4
      <4>2. k - (d + 1) + 1 = k - d
        BY <1>1, <1>3
      <4> HIDE DEF rest, d
      <4> QED BY <3>1, <4>1, <4>2, SubSeqProperties
    <3>3. k - d \in 0 .. Len(b)
      BY <1>1, <1>4
    <3> QED BY <3>2, <3>3
  <2>2. \A i \in 1 .. k - d : rest[i] = s[d + i]
    BY <1>1, <1>3, <1>4
  <2>3. ASSUME NEW i \in 1 .. k - d
        PROVE  rest[i] = b[i]
    <3>1. i \in 1 .. Len(b) /\ d + i \in 1 .. k
      BY <1>1, <1>3, <1>4, <2>1
    <3>2. b[i] = t[d + i]
      BY <3>1 DEF Follows
    <3> QED BY <1>3, <2>2, <3>1, <3>2
  <2> QED BY <2>1, <2>3
<1>6. IF pk.end # <<>> THEN rest = p \o pk.end ELSE Len(rest) = pk.length /\ p = rest
  BY <1>2, <1>4 DEF FrameIn
<1>7. p \in Seq(Byte) /\ Len(p) \in Nat
  <2>1. j + 1 \in Nat /\ Len(s) - Len(pk.end) \in Int /\ Len(s) - Len(pk.end) <= Len(s)
    BY <1>1, <1>3
  <2>2. \A i \in j + 1 .. Len(s) - Len(pk.end) : s[i] \in Byte
    BY <1>1, <1>3, <2>1
  <2>3. p \in Seq(Byte)
    BY <1>2, <2>1, <2>2, SubSeqProperties
  <2> QED BY <2>3
<1> HIDE DEF rest, d
<1>8. CASE pk.end = <<>>
  BY <1>1, <1>5, <1>6, <1>8
<1>9. CASE pk.end # <<>>
  <2>1. /\ rest = p \o pk.end /\ Len(p) + Len(pk.end) = k - d
        /\ \A i \in 1 .. Len(pk.end) : rest[Len(p) + i] = pk.end[i]
    <3>1. rest = p \o pk.end
      BY <1>6, <1>9
    <3>2. /\ Len(p \o pk.end) = Len(p) + Len(pk.end)
          /\ \A i \in 1 .. Len(p) + Len(pk.end) : (p \o pk.end)[i] =
                 IF i <= Len(p) THEN p[i] ELSE pk.end[i - Len(p)]
      BY <1>1, <1>7, ConcatProperties
    <3>3. ASSUME NEW i \in 1 .. Len(pk.end)
          PROVE  (p \o pk.end)[Len(p) + i] = pk.end[i]
      <4>1. /\ Len(p) + i \in 1 .. Len(p) + Len(pk.end) /\ ~(Len(p) + i <= Len(p))
            /\ Len(p) + i - Len(p) = i
        BY <1>1, <1>7
      <4> QED BY <3>2, <4>1
    <3> QED BY <1>5, <3>1, <3>2, <3>3
  <2>2. EndsAt(pk.end, b, k - d)
    <3>1. Len(pk.end) <= k - d /\ k - d - Len(pk.end) = Len(p)
      BY <1>1, <1>5, <1>7, <2>1
    <3>2. ASSUME NEW i \in 1 .. Len(pk.end)
          PROVE  b[k - d - Len(pk.end) + i] = pk.end[i]
      <4>1. Len(p) \in Nat /\ Len(pk.end) \in Nat
        BY <1>1, <1>7
      <4>2. Len(p) + i \in 1 .. Len(p) + Len(pk.end)
        BY <4>1
      <4>3. Len(p) + i \in 1 .. k - d /\ k - d - Len(pk.end) + i = Len(p) + i
        BY <2>1, <3>1, <4>2
      <4> QED BY <1>5, <2>1, <4>3
    <3> QED BY <3>1, <3>2 DEF EndsAt
  <2>3. ~(k - d <= Room(pk))
    BY <1>5, <1>9, <2>2
  <2>4. k - d \in Int
    BY <1>5
  <2> QED BY <1>1, <2>1, <2>3, <2>4
<1> QED BY <1>8, <1>9

\* After the start of a frame, b holds the rest of it and no more.
LEMMA CompleteFrame ==
    ASSUME NEW pk \in Formats, NEW t \in Seq(Byte), NEW b \in Seq(Byte), NEW p,
           Follows(t, b), Begins(pk, t, Len(t) - Len(b)),
           \/ pk.end = <<>> /\ Len(b) = pk.length /\ p = b
           \/ /\ pk.end # <<>> /\ EndsAt(pk.end, b, Len(b))
              /\ \A m \in 0 .. Len(b) - 1 : ~EndsAt(pk.end, b, m)
              /\ p = SubSeq(b, 1, Len(b) - Len(pk.end))
    PROVE  FrameIn(pk, t, p)
<1> DEFINE d == Len(t) - Len(b)
           rest == SubSeq(t, d + 1, Len(t))
<1>1. /\ pk.start \in Seq(Byte) /\ pk.end \in Seq(Byte) /\ pk.length \in Nat
      /\ Len(pk.end) \in Nat /\ Len(t) \in Nat /\ Len(b) \in Nat /\ d \in 0 .. Len(t)
  BY DEF Formats, Begins
<1>2. FirstMatch(pk.start, t) = d
  <2>1. SubSeq(t, 1, Len(t)) = t
    OBVIOUS
  <2>2. FirstMatch(pk.start, SubSeq(t, 1, Len(t))) = d
    BY <1>1, StartInPart
  <2> QED BY <2>1, <2>2
<1>3. rest = b
  <2>1. rest \in Seq(Byte) /\ Len(rest) = Len(b)
    BY <1>1
  <2>2. \A i \in 1 .. Len(b) : rest[i] = t[d + i]
    BY <1>1
  <2>3. \A i \in 1 .. Len(b) : rest[i] = b[i]
    BY <2>2 DEF Follows
  <2> QED BY <2>1, <2>3, SeqEqual
<1>6. FrameIn(pk, t, p) <=>
          IF pk.end # <<>> THEN FirstMatch(pk.end, b) = Len(b) /\ b = p \o pk.end
                           ELSE Len(b) = pk.length /\ p = b
  <2>1. d >= 0
    BY <1>1
  <2> HIDE DEF d
  <2>2. rest = SubSeq(t, d + 1, Len(t))
    OBVIOUS
  <2> HIDE DEF rest
  <2> QED BY <1>2, <1>3, <2>1, <2>2 DEF FrameIn
<1>4. CASE pk.end = <<>> /\ Len(b) = pk.length /\ p = b
  BY <1>4, <1>6
<1>5. CASE /\ pk.end # <<>> /\ EndsAt(pk.end, b, Len(b))
           /\ \A m \in 0 .. Len(b) - 1 : ~EndsAt(pk.end, b, m)
           /\ p = SubSeq(b, 1, Len(b) - Len(pk.end))
  <2>1. FirstMatch(pk.end, b) = Len(b)
    <3>1. Len(b) \in 0 .. Len(b)
      BY <1>1
    <3> QED BY <1>1, <1>5, <3>1, FirstIs
  <2>2. b = p \o pk.end
    <3>1. Len(pk.end) <= Len(b) /\ Len(b) - Len(pk.end) \in 0 .. Len(b)
      BY <1>1, <1>5 DEF EndsAt
    <3>2. /\ p \in Seq(Byte) /\ Len(p) = Len(b) - Len(pk.end)
          /\ \A i \in 1 .. Len(p) : p[i] = b[i]
      <4> DEFINE e == Len(b) - Len(pk.end)
      <4>1. e \in 0 .. Len(b) /\ p = SubSeq(b, 1, e)
        BY <1>5, <3>1
      <4> HIDE DEF e
      <4>2. p \in Seq(Byte) /\ Len(p) = e /\ \A i \in 1 .. e : p[i] = b[i]
        BY <4>1, PrefixEnds
      <4> QED BY <4>2 DEF e
    <3>3. /\ p \o pk.end \in Seq(Byte) /\ Len(p \o pk.end) = Len(b)
          /\ \A i \in 1 .. Len(b) : (p \o pk.end)[i] =
                 IF i <= Len(p) THEN p[i] ELSE pk.end[i - Len(p)]
      <4>1. Len(p) + Len(pk.end) = Len(b)
        BY <1>1, <3>2
      <4> QED BY <1>1, <3>2, <4>1, ConcatProperties
    <3>4. ASSUME NEW i \in 1 .. Len(b)
          PROVE  b[i] = (p \o pk.end)[i]
      <4>1. CASE i <= Len(p)
        BY <1>1, <3>2, <3>3, <4>1
      <4>2. CASE ~(i <= Len(p))
        <5>1. /\ i - Len(p) \in 1 .. Len(pk.end)
              /\ Len(b) - Len(pk.end) + (i - Len(p)) = i
          <6>1. /\ Len(b) \in Nat /\ Len(pk.end) \in Nat /\ Len(p) \in Nat
                /\ Len(p) = Len(b) - Len(pk.end)
            BY <1>1, <3>2
          <6>2. i \in 1 .. Len(b)
            OBVIOUS
          <6>3. i - Len(p) \in 1 .. Len(pk.end)
            BY <4>2, <6>1, <6>2
          <6>4. Len(b) - Len(pk.end) + (i - Len(p)) = i
            <7>1. \A z \in Nat : \A h \in 1 .. Len(b) : z + (h - z) = h
              BY <6>1
            <7> QED BY <6>1, <6>2, <7>1, Zenon
          <6> QED BY <6>3, <6>4
        <5>2. b[i] = pk.end[i - Len(p)]
          BY <1>5, <5>1 DEF EndsAt
        <5> QED BY <3>3, <4>2, <5>2
      <4> QED BY <4>1, <4>2
    <3> QED BY <3>3, <3>4, SeqEqual
  <2> QED BY <1>5, <1>6, <2>1, <2>2
<1> QED BY <1>4, <1>5

(***************************************************************************)
(* The call and what it has read.                                          *)
(***************************************************************************)

\* The window is the end of what has been read, which no start sequence has shown in.
Seeking ==
    pc = "seek" =>
        /\ UseStart /\ Follows(taken, buf) /\ Len(buf) <= Len(packet.start)
        /\ Len(buf) = Len(taken) \/ Len(buf) = Len(packet.start)
        /\ \A m \in 0 .. Len(taken) : ~EndsAt(packet.start, taken, m)

\* The buffer is what has been read since the first start sequence, and no frame.
Collecting ==
    /\ pc \in {"length", "delimiter"} =>
          Follows(taken, buf) /\ Begins(packet, taken, Len(taken) - Len(buf))
    /\ pc = "length" => ~UseEnd /\ Len(buf) < packet.length /\ packet.length <= OutSize
    /\ pc = "delimiter" =>
          /\ UseEnd /\ Len(buf) <= Room(packet)
          /\ \A m \in 0 .. Len(buf) : ~EndsAt(packet.end, buf, m)

\* A call has parameters that make sense, and what it has returned is right.
Calling == pc # "idle" => packet.hexOk /\ (UseEnd \/ UseLength)
Returned ==
    pc = "idle" => IF result = "frame" THEN FrameIn(packet, taken, payload)
                                       ELSE Unmissed(packet, taken)

IInv == TypeOK /\ Seeking /\ Collecting /\ Calling /\ Returned

\* The parameters, and what is derived from them.
LEMMA PacketTypes ==
    ASSUME TypeOK
    PROVE  /\ packet \in Formats /\ packet.start \in Seq(Byte) /\ packet.end \in Seq(Byte)
           /\ packet.length \in Nat /\ Len(packet.start) \in Nat /\ Len(packet.end) \in Nat
           /\ Len(packet.start) <= OutSize /\ OutSize \in Nat /\ MaxTaken \in Nat
           /\ Cap = Room(packet) /\ Room(packet) \in Nat /\ Room(packet) <= OutSize
<1>1. packet \in Formats /\ Len(packet.start) <= OutSize /\ OutSize \in Nat /\ MaxTaken \in Nat
  BY PacketAssumption DEF TypeOK, Formats
<1>2. /\ packet.start \in Seq(Byte) /\ packet.end \in Seq(Byte) /\ packet.length \in Nat
      /\ Len(packet.start) \in Nat /\ Len(packet.end) \in Nat
  BY <1>1 DEF Formats
<1> QED BY <1>1, <1>2 DEF Cap, Room, UseLength

\* match_tail compares the last bytes.
LEMMA MatchTailEnds ==
    ASSUME NEW b \in Seq(Byte), NEW pat \in Seq(Byte)
    PROVE  MatchTail(b, pat) <=> pat # <<>> /\ EndsAt(pat, b, Len(b))
BY SuffixIsEnd DEF MatchTail

\* An empty sequence shows no end sequence.
LEMMA EmptyEnds ==
    ASSUME NEW pat \in Seq(Byte), pat # <<>>, NEW m \in 0 .. Len(<<>>)
    PROVE  ~EndsAt(pat, <<>>, m)
BY DEF EndsAt

\* What has been read of a line stays as it was.
LEMMA EndsKept ==
    ASSUME NEW pat \in Seq(Byte), NEW t \in Seq(Byte), NEW x \in Seq(Byte),
           NEW m \in 0 .. Len(t)
    PROVE  EndsAt(pat, t \o x, m) <=> EndsAt(pat, t, m)
<1>1. /\ Len(pat) \in Nat /\ Len(t) \in Nat /\ m \in Nat /\ m <= Len(t)
      /\ \A i \in 1 .. Len(t) : (t \o x)[i] = t[i]
  OBVIOUS
<1>2. ASSUME Len(pat) <= m, NEW i \in 1 .. Len(pat)
      PROVE  (t \o x)[m - Len(pat) + i] = t[m - Len(pat) + i]
  <2>1. m - Len(pat) + i \in 1 .. Len(t)
    BY <1>1, <1>2
  <2> QED BY <1>1, <2>1
<1> QED BY <1>2 DEF EndsAt

\* A window that is full, or holds all there is, matches when the line does.
LEMMA WindowMatches ==
    ASSUME NEW pat \in Seq(Byte), NEW t \in Seq(Byte), NEW w \in Seq(Byte),
           Follows(t, w), Len(w) <= Len(pat), Len(w) = Len(t) \/ Len(w) = Len(pat)
    PROVE  EndsAt(pat, w, Len(w)) <=> EndsAt(pat, t, Len(t))
<1>1. Len(pat) \in Nat /\ Len(t) \in Nat /\ Len(w) \in Nat
  OBVIOUS
<1>2. CASE Len(w) < Len(pat)
  BY <1>1, <1>2 DEF EndsAt
<1>3. CASE Len(w) = Len(pat)
  <2>1. \A i \in 1 .. Len(pat) : w[i] = t[Len(t) - Len(pat) + i]
    BY <1>3 DEF Follows
  <2>2. \A i \in 1 .. Len(pat) : Len(w) - Len(pat) + i = i
    BY <1>1, <1>3
  <2>3. Len(pat) <= Len(w) /\ Len(pat) <= Len(t)
    BY <1>1, <1>3 DEF Follows
  <2> QED BY <2>1, <2>2, <2>3 DEF EndsAt
<1> QED BY <1>1, <1>2, <1>3

\* What comes last stays last when the same is read and stored.
LEMMA FollowsMore ==
    ASSUME NEW t \in Seq(Byte), NEW w \in Seq(Byte), NEW x \in Seq(Byte), Follows(t, w)
    PROVE  /\ Follows(t \o x, w \o x) /\ t \o x \in Seq(Byte) /\ w \o x \in Seq(Byte)
           /\ Len(w \o x) = Len(w) + Len(x) /\ Len(t \o x) = Len(t) + Len(x)
<1>1. /\ Len(t) \in Nat /\ Len(w) \in Nat /\ Len(x) \in Nat /\ Len(w) <= Len(t)
      /\ t \o x \in Seq(Byte) /\ w \o x \in Seq(Byte)
      /\ Len(w \o x) = Len(w) + Len(x) /\ Len(t \o x) = Len(t) + Len(x)
  BY ConcatProperties DEF Follows
<1>2. Len(t \o x) - Len(w \o x) = Len(t) - Len(w)
  BY <1>1
<1>3. ASSUME NEW i \in 1 .. Len(w \o x)
      PROVE  (w \o x)[i] = (t \o x)[Len(t) - Len(w) + i]
  <2>1. CASE i <= Len(w)
    <3>1. i \in 1 .. Len(w) /\ Len(t) - Len(w) + i \in 1 .. Len(t)
      BY <1>1, <2>1
    <3>2. w[i] = t[Len(t) - Len(w) + i]
      BY <3>1 DEF Follows
    <3> QED BY <1>1, <3>1, <3>2
  <2>2. CASE i > Len(w)
    <3>1. /\ i \in Len(w) + 1 .. Len(w) + Len(x)
          /\ Len(t) - Len(w) + i \in Len(t) + 1 .. Len(t) + Len(x)
          /\ Len(t) - Len(w) + i - Len(t) = i - Len(w)
      BY <1>1, <2>2
    <3>2. (w \o x)[i] = x[i - Len(w)]
      BY <1>1, <3>1, ConcatProperties
    <3>3. (t \o x)[Len(t) - Len(w) + i] = x[Len(t) - Len(w) + i - Len(t)]
      BY <1>1, <3>1, ConcatProperties
    <3> QED BY <3>1, <3>2, <3>3
  <2> QED BY <1>1, <2>1, <2>2
<1> QED BY <1>1, <1>2, <1>3 DEF Follows

\* When a byte is.
LEMMA FollowsByte ==
    ASSUME NEW t \in Seq(Byte), NEW w \in Seq(Byte), NEW b \in Byte, Follows(t, w)
    PROVE  /\ Follows(t \o <<b>>, w \o <<b>>)
           /\ t \o <<b>> \in Seq(Byte) /\ w \o <<b>> \in Seq(Byte)
           /\ Len(w \o <<b>>) = Len(w) + 1 /\ Len(t \o <<b>>) = Len(t) + 1
<1>1. PICK one : one = <<b>>
  OBVIOUS
<1>2. one \in Seq(Byte) /\ Len(one) = 1
  BY <1>1
<1>3. /\ Follows(t \o one, w \o one) /\ t \o one \in Seq(Byte) /\ w \o one \in Seq(Byte)
      /\ Len(w \o one) = Len(w) + Len(one) /\ Len(t \o one) = Len(t) + Len(one)
  BY <1>2, FollowsMore
<1>4. Len(w \o one) = Len(w) + 1 /\ Len(t \o one) = Len(t) + 1
  BY <1>2, <1>3, Zenon
<1> QED BY <1>1, <1>3, <1>4, Zenon

\* And when its first byte is forgotten.
LEMMA FollowsLess ==
    ASSUME NEW t \in Seq(Byte), NEW w \in Seq(Byte), Follows(t, w), w # <<>>
    PROVE  Follows(t, Tail(w)) /\ Tail(w) \in Seq(Byte) /\ Len(Tail(w)) = Len(w) - 1
<1>1. /\ Tail(w) \in Seq(Byte) /\ Len(Tail(w)) = Len(w) - 1
      /\ \A i \in 1 .. Len(w) - 1 : Tail(w)[i] = w[i + 1]
      /\ Len(t) \in Nat /\ Len(w) \in Nat /\ Len(w) > 0
  OBVIOUS
<1>2. ASSUME NEW i \in 1 .. Len(w) - 1
      PROVE  Tail(w)[i] = t[Len(t) - (Len(w) - 1) + i]
  <2>1. i + 1 \in 1 .. Len(w) /\ Len(t) - (Len(w) - 1) + i = Len(t) - Len(w) + (i + 1)
    BY <1>1
  <2>2. w[i + 1] = t[Len(t) - Len(w) + (i + 1)]
    BY <2>1 DEF Follows
  <2> QED BY <1>1, <2>1, <2>2
<1> QED BY <1>1, <1>2 DEF Follows

(***************************************************************************)
(* The steps of a call.                                                    *)
(***************************************************************************)

\* The payload begins where the start sequence ends, or the call returns at once.
LEMMA PayloadBegins ==
    ASSUME IInv, packet' = packet, packet.hexOk, UseEnd \/ UseLength,
           taken' \in Seq(Byte), Len(taken') <= MaxTaken,
           Begins(packet, taken', Len(taken')), NEW w, EnterPayload(w)
    PROVE  IInv'
<1> USE DEF IInv
<1>1. /\ packet' \in Formats /\ packet' \in Packets /\ packet.end \in Seq(Byte)
      /\ packet.length \in Nat /\ OutSize \in Nat /\ Cap = Room(packet) /\ Room(packet) \in Nat
  BY PacketTypes DEF TypeOK
<1>2. /\ Follows(taken', <<>>) /\ <<>> \in Seq(Byte) /\ Len(<<>>) = 0
      /\ Len(taken') \in Nat /\ Len(taken') - Len(<<>>) = Len(taken')
  BY DEF Follows
<1>3. UseEnd => \A m \in 0 .. Len(<<>>) : ~EndsAt(packet.end, <<>>, m)
  BY <1>1, EmptyEnds DEF UseEnd
<1>4. CASE Return("ERR_ARG", <<>>)
  <2>1. packet.end = <<>> => Len(<<>>) < packet.length
    BY <1>1, <1>2 DEF UseEnd, UseLength
  <2>2. Unmissed(packet, taken')
    BY <1>1, <1>2, <1>3, <2>1, NoneComplete DEF UseEnd
  <2>3. TypeOK'
    BY <1>1, <1>2, <1>4 DEF Return, TypeOK, Results
  <2> QED BY <1>4, <2>2, <2>3 DEF Return, Seeking, Collecting, Calling, Returned
<1>5. CASE /\ UseLength /\ ~UseEnd /\ packet.length <= OutSize
           /\ pc' = "length" /\ buf' = <<>> /\ UNCHANGED <<result, payload>>
  <2>1. TypeOK'
    BY <1>1, <1>2, <1>5 DEF TypeOK
  <2>2. Collecting'
    BY <1>1, <1>2, <1>5 DEF Collecting, UseLength, UseEnd
  <2> QED BY <1>5, <2>1, <2>2 DEF Seeking, Calling, Returned, UseLength, UseEnd
<1>6. CASE /\ ~(UseLength /\ ~UseEnd)
           /\ pc' = "delimiter" /\ buf' = <<>> /\ UNCHANGED <<result, payload>>
  <2>1. UseEnd
    BY <1>6
  <2>2. TypeOK'
    BY <1>1, <1>2, <1>6 DEF TypeOK
  <2>3. Collecting'
    BY <1>1, <1>2, <1>3, <1>6, <2>1 DEF Collecting, UseEnd
  <2> QED BY <1>6, <2>1, <2>2, <2>3 DEF Seeking, Calling, Returned, UseLength, UseEnd
<1> QED BY <1>1, <1>4, <1>5, <1>6 DEF EnterPayload

\* Delimiters that make no sense, or too few of them.
LEMMA BadConfigPreserves == ASSUME IInv, BadConfig PROVE IInv'
<1> USE DEF IInv
<1>1. /\ packet' = packet /\ taken' = <<>> /\ buf' = <<>> /\ payload' = <<>>
      /\ pc' = "idle" /\ result' = "ERR_PACKET_CFG"
      /\ ~(packet.hexOk /\ (UseEnd \/ UseLength))
  BY DEF BadConfig, Return
<1>2. TypeOK'
  BY <1>1, PacketTypes DEF TypeOK, Results
<1>3. Unmissed(packet', taken')
  BY <1>1 DEF Unmissed, UseEnd, UseLength
<1> QED BY <1>1, <1>2, <1>3 DEF Seeking, Collecting, Calling, Returned

\* A call begins.
LEMMA CallPreserves == ASSUME IInv, Call PROVE IInv'
<1> USE DEF IInv
<1>1. /\ packet' = packet /\ taken' = <<>> /\ packet.hexOk /\ (UseEnd \/ UseLength)
      /\ taken' \in Seq(Byte) /\ Len(taken') = 0 /\ Len(taken') <= MaxTaken
  BY PacketTypes DEF Call
<1>2. CASE UseStart
  <2>1. pc' = "seek" /\ buf' = <<>> /\ UNCHANGED <<result, payload>>
    BY <1>2 DEF Call
  <2>2. TypeOK'
    BY <1>1, <2>1, PacketTypes DEF TypeOK
  <2>3. \A m \in 0 .. Len(<<>>) : ~EndsAt(packet.start, <<>>, m)
    BY <1>2, PacketTypes, EmptyEnds DEF UseStart
  <2>4. Follows(<<>>, <<>>)
    BY DEF Follows
  <2>5. Seeking'
    BY <1>1, <1>2, <2>1, <2>3, <2>4, PacketTypes DEF Seeking, UseStart
  <2> QED BY <1>1, <2>1, <2>2, <2>5 DEF Collecting, Calling, Returned, UseEnd, UseLength
<1>3. CASE ~UseStart
  <2>1. EnterPayload(<<>>)
    BY <1>3 DEF Call
  <2>2. Begins(packet, taken', Len(taken'))
    <3>1. packet.start = <<>>
      BY <1>3 DEF UseStart
    <3>2. EndsAt(<<>>, <<>>, 0)
      BY DEF EndsAt
    <3> QED BY <1>1, <3>1, <3>2 DEF Begins
  <2> QED BY <1>1, <2>1, <2>2, PayloadBegins
<1> QED BY <1>2, <1>3

\* A byte goes into the window.
LEMMA SeekPreserves == ASSUME IInv, NEW b \in Byte, Seek(b) PROVE IInv'
<1> USE DEF IInv
<1> DEFINE window == IF Len(buf) < Len(packet.start) THEN Append(buf, b)
                                                     ELSE Append(Tail(buf), b)
<1>1. /\ pc = "seek" /\ packet' = packet /\ taken' = taken \o <<b>> /\ Len(taken') <= MaxTaken
      /\ IF MatchTail(window, packet.start)
         THEN EnterPayload(window)
         ELSE buf' = window /\ UNCHANGED <<pc, result, payload>>
  <2>1. Len(taken) + Len(<<b>>) <= MaxTaken /\ taken' = taken \o <<b>>
    BY DEF Seek, Take
  <2>2. Len(taken') = Len(taken) + Len(<<b>>)
    BY <2>1 DEF TypeOK
  <2> QED BY <2>1, <2>2 DEF Seek
<1>2. /\ packet.start \in Seq(Byte) /\ taken \in Seq(Byte) /\ buf \in Seq(Byte)
      /\ <<b>> \in Seq(Byte) /\ Len(<<b>>) = 1
      /\ Len(packet.start) \in Nat /\ Len(taken) \in Nat /\ Len(buf) \in Nat
      /\ Len(packet.start) > 0 /\ packet.start # <<>>
  BY <1>1, PacketTypes DEF TypeOK, Seeking, UseStart
<1>3. /\ Follows(taken, buf) /\ Len(buf) <= Len(packet.start)
      /\ Len(buf) = Len(taken) \/ Len(buf) = Len(packet.start)
      /\ \A m \in 0 .. Len(taken) : ~EndsAt(packet.start, taken, m)
  BY <1>1 DEF Seeking
<1>4. /\ window \in Seq(Byte) /\ Follows(taken', window) /\ Len(window) <= Len(packet.start)
      /\ Len(window) = Len(taken') \/ Len(window) = Len(packet.start)
  <2>1. CASE Len(buf) < Len(packet.start)
    <3>1. window = buf \o <<b>>
      BY <1>2, <2>1, AppendIsConcat
    <3>2. /\ Follows(taken', buf \o <<b>>) /\ buf \o <<b>> \in Seq(Byte)
          /\ Len(buf \o <<b>>) = Len(buf) + 1 /\ Len(taken') = Len(taken) + 1
      BY <1>1, <1>2, <1>3, FollowsByte
    <3> HIDE DEF window
    <3> QED BY <1>2, <1>3, <2>1, <3>1, <3>2
  <2>2. CASE ~(Len(buf) < Len(packet.start))
    <3>1. buf # <<>> /\ Len(buf) = Len(packet.start)
      BY <1>2, <1>3, <2>2
    <3>2. Follows(taken, Tail(buf)) /\ Tail(buf) \in Seq(Byte) /\ Len(Tail(buf)) = Len(buf) - 1
      BY <1>2, <1>3, <3>1, FollowsLess
    <3>3. window = Tail(buf) \o <<b>>
      BY <2>2, <3>2, AppendIsConcat
    <3>4. /\ Follows(taken', Tail(buf) \o <<b>>) /\ Tail(buf) \o <<b>> \in Seq(Byte)
          /\ Len(Tail(buf) \o <<b>>) = Len(Tail(buf)) + 1
      BY <1>1, <1>2, <3>2, FollowsByte
    <3>5. Len(Tail(buf) \o <<b>>) = Len(packet.start)
      BY <1>2, <3>1, <3>2, <3>4
    <3> HIDE DEF window
    <3> QED BY <1>2, <3>3, <3>4, <3>5
  <2> QED BY <2>1, <2>2
<1> HIDE DEF window
<1>5. taken' \in Seq(Byte) /\ Len(taken') = Len(taken) + 1
  BY <1>1, <1>2
<1>6. MatchTail(window, packet.start) <=> EndsAt(packet.start, taken', Len(taken'))
  BY <1>2, <1>4, <1>5, MatchTailEnds, WindowMatches
<1>7. \A m \in 0 .. Len(taken) : ~EndsAt(packet.start, taken', m)
  BY <1>1, <1>2, <1>3, EndsKept
<1>8. CASE MatchTail(window, packet.start)
  <2>1. \A m \in 0 .. Len(taken') - 1 : m \in 0 .. Len(taken)
    BY <1>2, <1>5
  <2>2. Begins(packet, taken', Len(taken'))
    BY <1>2, <1>5, <1>6, <1>7, <1>8, <2>1 DEF Begins
  <2>3. packet.hexOk /\ (UseEnd \/ UseLength)
    BY <1>1 DEF Calling
  <2> QED BY <1>1, <1>5, <1>8, <2>2, <2>3, PayloadBegins
<1>9. CASE ~MatchTail(window, packet.start)
  <2>1. buf' = window /\ UNCHANGED <<packet, pc, result, payload>> /\ pc' = "seek"
    BY <1>1, <1>9
  <2>2. Len(window) <= OutSize
    BY <1>2, <1>4, PacketTypes
  <2>3. TypeOK'
    BY <1>1, <1>4, <1>5, <2>1, <2>2 DEF TypeOK
  <2>4. \A m \in 0 .. Len(taken') : m \in 0 .. Len(taken) \/ m = Len(taken')
    BY <1>2, <1>5
  <2>5. \A m \in 0 .. Len(taken') : ~EndsAt(packet.start, taken', m)
    BY <1>6, <1>7, <1>9, <2>4
  <2>6. Seeking'
    BY <1>1, <1>4, <2>1, <2>5 DEF Seeking, UseStart
  <2> QED BY <1>1, <2>1, <2>3, <2>6 DEF Collecting, Calling, Returned, UseEnd, UseLength
<1> QED BY <1>8, <1>9

\* More is read of a frame, and stored behind the rest of it.
LEMMA MoreCollected ==
    ASSUME IInv, pc \in {"length", "delimiter"}, NEW x \in Seq(Byte), packet' = packet,
           taken' = taken \o x
    PROVE  /\ taken' \in Seq(Byte) /\ buf \o x \in Seq(Byte)
           /\ Len(taken') = Len(taken) + Len(x) /\ Len(buf \o x) = Len(buf) + Len(x)
           /\ Follows(taken', buf \o x)
           /\ Begins(packet, taken', Len(taken') - Len(buf \o x))
<1> DEFINE d == Len(taken) - Len(buf)
<1>1. /\ Follows(taken, buf) /\ Begins(packet, taken, d)
      /\ packet.start \in Seq(Byte) /\ taken \in Seq(Byte) /\ buf \in Seq(Byte)
  BY PacketTypes DEF IInv, Collecting, TypeOK
<1>2. /\ Follows(taken \o x, buf \o x) /\ taken \o x \in Seq(Byte) /\ buf \o x \in Seq(Byte)
      /\ Len(buf \o x) = Len(buf) + Len(x) /\ Len(taken \o x) = Len(taken) + Len(x)
  BY <1>1, FollowsMore
<1>3. Len(taken) \in Nat /\ Len(buf) \in Nat /\ Len(x) \in Nat
  BY <1>1
<1>4. Len(taken \o x) - Len(buf \o x) = d
  <2>1. \A i, j, k \in Nat : (i + k) - (j + k) = i - j
    OBVIOUS
  <2>2. (Len(taken) + Len(x)) - (Len(buf) + Len(x)) = Len(taken) - Len(buf)
    BY <1>3, <2>1, Zenon
  <2> QED BY <1>2, <2>2, Zenon
<1> HIDE DEF d
<1>5. Begins(packet, taken \o x, d)
  <2>1. d \in 0 .. Len(taken) /\ d \in 0 .. Len(taken \o x)
    BY <1>1, <1>2, <1>3 DEF Begins
  <2>2. \A m \in 0 .. Len(taken) :
            EndsAt(packet.start, taken \o x, m) <=> EndsAt(packet.start, taken, m)
    BY <1>1, EndsKept
  <2>3. \A m \in 0 .. d - 1 : m \in 0 .. Len(taken)
    BY <1>3, <2>1
  <2> QED BY <1>1, <2>1, <2>2, <2>3 DEF Begins
<1> QED BY <1>2, <1>4, <1>5, Zenon

\* A part of a payload of fixed length, or the rest of it.
LEMMA ReadLengthPreserves ==
    ASSUME IInv, NEW bs \in Seq(Byte), ReadLength(bs)
    PROVE  IInv'
<1> USE DEF IInv
<1>1. /\ pc = "length" /\ packet' = packet /\ taken' = taken \o bs
      /\ Len(bs) \in 1 .. packet.length - Len(buf) /\ Len(taken) + Len(bs) <= MaxTaken
      /\ IF Len(buf) + Len(bs) = packet.length
         THEN Return("frame", buf \o bs)
         ELSE buf' = buf \o bs /\ UNCHANGED <<pc, result, payload>>
  BY DEF ReadLength, Take
<1>2. /\ taken' \in Seq(Byte) /\ buf \o bs \in Seq(Byte)
      /\ Len(taken') = Len(taken) + Len(bs) /\ Len(buf \o bs) = Len(buf) + Len(bs)
      /\ Follows(taken', buf \o bs)
      /\ Begins(packet, taken', Len(taken') - Len(buf \o bs))
  BY <1>1, MoreCollected
<1>3. /\ packet.end = <<>> /\ packet.length <= OutSize /\ packet \in Formats
      /\ packet.length \in Nat /\ OutSize \in Nat /\ Len(buf) \in Nat /\ Len(bs) \in Nat
  <2>1. packet.end = <<>> /\ packet.length <= OutSize
    BY <1>1 DEF Collecting, UseEnd
  <2>2. packet \in Formats /\ packet.length \in Nat /\ OutSize \in Nat
    BY PacketTypes
  <2>3. buf \in Seq(Byte)
    BY DEF TypeOK
  <2>4. Len(buf) \in Nat /\ Len(bs) \in Nat
    BY <2>3
  <2> QED BY <2>1, <2>2, <2>4
<1>4. Len(taken') <= MaxTaken /\ Len(buf \o bs) <= packet.length
  BY <1>1, <1>2, <1>3
<1>5. CASE Len(buf) + Len(bs) = packet.length
  <2>1. /\ pc' = "idle" /\ result' = "frame" /\ payload' = buf \o bs /\ buf' = <<>>
    BY <1>1, <1>5 DEF Return
  <2>2. FrameIn(packet, taken', buf \o bs)
    BY <1>2, <1>3, <1>5, CompleteFrame
  <2>3. Len(payload') <= OutSize
    BY <1>2, <1>3, <1>5, <2>1
  <2>4. TypeOK'
    BY <1>1, <1>2, <1>3, <1>4, <2>1, <2>3 DEF TypeOK, Results
  <2> QED BY <1>1, <2>1, <2>2, <2>4 DEF Seeking, Collecting, Calling, Returned
<1>6. CASE Len(buf) + Len(bs) # packet.length
  <2>1. buf' = buf \o bs /\ pc' = "length" /\ UNCHANGED <<result, payload>>
    BY <1>1, <1>6
  <2>2. Len(buf') < packet.length /\ Len(buf') <= OutSize
    <3>1. Len(buf') = Len(buf) + Len(bs) /\ Len(buf') <= packet.length
      BY <1>2, <1>4, <2>1, Zenon
    <3>2. Len(buf') # packet.length
      BY <1>6, <3>1, Zenon
    <3>3. Len(buf') \in Nat
      BY <1>3, <3>1
    <3> QED BY <1>3, <3>1, <3>2, <3>3
  <2>3. TypeOK'
    BY <1>1, <1>2, <1>4, <2>1, <2>2 DEF TypeOK
  <2>4. Collecting'
    BY <1>1, <1>2, <1>3, <2>1, <2>2 DEF Collecting, UseEnd
  <2> QED BY <1>1, <2>1, <2>3, <2>4 DEF Seeking, Calling, Returned, UseEnd, UseLength
<1> QED BY <1>5, <1>6

\* A byte of a payload that ends with the end sequence.
LEMMA ReadDelimiterPreserves ==
    ASSUME IInv, NEW b \in Byte, ReadDelimiter(b)
    PROVE  IInv'
<1> USE DEF IInv
<1>0. PICK one : one = <<b>>
  OBVIOUS
<1>1. one \in Seq(Byte) /\ Len(one) = 1
  BY <1>0
<1> DEFINE more == buf \o one
<1>2. /\ pc = "delimiter" /\ packet' = packet /\ taken' = taken \o one
      /\ Len(taken) + 1 <= MaxTaken /\ buf \in Seq(Byte) /\ Append(buf, b) = more
  BY <1>0, <1>1, AppendIsConcat DEF ReadDelimiter, Take, TypeOK
<1>3. /\ taken' \in Seq(Byte) /\ more \in Seq(Byte)
      /\ Len(taken') = Len(taken) + 1 /\ Len(more) = Len(buf) + 1
      /\ Follows(taken', more) /\ Begins(packet, taken', Len(taken') - Len(more))
  <2>1. /\ taken' \in Seq(Byte) /\ more \in Seq(Byte)
        /\ Len(taken') = Len(taken) + Len(one) /\ Len(more) = Len(buf) + Len(one)
        /\ Follows(taken', more) /\ Begins(packet, taken', Len(taken') - Len(more))
    BY <1>1, <1>2, MoreCollected
  <2> HIDE DEF more
  <2> QED BY <1>1, <2>1, Zenon
<1>4. /\ packet.end # <<>> /\ Len(buf) <= Room(packet) /\ packet \in Formats
      /\ packet.end \in Seq(Byte) /\ Len(buf) \in Nat /\ Len(taken) \in Nat
      /\ Cap = Room(packet) /\ Room(packet) \in Nat /\ Room(packet) <= OutSize
      /\ OutSize \in Nat /\ MaxTaken \in Nat
      /\ \A m \in 0 .. Len(buf) : ~EndsAt(packet.end, buf, m)
  BY <1>2, PacketTypes DEF Collecting, UseEnd, TypeOK
<1>5. \A m \in 0 .. Len(buf) : ~EndsAt(packet.end, more, m)
  BY <1>1, <1>2, <1>4, EndsKept
<1>6. MatchTail(more, packet.end) <=> EndsAt(packet.end, more, Len(more))
  BY <1>3, <1>4, MatchTailEnds
<1>7. Len(taken') <= MaxTaken
  BY <1>2, <1>3
<1>8. CASE Len(buf) >= Cap /\ Return("ERR_ARG", <<>>)
  <2>1. \A m \in 0 .. Len(more) : m <= Room(packet) => m \in 0 .. Len(buf)
    BY <1>3, <1>4, <1>8
  <2>2. Unmissed(packet, taken')
    <3>1. packet.end = <<>> => Len(more) < packet.length
      BY <1>4
    <3>2. \A m \in 0 .. Len(more) : m <= Room(packet) => ~EndsAt(packet.end, more, m)
      BY <1>5, <2>1
    <3> HIDE DEF more
    <3> QED BY <1>3, <1>4, <3>1, <3>2, NoneComplete
  <2>3. TypeOK'
    BY <1>2, <1>3, <1>4, <1>7, <1>8 DEF TypeOK, Results, Return
  <2> QED BY <1>2, <1>8, <2>2, <2>3 DEF Seeking, Collecting, Calling, Returned, Return
<1>9. CASE /\ Len(buf) < Cap /\ MatchTail(more, packet.end)
           /\ Return("frame", SubSeq(more, 1, Len(more) - Len(packet.end)))
  <2> DEFINE e == Len(more) - Len(packet.end)
  <2>1. /\ pc' = "idle" /\ result' = "frame" /\ payload' = SubSeq(more, 1, e) /\ buf' = <<>>
    BY <1>9 DEF Return
  <2>2. e \in 0 .. Len(more)
    <3>1. EndsAt(packet.end, more, Len(more))
      BY <1>6, <1>9
    <3> HIDE DEF more
    <3>2. Len(packet.end) <= Len(more)
      BY <3>1 DEF EndsAt
    <3>3. Len(more) \in Nat /\ Len(packet.end) \in Nat
      BY <1>3, <1>4
    <3> QED BY <3>2, <3>3
  <2>3. FrameIn(packet, taken', payload')
    <3>1. \A m \in 0 .. Len(more) - 1 : ~EndsAt(packet.end, more, m)
      <4>1. \A m \in 0 .. Len(more) - 1 : m \in 0 .. Len(buf)
        BY <1>3, <1>4
      <4> QED BY <1>5, <4>1
    <3>2. payload' = SubSeq(more, 1, Len(more) - Len(packet.end))
      BY <2>1
    <3> HIDE DEF more
    <3> QED BY <1>3, <1>4, <1>6, <1>9, <3>1, <3>2, CompleteFrame
  <2>4. payload' \in Seq(Byte) /\ Len(payload') = e
    <3> HIDE DEF more, e
    <3> QED BY <1>3, <2>1, <2>2, PrefixEnds
  <2>5. Len(payload') <= OutSize
    BY <1>3, <1>4, <1>9, <2>2, <2>4
  <2>6. TypeOK'
    BY <1>2, <1>3, <1>4, <1>7, <2>1, <2>4, <2>5 DEF TypeOK, Results
  <2> QED BY <1>2, <2>1, <2>3, <2>6 DEF Seeking, Collecting, Calling, Returned
<1>10. CASE /\ Len(buf) < Cap /\ ~MatchTail(more, packet.end)
            /\ buf' = more /\ UNCHANGED <<pc, result, payload>>
  <2>1. pc' = "delimiter" /\ Len(more) <= Room(packet) /\ Len(more) <= OutSize
    BY <1>2, <1>3, <1>4, <1>10
  <2>2. \A m \in 0 .. Len(more) : m \in 0 .. Len(buf) \/ m = Len(more)
    BY <1>3, <1>4
  <2>3. \A m \in 0 .. Len(more) : ~EndsAt(packet.end, more, m)
    BY <1>5, <1>6, <1>10, <2>2
  <2> HIDE DEF more
  <2>4. TypeOK'
    BY <1>2, <1>3, <1>7, <1>10, <2>1 DEF TypeOK
  <2>5. Collecting'
    BY <1>2, <1>3, <1>4, <1>10, <2>1, <2>3 DEF Collecting, UseEnd
  <2> QED BY <1>2, <1>10, <2>1, <2>4, <2>5 DEF Seeking, Calling, Returned, UseEnd, UseLength
<1>11. \/ Len(buf) >= Cap /\ Return("ERR_ARG", <<>>)
       \/ /\ Len(buf) < Cap
          /\ IF MatchTail(more, packet.end)
             THEN Return("frame", SubSeq(more, 1, Len(more) - Len(packet.end)))
             ELSE buf' = more /\ UNCHANGED <<pc, result, payload>>
  BY <1>2, Zenon DEF ReadDelimiter
<1> HIDE DEF more
<1> QED BY <1>8, <1>9, <1>10, <1>11

\* Nothing that has been read so far held a frame that fitted.
LEMMA NothingMissed ==
    ASSUME IInv, pc # "idle" \/ result # "frame"
    PROVE  Unmissed(packet, taken)
<1> USE DEF IInv
<1>1. packet \in Formats /\ taken \in Seq(Byte) /\ buf \in Seq(Byte)
  BY PacketTypes DEF TypeOK
<1>2. CASE pc = "idle"
  BY <1>2 DEF Returned
<1>3. CASE pc = "seek"
  BY <1>1, <1>3, NoStartNoFrame DEF Seeking
<1>4. CASE pc \in {"length", "delimiter"}
  BY <1>1, <1>4, NoneComplete DEF Collecting, UseEnd
<1> QED BY <1>2, <1>3, <1>4 DEF TypeOK

\* A call gives up.
LEMMA ReadFailsPreserves == ASSUME IInv, ReadFails PROVE IInv'
<1>1. /\ packet' = packet /\ taken' = taken /\ buf' = <<>> /\ payload' = <<>>
      /\ pc # "idle" /\ pc' = "idle" /\ result' \in {"timeout", "error"}
  BY DEF ReadFails, Return
<1>2. Unmissed(packet, taken)
  BY <1>1, NothingMissed
<1>3. TypeOK'
  BY <1>1, PacketTypes DEF IInv, TypeOK, Results
<1>4. Returned'
  BY <1>1, <1>2 DEF Returned
<1> QED BY <1>1, <1>3, <1>4 DEF IInv, Seeking, Collecting, Calling

\* Nothing has been read.
LEMMA InitEstablishes == Init => IInv
<1> SUFFICES ASSUME Init PROVE IInv
  OBVIOUS
<1>1. TypeOK
  BY PacketAssumption DEF Init, TypeOK, Results
<1>2. Unmissed(packet, taken)
  <2>1. packet \in Formats /\ packet.start \in Seq(Byte) /\ packet.end \in Seq(Byte)
    BY <1>1, PacketTypes
  <2>2. taken = <<>> /\ <<>> \in Seq(Byte) /\ Len(<<>>) = 0
    BY DEF Init
  <2>3. CASE packet.start # <<>>
    <3>1. \A m \in 0 .. Len(<<>>) : ~EndsAt(packet.start, <<>>, m)
      BY <2>1, <2>3, EmptyEnds
    <3> QED BY <2>1, <2>2, <3>1, NoStartNoFrame
  <2>4. CASE packet.start = <<>> /\ (UseEnd \/ UseLength)
    <3>1. Follows(<<>>, <<>>) /\ Begins(packet, <<>>, Len(<<>>) - Len(<<>>))
      BY <2>2, <2>4 DEF Follows, Begins, EndsAt
    <3>2. packet.end = <<>> => Len(<<>>) < packet.length
      BY <2>2, <2>4, <1>1, PacketTypes DEF UseEnd, UseLength
    <3>3. packet.end # <<>> => \A m \in 0 .. Len(<<>>) : ~EndsAt(packet.end, <<>>, m)
      BY <2>1, EmptyEnds
    <3> QED BY <2>1, <2>2, <3>1, <3>2, <3>3, NoneComplete
  <2>5. CASE ~(UseEnd \/ UseLength)
    BY <2>5 DEF Unmissed, UseEnd, UseLength
  <2> QED BY <2>3, <2>4, <2>5
<1> QED BY <1>1, <1>2 DEF Init, IInv, Seeking, Collecting, Calling, Returned

(***************************************************************************)
(* The theorems.                                                           *)
(***************************************************************************)

\* The strengthening the others follow from: what the buffer is of what has been read.
THEOREM Invariance == StreamSpec => []IInv
<1>1. StreamInit => IInv
  BY InitEstablishes DEF StreamInit
<1>2. IInv /\ [StreamNext]_streamVars => IInv'
  <2> SUFFICES ASSUME IInv, [StreamNext]_streamVars PROVE IInv'
    OBVIOUS
  <2>1. ASSUME UNCHANGED vars
        PROVE  IInv'
    BY <2>1 DEF vars, IInv, TypeOK, Seeking, Collecting, Calling, Returned, UseStart,
                UseEnd, UseLength
  <2>2. CASE Send
    BY <2>1, <2>2 DEF Send
  <2>3. CASE StartCall
    BY <2>3, CallPreserves, BadConfigPreserves DEF StartCall
  <2>4. CASE TakeByte
    BY <2>4, SeekPreserves, ReadDelimiterPreserves DEF TakeByte
  <2>5. CASE TakeBytes
    <3>1. PICK n \in 1 .. OutSize : \E bs \in [1 .. n -> Byte] : ReadLength(bs)
      BY <2>5 DEF TakeBytes
    <3>2. PICK bs \in [1 .. n -> Byte] : ReadLength(bs)
      BY <3>1
    <3>3. n \in Nat
      BY PacketAssumption
    <3>4. bs \in Seq(Byte)
      BY <3>3
    <3> QED BY <3>2, <3>4, ReadLengthPreserves
  <2>6. CASE GiveUp
    BY <2>6, ReadFailsPreserves DEF GiveUp
  <2>7. CASE UNCHANGED streamVars
    BY <2>1, <2>7 DEF streamVars
  <2> QED BY <2>2, <2>3, <2>4, <2>5, <2>6, <2>7 DEF StreamNext
<1> QED BY <1>1, <1>2, PTL DEF StreamSpec

\* Whatever the parameters and the bytes on the line, nothing is stored beyond out_buf.
THEOREM TypeCorrect == StreamSpec => []TypeOK
<1>1. IInv => TypeOK
  BY DEF IInv
<1> QED BY <1>1, Invariance, PTL

\* A payload that is returned is that of the first frame on the line.
THEOREM FirstFrameReturned == StreamSpec => []ReturnsFirstFrame
<1>1. ASSUME IInv
      PROVE  ReturnsFirstFrame
  <2>1. pc = "idle" /\ result = "frame" => FrameIn(packet, taken, payload)
    BY <1>1 DEF IInv, Returned
  <2>2. FrameIn(packet, taken, payload) <=> IsFrame(taken, payload)
    BY Zenon DEF FrameIn, IsFrame, UseEnd
  <2> QED BY <2>1, <2>2 DEF ReturnsFirstFrame
<1>2. IInv => ReturnsFirstFrame
  BY <1>1
<1> QED BY <1>2, Invariance, PTL

\* A call that is still reading, or gave up, has let no frame go by that fitted.
THEOREM NoneMissed == StreamSpec => []NoFrameMissed
<1>1. ASSUME IInv
      PROVE  NoFrameMissed
  <2>1. pc # "idle" \/ result # "frame" => Unmissed(packet, taken)
    BY <1>1, NothingMissed
  <2>2. \A s, p : FrameIn(packet, s, p) <=> IsFrame(s, p)
    BY Zenon DEF FrameIn, IsFrame, UseEnd
  <2>3. Cap = Room(packet)
    BY <1>1, PacketTypes DEF IInv
  <2> QED BY <2>1, <2>2, <2>3 DEF NoFrameMissed, Unmissed, UseEnd, UseLength
<1>2. IInv => NoFrameMissed
  BY <1>1
<1> QED BY <1>2, Invariance, PTL

(***************************************************************************)
(* Many calls on the frames of a sender: frames are returned whole, at     *)
(* most once and in order, and only those a call gave up on are lost.      *)
(***************************************************************************)

(***************************************************************************)
(* More about sequences that come last in others.                          *)
(***************************************************************************)

\* ConcatAssociative for bytes.
LEMMA Associative == \A s, t, u \in Seq(Byte) : (s \o t) \o u = s \o (t \o u)
BY ConcatAssociative

\* What comes last of what comes last.
LEMMA FollowsFollowing ==
    ASSUME NEW t \in Seq(Byte), NEW u \in Seq(Byte), NEW w \in Seq(Byte),
           Follows(t, u), Follows(u, w)
    PROVE  Follows(t, w)
<1>1. /\ Len(t) \in Nat /\ Len(u) \in Nat /\ Len(w) \in Nat
      /\ Len(w) <= Len(u) /\ Len(u) <= Len(t)
  BY DEF Follows
<1>2. ASSUME NEW i \in 1 .. Len(w)
      PROVE  w[i] = t[Len(t) - Len(w) + i]
  <2> DEFINE j == Len(u) - Len(w) + i
  <2>1. j \in 1 .. Len(u) /\ Len(t) - Len(u) + j = Len(t) - Len(w) + i
    BY <1>1
  <2>2. w[i] = u[j]
    BY DEF Follows
  <2> HIDE DEF j
  <2>3. u[j] = t[Len(t) - Len(u) + j]
    BY <2>1 DEF Follows
  <2> QED BY <2>1, <2>2, <2>3
<1> QED BY <1>1, <1>2 DEF Follows

\* The longer of two that come last holds the shorter.
LEMMA FollowsLonger ==
    ASSUME NEW t \in Seq(Byte), NEW u \in Seq(Byte), NEW w \in Seq(Byte),
           Follows(t, u), Follows(t, w), Len(w) <= Len(u)
    PROVE  Follows(u, w)
<1>1. Len(t) \in Nat /\ Len(u) \in Nat /\ Len(w) \in Nat /\ Len(u) <= Len(t)
  BY DEF Follows
<1>2. ASSUME NEW i \in 1 .. Len(w)
      PROVE  w[i] = u[Len(u) - Len(w) + i]
  <2> DEFINE j == Len(u) - Len(w) + i
  <2>1. j \in 1 .. Len(u) /\ Len(t) - Len(u) + j = Len(t) - Len(w) + i
    BY <1>1
  <2>2. w[i] = t[Len(t) - Len(w) + i]
    BY DEF Follows
  <2> HIDE DEF j
  <2>3. u[j] = t[Len(t) - Len(u) + j]
    BY <2>1 DEF Follows
  <2>4. w[i] = u[j]
    BY <2>1, <2>2, <2>3
  <2> QED BY <2>4 DEF j
<1> QED BY <1>2 DEF Follows

\* Two of the same length are the same.
LEMMA FollowsSame ==
    ASSUME NEW t \in Seq(Byte), NEW u \in Seq(Byte), NEW w \in Seq(Byte),
           Follows(t, u), Follows(t, w), Len(w) = Len(u)
    PROVE  u = w
<1>1. \A i \in 1 .. Len(w) : w[i] = t[Len(t) - Len(w) + i]
  BY DEF Follows
<1>2. \A i \in 1 .. Len(w) : u[i] = t[Len(t) - Len(w) + i]
  BY DEF Follows
<1> QED BY <1>1, <1>2, SeqEqual

\* The second part comes last.
LEMMA FollowsFirst ==
    ASSUME NEW t \in Seq(Byte), NEW u \in Seq(Byte)
    PROVE  t \o u \in Seq(Byte) /\ Len(t \o u) = Len(t) + Len(u) /\ Follows(t \o u, u)
<1>1. /\ Len(t) \in Nat /\ Len(u) \in Nat
      /\ t \o u \in Seq(Byte) /\ Len(t \o u) = Len(t) + Len(u)
      /\ \A i \in 1 .. Len(t) + Len(u) :
             (t \o u)[i] = IF i <= Len(t) THEN t[i] ELSE u[i - Len(t)]
  BY ConcatProperties
<1>2. ASSUME NEW i \in 1 .. Len(u)
      PROVE  u[i] = (t \o u)[Len(t \o u) - Len(u) + i]
  <2> DEFINE j == Len(t) + i
  <2>1. /\ j \in 1 .. Len(t) + Len(u) /\ ~(j <= Len(t)) /\ j - Len(t) = i
        /\ Len(t \o u) - Len(u) + i = j
    BY <1>1
  <2> HIDE DEF j
  <2> QED BY <1>1, <2>1
<1> QED BY <1>1, <1>2 DEF Follows

\* The first part comes first.
LEMMA FrontPart ==
    ASSUME NEW t \in Seq(Byte), NEW u \in Seq(Byte)
    PROVE  SubSeq(t \o u, 1, Len(t)) = t
<1> DEFINE s == t \o u
<1>1. s \in Seq(Byte) /\ Len(t) \in 0 .. Len(s) /\ \A i \in 1 .. Len(t) : s[i] = t[i]
  OBVIOUS
<1> HIDE DEF s
<1>2. /\ SubSeq(s, 1, Len(t)) \in Seq(Byte) /\ Len(SubSeq(s, 1, Len(t))) = Len(t)
      /\ \A i \in 1 .. Len(t) : SubSeq(s, 1, Len(t))[i] = s[i]
  BY <1>1, PrefixEnds
<1>3. SubSeq(s, 1, Len(t)) = t
  BY <1>1, <1>2, SeqEqual
<1> QED BY <1>3 DEF s

\* A sequence is seen in the end of a line where it is seen in the line.
LEMMA EndsInEnd ==
    ASSUME NEW pat \in Seq(Byte), NEW t \in Seq(Byte), NEW w \in Seq(Byte), Follows(t, w),
           NEW m \in Len(pat) .. Len(w)
    PROVE  EndsAt(pat, w, m) <=> EndsAt(pat, t, Len(t) - Len(w) + m)
<1>1. /\ Len(t) \in Nat /\ Len(w) \in Nat /\ Len(pat) \in Nat /\ m \in Nat
      /\ Len(w) <= Len(t) /\ Len(pat) <= m /\ m <= Len(w)
      /\ Len(pat) <= Len(t) - Len(w) + m
  BY DEF Follows
<1>2. ASSUME NEW i \in 1 .. Len(pat)
      PROVE  w[m - Len(pat) + i] = t[Len(t) - Len(w) + m - Len(pat) + i]
  <2> DEFINE j == m - Len(pat) + i
  <2>1. j \in 1 .. Len(w) /\ Len(t) - Len(w) + j = Len(t) - Len(w) + m - Len(pat) + i
    BY <1>1
  <2> HIDE DEF j
  <2>2. w[j] = t[Len(t) - Len(w) + j]
    BY <2>1 DEF Follows
  <2>3. w[j] = t[Len(t) - Len(w) + m - Len(pat) + i]
    BY <2>1, <2>2
  <2> QED BY <2>3 DEF j
<1> QED BY <1>1, <1>2 DEF EndsAt

\* A sequence is seen for the first time no later than wherever it is seen.
LEMMA FirstBefore ==
    ASSUME NEW pat \in Seq(Byte), NEW s \in Seq(Byte), NEW m \in 0 .. Len(s),
           EndsAt(pat, s, m)
    PROVE  FirstMatch(pat, s) <= m
<1> DEFINE seen == {n \in 0 .. Len(s) : IsSuffix(pat, SubSeq(s, 1, n))}
<1>1. m \in seen
  BY PrefixEnds
<1>2. seen \in SUBSET Nat
  OBVIOUS
<1>3. FirstMatch(pat, s) = IF seen = {} THEN -1
                           ELSE CHOOSE n \in seen : \A h \in seen : n <= h
  BY DEF FirstMatch
<1> HIDE DEF seen
<1>4. PICK n \in seen : \A h \in seen : n <= h
  BY <1>1, <1>2, SmallestOf
<1>5. \A h \in seen : FirstMatch(pat, s) <= h
  BY <1>1, <1>3, <1>4
<1> QED BY <1>1, <1>5

(***************************************************************************)
(* The frames of a sender.                                                 *)
(***************************************************************************)

\* Frame and Payloads for parameters pk.
Wrapped(pk, p) == pk.start \o p \o pk.end

Sendable(pk) ==
    {p \in BoundedSeq(Byte, OutSize) :
        /\ IF pk.end # <<>>
           THEN /\ Len(p) + Len(pk.end) <= Room(pk)
                /\ FirstMatch(pk.end, p \o pk.end) = Len(p) + Len(pk.end)
           ELSE Len(p) = pk.length
        /\ LET s == Wrapped(pk, p) \o pk.start
           IN  \A k \in 1 .. Len(s) - Len(pk.start) + 1 :
                   SubSeq(s, k, k + Len(pk.start) - 1) = pk.start
                       => k \in {1, Len(Wrapped(pk, p)) + 1}}

\* They are the ones of the call's parameters.
LEMMA SameFrames ==
    ASSUME TypeOK
    PROVE  Payloads = Sendable(packet) /\ \A p : Frame(p) = Wrapped(packet, p)
<1>1. \A p : Frame(p) = Wrapped(packet, p)
  BY DEF Frame, Wrapped
<1>2. Cap = Room(packet)
  BY PacketTypes
<1>3. \A p : StartOnlyAtStart(p) <=>
          LET s == Wrapped(packet, p) \o packet.start
          IN  \A k \in 1 .. Len(s) - Len(packet.start) + 1 :
                  SubSeq(s, k, k + Len(packet.start) - 1) = packet.start
                      => k \in {1, Len(Wrapped(packet, p)) + 1}
  BY <1>1, Zenon DEF StartOnlyAtStart
<1>4. \A p : p \in Payloads <=> p \in Sendable(packet)
  BY <1>2, <1>3, Zenon DEF Payloads, Sendable, UseEnd
<1>5. /\ Payloads \subseteq BoundedSeq(Byte, OutSize)
      /\ Sendable(packet) \subseteq BoundedSeq(Byte, OutSize)
  BY DEF Payloads, Sendable
<1> QED BY <1>1, <1>4, <1>5

\* What a frame consists of.
LEMMA FrameParts ==
    ASSUME NEW pk \in Formats, NEW p \in Sendable(pk)
    PROVE  /\ p \in Seq(Byte) /\ Len(p) \in Nat /\ Len(p) <= OutSize
           /\ p \o pk.end \in Seq(Byte) /\ Len(p \o pk.end) = Len(p) + Len(pk.end)
           /\ Wrapped(pk, p) = pk.start \o (p \o pk.end) /\ Wrapped(pk, p) \in Seq(Byte)
           /\ Len(Wrapped(pk, p)) = Len(pk.start) + Len(p) + Len(pk.end)
           /\ Len(Wrapped(pk, p)) \in Nat /\ Len(p \o pk.end) \in Nat
           /\ Len(Wrapped(pk, p)) >= Len(pk.start)
           /\ Follows(Wrapped(pk, p), p \o pk.end)
           /\ pk.start \in Seq(Byte) /\ pk.end \in Seq(Byte)
           /\ Len(pk.start) \in Nat /\ Len(pk.end) \in Nat
<1>1. /\ pk.start \in Seq(Byte) /\ pk.end \in Seq(Byte)
      /\ Len(pk.start) \in Nat /\ Len(pk.end) \in Nat
  BY DEF Formats
<1>2. p \in Seq(Byte) /\ Len(p) \in Nat /\ Len(p) <= OutSize
  <2>1. p \in BoundedSeq(Byte, OutSize)
    BY DEF Sendable
  <2>2. PICK n \in 0 .. OutSize : p \in [1 .. n -> Byte]
    BY <2>1 DEF BoundedSeq, SeqOf
  <2>3. n \in Nat /\ n <= OutSize
    BY PacketAssumption
  <2> QED BY <2>2, <2>3
<1>3. p \o pk.end \in Seq(Byte) /\ Len(p \o pk.end) = Len(p) + Len(pk.end)
  BY <1>1, <1>2, FollowsFirst
<1>4. Wrapped(pk, p) = pk.start \o (p \o pk.end)
  BY <1>1, <1>2, Associative, Zenon DEF Wrapped
<1>5. /\ Wrapped(pk, p) \in Seq(Byte) /\ Follows(Wrapped(pk, p), p \o pk.end)
      /\ Len(Wrapped(pk, p)) = Len(pk.start) + Len(p \o pk.end)
  BY <1>1, <1>3, <1>4, FollowsFirst
<1>6. Len(Wrapped(pk, p)) = Len(pk.start) + Len(p) + Len(pk.end)
  <2>1. Len(pk.start) + (Len(p) + Len(pk.end)) = Len(pk.start) + Len(p) + Len(pk.end)
    <3>1. \A i, j, k \in Nat : i + (j + k) = i + j + k
      OBVIOUS
    <3> QED BY <1>1, <1>2, <3>1, Zenon
  <2>2. Len(Wrapped(pk, p)) = Len(pk.start) + (Len(p) + Len(pk.end))
    BY <1>3, <1>5, Zenon
  <2> QED BY <2>1, <2>2, Zenon
<1>7. Len(p \o pk.end) \in Nat
  BY <1>3
<1>8. Len(Wrapped(pk, p)) \in Nat /\ Len(Wrapped(pk, p)) >= Len(pk.start)
  <2>1. \A i, j \in Nat : i + j \in Nat /\ i + j >= i
    OBVIOUS
  <2> QED BY <1>1, <1>5, <1>7, <2>1, Zenon
<1> QED BY <1>1, <1>2, <1>3, <1>4, <1>5, <1>6, <1>7, <1>8, Zenon

\* Whether a sequence is seen at m, as StartOnlyAtStart says it.
LEMMA SeenIn ==
    ASSUME NEW pat \in Seq(Byte), NEW s \in Seq(Byte), NEW m \in Len(pat) .. Len(s)
    PROVE  EndsAt(pat, s, m) <=>
               SubSeq(s, m - Len(pat) + 1, m - Len(pat) + 1 + Len(pat) - 1) = pat
<1> DEFINE k == m - Len(pat) + 1
           u == SubSeq(s, k, k + Len(pat) - 1)
<1>1. /\ Len(pat) \in Nat /\ Len(s) \in Nat /\ m \in Nat /\ Len(pat) <= m /\ m <= Len(s)
      /\ k \in Nat /\ k >= 1 /\ k + Len(pat) - 1 = m
  OBVIOUS
<1>2. /\ u \in Seq(Byte) /\ Len(u) = Len(pat)
      /\ \A i \in 1 .. Len(pat) : u[i] = s[m - Len(pat) + i]
  <2>1. \A i \in k .. m : s[i] \in Byte
    BY <1>1
  <2>2. u = SubSeq(s, k, m) /\ m - k + 1 = Len(pat) /\ (k <= m <=> Len(pat) # 0)
    BY <1>1
  <2>3. \A i \in 1 .. Len(pat) : k + i - 1 = m - Len(pat) + i
    BY <1>1
  <2> HIDE DEF u, k
  <2>4. /\ SubSeq(s, k, m) \in Seq(Byte)
        /\ Len(SubSeq(s, k, m)) = IF k <= m THEN m - k + 1 ELSE 0
        /\ \A i \in 1 .. m - k + 1 : SubSeq(s, k, m)[i] = s[k + i - 1]
    BY <1>1, <2>1, SubSeqProperties
  <2> QED BY <2>2, <2>3, <2>4
<1> HIDE DEF u
<1>3. u = pat <=> \A i \in 1 .. Len(pat) : u[i] = pat[i]
  BY <1>2, SeqEqual
<1>4. EndsAt(pat, s, m) <=> u = pat
  BY <1>1, <1>2, <1>3 DEF EndsAt
<1> QED BY <1>4 DEF u

\* What Sendable asks of the start sequence, by where it is seen.
LEMMA OnlyAtStart ==
    ASSUME NEW pk \in Formats, NEW p \in Sendable(pk),
           NEW m \in Len(pk.start) .. Len(Wrapped(pk, p)) + Len(pk.start),
           EndsAt(pk.start, Wrapped(pk, p) \o pk.start, m)
    PROVE  m \in {Len(pk.start), Len(Wrapped(pk, p)) + Len(pk.start)}
<1> DEFINE w == Wrapped(pk, p)
           s == w \o pk.start
           k == m - Len(pk.start) + 1
<1>1. /\ pk.start \in Seq(Byte) /\ Len(pk.start) \in Nat /\ w \in Seq(Byte) /\ Len(w) \in Nat
  BY FrameParts, Zenon
<1>2. s \in Seq(Byte) /\ Len(s) = Len(w) + Len(pk.start)
  BY <1>1, FollowsFirst
<1>3. \A h \in 1 .. Len(s) - Len(pk.start) + 1 :
          SubSeq(s, h, h + Len(pk.start) - 1) = pk.start => h \in {1, Len(w) + 1}
  BY DEF Sendable
<1>4. m \in Len(pk.start) .. Len(w) + Len(pk.start) /\ EndsAt(pk.start, s, m)
  OBVIOUS
<1> HIDE DEF s, w
<1>5. SubSeq(s, k, k + Len(pk.start) - 1) = pk.start
  BY <1>1, <1>2, <1>4, SeenIn
<1>6. k \in 1 .. Len(s) - Len(pk.start) + 1
  <2>1. \A i, j \in Nat : \A h \in j .. i + j : h - j + 1 \in 1 .. (i + j) - j + 1
    OBVIOUS
  <2>2. k \in 1 .. (Len(w) + Len(pk.start)) - Len(pk.start) + 1
    BY <1>1, <1>4, <2>1, Zenon
  <2> QED BY <1>2, <2>2, Zenon
<1>7. k \in {1, Len(w) + 1}
  BY <1>3, <1>5, <1>6
<1>8. m \in {Len(pk.start), Len(w) + Len(pk.start)}
  <2>1. \A i, j \in Nat : \A h \in j .. i + j :
            h - j + 1 \in {1, i + 1} => h \in {j, i + j}
    OBVIOUS
  <2> QED BY <1>1, <1>4, <1>7, <2>1, Zenon
<1> QED BY <1>8 DEF w

\* Behind one frame, the start sequence is seen where the next one begins, ...
LEMMA StartSeen ==
    ASSUME NEW pk \in Formats, NEW p \in Sendable(pk), NEW q \in Sendable(pk)
    PROVE  EndsAt(pk.start, Wrapped(pk, p) \o Wrapped(pk, q),
                  Len(Wrapped(pk, p)) + Len(pk.start))
<1> DEFINE v == Wrapped(pk, p)
           w == Wrapped(pk, q)
           x == q \o pk.end
<1>1. /\ pk.start \in Seq(Byte) /\ Len(pk.start) \in Nat /\ x \in Seq(Byte) /\ Len(x) \in Nat
      /\ w \in Seq(Byte) /\ Len(w) = Len(pk.start) + Len(x) /\ w = pk.start \o x
  <2>1. pk.start \in Seq(Byte) /\ x \in Seq(Byte) /\ w \in Seq(Byte) /\ w = pk.start \o x
    BY FrameParts
  <2> HIDE DEF x, w
  <2> QED BY <2>1, FollowsFirst
<1>2. v \in Seq(Byte) /\ Len(v) \in Nat
  BY FrameParts, Zenon
<1> HIDE DEF v, w, x
<1>3. EndsAt(pk.start, pk.start, Len(pk.start))
  BY <1>1 DEF EndsAt
<1>4. EndsAt(pk.start, w, Len(pk.start))
  <2>1. Len(pk.start) \in 0 .. Len(pk.start)
    BY <1>1
  <2> QED BY <1>1, <1>3, <2>1, EndsKept
<1>5. v \o w \in Seq(Byte) /\ Len(v \o w) = Len(v) + Len(w) /\ Follows(v \o w, w)
  BY <1>1, <1>2, FollowsFirst
<1>6. /\ Len(pk.start) \in Len(pk.start) .. Len(w)
      /\ Len(v \o w) - Len(w) + Len(pk.start) = Len(v) + Len(pk.start)
  BY <1>1, <1>2, <1>5
<1>7. EndsAt(pk.start, v \o w, Len(v) + Len(pk.start))
  BY <1>1, <1>4, <1>5, <1>6, EndsInEnd
<1> QED BY <1>7 DEF v, w

\* ... and nowhere else in it, nor where the two meet.
LEMMA StartPlace ==
    ASSUME NEW pk \in Formats, pk.start # <<>>, NEW p \in Sendable(pk), NEW q \in Sendable(pk),
           NEW m \in Len(Wrapped(pk, p)) + 1 .. Len(Wrapped(pk, p)) + Len(Wrapped(pk, q)),
           EndsAt(pk.start, Wrapped(pk, p) \o Wrapped(pk, q), m)
    PROVE  m = Len(Wrapped(pk, p)) + Len(pk.start)
<1> DEFINE v == Wrapped(pk, p)
           w == Wrapped(pk, q)
           x == q \o pk.end
<1>1. /\ pk.start \in Seq(Byte) /\ Len(pk.start) \in Nat /\ Len(pk.start) > 0
      /\ x \in Seq(Byte) /\ Len(x) \in Nat
      /\ w \in Seq(Byte) /\ Len(w) = Len(pk.start) + Len(x) /\ w = pk.start \o x
  <2>1. pk.start \in Seq(Byte) /\ x \in Seq(Byte) /\ w \in Seq(Byte) /\ w = pk.start \o x
    BY FrameParts
  <2> HIDE DEF x, w
  <2> QED BY <2>1, FollowsFirst
<1>2. /\ v \in Seq(Byte) /\ Len(v) \in Nat /\ Len(v) >= Len(pk.start)
  BY FrameParts, Zenon
<1>3. m \in Len(v) + 1 .. Len(v) + Len(w) /\ EndsAt(pk.start, v \o w, m)
  OBVIOUS
<1>4. \A h \in Len(pk.start) .. Len(v) + Len(pk.start) :
          EndsAt(pk.start, v \o pk.start, h) => h \in {Len(pk.start), Len(v) + Len(pk.start)}
  BY OnlyAtStart
<1>5. \A h \in Len(pk.start) .. Len(w) + Len(pk.start) :
          EndsAt(pk.start, w \o pk.start, h) => h \in {Len(pk.start), Len(w) + Len(pk.start)}
  BY OnlyAtStart
<1> HIDE DEF v, w, x
<1>6. CASE m <= Len(v) + Len(pk.start)
  <2> DEFINE s == v \o pk.start
  <2>1. s \in Seq(Byte) /\ Len(s) = Len(v) + Len(pk.start)
    BY <1>1, <1>2, FollowsFirst
  <2>2. v \o w = s \o x
    BY <1>1, <1>2, Associative, Zenon
  <2> HIDE DEF s
  <2>3. m \in 0 .. Len(s) /\ m \in Len(pk.start) .. Len(v) + Len(pk.start)
    BY <1>1, <1>2, <1>3, <1>6, <2>1
  <2>4. EndsAt(pk.start, s, m)
    BY <1>1, <1>3, <2>1, <2>2, <2>3, EndsKept
  <2>5. m \in {Len(pk.start), Len(v) + Len(pk.start)}
    BY <1>4, <2>3, <2>4 DEF s
  <2>6. m # Len(pk.start)
    BY <1>1, <1>2, <1>3
  <2>7. m = Len(v) + Len(pk.start)
    BY <2>5, <2>6
  <2> QED BY <2>7 DEF v
<1>7. CASE ~(m <= Len(v) + Len(pk.start))
  <2> DEFINE h == m - Len(v)
  <2>1. /\ h \in Len(pk.start) .. Len(w) /\ h \in 0 .. Len(w) /\ h # Len(pk.start)
        /\ h \in Len(pk.start) .. Len(w) + Len(pk.start) /\ h # Len(w) + Len(pk.start)
        /\ Len(v) + Len(w) - Len(w) + h = m
    BY <1>1, <1>2, <1>3, <1>7
  <2>2. v \o w \in Seq(Byte) /\ Len(v \o w) = Len(v) + Len(w) /\ Follows(v \o w, w)
    BY <1>1, <1>2, FollowsFirst
  <2> HIDE DEF h
  <2>3. Len(v \o w) - Len(w) + h = m
    <3>1. \A z : z = Len(v) + Len(w) => z - Len(w) + h = m
      BY <2>1
    <3>2. Len(v \o w) = Len(v) + Len(w)
      BY <2>2
    <3> QED BY <3>1, <3>2, Zenon
  <2>4. EndsAt(pk.start, w, h)
    <3>1. EndsAt(pk.start, w, h) <=> EndsAt(pk.start, v \o w, Len(v \o w) - Len(w) + h)
      BY <1>1, <2>1, <2>2, EndsInEnd
    <3> QED BY <1>3, <2>3, <3>1, Zenon
  <2>5. EndsAt(pk.start, w \o pk.start, h)
    BY <1>1, <2>1, <2>4, EndsKept
  <2> QED BY <1>5, <2>1, <2>5
<1> QED BY <1>6, <1>7

\* What is taken off the line, and what is left of it.
LEMMA Split ==
    ASSUME NEW w \in Seq(Byte), NEW bs \in Seq(Byte), IsPrefix(bs, w)
    PROVE  LET r == SubSeq(w, Len(bs) + 1, Len(w))
           IN  r \in Seq(Byte) /\ w = bs \o r /\ Len(w) = Len(bs) + Len(r) /\ Follows(w, r)
<1> DEFINE r == SubSeq(w, Len(bs) + 1, Len(w))
<1>1. /\ Len(w) \in Nat /\ Len(bs) \in Nat /\ Len(bs) <= Len(w)
      /\ SubSeq(bs, 1, Len(bs)) = SubSeq(w, 1, Len(bs))
  BY DEF IsPrefix
<1>2. SubSeq(bs, 1, Len(bs)) = bs /\ SubSeq(w, 1, Len(w)) = w
  BY SubSeqFull
<1>3. /\ 1 \in 1 .. Len(w) + 1 /\ Len(bs) \in 1 - 1 .. Len(w) /\ Len(w) \in Len(bs) .. Len(w)
      /\ Len(bs) + 1 \in Int /\ Len(w) \in Int
      /\ \A i \in Len(bs) + 1 .. Len(w) : w[i] \in Byte
  BY <1>1
<1>4. SubSeq(w, 1, Len(bs)) \o r = SubSeq(w, 1, Len(w))
  BY <1>3, ConcatAdjacentSubSeq
<1>5. r \in Seq(Byte)
  BY <1>3, SubSeqProperties
<1>6. w = bs \o r
  BY <1>1, <1>2, <1>4
<1> QED BY <1>5, <1>6, FollowsFirst

\* When the latest bytes of t are a start sequence: where r, the rest of the frame q
\* behind p, is all of it but its start.
LEMMA StartTaken ==
    ASSUME NEW pk \in Formats, pk.start # <<>>, NEW p \in Sendable(pk), NEW q \in Sendable(pk),
           NEW t \in Seq(Byte), NEW r \in Seq(Byte), Len(r) < Len(Wrapped(pk, q)),
           Follows(Wrapped(pk, p) \o Wrapped(pk, q), t \o r)
    PROVE  /\ EndsAt(pk.start, t, Len(t)) => Len(r) + Len(pk.start) = Len(Wrapped(pk, q))
           /\ /\ Len(r) + Len(pk.start) = Len(Wrapped(pk, q))
              /\ Len(t) + Len(r) >= Len(Wrapped(pk, q))
              => EndsAt(pk.start, t, Len(t))
<1> DEFINE v == Wrapped(pk, p)
           w == Wrapped(pk, q)
           s == t \o r
           m == Len(v) + Len(w) - Len(r)
<1>1. /\ pk.start \in Seq(Byte) /\ Len(pk.start) \in Nat
      /\ v \in Seq(Byte) /\ Len(v) \in Nat /\ w \in Seq(Byte) /\ Len(w) \in Nat
  BY FrameParts, Zenon
<1>2. /\ Len(r) < Len(w) /\ Follows(v \o w, s) /\ Len(t) \in Nat /\ Len(r) \in Nat
  OBVIOUS
<1>3. EndsAt(pk.start, v \o w, Len(v) + Len(pk.start))
  BY StartSeen
<1>4. \A h \in Len(v) + 1 .. Len(v) + Len(w) :
          EndsAt(pk.start, v \o w, h) => h = Len(v) + Len(pk.start)
  BY StartPlace
<1> HIDE DEF v, w
<1>5. s \in Seq(Byte) /\ Len(s) = Len(t) + Len(r)
  BY FollowsFirst
<1>6. v \o w \in Seq(Byte) /\ Len(v \o w) = Len(v) + Len(w)
  BY <1>1, FollowsFirst
<1>7. EndsAt(pk.start, t, Len(t)) <=> EndsAt(pk.start, s, Len(t))
  <2>1. Len(t) \in 0 .. Len(t)
    BY <1>2
  <2> QED BY <1>1, <2>1, EndsKept
<1> HIDE DEF s
<1>8. Len(v \o w) - Len(s) + Len(t) = m
  <2>1. \A x, y : x = Len(v) + Len(w) /\ y = Len(t) + Len(r) => x - y + Len(t) = m
    BY <1>1, <1>2
  <2> HIDE DEF m
  <2> QED BY <1>5, <1>6, <2>1, Zenon
<1>9. m \in Len(v) + 1 .. Len(v) + Len(w)
  BY <1>1, <1>2
<1>10. ASSUME Len(pk.start) <= Len(t)
       PROVE  EndsAt(pk.start, t, Len(t)) <=> EndsAt(pk.start, v \o w, m)
  <2>1. Len(t) \in Len(pk.start) .. Len(s)
    BY <1>1, <1>2, <1>5, <1>10
  <2>2. EndsAt(pk.start, s, Len(t)) <=>
            EndsAt(pk.start, v \o w, Len(v \o w) - Len(s) + Len(t))
    BY <1>1, <1>2, <1>5, <1>6, <2>1, EndsInEnd
  <2> HIDE DEF m
  <2> QED BY <1>7, <1>8, <2>2, Zenon
<1>11. ASSUME EndsAt(pk.start, t, Len(t))
       PROVE  Len(r) + Len(pk.start) = Len(w)
  <2>1. Len(pk.start) <= Len(t)
    BY <1>11 DEF EndsAt
  <2>2. m = Len(v) + Len(pk.start)
    BY <1>4, <1>9, <1>10, <1>11, <2>1
  <2> QED BY <1>1, <1>2, <2>2
<1>12. ASSUME Len(r) + Len(pk.start) = Len(w), Len(t) + Len(r) >= Len(w)
       PROVE  EndsAt(pk.start, t, Len(t))
  <2>1. Len(pk.start) <= Len(t)
    BY <1>1, <1>2, <1>12
  <2>2. m = Len(v) + Len(pk.start)
    <3>1. \A i, j, k \in Nat : i + (j + k) - j = i + k
      OBVIOUS
    <3>2. Len(v) + (Len(r) + Len(pk.start)) - Len(r) = Len(v) + Len(pk.start)
      BY <1>1, <1>2, <3>1, Zenon
    <3> QED BY <1>12, <3>2, Zenon
  <2> HIDE DEF m
  <2> QED BY <1>3, <1>10, <2>1, <2>2
<1> QED BY <1>11, <1>12 DEF w

(***************************************************************************)
(* The line.                                                               *)
(***************************************************************************)

\* Nothing is sent on a noisy line.
Silent == noise => sent = 0 /\ got = <<>>

\* What has not been read is the rest of the latest frame.
OnTheWire ==
    /\ packet.hexOk /\ UseStart /\ sent \in Nat /\ wire \in Seq(Byte)
    /\ IF sent = 0 THEN wire = <<>>
       ELSE frame \in Sendable(packet) /\ Follows(Wrapped(packet, frame), wire)

\* A call that looks for a start has read no more than the end of one frame and the
\* beginning of the next, and came too late for a frame whose start has gone by.
Behind ==
    pc = "seek" =>
        IF sent = 0 THEN taken = <<>>
        ELSE /\ \E p \in Sendable(packet) :
                    Follows(Wrapped(packet, p) \o Wrapped(packet, frame), taken \o wire)
             /\ Len(wire) + Len(packet.start) <= Len(Wrapped(packet, frame)) =>
                    Len(taken) + Len(wire) < Len(Wrapped(packet, frame))

\* A call that collects a payload collects that of the frame on the line.
Within ==
    pc \in {"length", "delimiter"} =>
        sent > 0 /\ wire # <<>> /\ buf \o wire = frame \o packet.end

\* Frames are returned after they have been read.
Received ==
    /\ got \in Seq(Nat)
    /\ \A k \in 1 .. Len(got) : got[k] \in 1 .. sent /\ (wire # <<>> => got[k] < sent)

\* The frame being read is read by a call that has seen its beginning, or is torn.
InTime ==
    wire # <<>> /\ Len(wire) < Len(Wrapped(packet, frame)) /\ sent \notin torn =>
        /\ pc # "idle"
        /\ pc = "seek" => Len(taken) + Len(wire) >= Len(Wrapped(packet, frame))

LineInv ==
    Silent /\ (~noise => OnTheWire /\ Behind /\ Within /\ Received /\ InTime
                         /\ OnlyTornFramesLost)

(***************************************************************************)
(* The steps on the line.                                                  *)
(***************************************************************************)

\* Bytes of a frame are read.
LEMMA Reading ==
    ASSUME IInv, LineInv, ~noise, NEW bs \in Seq(Byte), Len(bs) > 0, packet' = packet,
           taken' = taken \o bs, Arrive(bs)
    PROVE  /\ packet \in Formats /\ packet.start # <<>> /\ packet.hexOk
           /\ sent \in Nat /\ sent > 0 /\ frame \in Sendable(packet)
           /\ noise' = noise /\ sent' = sent /\ frame' = frame /\ torn' = torn
           /\ wire \in Seq(Byte) /\ wire' \in Seq(Byte) /\ wire = bs \o wire'
           /\ Len(wire) = Len(bs) + Len(wire') /\ wire # <<>>
           /\ Follows(Wrapped(packet, frame), wire') /\ Len(wire) <= Len(Wrapped(packet, frame))
           /\ taken' \in Seq(Byte) /\ taken' \o wire' = taken \o wire
           /\ Len(taken') + Len(wire') = Len(taken) + Len(wire)
           /\ OnTheWire'
           /\ got' = IF pc' = "idle" /\ result' = "frame"
                     THEN Append(got, IF wire' = <<>> /\ payload' = frame THEN sent ELSE 0)
                     ELSE got
<1>1. packet \in Formats /\ taken \in Seq(Byte)
  BY PacketTypes DEF IInv, TypeOK
<1>2. /\ packet.start # <<>> /\ packet.hexOk /\ sent \in Nat /\ wire \in Seq(Byte)
      /\ IF sent = 0 THEN wire = <<>>
         ELSE frame \in Sendable(packet) /\ Follows(Wrapped(packet, frame), wire)
  BY DEF LineInv, OnTheWire, UseStart
<1>3. /\ noise' = noise /\ sent' = sent /\ frame' = frame /\ torn' = torn
      /\ IsPrefix(bs, wire) /\ wire' = SubSeq(wire, Len(bs) + 1, Len(wire))
      /\ got' = IF pc' = "idle" /\ result' = "frame"
                THEN Append(got, IF wire' = <<>> /\ payload' = frame THEN sent ELSE 0)
                ELSE got
  BY DEF Arrive
<1>4. /\ wire' \in Seq(Byte) /\ wire = bs \o wire' /\ Len(wire) = Len(bs) + Len(wire')
      /\ Follows(wire, wire')
  BY <1>2, <1>3, Split
<1>5. Len(bs) \in Nat /\ Len(wire') \in Nat /\ Len(taken) \in Nat
  BY <1>1, <1>4
<1>6. wire # <<>> /\ sent > 0 /\ frame \in Sendable(packet) /\ Follows(Wrapped(packet, frame), wire)
  <2>1. Len(wire) # 0
    BY <1>4, <1>5
  <2>2. wire # <<>>
    BY <2>1
  <2> QED BY <1>2, <2>2
<1>7. Wrapped(packet, frame) \in Seq(Byte)
  BY <1>1, <1>6, FrameParts, Zenon
<1>8. Follows(Wrapped(packet, frame), wire') /\ Len(wire) <= Len(Wrapped(packet, frame))
  <2>1. Len(wire) <= Len(Wrapped(packet, frame))
    BY <1>6 DEF Follows
  <2> QED BY <1>2, <1>4, <1>6, <1>7, <2>1, FollowsFollowing
<1>9. taken' \in Seq(Byte) /\ Len(taken') = Len(taken) + Len(bs)
  BY <1>1, FollowsFirst
<1>10. taken' \o wire' = taken \o wire
  BY <1>1, <1>4, Associative, Zenon
<1>11. Len(taken') + Len(wire') = Len(taken) + Len(wire)
  <2>1. \A a, b, c \in Nat : (a + b) + c = a + (b + c)
    OBVIOUS
  <2>2. Len(bs) \in Nat /\ Len(wire') \in Nat /\ Len(taken) \in Nat
    BY <1>5
  <2>3. (Len(taken) + Len(bs)) + Len(wire') = Len(taken) + (Len(bs) + Len(wire'))
    BY <2>1, <2>2, Zenon
  <2>4. Len(wire) = Len(bs) + Len(wire') /\ Len(taken') = Len(taken) + Len(bs)
    BY <1>4, <1>9
  <2> QED BY <2>3, <2>4, Zenon
<1>12. OnTheWire'
  BY <1>2, <1>3, <1>4, <1>6, <1>8 DEF OnTheWire, UseStart
<1> QED BY <1>1, <1>2, <1>3, <1>4, <1>6, <1>8, <1>9, <1>10, <1>11, <1>12, Zenon

\* A call for a frame that is sent begins to collect it once it has seen the start.
LEMMA Collects ==
    ASSUME IInv, packet' = packet, frame \in Sendable(packet), NEW b \in Byte, Seek(b)
    PROVE  \/ pc' = "seek"
           \/ pc' \in {"length", "delimiter"} /\ buf' = <<>>
<1>1. pc = "seek" /\ packet \in Formats /\ packet.length \in Nat /\ OutSize \in Nat
      /\ Cap = Room(packet) /\ (UseEnd \/ UseLength) /\ packet.end \in Seq(Byte)
  BY PacketTypes DEF IInv, Seek, Calling
<1>2. Len(frame) \in Nat /\ Len(frame) <= OutSize /\ Len(packet.end) \in Nat
  BY <1>1, FrameParts, Zenon
<1>3. IF packet.end # <<>> THEN Len(frame) + Len(packet.end) <= Room(packet)
                           ELSE Len(frame) = packet.length
  BY Zenon DEF Sendable
<1>4. \/ pc' = pc
      \/ \E w : EnterPayload(w)
  BY DEF Seek
<1>5. ASSUME NEW w, EnterPayload(w)
      PROVE  pc' \in {"length", "delimiter"} /\ buf' = <<>>
  <2>1. CASE UseEnd
    <3>1. packet.end # <<>> /\ Len(packet.end) > 0
      BY <1>1, <2>1 DEF UseEnd
    <3>2. Cap # 0
      BY <1>1, <1>2, <1>3, <3>1
    <3> QED BY <1>5, <2>1, <3>2 DEF EnterPayload
  <2>2. CASE ~UseEnd
    <3>1. packet.length <= OutSize /\ UseLength
      BY <1>1, <1>2, <1>3, <2>2 DEF UseEnd
    <3>2. ~(packet.length > OutSize)
      BY <1>1, <3>1
    <3> QED BY <1>5, <2>2, <3>1, <3>2 DEF EnterPayload
  <2> QED BY <2>1, <2>2
<1> QED BY <1>1, <1>4, <1>5

\* A frame that can be read has more than a start.
LEMMA NotEmpty ==
    ASSUME packet \in Formats, frame \in Sendable(packet), UseEnd \/ UseLength
    PROVE  frame \o packet.end # <<>>
<1>1. /\ Len(frame) \in Nat /\ Len(packet.end) \in Nat /\ packet.end \in Seq(Byte)
      /\ Len(frame \o packet.end) = Len(frame) + Len(packet.end)
  BY FrameParts, Zenon
<1>2. packet.end = <<>> => Len(frame) = packet.length
  BY Zenon DEF Sendable
<1>3. packet.length \in Nat
  BY DEF Formats
<1>4. Len(frame) + Len(packet.end) # 0
  BY <1>1, <1>2, <1>3 DEF UseEnd, UseLength
<1>5. Len(<<>>) = 0
  OBVIOUS
<1> QED BY <1>1, <1>4, <1>5, Zenon

\* No frame is returned where none ends.
Kept ==
    /\ sent' = sent
    /\ got' = got \/ (wire # <<>> /\ sent > 0 /\ got' = Append(got, sent))

\* A byte is read by a call that looks for a start.
LEMMA SeekOnLine ==
    ASSUME IInv, IInv', LineInv, ~noise, NEW b \in Byte, Seek(b), Arrive(<<b>>)
    PROVE  LineInv' /\ Kept
<1>0. PICK bs : bs = <<b>>
  OBVIOUS
<1>1. bs \in Seq(Byte) /\ Len(bs) > 0
  BY <1>0
<1>2. pc = "seek" /\ packet' = packet /\ taken' = taken \o bs /\ Arrive(bs)
  BY <1>0 DEF Seek, Take
<1> DEFINE w == Wrapped(packet, frame)
<1>3. /\ packet \in Formats /\ packet.start # <<>> /\ packet.hexOk
      /\ sent \in Nat /\ sent > 0 /\ frame \in Sendable(packet)
      /\ noise' = noise /\ sent' = sent /\ frame' = frame /\ torn' = torn
      /\ wire \in Seq(Byte) /\ wire' \in Seq(Byte) /\ wire = bs \o wire'
      /\ Len(wire) = Len(bs) + Len(wire') /\ wire # <<>>
      /\ Follows(w, wire') /\ Len(wire) <= Len(w)
      /\ taken' \in Seq(Byte) /\ taken' \o wire' = taken \o wire
      /\ Len(taken') + Len(wire') = Len(taken) + Len(wire)
      /\ OnTheWire'
      /\ got' = IF pc' = "idle" /\ result' = "frame"
                THEN Append(got, IF wire' = <<>> /\ payload' = frame THEN sent ELSE 0)
                ELSE got
  BY <1>1, <1>2, Reading
<1>4. \/ pc' = "seek"
      \/ pc' \in {"length", "delimiter"} /\ buf' = <<>>
  BY <1>2, <1>3, Collects
<1>5. got' = got
  BY <1>3, <1>4
<1>6. PICK p \in Sendable(packet) : Follows(Wrapped(packet, p) \o w, taken' \o wire')
  <2>1. sent # 0
    BY <1>3
  <2>2. \E p \in Sendable(packet) : Follows(Wrapped(packet, p) \o w, taken \o wire)
    BY <1>2, <2>1, Zenon DEF LineInv, Behind
  <2> HIDE DEF w
  <2> QED BY <1>3, <2>2, Zenon
<1>7. /\ Len(wire) \in Nat /\ Len(taken) \in Nat /\ Len(wire') \in Nat
      /\ Len(wire') < Len(wire) /\ Len(wire') < Len(w)
      /\ Len(w) \in Nat /\ w = packet.start \o (frame \o packet.end) /\ w \in Seq(Byte)
      /\ frame \o packet.end \in Seq(Byte) /\ Follows(w, frame \o packet.end)
      /\ Len(frame \o packet.end) \in Nat /\ Len(packet.start) \in Nat
      /\ Len(w) = Len(packet.start) + Len(frame \o packet.end) /\ Len(taken') \in Nat
      /\ packet.start \in Seq(Byte) /\ Len(packet.start) > 0
  <2>1. /\ w = packet.start \o (frame \o packet.end) /\ w \in Seq(Byte)
        /\ frame \o packet.end \in Seq(Byte) /\ Follows(w, frame \o packet.end)
        /\ Len(frame \o packet.end) \in Nat /\ Len(packet.start) \in Nat
        /\ packet.start \in Seq(Byte) /\ Len(w) \in Nat
    BY <1>3, FrameParts, Zenon
  <2> HIDE DEF w
  <2>2. Len(w) = Len(packet.start) + Len(frame \o packet.end)
    BY <2>1, FollowsFirst
  <2>3. /\ Len(wire) \in Nat /\ Len(wire') \in Nat /\ Len(bs) \in Nat
        /\ Len(taken') \in Nat /\ Len(taken) \in Nat
    BY <1>1, <1>3 DEF IInv, TypeOK
  <2>4. Len(wire') < Len(wire) /\ Len(wire') < Len(w)
    <3>1. \A i, j, k, n \in Nat : i > 0 /\ k = i + j /\ k <= n => j < k /\ j < n
      OBVIOUS
    <3>2. Len(wire) = Len(bs) + Len(wire') /\ Len(wire) <= Len(w) /\ Len(bs) > 0
      BY <1>1, <1>3
    <3> QED BY <2>1, <2>3, <3>1, <3>2, Zenon
  <2>5. Len(packet.start) > 0
    BY <1>3, <2>1
  <2> QED BY <2>1, <2>2, <2>3, <2>4, <2>5
<1>8. /\ EndsAt(packet.start, taken', Len(taken')) => Len(wire') + Len(packet.start) = Len(w)
      /\ /\ Len(wire') + Len(packet.start) = Len(w)
         /\ Len(taken') + Len(wire') >= Len(w)
         => EndsAt(packet.start, taken', Len(taken'))
  BY <1>3, <1>6, <1>7, StartTaken
<1>9. Received' /\ Silent'
  BY <1>3, <1>5 DEF LineInv, Received, Silent
<1>10. Kept /\ OnTheWire'
  BY <1>3, <1>5 DEF Kept
<1>11. CASE pc' \in {"length", "delimiter"} /\ buf' = <<>>
  <2>1. EndsAt(packet.start, taken', Len(taken'))
    <3>1. Begins(packet', taken', Len(taken') - Len(<<>>))
      BY <1>11 DEF IInv, Collecting
    <3>2. Len(taken') - Len(<<>>) = Len(taken')
      BY <1>7
    <3> QED BY <1>2, <3>1, <3>2 DEF Begins
  <2>2. Len(wire') = Len(frame \o packet.end)
    <3>1. \A i, j, k \in Nat : i + k = k + j => i = j
      OBVIOUS
    <3>2. Len(wire') + Len(packet.start) = Len(packet.start) + Len(frame \o packet.end)
      BY <1>7, <1>8, <2>1, Zenon
    <3> QED BY <1>7, <3>1, <3>2, Zenon
  <2>3. wire' = frame \o packet.end
    BY <1>3, <1>7, <2>2, FollowsSame
  <2>4. wire' # <<>>
    BY <1>2, <1>3, <1>11, <2>3, NotEmpty DEF IInv, Calling
  <2>5. Within'
    BY <1>2, <1>3, <1>11, <2>3, <2>4, ConcatEmptySeq DEF Within
  <2>6. OnlyTornFramesLost'
    BY <1>3, <1>5, <2>4 DEF LineInv, OnlyTornFramesLost
  <2>7. Behind' /\ InTime'
    BY <1>11 DEF Behind, InTime
  <2> QED BY <1>9, <1>10, <2>5, <2>6, <2>7, Zenon DEF LineInv
<1>12. CASE pc' = "seek"
  <2>1. ~EndsAt(packet.start, taken', Len(taken'))
    BY <1>2, <1>7, <1>12 DEF IInv, Seeking
  <2>2. Len(wire') + Len(packet.start) <= Len(w) => Len(taken') + Len(wire') < Len(w)
    <3>1. CASE Len(wire') + Len(packet.start) = Len(w)
      <4>1. \A i, j, k \in Nat : i + j < k \/ i + j >= k
        OBVIOUS
      <4> QED BY <1>7, <1>8, <2>1, <3>1, <4>1, Zenon
    <3>2. CASE Len(wire) + Len(packet.start) <= Len(w)
      <4>1. Len(taken) + Len(wire) < Len(w)
        BY <1>2, <1>3, <3>2 DEF LineInv, Behind
      <4> QED BY <1>3, <4>1, Zenon
    <3>3. CASE /\ Len(wire') + Len(packet.start) # Len(w)
               /\ ~(Len(wire) + Len(packet.start) <= Len(w))
      <4>1. Len(wire) = 1 + Len(wire')
        BY <1>0, <1>3
      <4>2. \A i, j, k, n \in Nat : i = 1 + j /\ j + k # n /\ ~(i + k <= n) => ~(j + k <= n)
        OBVIOUS
      <4> HIDE DEF w
      <4> QED BY <1>7, <3>3, <4>1, <4>2, Zenon
    <3> QED BY <3>1, <3>2, <3>3, Zenon
  <2>3. Behind'
    <3>1. Follows(Wrapped(packet', p) \o Wrapped(packet', frame'), taken' \o wire')
      BY <1>2, <1>3, <1>6, Zenon
    <3>2. p \in Sendable(packet') /\ sent' # 0
      BY <1>2, <1>3
    <3>3. Len(wire') + Len(packet'.start) <= Len(Wrapped(packet', frame')) =>
              Len(taken') + Len(wire') < Len(Wrapped(packet', frame'))
      BY <1>2, <1>3, <2>2, Zenon
    <3> QED BY <3>1, <3>2, <3>3, Zenon DEF Behind
  <2>4. sent \notin torn => Len(taken') + Len(wire') >= Len(w)
    <3>1. CASE Len(wire) = Len(w)
      <4>1. \A i, j \in Nat : i + j >= j
        OBVIOUS
      <4>2. Len(taken) + Len(wire) >= Len(wire)
        BY <1>7, <4>1, Zenon
      <4> QED BY <1>3, <3>1, <4>2, Zenon
    <3>2. CASE Len(wire) < Len(w)
      <4>1. sent \notin torn => Len(taken) + Len(wire) >= Len(w)
        BY <1>2, <1>3, <3>2 DEF LineInv, InTime
      <4> QED BY <1>3, <4>1, Zenon
    <3>3. \A i, j \in Nat : i <= j => i = j \/ i < j
      OBVIOUS
    <3> QED BY <1>3, <1>7, <3>1, <3>2, <3>3, Zenon
  <2>5. InTime'
    BY <1>2, <1>3, <1>12, <2>4 DEF InTime
  <2>6. wire' = <<>> => sent \in torn
    <3>1. ASSUME wire' = <<>>
          PROVE  Len(taken') + Len(wire') < Len(w)
      <4>1. Len(wire') = 0
        BY <3>1
      <4>2. \A i, j \in Nat : 0 + i <= i + j
        OBVIOUS
      <4>3. Len(wire') + Len(packet.start) <= Len(w)
        BY <1>7, <4>1, <4>2, Zenon
      <4> QED BY <2>2, <4>3
    <3>2. \A i, j, k \in Nat : ~(i + j < k /\ i + j >= k)
      OBVIOUS
    <3> QED BY <1>7, <2>4, <3>1, <3>2, Zenon
  <2>7. OnlyTornFramesLost'
    BY <1>3, <1>5, <2>6 DEF LineInv, OnlyTornFramesLost
  <2>8. Within'
    BY <1>12 DEF Within
  <2> QED BY <1>9, <1>10, <2>3, <2>5, <2>7, <2>8, Zenon DEF LineInv
<1> QED BY <1>4, <1>11, <1>12

\* The frame on the line is returned.
LEMMA FrameDone ==
    ASSUME LineInv, ~noise, sent > 0, OnTheWire', noise' = noise, sent' = sent,
           torn' = torn, wire # <<>>, wire' = <<>>, pc' = "idle", got' = Append(got, sent)
    PROVE  LineInv' /\ Kept
<1>1. /\ sent \in Nat /\ got \in Seq(Nat)
      /\ \A k \in 1 .. Len(got) : got[k] \in 1 .. sent /\ got[k] < sent
      /\ \A n \in 1 .. sent :
             n < sent => n \in torn \/ \E k \in 1 .. Len(got) : got[k] = n
  BY DEF LineInv, OnTheWire, Received, OnlyTornFramesLost
<1>2. /\ got' \in Seq(Nat) /\ Len(got') = Len(got) + 1 /\ got'[Len(got) + 1] = sent
      /\ \A k \in 1 .. Len(got) : got'[k] = got[k]
      /\ Len(got) \in Nat
  BY <1>1, AppendProperties
<1>3. Received'
  <2>1. \A k \in 1 .. Len(got') : k \in 1 .. Len(got) \/ k = Len(got) + 1
    BY <1>2
  <2>2. \A k \in 1 .. Len(got') : got'[k] \in 1 .. sent
    BY <1>1, <1>2, <2>1
  <2> QED BY <1>2, <2>2 DEF Received
<1>4. OnlyTornFramesLost'
  <2>1. \A k \in 1 .. Len(got) : k \in 1 .. Len(got')
    BY <1>2
  <2>2. Len(got) + 1 \in 1 .. Len(got')
    BY <1>2
  <2>3. ASSUME NEW n \in 1 .. sent
        PROVE  n \in torn \/ \E k \in 1 .. Len(got') : got'[k] = n
    <3>1. CASE n = sent
      BY <1>2, <2>2, <3>1
    <3>2. CASE n < sent
      BY <1>1, <1>2, <2>1, <3>2
    <3> QED BY <1>1, <3>1, <3>2
  <2> QED BY <2>3 DEF OnlyTornFramesLost
<1>5. Silent' /\ Behind' /\ Within' /\ InTime'
  BY DEF Silent, Behind, Within, InTime
<1>6. Kept
  BY DEF Kept
<1> QED BY <1>3, <1>4, <1>5, <1>6 DEF LineInv

\* More of the payload on the line is stored.
LEMMA FrameGoesOn ==
    ASSUME LineInv, ~noise, sent > 0, OnTheWire', noise' = noise, sent' = sent,
           torn' = torn, frame' = frame, packet' = packet, pc' \in {"length", "delimiter"},
           wire # <<>>, wire' # <<>>, buf' \o wire' = frame \o packet.end, got' = got
    PROVE  LineInv' /\ Kept
<1>1. Received' /\ OnlyTornFramesLost'
  BY DEF LineInv, Received, OnlyTornFramesLost
<1>2. Silent' /\ Behind' /\ InTime'
  BY DEF Silent, Behind, InTime
<1>3. Within'
  BY DEF Within
<1>4. Kept
  BY DEF Kept
<1> QED BY <1>1, <1>2, <1>3, <1>4 DEF LineInv

\* A part of a payload of fixed length is read, or the rest of it.
LEMMA LengthOnLine ==
    ASSUME IInv, LineInv, ~noise, NEW bs \in Seq(Byte), ReadLength(bs), Arrive(bs)
    PROVE  LineInv' /\ Kept
<1>1. /\ pc = "length" /\ packet' = packet /\ taken' = taken \o bs
      /\ Len(bs) \in 1 .. packet.length - Len(buf)
      /\ IF Len(buf) + Len(bs) = packet.length
         THEN Return("frame", buf \o bs)
         ELSE buf' = buf \o bs /\ UNCHANGED <<pc, result, payload>>
  BY DEF ReadLength, Take
<1>2. Len(bs) > 0 /\ buf \in Seq(Byte) /\ Len(buf) \in Nat /\ Len(bs) \in Nat
  BY <1>1 DEF IInv, TypeOK
<1>3. /\ packet \in Formats /\ sent > 0 /\ frame \in Sendable(packet)
      /\ noise' = noise /\ sent' = sent /\ frame' = frame /\ torn' = torn
      /\ wire' \in Seq(Byte) /\ wire = bs \o wire' /\ wire # <<>> /\ OnTheWire'
      /\ got' = IF pc' = "idle" /\ result' = "frame"
                THEN Append(got, IF wire' = <<>> /\ payload' = frame THEN sent ELSE 0)
                ELSE got
  BY <1>1, <1>2, Reading
<1>4. packet.end = <<>> /\ buf \o wire = frame \o packet.end
  BY <1>1 DEF IInv, Collecting, UseEnd, LineInv, Within
<1>5. frame \in Seq(Byte) /\ Len(frame) = packet.length /\ Len(frame) \in Nat
  <2>1. frame \in Seq(Byte) /\ Len(frame) \in Nat
    BY <1>3, FrameParts, Zenon
  <2> QED BY <1>3, <1>4, <2>1 DEF Sendable
<1>6. frame \o packet.end = frame
  BY <1>4, <1>5, ConcatEmptySeq
<1>7. (buf \o bs) \o wire' = frame
  BY <1>2, <1>3, <1>4, <1>6, Associative, Zenon
<1>8. /\ buf \o bs \in Seq(Byte) /\ Len(buf \o bs) = Len(buf) + Len(bs)
      /\ Len(frame) = Len(buf \o bs) + Len(wire') /\ Len(wire') \in Nat
  <2>1. buf \o bs \in Seq(Byte) /\ Len(buf \o bs) = Len(buf) + Len(bs)
    BY <1>2, FollowsFirst
  <2>2. Len((buf \o bs) \o wire') = Len(buf \o bs) + Len(wire')
    BY <1>3, <2>1, FollowsFirst
  <2> QED BY <1>3, <1>7, <2>1, <2>2
<1>9. Len(buf) + Len(bs) = packet.length <=> wire' = <<>>
  <2>1. wire' = <<>> <=> Len(wire') = 0
    BY <1>3
  <2>2. \A i, j, k \in Nat : j = i + k => (i = j <=> k = 0)
    OBVIOUS
  <2>3. Len(buf \o bs) \in Nat
    BY <1>8
  <2> QED BY <1>5, <1>8, <2>1, <2>2, <2>3, Zenon
<1>10. CASE wire' = <<>>
  <2>1. pc' = "idle" /\ result' = "frame" /\ payload' = buf \o bs
    BY <1>1, <1>9, <1>10 DEF Return
  <2>2. payload' = frame
    BY <1>7, <1>8, <1>10, <2>1, ConcatEmptySeq
  <2>3. got' = Append(got, sent)
    BY <1>3, <1>10, <2>1, <2>2
  <2> QED BY <1>3, <1>10, <2>1, <2>3, FrameDone
<1>11. CASE wire' # <<>>
  <2>1. buf' = buf \o bs /\ pc' = "length"
    BY <1>1, <1>9, <1>11
  <2>2. got' = got
    BY <1>3, <2>1
  <2>3. buf' \o wire' = frame \o packet.end
    BY <1>6, <1>7, <2>1, Zenon
  <2> QED BY <1>1, <1>3, <1>11, <2>1, <2>2, <2>3, FrameGoesOn
<1> QED BY <1>10, <1>11

\* A byte of a payload that ends with the end sequence is read.
LEMMA DelimiterOnLine ==
    ASSUME IInv, LineInv, ~noise, NEW b \in Byte, ReadDelimiter(b), Arrive(<<b>>)
    PROVE  LineInv' /\ Kept
<1>0. PICK bs : bs = <<b>>
  OBVIOUS
<1> DEFINE more == buf \o bs
           whole == frame \o packet.end
<1>1. bs \in Seq(Byte) /\ Len(bs) = 1 /\ Len(bs) > 0
  BY <1>0
<1>2. /\ pc = "delimiter" /\ packet' = packet /\ taken' = taken \o bs /\ Arrive(bs)
      /\ buf \in Seq(Byte) /\ Append(buf, b) = more
  BY <1>0, AppendIsConcat DEF ReadDelimiter, Take, IInv, TypeOK
<1>3. /\ packet \in Formats /\ sent > 0 /\ frame \in Sendable(packet)
      /\ noise' = noise /\ sent' = sent /\ frame' = frame /\ torn' = torn
      /\ wire \in Seq(Byte) /\ wire' \in Seq(Byte) /\ wire = bs \o wire' /\ wire # <<>>
      /\ OnTheWire'
      /\ got' = IF pc' = "idle" /\ result' = "frame"
                THEN Append(got, IF wire' = <<>> /\ payload' = frame THEN sent ELSE 0)
                ELSE got
  BY <1>1, <1>2, Reading
<1>4. packet.end # <<>> /\ buf \o wire = whole /\ Cap = Room(packet)
  BY <1>2, PacketTypes DEF IInv, Collecting, UseEnd, LineInv, Within
<1>5. /\ frame \in Seq(Byte) /\ Len(frame) \in Nat /\ packet.end \in Seq(Byte)
      /\ Len(packet.end) \in Nat /\ whole \in Seq(Byte)
      /\ Len(whole) = Len(frame) + Len(packet.end) /\ Len(whole) \in Nat
  BY <1>3, FrameParts, Zenon
<1>6. Len(whole) <= Room(packet) /\ FirstMatch(packet.end, whole) = Len(whole)
  <2>1. /\ Len(frame) + Len(packet.end) <= Room(packet)
        /\ FirstMatch(packet.end, whole) = Len(frame) + Len(packet.end)
    BY <1>3, <1>4, Zenon DEF Sendable
  <2> HIDE DEF whole
  <2> QED BY <1>5, <2>1, Zenon
<1>7. more \in Seq(Byte) /\ Len(more) = Len(buf) + 1 /\ Len(more) \in Nat /\ Len(buf) \in Nat
  <2>1. more \in Seq(Byte) /\ Len(more) = Len(buf) + Len(bs)
    BY <1>1, <1>2, FollowsFirst
  <2> HIDE DEF more
  <2>2. Len(more) \in Nat /\ Len(buf) \in Nat
    BY <1>2, <2>1
  <2> QED BY <1>1, <2>1, <2>2, Zenon
<1>8. more \o wire' = whole
  BY <1>1, <1>2, <1>3, <1>4, Associative, Zenon
<1>6a. EndsAt(packet.end, whole, Len(whole)) /\ SubSeq(whole, 1, Len(frame)) = frame
  <2>1. Follows(whole, packet.end)
    BY <1>5, FollowsFirst
  <2>2. SubSeq(whole, 1, Len(frame)) = frame
    BY <1>5, FrontPart
  <2> HIDE DEF whole
  <2> QED BY <2>1, <2>2 DEF Follows, EndsAt
<1> HIDE DEF whole
<1>9. Len(whole) = Len(more) + Len(wire') /\ Len(wire') \in Nat
  <2> HIDE DEF more
  <2>1. Len(more \o wire') = Len(more) + Len(wire')
    BY <1>3, <1>7, FollowsFirst
  <2>2. Len(wire') \in Nat
    BY <1>3
  <2> QED BY <1>8, <2>1, <2>2, Zenon
<1>10. Len(buf) < Cap
  <2>1. PacketAssumption => Room(packet) \in Nat
    BY <1>3 DEF PacketAssumption, Room, Formats
  <2>2. \A i, j, k, n \in Nat : (i + 1) + j <= n => i < n
    OBVIOUS
  <2>3. (Len(buf) + 1) + Len(wire') <= Room(packet)
    BY <1>6, <1>7, <1>9, Zenon
  <2> QED BY <1>4, <1>7, <1>9, <2>1, <2>2, <2>3, PacketAssumption, Zenon
<1>11. IF MatchTail(more, packet.end)
       THEN Return("frame", SubSeq(more, 1, Len(more) - Len(packet.end)))
       ELSE buf' = more /\ UNCHANGED <<pc, result, payload>>
  <2>1. \/ Len(buf) >= Cap /\ Return("ERR_ARG", <<>>)
        \/ /\ Len(buf) < Cap
           /\ IF MatchTail(more, packet.end)
              THEN Return("frame", SubSeq(more, 1, Len(more) - Len(packet.end)))
              ELSE buf' = more /\ UNCHANGED <<pc, result, payload>>
    BY <1>2, Zenon DEF ReadDelimiter
  <2>2. ~(Len(buf) >= Cap)
    <3>1. Cap \in Nat
      BY PacketTypes DEF IInv
    <3>2. \A i, j \in Nat : i < j => ~(i >= j)
      OBVIOUS
    <3> QED BY <1>7, <1>10, <3>1, <3>2, Zenon
  <2> HIDE DEF more
  <2> QED BY <2>1, <2>2, Zenon
<1>12. MatchTail(more, packet.end) <=> EndsAt(packet.end, whole, Len(more))
  <2> HIDE DEF more
  <2>1. MatchTail(more, packet.end) <=> EndsAt(packet.end, more, Len(more))
    BY <1>4, <1>5, <1>7, MatchTailEnds
  <2>2. Len(more) \in 0 .. Len(more)
    BY <1>7
  <2>3. EndsAt(packet.end, more \o wire', Len(more)) <=> EndsAt(packet.end, more, Len(more))
    BY <1>3, <1>5, <1>7, <2>2, EndsKept
  <2> QED BY <1>8, <2>1, <2>3, Zenon
<1>13. MatchTail(more, packet.end) <=> wire' = <<>>
  <2> HIDE DEF more
  <2>1. wire' = <<>> <=> Len(more) = Len(whole)
    <3>1. \A i, j, k \in Nat : i = j + k => (k = 0 <=> j = i)
      OBVIOUS
    <3>2. wire' = <<>> <=> Len(wire') = 0
      BY <1>3
    <3> QED BY <1>5, <1>7, <1>9, <3>1, <3>2, Zenon
  <2>2. ASSUME EndsAt(packet.end, whole, Len(more))
        PROVE  Len(more) = Len(whole)
    <3>1. Len(more) \in 0 .. Len(whole)
      <4>1. \A i, j, k \in Nat : i = j + k => j \in 0 .. i
        OBVIOUS
      <4> QED BY <1>5, <1>7, <1>9, <4>1, Zenon
    <3>2. Len(whole) <= Len(more)
      <4>1. FirstMatch(packet.end, whole) <= Len(more)
        BY <1>5, <2>2, <3>1, FirstBefore
      <4> QED BY <1>6, <4>1, Zenon
    <3>3. \A i \in Nat : \A j \in 0 .. i : i <= j => j = i
      OBVIOUS
    <3> QED BY <1>5, <3>1, <3>2, <3>3, Zenon
  <2> QED BY <1>12, <1>6a, <2>1, <2>2, Zenon
<1>14. CASE wire' = <<>>
  <2>1. /\ pc' = "idle" /\ result' = "frame"
        /\ payload' = SubSeq(more, 1, Len(more) - Len(packet.end))
    BY <1>11, <1>13, <1>14 DEF Return
  <2>2. more = whole
    BY <1>7, <1>8, <1>14, ConcatEmptySeq
  <2>3. payload' = frame
    <3>1. \A i, j \in Nat : (i + j) - j = i
      OBVIOUS
    <3>2. Len(whole) - Len(packet.end) = Len(frame)
      BY <1>5, <3>1, Zenon
    <3> HIDE DEF more
    <3> QED BY <1>6a, <2>1, <2>2, <3>2, Zenon
  <2>4. got' = Append(got, sent)
    BY <1>3, <1>14, <2>1, <2>3
  <2> QED BY <1>3, <1>14, <2>1, <2>4, FrameDone
<1>15. CASE wire' # <<>>
  <2>1. buf' = more /\ pc' = "delimiter"
    BY <1>2, <1>11, <1>13, <1>15
  <2>2. got' = got
    BY <1>3, <2>1
  <2>3. buf' \o wire' = frame \o packet.end
    BY <1>8, <2>1, Zenon DEF whole
  <2> HIDE DEF more
  <2> QED BY <1>2, <1>3, <1>15, <2>1, <2>2, <2>3, FrameGoesOn
<1> QED BY <1>14, <1>15

\* What a call that looks for a start has read when the line is empty: no more than
\* the end of a frame.
LEMMA BehindOne ==
    ASSUME IInv, LineInv, ~noise, wire = <<>>, pc = "seek", NEW q \in Sendable(packet)
    PROVE  \E p \in Sendable(packet) : Follows(Wrapped(packet, p), taken)
<1>1. packet \in Formats /\ taken \in Seq(Byte)
  BY PacketTypes DEF IInv, TypeOK
<1>2. CASE sent = 0
  <2>1. taken = <<>>
    BY <1>2 DEF LineInv, Behind
  <2>2. Wrapped(packet, q) \in Seq(Byte)
    BY <1>1, FrameParts, Zenon
  <2>3. Follows(Wrapped(packet, q), taken)
    BY <2>1, <2>2 DEF Follows
  <2> QED BY <2>3
<1>3. CASE sent # 0
  <2> DEFINE v == Wrapped(packet, frame)
  <2>1. /\ frame \in Sendable(packet)
        /\ \E p \in Sendable(packet) : Follows(Wrapped(packet, p) \o v, taken \o wire)
        /\ Len(wire) + Len(packet.start) <= Len(v) => Len(taken) + Len(wire) < Len(v)
    BY <1>3 DEF LineInv, Behind, OnTheWire
  <2>2. PICK p \in Sendable(packet) : Follows(Wrapped(packet, p) \o v, taken \o wire)
    BY <2>1
  <2>3. /\ v \in Seq(Byte) /\ Len(v) \in Nat /\ Len(packet.start) \in Nat
        /\ Len(v) >= Len(packet.start)
    BY <1>1, <2>1, FrameParts, Zenon
  <2>4. Wrapped(packet, p) \in Seq(Byte)
    BY <1>1, FrameParts, Zenon
  <2> HIDE DEF v
  <2>5. Len(taken) <= Len(v)
    <3>1. Len(wire) = 0 /\ Len(taken) \in Nat
      BY <1>1
    <3>2. \A i, j, k \in Nat : i >= j /\ (0 + j <= i => k + 0 < i) => k <= i
      OBVIOUS
    <3> QED BY <2>1, <2>3, <3>1, <3>2, Zenon
  <2>6. Follows(Wrapped(packet, p) \o v, taken)
    <3>1. taken \o wire = taken
      BY <1>1, ConcatEmptySeq
    <3> QED BY <2>2, <3>1, Zenon
  <2>7. Wrapped(packet, p) \o v \in Seq(Byte) /\ Follows(Wrapped(packet, p) \o v, v)
    BY <2>3, <2>4, FollowsFirst
  <2>8. Follows(v, taken)
    BY <1>1, <2>3, <2>5, <2>6, <2>7, FollowsLonger
  <2> QED BY <2>1, <2>8 DEF v
<1> QED BY <1>2, <1>3

\* The next frame is sent.
LEMMA SendOnLine ==
    ASSUME IInv, LineInv, Send
    PROVE  LineInv' /\ sent \in Nat /\ sent' = sent + 1 /\ got' = got
<1> DEFINE w == Wrapped(packet, frame')
<1>1. /\ ~noise /\ wire = <<>> /\ noise' = noise /\ sent' = sent + 1
      /\ got' = got /\ torn' = torn
      /\ packet' = packet /\ pc' = pc /\ taken' = taken
      /\ frame' \in Payloads /\ wire' = Frame(frame')
  BY DEF Send, vars
<1>2. /\ packet.hexOk /\ UseStart /\ sent \in Nat /\ packet \in Formats
      /\ taken \in Seq(Byte) /\ TypeOK
  BY <1>1, PacketTypes DEF IInv, TypeOK, LineInv, OnTheWire
<1>3. frame' \in Sendable(packet) /\ wire' = w
  BY <1>1, <1>2, SameFrames
<1>4. /\ w \in Seq(Byte) /\ Len(w) \in Nat /\ Len(packet.start) \in Nat
      /\ Len(w) >= Len(packet.start) /\ packet.start \in Seq(Byte)
  BY <1>2, <1>3, FrameParts, Zenon
<1>5. Len(packet.start) > 0
  BY <1>2, <1>4 DEF UseStart
<1>6. wire' # <<>> /\ sent' # 0 /\ sent' \in Nat
  <2>1. Len(wire') # 0
    <3> HIDE DEF w
    <3> QED BY <1>3, <1>4, <1>5
  <2> HIDE DEF w
  <2> QED BY <1>1, <1>2, <2>1
<1>7. OnTheWire'
  <2>1. Follows(w, w)
    <3> HIDE DEF w
    <3> QED BY <1>4 DEF Follows
  <2>2. Follows(Wrapped(packet', frame'), wire')
    BY <1>1, <1>3, <2>1, Zenon
  <2>3. wire' \in Seq(Byte) /\ frame' \in Sendable(packet')
    BY <1>1, <1>3, <1>4, Zenon
  <2> QED BY <1>1, <1>2, <1>6, <2>2, <2>3, Zenon DEF OnTheWire, UseStart
<1>8. Behind'
  <2> SUFFICES ASSUME pc = "seek"
               PROVE  /\ \E p \in Sendable(packet') :
                             Follows(Wrapped(packet', p) \o Wrapped(packet', frame'),
                                     taken' \o wire')
                      /\ Len(wire') + Len(packet'.start) > Len(Wrapped(packet', frame'))
    <3>1. \A i, j \in Nat : i > j => ~(i <= j)
      OBVIOUS
    <3>2. /\ Len(wire') + Len(packet'.start) \in Nat
          /\ Len(Wrapped(packet', frame')) \in Nat
      <4>1. Len(wire') = Len(w) /\ packet' = packet
        BY <1>1, <1>3
      <4>2. \A i, j \in Nat : i + j \in Nat
        OBVIOUS
      <4> QED BY <1>4, <4>1, <4>2, Zenon
    <3> QED BY <1>1, <1>6, <3>1, <3>2, Zenon DEF Behind
  <2>1. PICK p \in Sendable(packet) : Follows(Wrapped(packet, p), taken)
    BY <1>1, <1>3, BehindOne
  <2>2. Wrapped(packet, p) \in Seq(Byte)
    BY <1>2, FrameParts, Zenon
  <2>3. Follows(Wrapped(packet, p) \o w, taken \o w)
    <3> HIDE DEF w
    <3> QED BY <1>2, <1>4, <2>1, <2>2, FollowsMore
  <2>4. Follows(Wrapped(packet', p) \o Wrapped(packet', frame'), taken' \o wire')
    BY <1>1, <1>3, <2>3, Zenon
  <2>5. Len(w) + Len(packet.start) > Len(w)
    <3>1. \A i, j \in Nat : j > 0 => i + j > i
      OBVIOUS
    <3> QED BY <1>4, <1>5, <3>1, Zenon
  <2> QED BY <1>1, <1>3, <2>4, <2>5, Zenon
<1>9. Within'
  BY <1>1 DEF LineInv, Within
<1>10. Received'
  <2>1. got \in Seq(Nat) /\ \A k \in 1 .. Len(got) : got[k] \in 1 .. sent
    BY <1>1 DEF LineInv, Received
  <2>2. \A i \in 1 .. sent : i \in 1 .. sent + 1 /\ i < sent + 1
    BY <1>2
  <2> QED BY <1>1, <2>1, <2>2 DEF Received
<1>11. InTime'
  <2>1. ~(Len(wire') < Len(Wrapped(packet', frame')))
    <3>1. \A i \in Nat : ~(i < i)
      OBVIOUS
    <3> QED BY <1>1, <1>3, <1>4, <3>1, Zenon
  <2> QED BY <2>1, Zenon DEF InTime
<1>12. OnlyTornFramesLost'
  <2>1. \A n \in 1 .. sent : n \in torn \/ \E k \in 1 .. Len(got) : got[k] = n
    BY <1>1 DEF LineInv, OnlyTornFramesLost
  <2>2. \A n \in 1 .. sent + 1 : n < sent + 1 => n \in 1 .. sent
    BY <1>2
  <2> QED BY <1>1, <1>6, <2>1, <2>2 DEF OnlyTornFramesLost
<1>13. Silent'
  BY <1>1 DEF Silent
<1> QED BY <1>1, <1>2, <1>7, <1>8, <1>9, <1>10, <1>11, <1>12, <1>13, Zenon DEF LineInv

\* A call begins, or finds its parameters wrong.
LEMMA CallOnLine ==
    ASSUME IInv, LineInv, StartCall
    PROVE  LineInv' /\ Kept
<1>1. /\ noise' = noise /\ sent' = sent /\ frame' = frame /\ wire' = wire
      /\ got' = got /\ torn' = torn
  BY DEF StartCall, lineVars
<1>2. /\ pc = "idle" /\ packet' = packet /\ taken' = <<>>
      /\ UseStart => pc' \in {"idle", "seek"}
  BY DEF StartCall, Call, BadConfig, Return
<1>3. Silent' /\ Kept
  BY <1>1 DEF LineInv, Silent, Kept
<1>4. ASSUME ~noise
      PROVE  LineInv'
  <2>1. pc' \in {"idle", "seek"} /\ packet \in Formats
    BY <1>2, <1>4, PacketTypes DEF LineInv, OnTheWire, IInv
  <2>2. OnTheWire' /\ Received' /\ OnlyTornFramesLost' /\ Within'
    BY <1>1, <1>2, <1>4, <2>1
    DEF LineInv, OnTheWire, Received, OnlyTornFramesLost, Within, UseStart
  <2>3. InTime'
    BY <1>1, <1>2, <1>4 DEF LineInv, InTime
  <2>4. ASSUME sent # 0
        PROVE  /\ frame \in Sendable(packet)
               /\ Follows(Wrapped(packet, frame) \o Wrapped(packet, frame), <<>> \o wire)
               /\ Len(wire) + Len(packet.start) <= Len(Wrapped(packet, frame)) =>
                      Len(<<>>) + Len(wire) < Len(Wrapped(packet, frame))
    <3> DEFINE w == Wrapped(packet, frame)
    <3>1. /\ frame \in Sendable(packet) /\ wire \in Seq(Byte) /\ Follows(w, wire)
          /\ packet.start # <<>>
      BY <1>4, <2>4 DEF LineInv, OnTheWire, UseStart
    <3>2. /\ w \in Seq(Byte) /\ Len(w) \in Nat /\ packet.start \in Seq(Byte)
          /\ Len(packet.start) \in Nat
      BY <2>1, <3>1, FrameParts, Zenon
    <3> HIDE DEF w
    <3>3. w \o w \in Seq(Byte) /\ Follows(w \o w, w)
      BY <3>2, FollowsFirst
    <3>4. Follows(w \o w, <<>> \o wire)
      <4>1. <<>> \o wire = wire
        BY <3>1, ConcatEmptySeq
      <4>2. Follows(w \o w, wire)
        BY <3>1, <3>2, <3>3, FollowsFollowing
      <4> QED BY <4>1, <4>2, Zenon
    <3>5. Len(wire) + Len(packet.start) <= Len(w) => Len(<<>>) + Len(wire) < Len(w)
      <4>1. Len(packet.start) > 0 /\ Len(<<>>) = 0 /\ Len(wire) \in Nat
        BY <3>1, <3>2
      <4>2. \A i, j, k \in Nat : j > 0 /\ i + j <= k => 0 + i < k
        OBVIOUS
      <4> QED BY <3>2, <4>1, <4>2, Zenon
    <3> QED BY <3>1, <3>4, <3>5 DEF w
  <2>5. Behind'
    BY <1>1, <1>2, <2>4, Zenon DEF Behind
  <2> QED BY <1>3, <2>2, <2>3, <2>5 DEF LineInv
<1> QED BY <1>1, <1>3, <1>4 DEF LineInv

\* A call gives up.
LEMMA GiveUpOnLine ==
    ASSUME IInv, LineInv, GiveUp
    PROVE  LineInv' /\ Kept
<1>1. /\ noise' = noise /\ sent' = sent /\ frame' = frame /\ wire' = wire /\ got' = got
      /\ IF Len(wire) \in 1 .. Len(Frame(frame)) - 1 THEN torn' = torn \cup {sent}
                                                      ELSE torn' = torn
  BY DEF GiveUp
<1>2. pc' = "idle" /\ packet' = packet
  BY DEF GiveUp, ReadFails, Return
<1>3. Silent' /\ Kept
  BY <1>1 DEF LineInv, Silent, Kept
<1>4. ASSUME ~noise
      PROVE  LineInv'
  <2>1. OnTheWire' /\ Received' /\ Within' /\ Behind'
    BY <1>1, <1>2, <1>4 DEF LineInv, OnTheWire, Received, Within, Behind, UseStart
  <2>2. \A n : n \in torn => n \in torn'
    BY <1>1
  <2>3. OnlyTornFramesLost'
    BY <1>1, <1>4, <2>2 DEF LineInv, OnlyTornFramesLost
  <2>4. ASSUME wire # <<>>, Len(wire) < Len(Wrapped(packet, frame))
        PROVE  sent \in torn'
    <3>1. /\ sent # 0 /\ frame \in Sendable(packet) /\ wire \in Seq(Byte)
          /\ packet \in Formats
      BY <1>4, <2>4, PacketTypes DEF LineInv, OnTheWire, IInv
    <3>2. Len(Wrapped(packet, frame)) \in Nat
      BY <3>1, FrameParts, Zenon
    <3>3. Frame(frame) = Wrapped(packet, frame)
      BY DEF Frame, Wrapped
    <3>4. Len(wire) \in Nat /\ Len(wire) # 0
      BY <2>4, <3>1
    <3>5. \A i, j \in Nat : i # 0 /\ i < j => i \in 1 .. j - 1
      OBVIOUS
    <3>6. Len(wire) \in 1 .. Len(Frame(frame)) - 1
      BY <2>4, <3>2, <3>3, <3>4, <3>5, Zenon
    <3> QED BY <1>1, <3>6
  <2>5. InTime'
    BY <1>1, <1>2, <2>4, Zenon DEF InTime
  <2> QED BY <1>3, <2>1, <2>3, <2>5 DEF LineInv
<1> QED BY <1>1, <1>3, <1>4 DEF LineInv

\* On a noisy line nothing is returned that was sent.
LEMMA NoiseOnLine ==
    ASSUME LineInv, noise, NEW bs, Arrive(bs)
    PROVE  LineInv' /\ Kept
BY DEF Arrive, LineInv, Silent, Kept

\* Every step.
LEMMA StepOnLine ==
    ASSUME IInv, IInv', LineInv, StreamNext
    PROVE  /\ LineInv'
           /\ Kept \/ (sent \in Nat /\ sent' = sent + 1 /\ got' = got)
<1>1. CASE Send
  BY <1>1, SendOnLine
<1>2. CASE StartCall
  BY <1>2, CallOnLine
<1>3. CASE TakeByte
  <2>1. PICK b \in Byte : (Seek(b) \/ ReadDelimiter(b)) /\ Arrive(<<b>>)
    BY <1>3 DEF TakeByte
  <2>2. CASE noise
    BY <2>1, <2>2, NoiseOnLine
  <2>3. CASE ~noise
    BY <2>1, <2>3, SeekOnLine, DelimiterOnLine
  <2> QED BY <2>2, <2>3
<1>4. CASE TakeBytes
  <2>1. PICK n \in 1 .. OutSize : \E bs \in [1 .. n -> Byte] : ReadLength(bs) /\ Arrive(bs)
    BY <1>4 DEF TakeBytes
  <2>2. PICK bs \in [1 .. n -> Byte] : ReadLength(bs) /\ Arrive(bs)
    BY <2>1
  <2>3. bs \in Seq(Byte)
    BY PacketAssumption
  <2>4. CASE noise
    BY <2>2, <2>4, NoiseOnLine
  <2>5. CASE ~noise
    BY <2>2, <2>3, <2>5, LengthOnLine
  <2> QED BY <2>4, <2>5
<1>5. CASE GiveUp
  BY <1>5, GiveUpOnLine
<1> QED BY <1>1, <1>2, <1>3, <1>4, <1>5 DEF StreamNext

\* Before the first step.
LEMMA InitOnLine == StreamInit => LineInv
<1> SUFFICES ASSUME StreamInit PROVE LineInv
  OBVIOUS
<1>1. /\ pc = "idle" /\ sent = 0 /\ wire = <<>> /\ got = <<>>
      /\ ~noise => packet.hexOk /\ UseStart
  BY DEF StreamInit, Init
<1>2. Silent /\ Behind /\ Within /\ InTime
  BY <1>1 DEF Silent, Behind, Within, InTime
<1>3. Received /\ OnlyTornFramesLost
  BY <1>1 DEF Received, OnlyTornFramesLost
<1>4. ~noise => OnTheWire
  BY <1>1 DEF OnTheWire
<1> QED BY <1>2, <1>3, <1>4 DEF LineInv

(***************************************************************************)
(* The theorems.                                                           *)
(***************************************************************************)

\* What is on the line, what the running call has read of it and what was returned
\* agree, whatever is sent and whenever calls begin and give up.
THEOREM LineInvariance == StreamSpec => []LineInv
<1>1. StreamInit => LineInv
  BY InitOnLine
<1>2. IInv /\ IInv' /\ LineInv /\ [StreamNext]_streamVars => LineInv'
  <2> SUFFICES ASSUME IInv, IInv', LineInv, [StreamNext]_streamVars PROVE LineInv'
    OBVIOUS
  <2>1. CASE UNCHANGED streamVars
    BY <2>1 DEF streamVars, vars, lineVars, LineInv, Silent, OnTheWire, Behind, Within,
                Received, InTime, OnlyTornFramesLost, UseStart
  <2>2. CASE StreamNext
    BY <2>2, StepOnLine
  <2> QED BY <2>1, <2>2
<1> QED BY <1>1, <1>2, Invariance, PTL DEF StreamSpec

\* A call that gives up costs the frame it had begun to read and no other: every
\* other frame that has been read from the line was returned.
THEOREM FramesKept == StreamSpec => []OnlyTornFramesLost
<1>1. LineInv => OnlyTornFramesLost
  BY DEF LineInv, Silent, OnlyTornFramesLost
<1> QED BY <1>1, LineInvariance, PTL

\* The calls of uart_read_packet on a sender's line return its frames whole, at most
\* once and in the order they were sent.
THEOREM Implementation == StreamSpec => ImplementsLine
<1> DEFINE cv == <<[b \in {"line"} |-> sent], [b \in {"line"} |-> got]>>
<1>1. StreamInit => Channel!Init
  BY DEF StreamInit, Channel!Init
<1>2. ASSUME IInv, IInv', LineInv, StreamNext
      PROVE  Channel!Next \/ UNCHANGED cv
  <2>1. CASE sent' = sent + 1 /\ got' = got
    BY <2>1 DEF Channel!Next, Channel!Read
  <2>2. CASE sent' = sent /\ got' = got
    BY <2>2
  <2>3. CASE wire # <<>> /\ sent > 0 /\ sent' = sent /\ got' = Append(got, sent)
    <3>0. ~noise
      <4>1. sent # 0
        BY <2>3
      <4> QED BY <1>2, <4>1, Zenon DEF LineInv, Silent
    <3>1. /\ sent \in Nat /\ got \in Seq(Nat)
          /\ \A k \in 1 .. Len(got) : got[k] \in 1 .. sent /\ got[k] < sent
      BY <1>2, <2>3, <3>0 DEF LineInv, OnTheWire, Received
    <3>2. sent \in (IF got = <<>> THEN 0 ELSE got[Len(got)]) + 1 .. sent
      <4>1. CASE got = <<>>
        BY <2>3, <3>1, <4>1
      <4>2. CASE got # <<>>
        <5>1. Len(got) \in 1 .. Len(got)
          BY <3>1, <4>2
        <5>2. got[Len(got)] \in 1 .. sent /\ got[Len(got)] < sent
          BY <3>1, <5>1
        <5> QED BY <2>3, <3>1, <4>2, <5>2
      <4> QED BY <4>1, <4>2
    <3>3. Channel!Deliver("line")
      BY <2>3, <3>2 DEF Channel!Deliver, Channel!Newest
    <3> QED BY <3>3 DEF Channel!Next
  <2> QED BY <1>2, <2>1, <2>2, <2>3, StepOnLine DEF Kept
<1>3. UNCHANGED streamVars => UNCHANGED cv
  BY DEF streamVars, lineVars
<1>4. IInv /\ IInv' /\ LineInv /\ [StreamNext]_streamVars => [Channel!Next]_cv
  BY <1>2, <1>3
<1> QED BY <1>1, <1>4, Invariance, LineInvariance, PTL
        DEF StreamSpec, ImplementsLine, Channel!Spec
=============================================================================
