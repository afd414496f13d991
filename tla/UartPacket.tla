------------------------------ MODULE UartPacket ------------------------------
(***************************************************************************)
(* uart_read_packet (conn_uart.c): the frame that one call takes from a    *)
(* serial line.  The call consumes the line byte by byte, looks for the    *)
(* start sequence through a sliding window, and then collects a payload of *)
(* a given length or up to the end sequence.  Every read may also time out *)
(* or fail; then the call returns and what it has consumed is gone.        *)
(*                                                                         *)
(* `taken' is a history variable: the bytes the latest call has consumed.  *)
(***************************************************************************)
EXTENDS Integers, Sequences, SequencesExt

CONSTANTS
    Byte,      \* the bytes a line carries
    Packets,   \* the packet parameters a call can be made with
    OutSize,   \* out_buf_sz
    MaxTaken   \* bound: bytes one call consumes

\* The start window is kept in out_buf whatever its size is: callers must give a
\* buffer that can hold the start sequence.
ASSUME PacketAssumption ==
    /\ Packets \subseteq [start : Seq(Byte), end : Seq(Byte), length : Nat,
                          hexOk : BOOLEAN]
    /\ OutSize \in Nat /\ MaxTaken \in Nat
    /\ \A p \in Packets : Len(p.start) <= OutSize

VARIABLES
    packet,    \* params->packet: the two sequences as load_delim yields them
    pc,        \* where the call is; "idle" between calls
    buf,       \* out_buf[0 .. pos-1]
    result,    \* how the latest call returned
    payload,   \* what it returned: out_buf[0 .. *out_len - 1]
    taken      \* the bytes it consumed

vars == <<packet, pc, buf, result, payload, taken>>

Results == {"none", "frame", "timeout", "error", "ERR_ARG", "ERR_PACKET_CFG"}

UseStart == packet.start # <<>>
UseEnd == packet.end # <<>>
UseLength == packet.length > 0   \* a length of 0 counts as no length

Cap == IF UseLength /\ packet.length < OutSize THEN packet.length ELSE OutSize

Init ==
    /\ packet \in Packets
    /\ pc = "idle" /\ buf = <<>>
    /\ result = "none" /\ payload = <<>> /\ taken = <<>>

\* A slip: the comparison leaves out the first byte of the sequence.
MatchTailShort(b, pat) == pat # <<>> /\ Len(b) >= Len(pat) /\ IsSuffix(Tail(pat), b)

MatchTail(b, pat) == pat # <<>> /\ IsSuffix(pat, b)

Return(r, p) == pc' = "idle" /\ result' = r /\ payload' = p /\ buf' = <<>>

\* A slip: pos is not reset, the start sequence stays in the buffer.
EnterPayloadKeepsStart(b) ==
    IF UseLength /\ ~UseEnd
    THEN IF packet.length > OutSize
         THEN Return("ERR_ARG", <<>>)
         ELSE pc' = "length" /\ buf' = b /\ UNCHANGED <<result, payload>>
    ELSE IF Cap = 0
         THEN Return("ERR_ARG", <<>>)
         ELSE pc' = "delimiter" /\ buf' = b /\ UNCHANGED <<result, payload>>

\* The payload begins, in an empty buffer, whatever the window b held.
EnterPayload(b) ==
    IF UseLength /\ ~UseEnd
    THEN IF packet.length > OutSize
         THEN Return("ERR_ARG", <<>>)
         ELSE pc' = "length" /\ buf' = <<>> /\ UNCHANGED <<result, payload>>
    ELSE IF Cap = 0
         THEN Return("ERR_ARG", <<>>)
         ELSE pc' = "delimiter" /\ buf' = <<>> /\ UNCHANGED <<result, payload>>

\* A delimiter that is no hex string, or neither an end nor a length.
BadConfig ==
    /\ pc = "idle" /\ (packet.hexOk => ~UseEnd /\ ~UseLength)
    /\ Return("ERR_PACKET_CFG", <<>>)
    /\ taken' = <<>>
    /\ UNCHANGED packet

Call ==
    /\ pc = "idle" /\ packet.hexOk /\ (UseEnd \/ UseLength)
    /\ taken' = <<>>
    /\ IF UseStart THEN pc' = "seek" /\ buf' = <<>> /\ UNCHANGED <<result, payload>>
                   ELSE EnterPayload(<<>>)
    /\ UNCHANGED packet

\* uart_read delivers bytes bs.
Take(bs) == Len(taken) + Len(bs) <= MaxTaken /\ taken' = taken \o bs

\* A slip: a full window is emptied instead of being shifted by one byte.
SeekRestarts(b) ==
    LET window == IF Len(buf) < Len(packet.start) THEN Append(buf, b) ELSE <<b>>
    IN  /\ pc = "seek" /\ Take(<<b>>)
        /\ IF MatchTail(window, packet.start)
           THEN EnterPayload(window)
           ELSE buf' = window /\ UNCHANGED <<pc, result, payload>>
        /\ UNCHANGED packet

\* One byte into the sliding window, until the window is the start sequence.
Seek(b) ==
    LET window == IF Len(buf) < Len(packet.start) THEN Append(buf, b)
                                                  ELSE Append(Tail(buf), b)
    IN  /\ pc = "seek" /\ Take(<<b>>)
        /\ IF MatchTail(window, packet.start)
           THEN EnterPayload(window)
           ELSE buf' = window /\ UNCHANGED <<pc, result, payload>>
        /\ UNCHANGED packet

\* Fixed length: one read returns any part of what is missing.
ReadLength(bs) ==
    /\ pc = "length" /\ Len(bs) \in 1 .. packet.length - Len(buf) /\ Take(bs)
    /\ IF Len(buf) + Len(bs) = packet.length
       THEN Return("frame", buf \o bs)
       ELSE buf' = buf \o bs /\ UNCHANGED <<pc, result, payload>>
    /\ UNCHANGED packet

\* A slip: the buffer is checked one byte too late.
ReadDelimiterLate(b) ==
    LET got == Append(buf, b)
    IN  /\ pc = "delimiter" /\ Take(<<b>>)
        /\ \/ Len(buf) > Cap /\ Return("ERR_ARG", <<>>)
           \/ /\ Len(buf) <= Cap
              /\ IF MatchTail(got, packet.end)
                 THEN Return("frame", SubSeq(got, 1, Len(got) - Len(packet.end)))
                 ELSE buf' = got /\ UNCHANGED <<pc, result, payload>>
        /\ UNCHANGED packet

\* Up to the end sequence, which with the payload must fit the buffer.
ReadDelimiter(b) ==
    LET got == Append(buf, b)
    IN  /\ pc = "delimiter" /\ Take(<<b>>)
        /\ \/ Len(buf) >= Cap /\ Return("ERR_ARG", <<>>)
           \/ /\ Len(buf) < Cap
              /\ IF MatchTail(got, packet.end)
                 THEN Return("frame", SubSeq(got, 1, Len(got) - Len(packet.end)))
                 ELSE buf' = got /\ UNCHANGED <<pc, result, payload>>
        /\ UNCHANGED packet

\* uart_read returns 0, which is also the call's return value (UART_OK with an
\* *out_len of 0), or a negative number.
ReadFails ==
    /\ pc # "idle"
    /\ Return("timeout", <<>>) \/ Return("error", <<>>)
    /\ UNCHANGED <<packet, taken>>

(***************************************************************************)
(* What a frame is, said without a window or a buffer.                     *)
(***************************************************************************)

\* How many bytes of s it takes until pat has been seen for the first time.
FirstMatch(pat, s) ==
    LET seen == {n \in 0 .. Len(s) : IsSuffix(pat, SubSeq(s, 1, n))}
    IN  IF seen = {} THEN -1 ELSE CHOOSE n \in seen : \A m \in seen : n <= m

\* s is everything up to the end of the first frame on the line, and p its payload.
IsFrame(s, p) ==
    LET n == FirstMatch(packet.start, s)
        rest == SubSeq(s, n + 1, Len(s))
    IN  /\ n >= 0
        /\ IF UseEnd
           THEN FirstMatch(packet.end, rest) = Len(rest) /\ rest = p \o packet.end
           ELSE Len(rest) = packet.length /\ p = rest

(***************************************************************************)
(* Properties.                                                             *)
(***************************************************************************)

\* Among the rest: no byte is ever stored beyond out_buf.
TypeOK ==
    /\ packet \in Packets
    /\ pc \in {"idle", "seek", "length", "delimiter"}
    /\ buf \in Seq(Byte) /\ Len(buf) <= OutSize
    /\ result \in Results
    /\ payload \in Seq(Byte) /\ Len(payload) <= OutSize
    /\ taken \in Seq(Byte) /\ Len(taken) <= MaxTaken

\* A payload that is returned is that of the first frame on the line, also when
\* sequences overlap themselves or each other, and nothing after it is consumed.
ReturnsFirstFrame ==
    pc = "idle" /\ result = "frame" => IsFrame(taken, payload)

\* A call that is still reading, or gave up, has not let a complete frame go by
\* that would have fitted its buffer.
NoFrameMissed ==
    (pc # "idle" \/ result # "frame") =>
        \A k \in 0 .. Len(taken), j \in 0 .. Len(taken) :
            LET s == SubSeq(taken, 1, k)
                p == SubSeq(s, j + 1, Len(s) - Len(packet.end))
            IN  packet.hexOk /\ (UseEnd \/ UseLength) /\ IsFrame(s, p)
                    => Len(p) + Len(packet.end) > Cap
=============================================================================
