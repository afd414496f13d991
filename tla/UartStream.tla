------------------------------ MODULE UartStream ------------------------------
(***************************************************************************)
(* Repeated calls of uart_read_packet on one serial line (conn_uart.c).    *)
(* The line either carries arbitrary bytes (noise), which is how one call  *)
(* is checked against what a frame is, or the frames of a sender that uses *)
(* the same packet parameters.  In the second case a call that times out   *)
(* in the middle of a frame drops what it has read, and the question is    *)
(* what the calls after it make of the rest.                               *)
(*                                                                         *)
(* The sender is outside the program; `sent', `got' and `torn' are history *)
(* variables.                                                              *)
(***************************************************************************)
EXTENDS UartPacket

CONSTANTS
    MaxNoise,    \* bound: bytes one call takes from a noisy line
    MaxFrames,   \* bound: frames the sender sends
    MaxGiveUps   \* bound: calls that time out or fail in the middle of a frame

VARIABLES
    noise,    \* the line carries arbitrary bytes
    sent,     \* the frames sent so far
    frame,    \* the latest of them, as its payload
    wire,     \* the bytes of it that have not been read
    got,      \* the frames returned, by their number; 0 is a frame never sent
    torn,     \* the frames some call gave up on after reading a part of them
    gaveUp    \* calls that timed out or failed in the middle of a frame

lineVars == <<noise, sent, frame, wire, got, torn, gaveUp>>
streamVars == <<vars, lineVars>>

Frame(p) == packet.start \o p \o packet.end

\* The start sequence shows where a frame begins, and nothing else looks like it.
StartOnlyAtStart(p) ==
    LET s == Frame(p) \o packet.start
    IN  \A k \in 1 .. Len(s) - Len(packet.start) + 1 :
            SubSeq(s, k, k + Len(packet.start) - 1) = packet.start
                => k \in {1, Len(Frame(p)) + 1}

\* The payloads a sender may use: they have the length, or fit the buffer with an end
\* sequence that shows nowhere before, and they do not imitate the start sequence.
Payloads ==
    {p \in BoundedSeq(Byte, OutSize) :
        /\ IF UseEnd
           THEN /\ Len(p) + Len(packet.end) <= Cap
                /\ FirstMatch(packet.end, p \o packet.end) = Len(p) + Len(packet.end)
           ELSE Len(p) = packet.length
        /\ StartOnlyAtStart(p)}

StreamInit ==
    /\ Init
    /\ noise \in BOOLEAN
    /\ ~noise => packet.hexOk /\ UseStart /\ Payloads # {}
    /\ sent = 0 /\ frame = <<>> /\ wire = <<>>
    /\ got = <<>> /\ torn = {} /\ gaveUp = 0

\* The next frame is on the line once the last one has been read.
Send ==
    /\ ~noise /\ wire = <<>> /\ sent < MaxFrames
    /\ \E p \in Payloads : frame' = p /\ wire' = Frame(p)
    /\ sent' = sent + 1
    /\ UNCHANGED <<vars, noise, got, torn, gaveUp>>

\* The bytes that the call has just taken were the next ones on the line.
Arrive(bs) ==
    /\ IF noise
       THEN Len(taken') <= MaxNoise /\ UNCHANGED <<wire, got>>
       ELSE /\ IsPrefix(bs, wire)
            /\ wire' = SubSeq(wire, Len(bs) + 1, Len(wire))
            /\ got' = IF pc' = "idle" /\ result' = "frame"
                      THEN Append(got, IF wire' = <<>> /\ payload' = frame THEN sent ELSE 0)
                      ELSE got
    /\ UNCHANGED <<noise, sent, frame, torn, gaveUp>>

StartCall == (Call \/ BadConfig) /\ UNCHANGED lineVars

TakeByte == \E b \in Byte : (Seek(b) \/ ReadDelimiter(b)) /\ Arrive(<<b>>)

TakeBytes ==
    \E n \in 1 .. OutSize : \E bs \in [1 .. n -> Byte] : ReadLength(bs) /\ Arrive(bs)

GiveUp ==
    /\ ReadFails
    /\ IF Len(wire) \in 1 .. Len(Frame(frame)) - 1
       THEN gaveUp < MaxGiveUps /\ gaveUp' = gaveUp + 1 /\ torn' = torn \cup {sent}
       ELSE UNCHANGED <<gaveUp, torn>>
    /\ UNCHANGED <<noise, sent, frame, wire, got>>

StreamNext == Send \/ StartCall \/ TakeByte \/ TakeBytes \/ GiveUp

StreamSpec == StreamInit /\ [][StreamNext]_streamVars

(***************************************************************************)
(* Properties.                                                             *)
(***************************************************************************)

\* What a line with timeouts is to its reader: each frame at most once, in order.
Channel == INSTANCE LossyChannel WITH
    Bridges <- {"line"},
    read <- [b \in {"line"} |-> sent],
    got <- [b \in {"line"} |-> got]

\* However often calls give up, and wherever in a frame, the frames that calls return
\* are frames that were sent, whole, at most once and in the order they were sent.
ImplementsLine == Channel!Spec

\* A call that gives up costs the frame it had begun to read and no other: every
\* other frame that has been read from the line was returned.
OnlyTornFramesLost ==
    \A n \in 1 .. sent :
        n < sent \/ wire = <<>> => n \in torn \/ \E k \in 1 .. Len(got) : got[k] = n
=============================================================================
