---------------------------- MODULE UartPortProof -----------------------------
(***************************************************************************)
(* What holds of UartPort for all parameters, settings left over in the    *)
(* port, buffers and timeouts: the descriptor is given back, the framing   *)
(* is the one asked for, and uart_write sends a prefix of its buffer.      *)
(***************************************************************************)
EXTENDS UartPort, SequenceTheorems, TLAPS

USE PortAssumption

\* The descriptor follows the progress of uart_open, and so does its result.
Progress ==
    /\ pc = "open" => fd = "none"
    /\ pc \in {"flags", "speed", "format"} => fd = "open"
    /\ pc \in {"open", "flags", "speed", "format"} => rc = "none"
    /\ pc \in {"ready", "select", "write"} => fd = "open" /\ rc = "OK"
    /\ pc = "failed" => fd # "open" /\ rc \in Errors
    /\ pc = "closed" => rc = "OK"

\* The speed is set before the format, and neither is touched afterwards.
Settled ==
    /\ pc = "format" => line.speed = params.baudrate
    /\ rc = "OK" => OpenedAsAsked

\* uart_write waits no more once it has passed the bound, and is at the end when it
\* says so.
Writing ==
    /\ pc \in {"select", "write"} => waited <= MaxTicks /\ wrote = "none"
    /\ wrote = "none" => waited <= MaxTicks
    /\ pc = "write" => off < Len(Data)
    /\ pc \in {"open", "flags", "speed", "format"} => wrote = "none"

IInv == TypeOK /\ Progress /\ Settled /\ Writing /\ WritesPrefix

\* The bounds of what is counted.
LEMMA Bounds ==
    /\ MaxTicks \in Nat /\ MaxWaited \in Nat /\ MaxTicks <= MaxWaited
    /\ Timeout > 0 => MaxTicks + Timeout <= MaxWaited
    /\ Data \in Seq(Nat) /\ Len(Data) \in Nat
<1>1. CASE Timeout > 0
  BY <1>1 DEF MaxWaited
<1>2. CASE ~(Timeout > 0)
  BY <1>2 DEF MaxWaited
<1> QED BY <1>1, <1>2

(***************************************************************************)
(* The settings.                                                           *)
(***************************************************************************)

\* set_bytesize_parity_stop refuses what the termios structure cannot say.
LEMMA NothingRefused ==
    ASSUME Refusal = "none"
    PROVE  /\ Bytesize \in 5 .. 8 /\ Parity \in {"N", "E", "O", "M", "S"}
           /\ Stopbits \in {"1", "2"} /\ TimeoutMs \in 0 .. MaxTimeout
BY Zenon DEF Refusal

\* The rounding to tenths of a second, cut to the 8 bits of VTIME.
LEMMA VtimeFits ==
    ASSUME NEW ms \in Nat
    PROVE  ((ms + 99) \div 100) % 256 \in 0 .. 255
BY SMT

\* The flags that are given or set to their default are flags.
LEMMA FlagsAreBoolean ==
    ASSUME params \in Params
    PROVE  Rtscts \in BOOLEAN /\ Xonxoff \in BOOLEAN
<1>1. {params.rtscts, params.xonxoff} \subseteq {Unset} \cup BOOLEAN
  OBVIOUS
<1>2. params.rtscts \in {Unset} \cup BOOLEAN /\ params.xonxoff \in {Unset} \cup BOOLEAN
  BY <1>1
<1>3. CASE params.rtscts = Unset
  <2> QED BY <1>2, <1>3 DEF Rtscts, Xonxoff, Default
<1> QED BY <1>2 DEF Rtscts, Xonxoff, Default

\* Every field of the framing is set anew: what the port was left with is gone, and
\* what can be read back from the flags is what was asked for.
LEMMA ConfiguredAsAsked ==
    ASSUME NEW t \in Termios, params \in Params, Refusal = "none"
    PROVE  /\ Configured(t) \in Termios
           /\ Configured(t).speed = t.speed
           /\ Framing(Configured(t)) =
                 [bits |-> Bytesize, parity |-> Parity, stop |-> Stopbits,
                  hardware |-> Rtscts, software |-> Xonxoff]
<1> DEFINE c == Configured(t)
<1> MaxTimeout \in Nat
  BY SMT DEF MaxTimeout
<1>1. /\ Bytesize \in 5 .. 8 /\ Parity \in {"N", "E", "O", "M", "S"}
      /\ Stopbits \in {"1", "2"} /\ TimeoutMs \in Nat
  <2>1. /\ Bytesize \in 5 .. 8 /\ Parity \in {"N", "E", "O", "M", "S"}
        /\ Stopbits \in {"1", "2"} /\ TimeoutMs \in 0 .. MaxTimeout
    BY NothingRefused, Zenon
  <2> QED BY <2>1, SMT
<1>2. Rtscts \in BOOLEAN /\ Xonxoff \in BOOLEAN
  BY FlagsAreBoolean
<1>3. ((TimeoutMs + 99) \div 100) % 256 \in 0 .. 255
  BY <1>1, VtimeFits
<1>4. /\ c.speed = t.speed /\ c.csize = Bytesize
      /\ c.parenb = (Parity # "N") /\ c.parodd = (Parity \in {"O", "M"})
      /\ c.cmspar = (Parity \in {"M", "S"}) /\ c.cstopb = (Stopbits = "2")
      /\ c.crtscts = Rtscts /\ c.ixon = Xonxoff /\ c.ixoff = Xonxoff
  BY DEF Configured, Termios
<1>5. c \in Termios
  BY <1>1, <1>2, <1>3 DEF Configured, Termios
<1>6. (IF ~c.parenb THEN "N"
       ELSE IF c.cmspar THEN (IF c.parodd THEN "M" ELSE "S")
       ELSE IF c.parodd THEN "O" ELSE "E") = Parity
  BY <1>1, <1>4
<1>7. (IF c.cstopb THEN "2" ELSE "1") = Stopbits
  BY <1>1, <1>4
<1>8. (IF c.ixon = c.ixoff THEN c.ixon ELSE "one way") = Xonxoff
  BY <1>4
<1>9. Framing(c) = [bits |-> Bytesize, parity |-> Parity, stop |-> Stopbits,
                    hardware |-> Rtscts, software |-> Xonxoff]
  BY <1>4, <1>6, <1>7, <1>8, Zenon DEF Framing
<1> QED BY <1>4, <1>5, <1>9

(***************************************************************************)
(* The steps.                                                              *)
(***************************************************************************)

\* uart_open has to have failed or not have started for its result to be an error.
LEMMA InitEstablishes == Init => IInv
<1> SUFFICES ASSUME Init PROVE IInv
  OBVIOUS
<1>1. Data \in Seq(Nat) /\ Len(Data) \in Nat /\ line \in Termios
  BY DEF Init
<1>2. TypeOK
  <2>1. params \in Params /\ line \in Termios
    BY <1>1 DEF Init
  <2>2. /\ pc \in {"open", "flags", "speed", "format", "ready", "select", "write",
                  "closed", "failed"}
        /\ fd \in {"none", "open", "closed"} /\ nonblock \in BOOLEAN
        /\ rc \in {"none", "OK"} \cup Errors /\ wrote \in {"none", "all", "failed"}
    BY DEF Init
  <2>3. off \in 0 .. Len(Data) /\ waited \in 0 .. MaxWaited
    BY Bounds DEF Init
  <2> QED BY <2>1, <2>2, <2>3, Zenon DEF TypeOK
<1>3. SubSeq(Data, 1, 0) = <<>>
  BY SubSeqEmpty
<1>4. WritesPrefix
  BY <1>3 DEF Init, WritesPrefix
<1>5. Progress /\ Settled /\ Writing
  BY <1>1 DEF Init, Progress, Settled, Writing
<1> QED BY <1>2, <1>4, <1>5 DEF IInv

\* What has been written and what comes next make a longer prefix.
LEMMA PrefixGrows ==
    ASSUME off \in 0 .. Len(Data), sent = SubSeq(Data, 1, off),
           NEW n \in 1 .. Len(Data) - off
    PROVE  sent \o SubSeq(Data, off + 1, off + n) = SubSeq(Data, 1, off + n)
<1>1. Data \in Seq(Nat) /\ Len(Data) \in Nat
  OBVIOUS
<1>2. /\ 1 \in 1 .. Len(Data) + 1 /\ off \in 1 - 1 .. Len(Data)
      /\ off + n \in off .. Len(Data)
  BY <1>1
<1> QED BY <1>1, <1>2, ConcatAdjacentSubSeq

\* An error of uart_open.
LEMMA FailPreserves ==
    ASSUME IInv, pc \in {"open", "flags", "speed", "format"}, NEW error \in Errors,
           Fail(error), UNCHANGED <<params, line, writeVars>>, nonblock' \in BOOLEAN
    PROVE  IInv'
<1> USE DEF IInv, Fail, writeVars
<1>1. TypeOK'
  BY DEF TypeOK
<1>2. Progress'
  BY DEF Progress, Errors
<1>3. Settled'
  BY DEF Settled, Progress, Errors
<1>4. Writing' /\ WritesPrefix'
  BY DEF Writing, WritesPrefix
<1> QED BY <1>1, <1>2, <1>3, <1>4

\* open().
LEMMA OpenPortPreserves == ASSUME IInv, OpenPort PROVE IInv'
<1>1. CASE Fail("ERR_OPEN") /\ UNCHANGED nonblock
  BY <1>1, FailPreserves DEF OpenPort, Errors, IInv, TypeOK
<1>2. CASE fd' = "open" /\ nonblock' = TRUE /\ pc' = "flags" /\ UNCHANGED rc
  <2> USE <1>2 DEF IInv, OpenPort, writeVars
  <2>1. TypeOK'
    BY DEF TypeOK
  <2>2. Progress'
    BY DEF Progress
  <2>3. Settled'
    BY DEF Settled, Progress
  <2>4. Writing' /\ WritesPrefix'
    BY DEF Writing, WritesPrefix
  <2> QED BY <2>1, <2>2, <2>3, <2>4
<1> QED BY <1>1, <1>2 DEF OpenPort

\* fcntl().
LEMMA ClearNonblockPreserves == ASSUME IInv, ClearNonblock PROVE IInv'
<1> USE DEF IInv, ClearNonblock, writeVars
<1>1. TypeOK'
  BY DEF TypeOK
<1>2. Progress'
  BY DEF Progress
<1>3. Settled'
  BY DEF Settled, Progress
<1>4. Writing' /\ WritesPrefix'
  BY DEF Writing, WritesPrefix
<1> QED BY <1>1, <1>2, <1>3, <1>4

\* cfsetispeed and cfsetospeed.
LEMMA SpeedSet ==
    ASSUME NEW t \in Termios, NEW v \in Nat
    PROVE  [t EXCEPT !.speed = v] \in Termios /\ [t EXCEPT !.speed = v].speed = v
BY DEF Termios

\* set_speed.
LEMMA SetSpeedPreserves == ASSUME IInv, SetSpeed PROVE IInv'
<1>1. CASE \/ Fail("ERR_TCGETS") /\ UNCHANGED line
           \/ Fail("ERR_BAUD") /\ UNCHANGED line
           \/ Fail("ERR_TCSETS") /\ UNCHANGED line
  BY <1>1, FailPreserves DEF SetSpeed, Errors, IInv, TypeOK
<1>2. CASE /\ params.baudrate \in Bauds
           /\ line' = [line EXCEPT !.speed = params.baudrate]
           /\ pc' = "format" /\ UNCHANGED <<fd, rc>>
  <2> USE <1>2 DEF IInv, SetSpeed, writeVars
  <2>1. params.baudrate \in Nat
    BY DEF Bauds
  <2>2. line' \in Termios /\ line'.speed = params.baudrate
    BY <2>1, SpeedSet DEF TypeOK
  <2>3. TypeOK'
    BY <2>2 DEF TypeOK
  <2>4. Progress'
    BY DEF Progress
  <2>5. Settled'
    BY <2>2 DEF Settled, Progress
  <2>6. Writing' /\ WritesPrefix'
    BY DEF Writing, WritesPrefix
  <2> QED BY <2>3, <2>4, <2>5, <2>6
<1> QED BY <1>1, <1>2 DEF SetSpeed

\* set_bytesize_parity_stop and the timeout.
LEMMA SetFormatPreserves == ASSUME IInv, SetFormat PROVE IInv'
<1>1. CASE Fail("ERR_TCGETS") /\ UNCHANGED line
  BY <1>1, FailPreserves DEF SetFormat, Errors, IInv, TypeOK
<1>2. CASE Refusal # "none" /\ Fail(Refusal) /\ UNCHANGED line
  <2>1. Refusal \in Errors
    BY <1>2, Zenon DEF Refusal, Errors
  <2> QED BY <1>2, <2>1, FailPreserves DEF SetFormat, IInv, TypeOK
<1>3. CASE Fail("ERR_TCSETS") /\ UNCHANGED line
  BY <1>3, FailPreserves DEF SetFormat, Errors, IInv, TypeOK
<1>4. CASE /\ Refusal = "none"
           /\ line' = Configured(line)
           /\ pc' = "ready" /\ rc' = "OK" /\ UNCHANGED fd
  <2> USE <1>4 DEF IInv, SetFormat, writeVars
  <2>1. line \in Termios /\ params \in Params
    BY DEF TypeOK
  <2>2. /\ line' \in Termios
        /\ line'.speed = line.speed
        /\ Framing(line') = [bits |-> Bytesize, parity |-> Parity, stop |-> Stopbits,
                             hardware |-> Rtscts, software |-> Xonxoff]
    BY <2>1, ConfiguredAsAsked
  <2>3. OpenedAsAsked'
    BY <2>2 DEF OpenedAsAsked, Settled, Bytesize, Parity, Stopbits, Rtscts, Xonxoff, Framing
  <2>4. TypeOK'
    BY <2>2 DEF TypeOK
  <2>5. Progress'
    BY DEF Progress
  <2>6. Settled'
    BY <2>3 DEF Settled
  <2>7. Writing' /\ WritesPrefix'
    BY DEF Writing, WritesPrefix
  <2> QED BY <2>4, <2>5, <2>6, <2>7
<1> QED BY <1>1, <1>2, <1>3, <1>4 DEF SetFormat

\* What is left alone by uart_write and uart_close.
LEMMA SettledKept ==
    ASSUME Settled, UNCHANGED <<params, line, rc>>, pc' # "format"
    PROVE  Settled'
BY DEF Settled, OpenedAsAsked, Framing, Bytesize, Parity, Stopbits, Rtscts, Xonxoff

\* The loop of uart_write.
LEMMA WritePreserves == ASSUME IInv, Write \/ WriteDone PROVE IInv'
<1> USE DEF IInv, Write, WriteDone, writeVars
<1>1. TypeOK'
  BY DEF TypeOK
<1>2. Progress'
  BY DEF Progress
<1>3. Settled'
  BY SettledKept
<1>4. Writing' /\ WritesPrefix'
  BY DEF Writing, WritesPrefix
<1> QED BY <1>1, <1>2, <1>3, <1>4

\* select() and its timeout.
LEMMA WaitPreserves == ASSUME IInv, WaitWritable PROVE IInv'
<1> USE DEF IInv, WaitWritable, writeVars
<1>1. waited \in Nat /\ waited <= MaxTicks /\ off \in 0 .. Len(Data) /\ wrote = "none"
  BY DEF TypeOK, Writing
<1>2. waited' \in 0 .. MaxWaited /\ (wrote' = "none" => waited' <= MaxTicks)
  BY <1>1, Bounds
<1>3. TypeOK'
  BY <1>2 DEF TypeOK
<1>4. Progress'
  BY DEF Progress
<1>5. Settled'
  BY SettledKept
<1>6. Writing' /\ WritesPrefix'
  BY <1>1, <1>2, Bounds DEF Writing, WritesPrefix
<1> QED BY <1>3, <1>4, <1>5, <1>6

\* write(), of some bytes, interrupted or failing.
LEMMA WriteSomePreserves == ASSUME IInv, WriteSome PROVE IInv'
<1> USE DEF IInv, WriteSome, writeVars
<1>1. off \in 0 .. Len(Data) /\ wrote = "none"
  BY DEF TypeOK, Writing
<1>2. off' \in 0 .. Len(Data) /\ sent' = SubSeq(Data, 1, off')
  <2>1. CASE UNCHANGED <<off, sent>>
    BY <1>1, <2>1 DEF WritesPrefix
  <2>2. ASSUME NEW n \in 1 .. Len(Data) - off,
               off' = off + n, sent' = sent \o SubSeq(Data, off + 1, off + n)
        PROVE  off' \in 0 .. Len(Data) /\ sent' = SubSeq(Data, 1, off')
    <3>1. off + n \in 0 .. Len(Data)
      BY <1>1, Bounds
    <3>2. sent \o SubSeq(Data, off + 1, off + n) = SubSeq(Data, 1, off + n)
      BY <1>1, PrefixGrows DEF WritesPrefix
    <3> QED BY <2>2, <3>1, <3>2
  <2> QED BY <2>1, <2>2
<1>3. TypeOK'
  BY <1>2 DEF TypeOK
<1>4. Progress'
  BY DEF Progress
<1>5. Settled'
  BY SettledKept
<1>6. Writing' /\ WritesPrefix'
  BY <1>1, <1>2 DEF Writing, WritesPrefix
<1> QED BY <1>3, <1>4, <1>5, <1>6

\* uart_close.
LEMMA ClosePreserves == ASSUME IInv, Close PROVE IInv'
<1> USE DEF IInv, Close, writeVars
<1>1. TypeOK'
  BY DEF TypeOK
<1>2. Progress'
  BY DEF Progress
<1>3. Settled'
  BY SettledKept
<1>4. Writing' /\ WritesPrefix'
  BY DEF Writing, WritesPrefix
<1> QED BY <1>1, <1>2, <1>3, <1>4

\* Nothing changes.
LEMMA StutterPreserves == ASSUME IInv, UNCHANGED vars PROVE IInv'
<1> USE DEF IInv, vars
<1>1. TypeOK' /\ Progress'
  BY DEF TypeOK, Progress
<1>2. Settled'
  BY DEF Settled, OpenedAsAsked, Framing, Bytesize, Parity, Stopbits, Rtscts, Xonxoff
<1>3. Writing' /\ WritesPrefix'
  BY DEF Writing, WritesPrefix
<1> QED BY <1>1, <1>2, <1>3

(***************************************************************************)
(* The theorems.                                                           *)
(***************************************************************************)

\* The strengthening the others follow from: where uart_open or uart_write is decides
\* what the descriptor, the result and the settings are.
THEOREM Invariance == Spec => []IInv
<1>1. Init => IInv
  BY InitEstablishes
<1>2. IInv /\ [Next]_vars => IInv'
  BY OpenPortPreserves, ClearNonblockPreserves, SetSpeedPreserves, SetFormatPreserves,
     WritePreserves, WaitPreserves, WriteSomePreserves, ClosePreserves, StutterPreserves
     DEF Next
<1> QED BY <1>1, <1>2, PTL DEF Spec

\* Every variable keeps its type, the termios structure of the port included.
THEOREM TypeCorrect == Spec => []TypeOK
<1>1. IInv => TypeOK
  BY DEF IInv
<1> QED BY <1>1, Invariance, PTL

\* Whatever the port was left with and whatever is set or left unset, an opened port
\* has the speed and the framing asked for (uart_apply_settings).
THEOREM FramedAsAsked == Spec => []OpenedAsAsked
<1>1. IInv => OpenedAsAsked
  BY DEF IInv, Settled, OpenedAsAsked
<1> QED BY <1>1, Invariance, PTL

\* No failing step of uart_open leaves its descriptor open.
THEOREM DescriptorReturned == Spec => []NoDescriptorLeft
<1>1. IInv => NoDescriptorLeft
  BY DEF IInv, TypeOK, Progress, NoDescriptorLeft, Errors
<1> QED BY <1>1, Invariance, PTL

\* For any buffer, timeout and pattern of partial writes and interruptions, uart_write
\* sends a prefix of its buffer, and the whole of it when it returns its length.
THEOREM PrefixWritten == Spec => []WritesPrefix
<1>1. IInv => WritesPrefix
  BY DEF IInv
<1> QED BY <1>1, Invariance, PTL
=============================================================================
