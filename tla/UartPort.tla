------------------------------- MODULE UartPort -------------------------------
(***************************************************************************)
(* Opening, configuring, writing to and closing a serial port              *)
(* (conn_uart.c: uart_open, uart_apply_settings, uart_write, uart_close).  *)
(* The port keeps what its last user left in its termios structure; the    *)
(* code changes it field by field, in two tcsetattr calls.                 *)
(***************************************************************************)
EXTENDS Integers, Sequences

CONSTANTS
    Params,    \* the parameters a port can be opened with
    Unset,     \* the value of a parameter that is not given
    Leftover,  \* the termios settings a port can be found with
    Data,      \* the bytes uart_write is given, a sequence
    Timeout,   \* its write_timeout_ms, as a number of ticks; negative blocks
    MaxTicks   \* bound: ticks a call waits before a byte can be written

Default(value, default) == IF value = Unset THEN default ELSE value

Bauds == {1200, 2400, 4800, 9600, 19200, 38400, 57600, 115200, 230400, 460800, 921600}

\* The termios flags that decide how characters go over the line and when a read ends.
Termios ==
    [speed : Nat, csize : 5 .. 8, parenb : BOOLEAN, parodd : BOOLEAN, cmspar : BOOLEAN,
     cstopb : BOOLEAN, crtscts : BOOLEAN, ixon : BOOLEAN, ixoff : BOOLEAN, vmin : 0 .. 255,
     vtime : 0 .. 255]

ASSUME PortAssumption ==
    /\ \A p \in Params : {p.rtscts, p.xonxoff} \subseteq {Unset} \cup BOOLEAN
    /\ Leftover \subseteq Termios
    /\ Data \in Seq(Nat) /\ Timeout \in Int /\ MaxTicks \in Nat

VARIABLES
    params,    \* params
    pc,        \* where uart_open, or a user of the open port, is
    fd,        \* the descriptor: "none", "open" or "closed"
    nonblock,  \* it has O_NONBLOCK
    line,      \* the port's termios
    rc,        \* what uart_open returned
    off,       \* bytes of Data uart_write has written
    sent,      \* the bytes the port has been given
    waited,    \* ticks uart_write has waited in select()
    wrote      \* what uart_write returned: "none", "all" or "failed"

vars == <<params, pc, fd, nonblock, line, rc, off, sent, waited, wrote>>
writeVars == <<off, sent, waited, wrote>>

Bytesize == Default(params.bytesize, 8)
Parity == Default(params.parity, "N")
Stopbits == Default(params.stopbits, "1")
Rtscts == Default(params.rtscts, FALSE)
Xonxoff == Default(params.xonxoff, FALSE)
TimeoutMs == Default(params.timeout_ms, 1000)

Init ==
    /\ params \in Params /\ line \in Leftover
    /\ pc = "open" /\ fd = "none" /\ nonblock = FALSE /\ rc = "none"
    /\ off = 0 /\ sent = <<>> /\ waited = 0 /\ wrote = "none"

\* A slip: the error path does not close the descriptor.
FailKeepsOpen(error) ==
    /\ pc' = "failed" /\ rc' = error
    /\ UNCHANGED fd

\* uart_open closes what it has opened and returns an error.
Fail(error) ==
    /\ pc' = "failed" /\ rc' = error
    /\ fd' = IF fd = "open" THEN "closed" ELSE fd

\* The port is opened with O_NONBLOCK, so that open() does not wait for a carrier.
OpenPort ==
    /\ pc = "open"
    /\ \/ fd' = "open" /\ nonblock' = TRUE /\ pc' = "flags" /\ UNCHANGED rc
       \/ Fail("ERR_OPEN") /\ UNCHANGED nonblock
    /\ UNCHANGED <<params, line, writeVars>>

\* O_NONBLOCK is cleared again; a failing fcntl is ignored.
ClearNonblock ==
    /\ pc = "flags"
    /\ nonblock' \in BOOLEAN
    /\ pc' = "speed"
    /\ UNCHANGED <<params, fd, line, rc, writeVars>>

SetSpeed ==
    /\ pc = "speed"
    /\ \/ Fail("ERR_TCGETS") /\ UNCHANGED line
       \/ params.baudrate \notin Bauds /\ Fail("ERR_BAUD") /\ UNCHANGED line
       \/ params.baudrate \in Bauds /\ Fail("ERR_TCSETS") /\ UNCHANGED line
       \/ /\ params.baudrate \in Bauds
          /\ line' = [line EXCEPT !.speed = params.baudrate]
          /\ pc' = "format" /\ UNCHANGED <<fd, rc>>
    /\ UNCHANGED <<params, nonblock, writeVars>>

MaxTimeout == 60000

\* The first setting set_bytesize_parity_stop refuses.
Refusal ==
    IF Bytesize \notin 5 .. 8 THEN "ERR_BYTESIZE"
    ELSE IF Parity \notin {"N", "E", "O", "M", "S"} THEN "ERR_PARITY"
    ELSE IF Stopbits \notin {"1", "2"} THEN "ERR_STOPBITS"
    ELSE IF TimeoutMs \notin 0 .. MaxTimeout THEN "ERR_TIMEOUT"
    ELSE "none"

\* A slip: what cfmakeraw does not clear is left as the last user set it.
ConfiguredOver(t) ==
    [t EXCEPT !.csize = Bytesize,
              !.parenb = Parity # "N",
              !.parodd = t.parodd \/ Parity \in {"O", "M"},
              !.cmspar = t.cmspar \/ Parity \in {"M", "S"},
              !.cstopb = t.cstopb \/ Stopbits = "2",
              !.crtscts = Rtscts,
              !.ixon = Xonxoff, !.ixoff = t.ixoff \/ Xonxoff,
              !.vmin = 0,
              !.vtime = ((TimeoutMs + 99) \div 100) % 256]

\* The termios structure: VTIME, in tenths of a second, is a cc_t of 8 bits.
Configured(t) ==
    [speed   |-> t.speed,
     csize   |-> Bytesize,
     parenb  |-> Parity # "N",
     parodd  |-> Parity \in {"O", "M"},
     cmspar  |-> Parity \in {"M", "S"},
     cstopb  |-> Stopbits = "2",
     crtscts |-> Rtscts,
     ixon    |-> Xonxoff,
     ixoff   |-> Xonxoff,
     vmin    |-> 0,
     vtime   |-> ((TimeoutMs + 99) \div 100) % 256]

SetFormat ==
    /\ pc = "format"
    /\ \/ Fail("ERR_TCGETS") /\ UNCHANGED line
       \/ Refusal # "none" /\ Fail(Refusal) /\ UNCHANGED line
       \/ Refusal = "none" /\ Fail("ERR_TCSETS") /\ UNCHANGED line
       \/ /\ Refusal = "none"
          /\ line' = Configured(line)
          /\ pc' = "ready" /\ rc' = "OK" /\ UNCHANGED fd
    /\ UNCHANGED <<params, nonblock, writeVars>>

\* uart_write begins: one call per port is followed.
Write ==
    /\ pc = "ready" /\ wrote = "none"
    /\ pc' = "select"
    /\ UNCHANGED <<params, fd, nonblock, line, rc, writeVars>>

\* select() waits for the port to take bytes; a negative timeout does not wait here.
WaitWritable ==
    /\ pc = "select" /\ off < Len(Data)
    /\ \/ /\ Timeout < 0
          /\ pc' = "write" /\ UNCHANGED <<waited, wrote>>
       \/ \E ticks \in 0 .. Timeout :
              /\ waited + ticks <= MaxTicks
              /\ waited' = waited + ticks /\ pc' = "write" /\ UNCHANGED wrote
       \/ /\ Timeout >= 0
          /\ waited' = waited + Timeout /\ pc' = "ready" /\ wrote' = "failed"
       \/ /\ Timeout >= 0
          /\ pc' = "ready" /\ wrote' = "failed" /\ UNCHANGED waited
    /\ UNCHANGED <<params, fd, nonblock, line, rc, off, sent>>

\* A slip: the loop asks for the whole length each time, not for what is left.
WriteWholeLength ==
    /\ pc = "write"
    /\ \E n \in 1 .. Len(Data) :
          /\ off' = off + n
          /\ sent' = sent \o [k \in 1 .. n |->
                                IF off + k <= Len(Data) THEN Data[off + k] ELSE 0]
          /\ pc' = "select" /\ UNCHANGED wrote
    /\ UNCHANGED <<params, fd, nonblock, line, rc, waited>>

\* A slip: the loop writes from the beginning of the buffer each time.
WriteFromStart ==
    /\ pc = "write"
    /\ \E n \in 1 .. Len(Data) - off :
          /\ off' = off + n /\ sent' = sent \o SubSeq(Data, 1, n)
          /\ pc' = "select" /\ UNCHANGED wrote
    /\ UNCHANGED <<params, fd, nonblock, line, rc, waited>>

\* write() takes some of the rest, is interrupted, or fails.
WriteSome ==
    /\ pc = "write"
    /\ \/ \E n \in 1 .. Len(Data) - off :
              /\ off' = off + n /\ sent' = sent \o SubSeq(Data, off + 1, off + n)
              /\ pc' = "select" /\ UNCHANGED wrote
       \/ pc' = "select" /\ UNCHANGED <<off, sent, wrote>>
       \/ pc' = "ready" /\ wrote' = "failed" /\ UNCHANGED <<off, sent>>
    /\ UNCHANGED <<params, fd, nonblock, line, rc, waited>>

WriteDone ==
    /\ pc = "select" /\ off = Len(Data)
    /\ pc' = "ready" /\ wrote' = "all"
    /\ UNCHANGED <<params, fd, nonblock, line, rc, off, sent, waited>>

Close ==
    /\ pc = "ready"
    /\ fd' = "closed" /\ pc' = "closed"
    /\ UNCHANGED <<params, nonblock, line, rc, writeVars>>

Next ==
    \/ OpenPort \/ ClearNonblock \/ SetSpeed \/ SetFormat
    \/ Write \/ WaitWritable \/ WriteSome \/ WriteDone \/ Close

Spec == Init /\ [][Next]_vars

(***************************************************************************)
(* Properties.                                                             *)
(***************************************************************************)

Errors == {"ERR_OPEN", "ERR_TCGETS", "ERR_TCSETS", "ERR_BAUD", "ERR_BYTESIZE",
           "ERR_PARITY", "ERR_STOPBITS", "ERR_TIMEOUT"}

\* Only the last wait of a call can pass the bound.
MaxWaited == MaxTicks + (IF Timeout > 0 THEN Timeout ELSE 0)

TypeOK ==
    /\ params \in Params
    /\ pc \in {"open", "flags", "speed", "format", "ready", "select", "write",
               "closed", "failed"}
    /\ fd \in {"none", "open", "closed"} /\ nonblock \in BOOLEAN
    /\ rc \in {"none", "OK"} \cup Errors
    /\ line \in Termios
    /\ off \in 0 .. Len(Data)
    /\ waited \in 0 .. MaxWaited
    /\ wrote \in {"none", "all", "failed"}

\* How a character goes over the line under settings t, by termios(3): even and odd
\* parity by PARODD, and mark and space in their place when CMSPAR is set.
Framing(t) ==
    [bits |-> t.csize,
     parity |-> IF ~t.parenb THEN "N"
                ELSE IF t.cmspar THEN (IF t.parodd THEN "M" ELSE "S")
                ELSE IF t.parodd THEN "O" ELSE "E",
     stop |-> IF t.cstopb THEN "2" ELSE "1",
     hardware |-> t.crtscts,
     software |-> IF t.ixon = t.ixoff THEN t.ixon ELSE "one way"]

\* Whatever the port was left with, an opened port frames characters, and controls
\* their flow, as the parameters and their defaults say, at the speed they say.
OpenedAsAsked ==
    rc = "OK" =>
        /\ line.speed = params.baudrate
        /\ Framing(line) = [bits |-> Bytesize, parity |-> Parity, stop |-> Stopbits,
                            hardware |-> Rtscts, software |-> Xonxoff]

\* At whatever step it fails, uart_open leaves no descriptor behind, and reports
\* success with an open one only.
NoDescriptorLeft ==
    /\ rc \in Errors => fd # "open"
    /\ pc \in {"ready", "select", "write"} => fd = "open" /\ rc = "OK"

\* However often it is interrupted or served in part, uart_write hands the port a
\* prefix of its buffer, without gap or repetition, and all of it if it says so.
WritesPrefix ==
    /\ sent = SubSeq(Data, 1, off)
    /\ wrote = "all" => off = Len(Data)

\* "timeout_ms: [0..60000], def 1000" (connectors.h): a read waits for that long,
\* rounded up to a tenth of a second.  Beyond 25.5 s VTIME wraps around.
TimeoutHonoured ==
    rc = "OK" => line.vtime * 100 \in TimeoutMs .. TimeoutMs + 99
=============================================================================
