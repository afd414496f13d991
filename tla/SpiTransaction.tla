---------------------------- MODULE SpiTransaction ----------------------------
(***************************************************************************)
(* One pass of spi_run_transactions (conn_spi.c) over the transactions of  *)
(* an SPI connector: what parse_spi_params keeps of each, the buffers      *)
(* spi_exec_transaction allocates, the message spi_send_once hands to      *)
(* spidev, the callback on_spi_rx and the order in which all is freed.     *)
(* Every allocation and every transfer may fail.                           *)
(***************************************************************************)
EXTENDS Integers, Sequences

CONSTANTS
    Lists,    \* the "transactions" lists a connector can have
    Absent,   \* the value of a key that is not given
    MaxLen    \* the longest transfer the code accepts: 4096

\* A character of a tx string: a hexadecimal digit, an "x" or something else.
Nibble == 0 .. 15
X == 16
Junk == 17
Zero == 0

ASSUME TransactionAssumption ==
    /\ MaxLen \in Nat \ {0}
    /\ Lists \subseteq Seq([op : {"read", "write", "transfer"}, len : Int \cup {Absent},
                            tx : Seq(0 .. Junk) \cup {Absent}, rx_len : Int \cup {Absent}])

VARIABLES
    list,       \* transactions of the connector, as the file has them
    keepCs,     \* cfg.cs_change
    k,          \* index of the loop in spi_run_transactions
    pc,         \* where the pass is
    heap,       \* buffers allocated and not yet freed
    sent,       \* tx_buf
    message,    \* the segments given to spidev, with the buffers they point to
    cs,         \* the chip select between two segments of the last message
    received,   \* rx_buf
    outcome,    \* history: what became of each transaction
    published   \* history: what on_spi_rx gave to send_fn

vars == <<list, keepCs, k, pc, heap, sent, message, cs, received, outcome, published>>
wireVars == <<message, cs, received>>

(***************************************************************************)
(* What parse_spi_params makes of an item: len and rx_len count only in    *)
(* 1..MaxLen, tx only if it matches ^(0x)?[0-9A-Fa-f]+$.                   *)
(***************************************************************************)

IsHex(s) == s # <<>> /\ \A n \in DOMAIN s : s[n] \in Nibble
Prefixed(s) == Len(s) >= 2 /\ s[1] = Zero /\ s[2] = X
Digits(s) == IF Prefixed(s) THEN SubSeq(s, 3, Len(s)) ELSE s
InRange(n) == n # Absent /\ n \in 1 .. MaxLen

Parsed(item) ==
    [op |-> item.op,
     len |-> IF InRange(item.len) THEN item.len ELSE 0,
     tx |-> IF item.tx # Absent /\ IsHex(Digits(item.tx)) THEN item.tx ELSE Absent,
     rxLen |-> IF InRange(item.rx_len) THEN item.rx_len ELSE Absent]

T == Parsed(list[k])

RxLen(t) ==
    IF t.op = "write" THEN 0
    ELSE IF t.rxLen # Absent THEN t.rxLen ELSE t.len

(***************************************************************************)
(* parse_hex_bytes: the loop's state is the bytes so far and the pending   *)
(* high digit, or -1.                                                      *)
(***************************************************************************)

\* A slip: the loop does not look at the room that is left.
HexStepUnbounded(s, c, max) ==
    CASE c \notin Nibble -> s
      [] c \in Nibble /\ s.high = -1 -> [s EXCEPT !.high = c]
      [] OTHER -> [out |-> Append(s.out, 16 * s.high + c), high |-> -1]

HexStep(s, c, max) ==
    CASE c \notin Nibble -> s
      [] c \in Nibble /\ s.high = -1 -> [s EXCEPT !.high = c]
      [] c \in Nibble /\ s.high # -1 /\ Len(s.out) < max ->
            [out |-> Append(s.out, 16 * s.high + c), high |-> -1]
      [] OTHER -> s

HexBytes(s, max) ==
    LET digits == Digits(s)
        after[n \in 0 .. Len(digits)] ==
            IF n = 0 THEN [out |-> <<>>, high |-> -1]
            ELSE HexStep(after[n - 1], digits[n], max)
        end == after[Len(digits)]
    IN  IF end.high # -1 /\ Len(end.out) < max THEN Append(end.out, end.high) ELSE end.out

Zeros(n) == [m \in 1 .. n |-> 0]

\* A slip: what the string does not give is not cleared, but as malloc found it.
TxBufferDirty(t) ==
    LET bytes == IF t.op # "read" /\ t.tx # Absent THEN HexBytes(t.tx, t.len) ELSE <<>>
    IN  bytes \o [m \in 1 .. t.len - Len(bytes) |-> 255]

\* tx_buf: calloc'ed, and the bytes of tx over its beginning.
TxBuffer(t) ==
    LET bytes == IF t.op # "read" /\ t.tx # Absent THEN HexBytes(t.tx, t.len) ELSE <<>>
    IN  bytes \o Zeros(t.len - Len(bytes))

(***************************************************************************)
(* The pass.                                                               *)
(***************************************************************************)

Init ==
    /\ list \in Lists /\ keepCs \in BOOLEAN
    /\ k = 1 /\ pc = "start" /\ heap = {} /\ sent = <<>>
    /\ message = <<>> /\ cs = <<>> /\ received = <<>>
    /\ outcome = [n \in DOMAIN list |-> "none"] /\ published = <<>>

\* spi_exec_transaction returns; a failure is logged and the loop goes on.
EndWith(result) ==
    /\ outcome' = [outcome EXCEPT ![k] = result]
    /\ k' = k + 1 /\ pc' = "start"

\* A length of 0, or no memory for tx_buf.
AllocTxFails ==
    /\ pc = "start" /\ k <= Len(list)
    /\ EndWith("failed")
    /\ UNCHANGED <<list, keepCs, heap, sent, wireVars, published>>

AllocTx ==
    /\ pc = "start" /\ k <= Len(list) /\ T.len \in 1 .. MaxLen
    /\ heap' = heap \cup {"tx"} /\ sent' = TxBuffer(T)
    /\ pc' = "rx"
    /\ UNCHANGED <<list, keepCs, k, wireVars, outcome, published>>

\* A slip: the error path forgets tx_buf.
AllocRxLeaks ==
    /\ pc = "rx"
    /\ \/ /\ RxLen(T) > 0
          /\ EndWith("failed") /\ UNCHANGED <<heap, received>>
       \/ /\ heap' = heap \cup (IF RxLen(T) > 0 THEN {"rx"} ELSE {})
          /\ received' = Zeros(RxLen(T))
          /\ pc' = "compose" /\ UNCHANGED <<k, outcome>>
    /\ UNCHANGED <<list, keepCs, sent, message, cs, published>>

\* rx_buf, if the operation reads; without memory for it tx_buf is freed.
AllocRx ==
    /\ pc = "rx"
    /\ \/ /\ RxLen(T) > 0
          /\ heap' = heap \ {"tx"} /\ EndWith("failed") /\ UNCHANGED received
       \/ /\ heap' = heap \cup (IF RxLen(T) > 0 THEN {"rx"} ELSE {})
          /\ received' = Zeros(RxLen(T))
          /\ pc' = "compose" /\ UNCHANGED <<k, outcome>>
    /\ UNCHANGED <<list, keepCs, sent, message, cs, published>>

Segment(len, tx, rx, csChange) ==
    [len |-> len, tx |-> tx, rx |-> rx, csChange |-> csChange]

\* A slip: the received bytes are those of the command phase.
MessageReadsCommand(t) ==
    IF RxLen(t) \in {0, t.len} THEN <<Segment(t.len, "tx", "rx", FALSE)>>
    ELSE <<Segment(t.len, "tx", "rx", TRUE), Segment(RxLen(t), "dummy", "none", keepCs)>>

\* spi_send_once: a write, a full-duplex transfer, or a command and then a read
\* that clocks out zeros from a dummy buffer.
Message(t) ==
    IF RxLen(t) = 0 THEN <<Segment(t.len, "tx", "none", keepCs)>>
    ELSE IF RxLen(t) = t.len THEN <<Segment(t.len, "tx", "rx", FALSE)>>
    ELSE <<Segment(t.len, "tx", "none", TRUE), Segment(RxLen(t), "dummy", "rx", keepCs)>>

Compose ==
    /\ pc = "compose"
    /\ \/ /\ message' = Message(T)
          /\ heap' = heap \cup (IF RxLen(T) \in {0, T.len} THEN {} ELSE {"dummy"})
          /\ pc' = "ioctl" /\ UNCHANGED outcome
       \/ /\ RxLen(T) \notin {0, T.len}          \* no memory for the dummy buffer
          /\ outcome' = [outcome EXCEPT ![k] = "failed"]
          /\ pc' = "free" /\ UNCHANGED <<message, heap>>
    /\ UNCHANGED <<list, keepCs, k, sent, cs, received, published>>

\* The byte the device drives onto the wire at clock n of transaction m.
Answer(m, n) == <<m, n>>

\* What spidev reads into rx_buf: the device's bytes while the segment with rx runs.
WhatRx(msg) ==
    LET clocks(s) == IF s = 1 THEN 0 ELSE msg[1].len
        s == CHOOSE n \in DOMAIN msg : msg[n].rx = "rx"
    IN  [n \in 1 .. msg[s].len |-> Answer(k, clocks(s) + n)]

\* spidev (linux/spi/spi.h): the chip select is active during a message; cs_change of
\* a segment that is not the last one makes it inactive before the next one.
ChipSelect(msg) == [n \in 1 .. Len(msg) - 1 |-> ~msg[n].csChange]

\* SPI_IOC_MESSAGE, and the dummy buffer is freed.
Transfer ==
    /\ pc = "ioctl"
    /\ heap' = heap \ {"dummy"}
    /\ \/ /\ received' = IF RxLen(T) > 0 THEN WhatRx(message) ELSE received
          /\ cs' = ChipSelect(message)
          /\ pc' = IF RxLen(T) > 0 THEN "callback" ELSE "free"
          /\ outcome' = [outcome EXCEPT ![k] = "done"]
       \/ /\ outcome' = [outcome EXCEPT ![k] = "failed"]
          /\ pc' = "free" /\ UNCHANGED <<received, cs>>
    /\ UNCHANGED <<list, keepCs, k, sent, message, published>>

\* on_spi_rx copies rx_buf; without memory for the copy it returns, and the bytes
\* are lost although the transaction has succeeded.
Duplicate ==
    /\ pc = "callback"
    /\ \/ heap' = heap \cup {"dup"} /\ pc' = "send" /\ UNCHANGED outcome
       \/ /\ outcome' = [outcome EXCEPT ![k] = "lost"]
          /\ pc' = "free" /\ UNCHANGED heap
    /\ UNCHANGED <<list, keepCs, k, sent, wireVars, published>>

\* send_fn gets the copy, which is freed when it returns.
Send ==
    /\ pc = "send"
    /\ published' = Append(published, [of |-> k, bytes |-> received])
    /\ heap' = heap \ {"dup"} /\ pc' = "free"
    /\ UNCHANGED <<list, keepCs, k, sent, wireVars, outcome>>

Free ==
    /\ pc = "free"
    /\ heap' = heap \ {"tx", "rx"}
    /\ k' = k + 1 /\ pc' = "start"
    /\ UNCHANGED <<list, keepCs, sent, wireVars, outcome, published>>

Next ==
    \/ AllocTx \/ AllocTxFails \/ AllocRx \/ Compose \/ Transfer
    \/ Duplicate \/ Send \/ Free

Spec == Init /\ [][Next]_vars

(***************************************************************************)
(* Properties.                                                             *)
(***************************************************************************)

TypeOK ==
    /\ list \in Lists /\ keepCs \in BOOLEAN
    /\ k \in 1 .. Len(list) + 1
    /\ pc \in {"start", "rx", "compose", "ioctl", "callback", "send", "free"}
    /\ heap \subseteq {"tx", "rx", "dummy", "dup"}
    /\ sent \in Seq(0 .. 255) /\ Len(sent) <= MaxLen
    /\ Len(message) <= 2 /\ Len(received) <= MaxLen
    /\ \A n \in DOMAIN list : outcome[n] \in {"none", "failed", "lost", "done"}

\* Whatever fails, and where, a transaction gives back every buffer it took before
\* the next one begins, and the buffers of a message are there while it runs.
BuffersBalanced ==
    /\ pc = "start" => heap = {}
    /\ pc = "ioctl" => \A n \in DOMAIN message :
                          {message[n].tx, message[n].rx} \ {"none"} \subseteq heap
    /\ pc \in {"callback", "send"} => "rx" \in heap

\* The bytes clocked out are the pairs of hexadecimal digits of tx, the digit left
\* over as a byte of its own, cut off or filled with zeros to len; all zeros when the
\* operation is a read or the file gives no valid tx.
SendsWhatIsWritten ==
    pc \notin {"start"} =>
        LET d == IF T.op = "read" \/ T.tx = Absent THEN <<>> ELSE Digits(T.tx)
            byte(n) == IF 2 * n <= Len(d) THEN 16 * d[2 * n - 1] + d[2 * n]
                       ELSE IF 2 * n - 1 <= Len(d) THEN d[2 * n - 1] ELSE 0
        IN  sent = [n \in 1 .. T.len |-> byte(n)]

\* Every transaction that reads and succeeds is published once, in the order of the
\* list, with the bytes the device gave after the command (or, full duplex, during
\* it), unless there is no memory for the copy that is published ("lost"); one that
\* failed never is, and neither keeps later ones from being run.
PublishesEachAnswer ==
    /\ \A n \in 1 .. Len(published) - 1 : published[n].of < published[n + 1].of
    /\ \A n \in DOMAIN published :
          LET t == Parsed(list[published[n].of])
              before == IF RxLen(t) = t.len THEN 0 ELSE t.len
          IN  /\ outcome[published[n].of] = "done"
              /\ published[n].bytes =
                    [b \in 1 .. RxLen(t) |-> Answer(published[n].of, before + b)]
    /\ \A n \in 1 .. k - 1 :
          /\ outcome[n] # "none"
          /\ outcome[n] = "done" /\ RxLen(Parsed(list[n])) > 0 =>
                \E p \in DOMAIN published : published[p].of = n

\* "2 transfers (TX commande, puis RX lecture) avec CS tenu", "garder CS actif entre
\* les deux segments" (conn_spi.c): the chip select stays active between command and
\* read.  The code sets cs_change on the command, which makes it inactive there.
ChipSelectHeld == \A n \in DOMAIN cs : cs[n]
=============================================================================
