----------------------------- MODULE WireSlave -----------------------------
(***************************************************************************)
(* Wire as I2C slave: begin(address) in the sketch's task, the interrupt   *)
(* handler of the I2CSlave driver with the callbacks it makes into Wire    *)
(* (onReceive, onRequest), and a master on the bus.                        *)
(*                                                                         *)
(* The eUSCI is external: it raises a flag for a START with the slave's    *)
(* address, a received byte, an empty transmit buffer and a STOP, and      *)
(* holds the clock while its receive buffer is full or its shift register  *)
(* is empty.  Several flags can be up before the handler runs, and the     *)
(* handler looks at them in an order of its own.                           *)
(***************************************************************************)
EXTENDS Integers, SequencesExt

CONSTANTS
  R,           \* BUFFER_LENGTH
  Answers,     \* how many bytes onRequest may write(): one place of txBuffer stays free
  MaxWrite,    \* bound: the longest message of the master
  MaxRead,     \* bound: the most bytes the master reads at once
  MaxStarts,   \* bound: STARTs of the master
  Lag,         \* TRUE: the next START may come before the handler has seen
               \* the flags of the last message
  Early,       \* TRUE: the master may start before begin() has returned
  RestartFull, \* TRUE: a repeated START may follow a message that did not fit
  Reread       \* TRUE: a repeated START may follow a read

ASSUME SlaveAssumption ==
  /\ R \in Nat \ {0}
  /\ Answers \subseteq 0 .. R - 1
  /\ Answers # {}
  /\ MaxWrite \in 1 .. R + 1
  /\ MaxRead \in Nat \ {0}
  /\ MaxStarts \in Nat
  /\ Lag \in BOOLEAN /\ Early \in BOOLEAN
  /\ RestartFull \in BOOLEAN /\ Reread \in BOOLEAN

VARIABLES
  pc,        \* where the task is in begin()
  drv,       \* the I2CSlave object, its mutex and the power constraint
  flags,     \* the interrupt flags that are up
  line,      \* the bytes in the shift register and the transmit buffer
  bus,       \* what the master does: "free", "wr", "rd", "nack"
  starts,    \* STARTs so far
  wrote,     \* bytes the master has written since its last START
  last,      \* ghost: which way the last byte on the bus went: "none", "wr", "rd"
  answered,  \* ghost: bytes onRequest gave in this read (-1: it has not run)
  out,       \* ghost: bytes the master took in this read
  finished,  \* ghost: the counts onReceive is due to be called with
  heard      \* ghost: the counts it was called with

hardware == <<flags, line>>
master == <<bus, starts, wrote, last, finished>>
vars == <<pc, drv, hardware, master, answered, out, heard>>

\* A byte of the slave: the place in txBuffer of one that onRequest wrote for
\* this read, or one of these.
Filler == -1   \* 0xFF
Stale == -2    \* left in txBuffer from an earlier read

Fits(n) == IF n <= R THEN n ELSE R

ClosedDriver ==
  [open |-> FALSE, mutex |-> 1, busy |-> FALSE, read |-> FALSE, left |-> 0, size |-> 0,
   wLeft |-> 0, wNext |-> 0, held |-> 0, stuck |-> FALSE]

-----------------------------------------------------------------------------
(* The driver and the callbacks of Wire. *)

Constrain(d) == [d EXCEPT !.held = @ + 1]

\* the counters of primeTransfer(), for a read and for a write of n bytes
ArmRead(d) == [d EXCEPT !.left = R, !.size = R, !.busy = FALSE]
ArmWrite(d, n) == [d EXCEPT !.wLeft = n, !.wNext = 0, !.busy = FALSE]

\* primeTransfer() inside the handler: it waits for the mutex, which nobody
\* can release before the handler returns
Prime(d, armed) == IF d.mutex = 0 THEN [d EXCEPT !.stuck = TRUE] ELSE Constrain(armed)

\* writeCallback(): onReceive has run, the next read is armed
Received(d) == Prime(d, ArmRead(d))

\* readCallback(): onRequest has written n bytes
Requested(d, n) == IF n = 0 THEN d ELSE Prime(d, ArmWrite(d, n))

\* mutant: the transfer stays in progress
Complete_StaysBusy(d) == [d EXCEPT !.held = IF @ = 0 THEN 0 ELSE @ - 1]

\* completeTransfer()
Complete(d) == [d EXCEPT !.busy = FALSE, !.held = IF @ = 0 THEN 0 ELSE @ - 1]

\* what the two ends of a message, STOP and repeated START, report
Count(d) == d.size - d.left
Report(d) == IF d.read THEN Received(d) ELSE d
Hear(d) == IF d.read THEN Append(heard, Count(d)) ELSE heard

Enabled == drv.open /\ ~drv.stuck

\* mutant: a repeated START is not told from a first one
HwiStart_NoReport ==
  /\ Enabled
  /\ "start" \in flags
  /\ flags' = flags \ {"start"}
  /\ UNCHANGED <<pc, drv, line, master, answered, out, heard>>

\* START: a message still in progress ends here
HwiStart ==
  /\ Enabled
  /\ "start" \in flags
  /\ flags' = flags \ {"start"}
  /\ drv' = IF drv.busy THEN Report(drv) ELSE drv
  /\ heard' = IF drv.busy THEN Hear(drv) ELSE heard
  /\ UNCHANGED <<pc, line, master, answered, out>>

\* mutant: no test for the end of the buffer
HwiReceive_Unchecked ==
  /\ Enabled
  /\ "rx" \in flags
  /\ "start" \notin flags
  /\ flags' = flags \ {"rx"}
  /\ drv' = [drv EXCEPT !.read = TRUE, !.busy = TRUE, !.left = @ - 1]
  /\ UNCHANGED <<pc, line, master, answered, out, heard>>

\* mutant: the direction is not recorded
HwiReceive_NotRead ==
  /\ Enabled
  /\ "rx" \in flags
  /\ "start" \notin flags
  /\ flags' = flags \ {"rx"}
  /\ drv' = IF drv.left > 0 THEN [drv EXCEPT !.busy = TRUE, !.left = @ - 1] ELSE Complete(drv)
  /\ UNCHANGED <<pc, line, master, answered, out, heard>>

\* a byte from the master goes to rxBuffer, or is discarded when that is full
HwiReceive ==
  LET d == [drv EXCEPT !.read = TRUE, !.busy = TRUE]
  IN /\ Enabled
     /\ "rx" \in flags
     /\ "start" \notin flags
     /\ flags' = flags \ {"rx"}
     /\ drv' = IF d.left > 0 THEN [d EXCEPT !.left = @ - 1] ELSE Complete(d)
     /\ UNCHANGED <<pc, line, master, answered, out, heard>>

\* The next byte to send, and the object after it
NextByte(d, n) ==
  IF d.wLeft = 0 THEN Filler ELSE IF d.wNext < n THEN d.wNext ELSE Stale
Sent(d) == IF d.wLeft = 0 THEN d ELSE [d EXCEPT !.wLeft = @ - 1, !.wNext = @ + 1]

\* the slave's part of a read: onRequest is called once, for the first byte
Transmit(n) ==
  LET d == IF drv.busy THEN [drv EXCEPT !.read = FALSE]
                       ELSE Requested([drv EXCEPT !.read = FALSE], n)
      m == IF drv.busy THEN answered ELSE n
  IN /\ answered' = m
     /\ drv' = Sent([d EXCEPT !.busy = TRUE])
     /\ line' = Append(line, NextByte(d, m))

\* the transmit buffer is empty; the first byte moves on to the shift register
HwiTransmit(n) ==
  /\ Enabled
  /\ "tx" \in flags
  /\ flags \cap {"start", "rx"} = {}
  /\ Transmit(n)
  /\ flags' = IF Len(line) = 0 THEN flags ELSE flags \ {"tx"}
  /\ UNCHANGED <<pc, master, out, heard>>

\* STOP: the message is reported and the transfer completed
HwiStop ==
  /\ Enabled
  /\ flags = {"stop"}
  /\ flags' = {}
  /\ drv' = Complete(Report(drv))
  /\ heard' = Hear(drv)
  /\ UNCHANGED <<pc, line, master, answered, out>>

Hwi == HwiStart \/ HwiReceive \/ (\E n \in Answers : HwiTransmit(n)) \/ HwiStop

-----------------------------------------------------------------------------
(* begin(address): I2CSlave_open() and I2CSlave_address(), then              *)
(* I2CSlave_read(), which the handler can interrupt.                         *)

Open ==
  /\ pc = "closed"
  /\ drv' = [drv EXCEPT !.open = TRUE]
  /\ pc' = "opened"
  /\ UNCHANGED <<hardware, master, answered, out, heard>>

\* SemaphoreP_pend(mutex) and the power constraint
PrimePend ==
  /\ pc = "opened"
  /\ ~drv.stuck
  /\ drv' = Constrain([drv EXCEPT !.mutex = 0])
  /\ pc' = "pended"
  /\ UNCHANGED <<hardware, master, answered, out, heard>>

\* the counters
PrimeArm ==
  /\ pc = "pended"
  /\ ~drv.stuck
  /\ drv' = ArmRead(drv)
  /\ pc' = "armed"
  /\ UNCHANGED <<hardware, master, answered, out, heard>>

\* SemaphoreP_post(mutex)
PrimePost ==
  /\ pc = "armed"
  /\ ~drv.stuck
  /\ drv' = [drv EXCEPT !.mutex = 1]
  /\ pc' = "posted"
  /\ UNCHANGED <<hardware, master, answered, out, heard>>

\* transferInProgress = false, after the mutex
PrimeReturn ==
  /\ pc = "posted"
  /\ ~drv.stuck
  /\ drv' = [drv EXCEPT !.busy = FALSE]
  /\ pc' = "begun"
  /\ UNCHANGED <<hardware, master, answered, out, heard>>

Begin == Open \/ PrimePend \/ PrimeArm \/ PrimePost \/ PrimeReturn

-----------------------------------------------------------------------------
(* The master. *)

\* A message ends with a STOP or a repeated START.  One without a byte (the
\* address alone) is due too when a STOP ends it and the byte before it was
\* written: onReceive(0).  After a read, or before a repeated START, it is not.
Due(stopped) == bus = "wr" /\ (wrote > 0 \/ (stopped /\ last = "wr"))
Finish(stopped) ==
  finished' = IF Due(stopped) THEN Append(finished, Fits(wrote)) ELSE finished

\* START or repeated START, to write or to read
Start(to, f) ==
  /\ IF Early THEN drv.open ELSE pc = "begun"
  /\ bus \in {"free", "wr", "nack"}
  /\ starts < MaxStarts
  /\ Lag \/ flags = {}
  /\ RestartFull \/ wrote <= R \/ bus = "free"
  /\ Reread \/ bus # "nack"
  /\ Finish(FALSE)
  /\ flags' = flags \cup f
  /\ bus' = to
  /\ starts' = starts + 1
  /\ wrote' = 0
  /\ answered' = -1
  /\ out' = <<>>
  /\ line' = <<>>
  /\ UNCHANGED <<pc, drv, last, heard>>

StartWrite == Start("wr", {"start"})
StartRead == Start("rd", {"start", "tx"})

\* the master writes a byte; the slave's buffer must be free
WriteByte ==
  /\ bus = "wr"
  /\ wrote < MaxWrite
  /\ "rx" \notin flags
  /\ flags' = flags \cup {"rx"}
  /\ wrote' = wrote + 1
  /\ last' = "wr"
  /\ UNCHANGED <<pc, drv, line, bus, starts, finished, answered, out, heard>>

\* the master takes a byte and asks for another one
ReadByte ==
  /\ bus = "rd"
  /\ line # <<>>
  /\ Len(out) + 1 < MaxRead
  /\ out' = Append(out, Head(line))
  /\ line' = Tail(line)
  /\ flags' = flags \cup {"tx"}
  /\ last' = "rd"
  /\ UNCHANGED <<pc, drv, bus, starts, wrote, finished, answered, heard>>

\* the master takes a byte and refuses more
ReadLast ==
  /\ bus = "rd"
  /\ line # <<>>
  /\ out' = Append(out, Head(line))
  /\ line' = Tail(line)
  /\ bus' = "nack"
  /\ last' = "rd"
  /\ UNCHANGED <<pc, drv, flags, starts, wrote, finished, answered, heard>>

Stop ==
  /\ bus \in {"wr", "nack"}
  /\ Finish(TRUE)
  /\ flags' = flags \cup {"stop"}
  /\ bus' = "free"
  /\ UNCHANGED <<pc, drv, line, starts, wrote, last, answered, out, heard>>

Master == StartWrite \/ StartRead \/ WriteByte \/ ReadByte \/ ReadLast \/ Stop

-----------------------------------------------------------------------------
Init ==
  /\ pc = "closed"
  /\ drv = ClosedDriver
  /\ flags = {}
  /\ line = <<>>
  /\ bus = "free"
  /\ starts = 0
  /\ wrote = 0
  /\ last = "none"
  /\ answered = -1
  /\ out = <<>>
  /\ finished = <<>>
  /\ heard = <<>>

Next == Hwi \/ Begin \/ Master

Spec == Init /\ [][Next]_vars

\* The task runs when it can and a flag that is up is served.
FairSpec == Spec /\ WF_vars(Begin) /\ WF_vars(Hwi)

-----------------------------------------------------------------------------
(* Properties. *)

\* Types, and: the driver counts down what it armed, and the handler never
\* waits for the mutex.
TypeOK ==
  /\ pc \in {"closed", "opened", "pended", "armed", "posted", "begun"}
  /\ drv \in [open : BOOLEAN, mutex : 0 .. 1, busy : BOOLEAN, read : BOOLEAN,
              left : 0 .. R, size : {0, R}, wLeft : 0 .. R, wNext : 0 .. R,
              held : Nat, stuck : {FALSE}]
  /\ flags \subseteq {"start", "rx", "tx", "stop"}
  /\ line \in BoundedSeq((0 .. R - 1) \cup {Filler, Stale}, 2)
  /\ bus \in {"free", "wr", "rd", "nack"}
  /\ starts \in 0 .. MaxStarts
  /\ wrote \in 0 .. MaxWrite
  /\ last \in {"none", "wr", "rd"}
  /\ answered \in -1 .. R
  /\ out \in BoundedSeq((0 .. R - 1) \cup {Filler, Stale}, MaxRead)
  /\ finished \in BoundedSeq(0 .. R, MaxStarts)
  /\ heard \in BoundedSeq(0 .. R, MaxStarts)

\* onReceive is called once for each message of the master, in order, with
\* as many bytes as fit of it: no message is split, merged with the next one,
\* reported twice or begun with bytes of an earlier one (hwiIntFxn(), the
\* flags read and transferInProgress, writeCallback() and the re-arming read).
\* Every call counts, those with no byte too: onReceive(0) comes for a message
\* of the address alone, and only when Due says so.
MessagesIntact == IsPrefix(heard, finished)

\* Each message that is due when the master ends it reaches onReceive (the reports of hwiIntFxn() at STOP and at START).
MessagesArrive ==
  \A k \in 1 .. MaxStarts : (Len(finished) >= k) ~> (Len(heard) >= k)

\* In each read onRequest runs and the master gets the bytes it wrote for it,
\* in order, and then 0xFF: never a byte of an earlier answer, never the same
\* byte twice (readCallback(), I2CSlave_write(), the I2CSLAVE_WRITE_MODE case).
ReadAnswered ==
  out # <<>> =>
    /\ answered >= 0
    /\ \A j \in DOMAIN out : out[j] = IF j <= answered THEN j - 1 ELSE Filler

\* While a transfer is in progress the driver holds the constraint that keeps
\* the clock of the eUSCI running (primeTransfer(), completeTransfer()).
AwakeInTransfer == drv.busy => drv.held > 0

=============================================================================
