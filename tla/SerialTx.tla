------------------------------ MODULE SerialTx ------------------------------
(***************************************************************************)
(* The non-blocking transmit path of HardwareSerial: the ring buffer       *)
(* txBuffer filled by write(), primeTx() and writeCallback() which hand    *)
(* contiguous slices of it to the UART driver, and the transmit half of    *)
(* that driver (UARTMSP432_write, the Hwi, UARTMSP432_close).              *)
(*                                                                         *)
(* A thread is a sketch's task or an interrupt handler that prints.  A     *)
(* thread runs until it returns unless a thread of higher priority         *)
(* preempts it: nothing in the non-blocking path blocks.  The UART's own   *)
(* Hwi preempts every thread of lower priority than HwiPrio.               *)
(*                                                                         *)
(* A test of two volatile variables is two steps.  The two indices of      *)
(* TX_BUFFER_FULL and TX_BUFFER_EMPTY are read in one: with one writer     *)
(* only one of them can change, and with several nothing that is claimed   *)
(* depends on it.                                                          *)
(*                                                                         *)
(* Ghost state: bytes are numbered 1, 2, ... in the order write() stores   *)
(* them (stored is the last number); sent is what the wire carried.        *)
(* stale: since the port was opened primeTx() has found the ring empty,    *)
(* and what the wire carries from then on is not recorded; crowded: since  *)
(* then a write() was longer than the room in the ring.                    *)
(***************************************************************************)
EXTENDS Integers, Sequences

CONSTANTS
  Threads,   \* the callers of write(), flush(), begin() and end()
  Prio,      \* their priorities
  HwiPrio,   \* the priority of the UART's Hwi
  Owner,     \* the thread that opens and closes the port
  N,         \* SERIAL_TX_BUFFER_SIZE
  Duplex,    \* TRUE: a character may be arriving when UART_write is called
  MaxWrite,  \* bound: the longest buffer handed to write()
  MaxTotal,  \* bound: how many bytes are written in one session
  MaxEnds    \* bound: how many times the port is closed

ASSUME SerialAssumption ==
  /\ Owner \in Threads
  /\ Prio \in [Threads -> Nat]
  /\ HwiPrio \in Nat
  /\ \A t \in Threads \ {Owner} : Prio[Owner] < Prio[t]
  /\ N \in Nat \ {0, 1}
  /\ Duplex \in BOOLEAN
  /\ MaxWrite \in Nat \ {0}
  /\ MaxTotal \in Nat
  /\ MaxEnds \in Nat

VARIABLES
  open,         \* uart # NULL
  txBuffer,     \* unsigned char txBuffer[SERIAL_TX_BUFFER_SIZE]
  txWriteIndex,
  txReadIndex,
  txActive,
  drv,          \* the driver's object and the transmit half of the eUSCI
  pc,           \* where each thread is
  left,         \* write()'s size: bytes it still has to store
  span,         \* primeTx()'s size
  ends,         \* how many times end() was called
  stored, sent, stale, crowded  \* ghosts

ring == <<txBuffer, txWriteIndex, txReadIndex, txActive>>
locals == <<pc, left, span>>
history == <<stale, crowded>>
ghosts == <<stored, sent, history>>
vars == <<open, ring, drv, locals, ends, ghosts>>

Index == 0 .. N - 1

Empty == txReadIndex = txWriteIndex
\* mutant: the index is not wrapped
Full_NoWrap == txWriteIndex + 1 = txReadIndex

Full == (txWriteIndex + 1) % N = txReadIndex

\* How many bytes of the ring have not been handed back by the driver.
Pending == (txWriteIndex + N - txReadIndex) % N

\* How many bytes write() can store without waiting: one slot stays free.
Room == N - 1 - Pending

\* availableForWrite(), which is -1 of an empty ring
AvailableForWrite ==
  IF txWriteIndex <= txReadIndex
  THEN txReadIndex - txWriteIndex - 1
  ELSE N - (txWriteIndex - txReadIndex) - 1

\* mutant: the whole pending run, as if the ring did not end
Slice_Whole(r, w) == (w + N - r) % N

\* The longest contiguous slice that starts at read index r.
Slice(r, w) == IF w > r THEN w - r ELSE N - r

(***************************************************************************)
(* The driver.  count: bytes of the current write not yet in TXBUF; txie   *)
(* and cpt: transmit and transmit-complete interrupts enabled; shift: a    *)
(* byte is in the shift register; held: how often the transmit side holds  *)
(* the power constraint DISALLOW_DEEPSLEEP_0 (and PERF_CHANGES with it).   *)
(***************************************************************************)
IdleDriver(h) ==
  [buf |-> 0, size |-> 0, count |-> 0, txie |-> FALSE, cpt |-> FALSE,
   shift |-> FALSE, held |-> h]

Started(d, r, n) ==
  [d EXCEPT !.buf = r, !.size = n, !.count = n, !.txie = TRUE, !.held = @ + 1]

\* mutant: the constraints are taken before the write is refused
UARTWrite_HoldsFirst(d, r, n) ==
  IF d.count # 0 \/ d.shift THEN {[d EXCEPT !.held = @ + 1]}
  ELSE {Started(d, r, n)} \cup {[x EXCEPT !.held = @ + 1] : x \in {y \in {d} : Duplex}}

\* UART_write(uart, &txBuffer[r], n): the states the driver may be left in.
\* It refuses while a write is in progress or the eUSCI is busy, and
\* receiving a character makes it busy too; the caller ignores the result.
UARTWrite(d, r, n) ==
  IF d.count # 0 \/ d.shift THEN {d}
  ELSE {Started(d, r, n)} \cup {x \in {d} : Duplex}

\* The driver has a write whose callback has not been made.
Outstanding == drv.count # 0 \/ drv.cpt

(***************************************************************************)
(* Threads.                                                                *)
(***************************************************************************)
CanRun(t) == \A u \in Threads \ {t} : pc[u] # "idle" => Prio[u] < Prio[t]

HwiCanRun == \A t \in Threads : Prio[t] >= HwiPrio => pc[t] = "idle"

At(t, l) == CanRun(t) /\ pc[t] = l

Goto(t, l) == pc' = [pc EXCEPT ![t] = l]

\* write(buffer, n): returns at once when the port is closed.
WriteCall(t, n) ==
  /\ At(t, "idle")
  /\ open
  /\ stored + n <= MaxTotal
  /\ Goto(t, "full")
  /\ left' = [left EXCEPT ![t] = n]
  /\ crowded' = (crowded \/ n > Room)
  /\ UNCHANGED <<open, ring, drv, span, ends, stored, sent, stale>>

\* while (TX_BUFFER_FULL)
TestFull(t) ==
  /\ At(t, "full")
  /\ Goto(t, IF Full THEN "active" ELSE "store")
  /\ UNCHANGED <<open, ring, drv, left, span, ends, ghosts>>

\* { if (txActive == false) primeTx(); }  The interrupt may have drained the
\* ring since it was found full.
TestActive(t) ==
  /\ At(t, "active")
  /\ Goto(t, IF txActive THEN "full" ELSE "prime")
  /\ UNCHANGED <<open, ring, drv, left, span, ends, ghosts>>

\* mutant: the write index runs past the ring
Store_NoWrap(t) ==
  /\ At(t, "store")
  /\ stored' = stored + 1
  /\ txBuffer' = [txBuffer EXCEPT ![txWriteIndex] = stored + 1]
  /\ txWriteIndex' = txWriteIndex + 1
  /\ left' = [left EXCEPT ![t] = @ - 1]
  /\ Goto(t, IF left[t] = 1 THEN "check" ELSE "full")
  /\ UNCHANGED <<open, txReadIndex, txActive, drv, span, ends, sent, history>>

\* The byte is stored and the index advanced with interrupts disabled.
Store(t) ==
  /\ At(t, "store")
  /\ stored' = stored + 1
  /\ txBuffer' = [txBuffer EXCEPT ![txWriteIndex] = stored + 1]
  /\ txWriteIndex' = (txWriteIndex + 1) % N
  /\ left' = [left EXCEPT ![t] = @ - 1]
  /\ Goto(t, IF left[t] = 1 THEN "check" ELSE "full")
  /\ UNCHANGED <<open, txReadIndex, txActive, drv, span, ends, sent, history>>

\* if ((txActive == false) && ...
CheckActive(t) ==
  /\ At(t, "check")
  /\ Goto(t, IF txActive THEN "idle" ELSE "pending")
  /\ UNCHANGED <<open, ring, drv, left, span, ends, ghosts>>

\* mutant: the test of the empty buffer is missing
CheckPending_NoTest(t) ==
  /\ At(t, "pending")
  /\ Goto(t, "prime")
  /\ UNCHANGED <<open, ring, drv, left, span, ends, ghosts>>

\* ... (!TX_BUFFER_EMPTY)) primeTx(); return
CheckPending(t) ==
  /\ At(t, "pending")
  /\ Goto(t, IF Empty THEN "idle" ELSE "prime")
  /\ UNCHANGED <<open, ring, drv, left, span, ends, ghosts>>

\* Where primeTx() returns to: the full-buffer loop, or the end of write().
AfterPrime(t) == IF left[t] > 0 THEN "full" ELSE "idle"

\* mutant: txActive is not tested again with interrupts disabled
PrimeTx_NoRetest(t) ==
  /\ At(t, "prime")
  /\ span' = [span EXCEPT ![t] = Slice(txReadIndex, txWriteIndex)]
  /\ txActive' = TRUE
  /\ stale' = (stale \/ Empty)
  /\ Goto(t, "uwrite")
  /\ UNCHANGED <<open, txBuffer, txWriteIndex, txReadIndex, drv, left, ends, stored, sent, crowded>>

\* primeTx() up to Hwi_restore: claim the transmitter and size the slice,
\* which of an empty ring is the old bytes up to its end.
PrimeTx(t) ==
  /\ At(t, "prime")
  /\ \/ /\ txActive
        /\ Goto(t, AfterPrime(t))
        /\ UNCHANGED <<txActive, span, stale>>
     \/ /\ ~txActive
        /\ span' = [span EXCEPT ![t] = Slice(txReadIndex, txWriteIndex)]
        /\ txActive' = TRUE
        /\ stale' = (stale \/ Empty)
        /\ Goto(t, "uwrite")
  /\ UNCHANGED <<open, txBuffer, txWriteIndex, txReadIndex, drv, left, ends, stored, sent, crowded>>

\* the call of UART_write() that ends primeTx()
PrimeWrite(t) ==
  /\ At(t, "uwrite")
  /\ drv' \in UARTWrite(drv, txReadIndex, span[t])
  /\ Goto(t, AfterPrime(t))
  /\ UNCHANGED <<open, ring, left, span, ends, ghosts>>

\* flush(): while (txActive) ;
FlushCall(t) ==
  /\ At(t, "idle")
  /\ Goto(t, "flush")
  /\ UNCHANGED <<open, ring, drv, left, span, ends, ghosts>>

FlushReturn(t) ==
  /\ At(t, "flush")
  /\ ~txActive
  /\ Goto(t, "idle")
  /\ UNCHANGED <<open, ring, drv, left, span, ends, ghosts>>

\* end(): UART_close stops the transmitter and makes no callback; it drops
\* the constraints taken by open, not those of a write in progress.
End ==
  /\ At(Owner, "idle")
  /\ open
  /\ ends < MaxEnds
  /\ ends' = ends + 1
  /\ open' = FALSE
  /\ drv' = [drv EXCEPT !.txie = FALSE, !.cpt = FALSE, !.shift = FALSE]
  /\ UNCHANGED <<ring, locals, ghosts>>

\* begin() on a closed port: indices and driver are reset.  UART_open may
\* fail (no divider for the baud rate, no memory) and leaves the port closed.
Begin ==
  /\ At(Owner, "idle")
  /\ ~open
  /\ txWriteIndex' = 0
  /\ txReadIndex' = 0
  /\ txActive' = FALSE
  /\ stored' = 0
  /\ sent' = <<>>
  /\ stale' = FALSE
  /\ crowded' = FALSE
  /\ \/ open' = TRUE /\ drv' = IdleDriver(drv.held)
     \/ UNCHANGED <<open, drv>>
  /\ UNCHANGED <<txBuffer, locals, ends>>

(***************************************************************************)
(* The Hwi and the transmitter.                                            *)
(***************************************************************************)
\* UARTMSP432_hwiIntFxn with data left: writeData moves a byte to TXBUF.
TxData ==
  /\ HwiCanRun
  /\ open
  /\ drv.count # 0
  /\ (drv.txie /\ ~drv.cpt) \/ (drv.cpt /\ ~drv.shift)
  /\ sent' = IF stale THEN sent
             ELSE Append(sent, txBuffer[drv.buf + drv.size - drv.count])
  /\ drv' = [drv EXCEPT !.count = @ - 1, !.txie = FALSE, !.cpt = TRUE, !.shift = TRUE]
  /\ UNCHANGED <<open, ring, locals, ends, stored, history>>

\* The shift register runs empty: UCTXCPTIFG is set, busy is cleared.
ShiftOut ==
  /\ drv.shift
  /\ drv' = [drv EXCEPT !.shift = FALSE]
  /\ UNCHANGED <<open, ring, locals, ends, ghosts>>

\* mutant: the callback leaves txActive set when the ring has drained
TxComplete_StaysActive ==
  /\ HwiCanRun
  /\ open
  /\ drv.count = 0 /\ drv.cpt /\ ~drv.shift
  /\ LET done == [drv EXCEPT !.txie = FALSE, !.cpt = FALSE, !.held = @ - 1]
         r == (txReadIndex + drv.size) % N
     IN /\ txReadIndex' = r
        /\ IF r = txWriteIndex
           THEN drv' = done
           ELSE drv' \in UARTWrite(done, r, Slice(r, txWriteIndex))
  /\ UNCHANGED <<open, txBuffer, txWriteIndex, txActive, locals, ends, ghosts>>

\* mutant: the callback does not hand over the bytes stored meanwhile
TxComplete_Stops ==
  /\ HwiCanRun
  /\ open
  /\ drv.count = 0 /\ drv.cpt /\ ~drv.shift
  /\ drv' = [drv EXCEPT !.txie = FALSE, !.cpt = FALSE, !.held = @ - 1]
  /\ txReadIndex' = (txReadIndex + drv.size) % N
  /\ txActive' = FALSE
  /\ UNCHANGED <<open, txBuffer, txWriteIndex, locals, ends, ghosts>>

\* UARTMSP432_hwiIntFxn on the last byte: release the constraints, then
\* writeCallback(writeSize): retire the slice and hand over the next one.
TxComplete ==
  /\ HwiCanRun
  /\ open
  /\ drv.count = 0 /\ drv.cpt /\ ~drv.shift
  /\ LET done == [drv EXCEPT !.txie = FALSE, !.cpt = FALSE, !.held = @ - 1]
         r == (txReadIndex + drv.size) % N
     IN /\ txReadIndex' = r
        /\ \/ /\ r = txWriteIndex
              /\ txActive' = FALSE
              /\ drv' = done
           \/ /\ r # txWriteIndex
              /\ UNCHANGED txActive
              /\ drv' \in UARTWrite(done, r, Slice(r, txWriteIndex))
  /\ UNCHANGED <<open, txBuffer, txWriteIndex, locals, ends, ghosts>>

-----------------------------------------------------------------------------
\* setup() called begin() before the first write.
Init ==
  /\ open = TRUE
  /\ txBuffer = [i \in Index |-> 0]
  /\ txWriteIndex = 0
  /\ txReadIndex = 0
  /\ txActive = FALSE
  /\ drv = IdleDriver(0)
  /\ pc = [t \in Threads |-> "idle"]
  /\ left = [t \in Threads |-> 0]
  /\ span = [t \in Threads |-> 0]
  /\ ends = 0
  /\ stored = 0
  /\ sent = <<>>
  /\ stale = FALSE
  /\ crowded = FALSE

\* What a thread does inside a call it has begun.
InCall(t) ==
  \/ TestFull(t)
  \/ TestActive(t)
  \/ Store(t)
  \/ CheckActive(t)
  \/ CheckPending(t)
  \/ PrimeTx(t)
  \/ PrimeWrite(t)
  \/ FlushReturn(t)

Call(t) == (\E n \in 1 .. MaxWrite : WriteCall(t, n)) \/ FlushCall(t)

Hardware == TxData \/ ShiftOut \/ TxComplete

Next ==
  \/ \E t \in Threads : Call(t) \/ InCall(t)
  \/ Begin
  \/ End
  \/ Hardware

Spec == Init /\ [][Next]_vars

\* A call that can run is given the processor; the transmitter shifts; its
\* interrupt is taken once nothing masks it.
Fairness ==
  /\ \A t \in Threads : WF_vars(InCall(t))
  /\ WF_vars(TxData)
  /\ WF_vars(ShiftOut)
  /\ WF_vars(TxComplete)

FairSpec == Spec /\ Fairness

-----------------------------------------------------------------------------
(***************************************************************************)
(* Properties.                                                             *)
(***************************************************************************)
Labels ==
  {"idle", "full", "active", "store", "check", "pending", "prime", "uwrite", "flush"}

DriverState ==
  [buf : Index, size : 0 .. N, count : 0 .. N, txie : BOOLEAN, cpt : BOOLEAN,
   shift : BOOLEAN, held : Nat]

\* Every variable has its type; the indices stay inside txBuffer.
TypeOK ==
  /\ open \in BOOLEAN
  /\ txBuffer \in [Index -> Nat]
  /\ txWriteIndex \in Index
  /\ txReadIndex \in Index
  /\ txActive \in BOOLEAN
  /\ drv \in DriverState
  /\ pc \in [Threads -> Labels]
  /\ left \in [Threads -> Nat]
  /\ span \in [Threads -> 0 .. N]
  /\ ends \in Nat
  /\ stored \in Nat
  /\ sent \in Seq(Nat)
  /\ stale \in BOOLEAN
  /\ crowded \in BOOLEAN

\* txActive is a lock on the transmitter: whatever preempts whatever, at
\* most one thread is between primeTx()'s claim and its UART_write(), it
\* never finds a write in progress, and a write in progress keeps the claim.
TxOwnership ==
  /\ \A t, u \in Threads : pc[t] = "uwrite" /\ pc[u] = "uwrite" => t = u
  /\ \A t \in Threads : pc[t] = "uwrite" => txActive /\ ~Outstanding
  /\ open /\ Outstanding => txActive

\* The slice handed to the driver (or about to be) starts at txReadIndex and
\* never runs past the end of txBuffer, although txReadIndex is read again
\* after interrupts were re-enabled.
SliceInBounds ==
  /\ \A t \in Threads : pc[t] = "uwrite" => span[t] \in 1 .. N - txReadIndex
  /\ open /\ Outstanding =>
       /\ drv.buf = txReadIndex
       /\ drv.size \in 1 .. N - txReadIndex
       /\ drv.count <= drv.size

\* As long as the port was never closed, the transmit side holds the power
\* constraints exactly while a write is in progress: one set, one release.
HeldWhileSending == ends = 0 => drv.held = IF Outstanding THEN 1 ELSE 0

\* The bytes of a write in progress are not overwritten before they are sent
\* (the driver does not copy the buffer it is given).
SliceUntouched ==
  [][open /\ Outstanding =>
       \A i \in drv.buf .. drv.buf + drv.size - 1 : txBuffer'[i] = txBuffer[i]]_vars

\* The wire carries the bytes write() stored once each and in order, until
\* primeTx() is called with an empty ring: nothing else that the interrupt
\* does between the tests and the statements of write() loses a byte,
\* repeats one or changes their order.
Chan == INSTANCE SerialChannel WITH stored <- stored, sent <- sent, stale <- stale
ChannelSpec == Chan!Spec

\* A sketch that never writes more than there is room for has the channel
\* without reservation: only a write() that has to wait for room can find
\* the ring drained between its two tests.
StaleOnlyWhenCrowded == stale => crowded

\* Every write() and every flush() of a thread that nothing preempts for ever
\* (one of the highest priority) returns, until primeTx() is called with an
\* empty ring.
TopThreads == {t \in Threads : \A u \in Threads : Prio[u] <= Prio[t]}
CallsReturn == \A t \in TopThreads : pc[t] # "idle" ~> (pc[t] = "idle" \/ stale)

\* The driver has refused the write of the slice that txActive claims: bytes
\* are pending, and nobody is on the way to send them.
Refused ==
  /\ open /\ txActive /\ ~Empty /\ ~Outstanding
  /\ \A t \in Threads : pc[t] # "uwrite"

\* The same of an open port whose driver never refuses a write, with end()
\* and begin() between the calls.  (After a call of primeTx() with an empty
\* ring a writer may for ever find the ring full of old bytes, and drained
\* again when it tests txActive.)
OpenCallsReturn ==
  []~Refused =>
    \A t \in TopThreads :
      (open /\ pc[t] # "idle") ~> (pc[t] = "idle" \/ ~open \/ stale)

\* Every byte write() stored is sent, whether or not anyone writes again,
\* unless the port is closed first, the driver refuses a write or primeTx()
\* is called with an empty ring.
AllSent ==
  []~Refused =>
    \A k \in 1 .. MaxTotal : stored >= k ~> (Len(sent) >= k \/ ~open \/ stale)

\* A byte is stored in a free slot only: the test of the full buffer still
\* holds when the byte is stored, until primeTx() is called with an empty
\* ring and the read index passes the write index.
StoresInFreeSlot ==
  [][~stale => \A t \in Threads : pc[t] = "store" /\ pc'[t] # "store" => ~Full]_vars

\* primeTx() sends bytes that are pending, not old contents of the ring.
PrimesPending == \A t \in Threads : pc[t] = "uwrite" => span[t] <= Pending

\* A closed port holds no power constraint for transmission.
ReleasedWhenClosed == ~open => drv.held = 0

\* availableForWrite() is the number of bytes write() can store at once.
RoomReported == open => AvailableForWrite = Room
=============================================================================
