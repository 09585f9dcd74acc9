------------------------------ MODULE SerialRx ------------------------------
(***************************************************************************)
(* The receive path of HardwareSerial: read() in callback and in blocking  *)
(* mode, acquire() and release(), and the receive half of the UART driver  *)
(* (its ring buffer, UARTMSP432_read, the Hwi) fed by the wire.            *)
(*                                                                         *)
(* The ports of the boards never ask for the continuous read mode, so      *)
(* HardwareSerial's own rxBuffer stays unused and is not modelled.         *)
(* Threads interleave in any order: a superset of what priorities allow.   *)
(*                                                                         *)
(* Ghost state: characters are numbered in order of arrival; got is what   *)
(* the calls of read() returned.                                           *)
(***************************************************************************)
EXTENDS Integers, Sequences, FiniteSets

CONSTANTS
  Threads,     \* the callers of read(), acquire() and release()
  Owner,       \* the thread that opens and closes the port
  NoThread,
  R,           \* ringBufSize
  Gated,       \* TRUE: tasks put a blocking read() between acquire() and release()
  MaxArrive,   \* bound: how many characters arrive in one session
  MaxEnds,     \* bound: how many times the port is closed
  MaxNest      \* bound: how deep a task nests acquire()

ASSUME RxAssumption ==
  /\ Owner \in Threads
  /\ NoThread \notin Threads
  /\ R \in Nat \ {0}
  /\ Gated \in BOOLEAN
  /\ MaxArrive \in Nat
  /\ MaxEnds \in Nat
  /\ MaxNest \in Nat

VARIABLES
  open,      \* uart # NULL
  blocking,  \* blockingModeEnabled
  rx,        \* the eUSCI: buf is RXBUF (0: RXIFG clear), overrun its UCOE flag
  ring,      \* the driver's RingBuf
  drv,       \* the driver's readSize # 0, readCount, drainByISR, callCallback
  readSem,   \* the driver's binary semaphore
  gate,      \* the owner of HardwareSerial's GateMutex
  masked,    \* the thread that disabled interrupts across steps
  pc, char,  \* where each thread is in read(), and what its peek() returned
  depth,     \* ghost: how many acquire() a thread has not yet released
  ends,      \* how many times end() was called
  arrived, got  \* ghosts

driver == <<ring, drv, readSem>>
locals == <<masked, pc, char>>
locking == <<gate, depth>>
session == <<open, blocking, ends>>
vars == <<session, rx, driver, locking, locals, arrived, got>>

NoChar == -1

(***************************************************************************)
(* RingBuf.c.                                                              *)
(***************************************************************************)
EmptyRing == [data |-> [i \in 0 .. R - 1 |-> 0], head |-> R - 1, tail |-> 0, count |-> 0]

\* mutant: a full ring takes the new character in place of the oldest
RingPut_Overwrites(r, c) ==
  LET next == (r.head + 1) % R
  IN IF r.count # R
     THEN [r EXCEPT !.data[next] = c, !.head = next, !.count = @ + 1]
     ELSE [r EXCEPT !.data[next] = c, !.head = next, !.tail = (@ + 1) % R]

\* RingBuf_put(): a full ring stays as it is
RingPut(r, c) ==
  LET next == (r.head + 1) % R
  IN IF r.count # R
     THEN [r EXCEPT !.data[next] = c, !.head = next, !.count = @ + 1]
     ELSE r

\* RingBuf_get() of a ring that is not empty, and the character it returns
RingGet(r) == [r EXCEPT !.tail = (@ + 1) % R, !.count = @ - 1]
Oldest(r) == r.data[r.tail]

IdleDriver == [busy |-> FALSE, want |-> 0, drain |-> FALSE, wake |-> FALSE]

(***************************************************************************)
(* Threads.  A step between HwiP_disable and HwiP_restore is one action;   *)
(* masked spans the steps that HardwareSerial::read() itself protects.     *)
(***************************************************************************)
At(t, l) == masked \in {NoThread, t} /\ pc[t] = l

Goto(t, l) == pc' = [pc EXCEPT ![t] = l]

\* thread t's read() has got character c, and goes to l
Obtain(t, c, l) ==
  /\ got' = Append(got, c)
  /\ Goto(t, l)

\* mutant: read() does not disable interrupts
ReadPeek_Unmasked(t) ==
  /\ At(t, "idle")
  /\ open /\ ~blocking
  /\ char' = [char EXCEPT ![t] = IF ring.count # 0 THEN Oldest(ring) ELSE NoChar]
  /\ Goto(t, "take")
  /\ UNCHANGED <<session, rx, driver, locking, masked, arrived, got>>

\* read() in callback mode: Hwi_disable(), peek()
ReadPeek(t) ==
  /\ At(t, "idle")
  /\ open /\ ~blocking
  /\ masked' = t
  /\ char' = [char EXCEPT ![t] = IF ring.count # 0 THEN Oldest(ring) ELSE NoChar]
  /\ Goto(t, "take")
  /\ UNCHANGED <<session, rx, driver, locking, arrived, got>>

\* UARTMSP432_read(uart, &iChar, 1) and readTaskCallback(): it refuses while
\* an earlier read is unfinished; an empty ring leaves the read to the Hwi.
\* Then Hwi_restore() and return.
ReadTake(t) ==
  /\ At(t, "take")
  /\ masked' = NoThread
  /\ \/ /\ char[t] = NoChar
        /\ Goto(t, "idle")
        /\ UNCHANGED <<ring, drv, got>>
     \/ /\ char[t] # NoChar
        /\ \/ /\ drv.busy
              /\ Obtain(t, char[t], "idle")
              /\ UNCHANGED <<ring, drv>>
           \/ /\ ~drv.busy /\ ring.count # 0
              /\ ring' = RingGet(ring)
              /\ Obtain(t, Oldest(ring), "idle")
              /\ UNCHANGED drv
           \/ /\ ~drv.busy /\ ring.count = 0
              /\ drv' = [drv EXCEPT !.busy = TRUE, !.want = 1, !.drain = TRUE]
              /\ Obtain(t, char[t], "idle")
              /\ UNCHANGED ring
  /\ UNCHANGED <<session, rx, readSem, locking, char, arrived>>

\* acquire(): GateMutex_enter of a free gate, or a nested call of its owner
Acquire(t) ==
  /\ At(t, "idle")
  /\ open
  /\ depth[t] < MaxNest
  /\ gate \in {NoThread, t}
  /\ gate' = t
  /\ depth' = [depth EXCEPT ![t] = @ + 1]
  /\ UNCHANGED <<session, rx, driver, locals, arrived, got>>

\* release(): GateMutex_leave with key 0, whatever acquire() got
Release(t) ==
  /\ At(t, "idle")
  /\ depth[t] > 0
  /\ gate' = NoThread
  /\ depth' = [depth EXCEPT ![t] = @ - 1]
  /\ UNCHANGED <<session, rx, driver, locals, arrived, got>>

\* read() in blocking mode: UARTMSP432_read() stores the request
ReadCall(t) ==
  /\ At(t, "idle")
  /\ open /\ blocking
  /\ Gated => depth[t] > 0
  /\ drv' = [drv EXCEPT !.busy = TRUE, !.want = 1]
  /\ Goto(t, "clear")
  /\ UNCHANGED <<session, rx, ring, readSem, locking, masked, char, arrived, got>>

\* readTaskBlocking(): a NO_WAIT pend resets the semaphore
ReadClear(t) ==
  /\ At(t, "clear")
  /\ readSem' = 0
  /\ Goto(t, "while")
  /\ UNCHANGED <<session, rx, ring, drv, locking, masked, char, arrived, got>>

\* while (object->readCount); a read that is complete returns
ReadWhile(t) ==
  /\ At(t, "while")
  /\ Goto(t, IF drv.want # 0 THEN "get" ELSE "idle")
  /\ UNCHANGED <<session, rx, driver, locking, masked, char, arrived, got>>

\* mutant: the reader goes to sleep without asking for the wake-up
ReadGet_NoWake(t) ==
  /\ At(t, "get")
  /\ \/ /\ ring.count = 0
        /\ Goto(t, "pend")
        /\ UNCHANGED <<ring, drv, got>>
     \/ /\ ring.count # 0
        /\ ring' = RingGet(ring)
        /\ Obtain(t, Oldest(ring), "count")
        /\ UNCHANGED drv
  /\ UNCHANGED <<session, rx, readSem, locking, masked, char, arrived>>

\* take a character, or ask the Hwi to post the semaphore
ReadGet(t) ==
  /\ At(t, "get")
  /\ \/ /\ ring.count = 0
        /\ drv' = [drv EXCEPT !.wake = TRUE]
        /\ Goto(t, "pend")
        /\ UNCHANGED <<ring, got>>
     \/ /\ ring.count # 0
        /\ ring' = RingGet(ring)
        /\ Obtain(t, Oldest(ring), "count")
        /\ UNCHANGED drv
  /\ UNCHANGED <<session, rx, readSem, locking, masked, char, arrived>>

\* SemaphoreP_pend(WAIT_FOREVER)
ReadPend(t) ==
  /\ At(t, "pend")
  /\ readSem = 1
  /\ readSem' = 0
  /\ Goto(t, "again")
  /\ UNCHANGED <<session, rx, ring, drv, locking, masked, char, arrived, got>>

\* RingBuf_get() again; its result is not tested, so read() would return the
\* uninitialized readIn if the ring were empty
ReadAgain(t) ==
  /\ At(t, "again")
  /\ \/ /\ ring.count # 0
        /\ ring' = RingGet(ring)
        /\ Obtain(t, Oldest(ring), "count")
     \/ /\ ring.count = 0
        /\ Obtain(t, 0, "count")
        /\ UNCHANGED ring
  /\ UNCHANGED <<session, rx, drv, readSem, locking, masked, char, arrived>>

\* object->readCount--: size_t, so 0 becomes a count that never runs out
ReadCount(t) ==
  /\ At(t, "count")
  /\ drv' = [drv EXCEPT !.want = IF @ = 1 THEN 0 ELSE 2]
  /\ Goto(t, "while")
  /\ UNCHANGED <<session, rx, ring, readSem, locking, masked, char, arrived, got>>

\* end(): no task is inside read() (the semaphore of a sleeping one would be
\* deleted under it)
End ==
  /\ At(Owner, "idle")
  /\ open
  /\ \A t \in Threads : pc[t] = "idle"
  /\ ends < MaxEnds
  /\ ends' = ends + 1
  /\ open' = FALSE
  /\ rx' = [buf |-> 0, overrun |-> FALSE]
  /\ UNCHANGED <<blocking, driver, locking, locals, arrived, got>>

\* begin() of a closed port, in either mode: UARTMSP432_open() resets the
\* ring and the request, GateMutex_construct() the gate
Begin ==
  /\ At(Owner, "idle")
  /\ ~open
  /\ \A t \in Threads : depth[t] = 0
  /\ open' = TRUE
  /\ blocking' \in BOOLEAN
  /\ ring' = EmptyRing
  /\ drv' = IdleDriver
  /\ readSem' = 0
  /\ gate' = NoThread
  /\ arrived' = 0
  /\ got' = <<>>
  /\ UNCHANGED <<rx, locals, depth, ends>>

(***************************************************************************)
(* The receiver and the Hwi.                                               *)
(***************************************************************************)
\* A character is shifted into RXBUF; one that was not read is overwritten.
Arrive ==
  /\ open
  /\ arrived < MaxArrive
  /\ arrived' = arrived + 1
  /\ rx' = [buf |-> arrived', overrun |-> rx.buf # 0]
  /\ UNCHANGED <<session, driver, locking, locals, got>>

\* UARTMSP432_hwiIntFxn with an error flag: the character is read and dropped
HwiError ==
  /\ masked = NoThread
  /\ open
  /\ rx.buf # 0 /\ rx.overrun
  /\ rx' = [buf |-> 0, overrun |-> FALSE]
  /\ UNCHANGED <<session, driver, locking, locals, arrived, got>>

\* UARTMSP432_hwiIntFxn with RXIFG: the character goes to the ring; then the
\* task that waits is woken (readIsrBinaryBlocking) or the read left to the
\* Hwi takes the character (readIsrBinaryCallback, readTaskCallback).
HwiReceive ==
  /\ masked = NoThread
  /\ open
  /\ rx.buf # 0 /\ ~rx.overrun
  /\ rx' = [rx EXCEPT !.buf = 0]
  /\ LET filled == RingPut(ring, rx.buf)
     IN \/ /\ blocking
           /\ ring' = filled
           /\ readSem' = IF drv.wake THEN 1 ELSE readSem
           /\ drv' = [drv EXCEPT !.wake = FALSE]
        \/ /\ ~blocking
           /\ ring' = IF drv.drain THEN RingGet(filled) ELSE filled
           /\ drv' = IF drv.drain THEN IdleDriver ELSE drv
           /\ UNCHANGED readSem
  /\ UNCHANGED <<session, locking, locals, arrived, got>>

-----------------------------------------------------------------------------
\* setup() opened the port in one of the two modes.
Init ==
  /\ open = TRUE
  /\ blocking \in BOOLEAN
  /\ rx = [buf |-> 0, overrun |-> FALSE]
  /\ ring = EmptyRing
  /\ drv = IdleDriver
  /\ readSem = 0
  /\ gate = NoThread
  /\ masked = NoThread
  /\ pc = [t \in Threads |-> "idle"]
  /\ char = [t \in Threads |-> NoChar]
  /\ depth = [t \in Threads |-> 0]
  /\ ends = 0
  /\ arrived = 0
  /\ got = <<>>

\* What a thread does inside a call of read() it has begun.
InRead(t) ==
  \/ ReadTake(t)
  \/ ReadClear(t)
  \/ ReadWhile(t)
  \/ ReadGet(t)
  \/ ReadPend(t)
  \/ ReadAgain(t)
  \/ ReadCount(t)

Next ==
  \/ \E t \in Threads :
       ReadPeek(t) \/ ReadCall(t) \/ Acquire(t) \/ Release(t) \/ InRead(t)
  \/ Begin
  \/ End
  \/ Arrive
  \/ HwiError
  \/ HwiReceive

Spec == Init /\ [][Next]_vars

\* A call that can go on is given the processor (in blocking mode tasks of
\* higher priority sleep when nothing arrives); the Hwi is taken once nothing
\* masks it.
Fairness ==
  /\ \A t \in Threads : WF_vars(InRead(t))
  /\ WF_vars(HwiError)
  /\ WF_vars(HwiReceive)

FairSpec == Spec /\ Fairness

(***************************************************************************)
(* Properties.                                                             *)
(***************************************************************************)
Char == 0 .. MaxArrive

TypeOK ==
  /\ open \in BOOLEAN /\ blocking \in BOOLEAN
  /\ rx \in [buf : Char, overrun : BOOLEAN]
  /\ ring \in [data : [0 .. R - 1 -> Char], head : 0 .. R - 1, tail : 0 .. R - 1,
               count : 0 .. R]
  /\ drv \in [busy : BOOLEAN, want : 0 .. 2, drain : BOOLEAN, wake : BOOLEAN]
  /\ readSem \in {0, 1}
  /\ gate \in Threads \cup {NoThread}
  /\ masked \in Threads \cup {NoThread}
  /\ pc \in [Threads -> {"idle", "take", "clear", "while", "get", "pend", "again", "count"}]
  /\ char \in [Threads -> Char \cup {NoChar}]
  /\ depth \in [Threads -> 0 .. MaxNest]
  /\ ends \in 0 .. MaxEnds
  /\ arrived \in Char
  /\ got \in Seq(Char \cup {NoChar})

\* The characters the port holds, oldest first: the ring, then RXBUF.
Waiting ==
  [i \in 1 .. ring.count |-> ring.data[(ring.tail + i - 1) % R]]
    \o IF rx.buf # 0 /\ ~rx.overrun THEN <<rx.buf>> ELSE <<>>

\* read() returns what arrived, once each and in order, and only the newest
\* characters are lost: the receive path implements SerialInput.
Input == INSTANCE SerialInput WITH queue <- IF open THEN Waiting ELSE <<>>, Capacity <- R
InputSpec == Input!Spec

\* "UART_read() will ALWAYS be satisfied because we never ask for more chars
\* than there are available in the ring buffer": whatever interrupts read(),
\* the driver is not busy and has a character when UART_read() is called, and
\* so no read is ever left to the Hwi.
ReadSatisfied ==
  open /\ ~blocking =>
    /\ ~drv.drain
    /\ \A t \in Threads :
         pc[t] = "take" /\ char[t] # NoChar => ~drv.busy /\ ring.count # 0

\* A task that sleeps in read() returns once a character is in the ring.
SleeperServed ==
  \A t \in Threads : pc[t] = "pend" /\ ring.count # 0 ~> pc[t] = "idle"

\* A task that called acquire() owns the gate until its last release().
GateHeld == \A t \in Threads : depth[t] > 0 => gate = t
=============================================================================
