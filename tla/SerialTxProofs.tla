--------------------------- MODULE SerialTxProofs ---------------------------
(***************************************************************************)
(* Proofs about SerialTx for every set of threads, every assignment of     *)
(* priorities and every size of the ring.                                  *)
(***************************************************************************)
EXTENDS SerialTx, TLAPS

-----------------------------------------------------------------------------
(* Arithmetic of the ring.                                                 *)

\* An index advanced modulo N is an index.
LEMMA ModRange == \A i \in Nat : i % N \in Index
  BY SerialAssumption DEF Index

LEMMA NextIndex == \A i \in Index : \A k \in Nat : (i + k) % N \in Index
<1>1. \A i \in Index : \A k \in Nat : i + k \in Nat
  BY DEF Index
<1> QED
  BY <1>1, ModRange

\* A slice is not empty and ends inside the buffer.
LEMMA SliceRange ==
  \A r, w \in Index : Slice(r, w) \in 1 .. N - r
  BY SerialAssumption DEF Index, Slice

\* What UART_write may leave behind.
LEMMA UARTWriteCases ==
  ASSUME NEW d, NEW r, NEW n, NEW e \in UARTWrite(d, r, n)
  PROVE  e = d \/ (d.count = 0 /\ ~d.shift /\ e = Started(d, r, n))
  BY DEF UARTWrite

\* The driver's record keeps its type when a write is started, with a slice
\* inside the buffer, and when one is retired.
LEMMA StartedState ==
  ASSUME NEW d \in DriverState, NEW r \in Index, NEW n \in 0 .. N
  PROVE  LET e == Started(d, r, n)
         IN /\ e \in DriverState
            /\ e.buf = r /\ e.size = n /\ e.count = n /\ e.held = d.held + 1
<1>1. d.held + 1 \in Nat
  BY DEF DriverState
<1> HIDE DEF Index
<1> QED
  BY <1>1 DEF Started, DriverState

LEMMA RetiredState ==
  ASSUME NEW d \in DriverState, d.held > 0
  PROVE  LET e == [d EXCEPT !.txie = FALSE, !.cpt = FALSE, !.held = @ - 1]
         IN /\ e \in DriverState
            /\ e.count = d.count /\ e.cpt = FALSE /\ e.held = d.held - 1
<1>1. d.held - 1 \in Nat
  BY DEF DriverState
<1> QED
  BY <1>1 DEF DriverState

LEMMA IdleState ==
  ASSUME NEW h \in Nat
  PROVE  IdleDriver(h) \in DriverState
  BY SerialAssumption DEF IdleDriver, DriverState, Index

-----------------------------------------------------------------------------
(* The inductive invariant.  TxOwnership alone is not inductive: that a    *)
(* claim is never made while a write is in progress needs the port to be   *)
(* open in every call, and the types need the counters to stay positive    *)
(* where they are decremented.                                             *)

CallsNeedOpenPort ==
  \A t \in Threads : pc[t] \notin {"idle", "flush"} => open

BytesLeft == \A t \in Threads : pc[t] \in {"full", "active", "store"} => left[t] > 0

HeldWhenOutstanding == open /\ Outstanding => drv.held > 0

OpenUntilEnd == ~open => ends > 0

IInv ==
  /\ TypeOK
  /\ CallsNeedOpenPort
  /\ BytesLeft
  /\ TxOwnership
  /\ SliceInBounds
  /\ HeldWhenOutstanding
  /\ OpenUntilEnd
  /\ HeldWhileSending

-----------------------------------------------------------------------------
USE SerialAssumption

LEMMA InitIInv == Init => IInv
<1> SUFFICES ASSUME Init
             PROVE  IInv
  OBVIOUS
<1>1. TypeOK
  <2>0. sent \in Seq(Nat)
    BY DEF Init
  <2>1. open \in BOOLEAN /\ txActive \in BOOLEAN /\ stale \in BOOLEAN /\ crowded \in BOOLEAN
    BY DEF Init
  <2>2. txReadIndex \in Index /\ txWriteIndex \in Index /\ txBuffer \in [Index -> Nat]
    BY DEF Init, Index
  <2> QED
    BY <2>0, <2>1, <2>2, IdleState DEF Init, TypeOK, Labels
<1>2. ~Outstanding /\ drv.held = 0
  BY DEF Init, Outstanding, IdleDriver
<1> QED
  BY <1>1, <1>2
  DEF Init, IInv, CallsNeedOpenPort, BytesLeft, TxOwnership, SliceInBounds,
      HeldWhenOutstanding, OpenUntilEnd, HeldWhileSending

\* A thread in a call moves, and nothing the transmitter depends on changes.
LEMMA MoveIInv ==
  ASSUME IInv, NEW t \in Threads, NEW l \in Labels \ {"uwrite"},
         l \notin {"idle", "flush"} => open,
         Goto(t, l),
         left' \in [Threads -> Nat],
         \A u \in Threads \ {t} : left'[u] = left[u],
         l \in {"full", "active", "store"} => left'[t] > 0,
         txBuffer' \in [Index -> Nat], txWriteIndex' \in Index, stored' \in Nat,
         crowded' \in BOOLEAN,
         UNCHANGED <<open, txReadIndex, txActive, drv, span, ends, sent, stale>>
  PROVE  IInv'
<1>1. pc' \in [Threads -> Labels] /\ pc'[t] = l
      /\ \A u \in Threads \ {t} : pc'[u] = pc[u]
  BY DEF IInv, TypeOK, Goto
<1>2. TypeOK'
  BY <1>1 DEF IInv, TypeOK, history
<1>3. CallsNeedOpenPort' /\ BytesLeft'
  BY <1>1 DEF IInv, CallsNeedOpenPort, BytesLeft
<1>4. TxOwnership' /\ SliceInBounds'
  BY <1>1 DEF IInv, TxOwnership, SliceInBounds, Outstanding
<1>5. HeldWhenOutstanding' /\ OpenUntilEnd' /\ HeldWhileSending'
  BY DEF IInv, HeldWhenOutstanding, OpenUntilEnd, HeldWhileSending, Outstanding
<1> QED
  BY <1>2, <1>3, <1>4, <1>5 DEF IInv

LEMMA ThreadIInv ==
  ASSUME IInv, NEW t \in Threads, Call(t) \/ InCall(t)
  PROVE  IInv'
<1>1. ASSUME NEW n \in 1 .. MaxWrite, WriteCall(t, n)
      PROVE  IInv'
  <2>1. left' = [left EXCEPT ![t] = n] /\ open
        /\ Goto(t, "full")
    BY <1>1 DEF WriteCall
  <2>2. left' \in [Threads -> Nat] /\ left'[t] > 0
        /\ \A u \in Threads \ {t} : left'[u] = left[u]
    BY <2>1 DEF IInv, TypeOK
  <2>3. crowded' \in BOOLEAN
    BY <1>1 DEF WriteCall, IInv, TypeOK
  <2> QED
    BY <1>1, <2>1, <2>2, <2>3, MoveIInv
    DEF WriteCall, IInv, TypeOK, Labels, ring, ghosts, history
<1>2. CASE FlushCall(t)
  BY <1>2, MoveIInv DEF FlushCall, IInv, TypeOK, BytesLeft, Labels, ring, ghosts, history
<1>3. CASE TestFull(t)
  BY <1>3, MoveIInv
  DEF TestFull, At, IInv, TypeOK, BytesLeft, CallsNeedOpenPort, Labels, ring, ghosts, history
<1>9. CASE TestActive(t)
  BY <1>9, MoveIInv
  DEF TestActive, At, IInv, TypeOK, BytesLeft, CallsNeedOpenPort, Labels, ring, ghosts, history
<1>4. CASE Store(t)
  <2>1. (txWriteIndex + 1) % N \in Index
    BY NextIndex DEF IInv, TypeOK
  <2>2. open /\ left[t] > 0
    BY <1>4 DEF Store, At, IInv, BytesLeft, CallsNeedOpenPort
  <2>3. left' \in [Threads -> Nat] /\ left'[t] = left[t] - 1
        /\ \A u \in Threads \ {t} : left'[u] = left[u]
    BY <1>4, <2>2 DEF Store, IInv, TypeOK
  <2>4. txBuffer' \in [Index -> Nat] /\ stored' \in Nat
    BY <1>4 DEF Store, IInv, TypeOK
  <2>5. left[t] # 1 => left'[t] > 0
    BY <2>2, <2>3 DEF IInv, TypeOK
  <2> DEFINE l == IF left[t] = 1 THEN "check" ELSE "full"
  <2>6. Goto(t, l) /\ txWriteIndex' \in Index /\ crowded' \in BOOLEAN
        /\ UNCHANGED <<open, txReadIndex, txActive, drv, span, ends, sent, stale>>
    BY <1>4, <2>1 DEF Store, history, IInv, TypeOK
  <2>7. l \in Labels \ {"uwrite"} /\ (l \in {"full", "active", "store"} => left'[t] > 0)
    BY <2>5 DEF Labels
  <2> HIDE DEF l
  <2> QED
    BY <2>2, <2>3, <2>4, <2>6, <2>7, MoveIInv
<1>5. CASE CheckActive(t)
  BY <1>5, MoveIInv
  DEF CheckActive, At, IInv, TypeOK, CallsNeedOpenPort, Labels, ring, ghosts, history
<1>10. CASE CheckPending(t)
  BY <1>10, MoveIInv
  DEF CheckPending, At, IInv, TypeOK, CallsNeedOpenPort, Labels, ring, ghosts, history
<1>6. CASE PrimeTx(t)
  <2>1. CASE txActive
    BY <1>6, <2>1, MoveIInv
    DEF PrimeTx, AfterPrime, At, IInv, TypeOK, CallsNeedOpenPort, Labels, ring, ghosts, history
  <2>2. CASE ~txActive
    <3>1. /\ open /\ ~Outstanding
          /\ \A u \in Threads : pc[u] # "uwrite"
      BY <1>6, <2>2 DEF PrimeTx, At, IInv, CallsNeedOpenPort, TxOwnership
    <3>2. Slice(txReadIndex, txWriteIndex) \in 1 .. N - txReadIndex
      BY SliceRange DEF IInv, TypeOK
    <3>3. /\ pc' \in [Threads -> Labels] /\ pc'[t] = "uwrite"
          /\ \A u \in Threads \ {t} : pc'[u] = pc[u]
          /\ span' \in [Threads -> 0 .. N]
          /\ span'[t] = Slice(txReadIndex, txWriteIndex)
          /\ txActive' = TRUE /\ stale' \in BOOLEAN
          /\ UNCHANGED <<open, txBuffer, txWriteIndex, txReadIndex, drv, left, ends, stored, sent, crowded>>
      <4>0. txReadIndex \in Index
        BY DEF IInv, TypeOK
      <4>1. Slice(txReadIndex, txWriteIndex) \in 0 .. N
        BY <3>2, <4>0 DEF Index
      <4> QED
        BY <1>6, <2>2, <4>1 DEF PrimeTx, Goto, IInv, TypeOK, Labels, ghosts, history
    <3>4. TypeOK'
      BY <3>3 DEF IInv, TypeOK, history
    <3>5. CallsNeedOpenPort' /\ BytesLeft'
      BY <3>1, <3>3 DEF IInv, CallsNeedOpenPort, BytesLeft
    <3>6. TxOwnership' /\ SliceInBounds'
      BY <3>1, <3>2, <3>3 DEF TxOwnership, SliceInBounds, Outstanding
    <3>7. HeldWhenOutstanding' /\ OpenUntilEnd' /\ HeldWhileSending'
      BY <3>3 DEF IInv, HeldWhenOutstanding, OpenUntilEnd, HeldWhileSending, Outstanding
    <3> QED
      BY <3>4, <3>5, <3>6, <3>7 DEF IInv
  <2> QED
    BY <2>1, <2>2
<1>7. CASE PrimeWrite(t)
  <2>1. /\ open /\ ~Outstanding /\ txActive
        /\ \A u \in Threads \ {t} : pc[u] # "uwrite"
        /\ span[t] \in 1 .. N - txReadIndex
    BY <1>7 DEF PrimeWrite, At, IInv, CallsNeedOpenPort, TxOwnership, SliceInBounds
  <2>2. /\ pc' \in [Threads -> Labels] /\ pc'[t] = AfterPrime(t)
        /\ \A u \in Threads \ {t} : pc'[u] = pc[u]
        /\ UNCHANGED <<open, txBuffer, txWriteIndex, txReadIndex, txActive, left, span, ends, stored, sent, history>>
    BY <1>7 DEF PrimeWrite, AfterPrime, Goto, IInv, TypeOK, Labels, ring, ghosts, history
  <2>3. CASE drv' = drv
    BY <1>7, <2>1, <2>3, MoveIInv
    DEF PrimeWrite, AfterPrime, IInv, TypeOK, Labels, ring, ghosts, history
  <2>4. CASE drv' = Started(drv, txReadIndex, span[t])
    <3>1. /\ drv' \in DriverState
          /\ drv'.buf = txReadIndex /\ drv'.size = span[t] /\ drv'.count = span[t]
          /\ drv'.held = drv.held + 1
      <4>1. span[t] \in 0 .. N /\ txReadIndex \in Index /\ drv \in DriverState
        BY DEF IInv, TypeOK
      <4> HIDE DEF IInv
      <4> QED
        BY <2>4, <4>1, StartedState
    <3>2. TypeOK'
      BY <2>2, <3>1 DEF IInv, TypeOK, history
    <3>3. CallsNeedOpenPort' /\ BytesLeft'
      BY <2>1, <2>2 DEF IInv, CallsNeedOpenPort, BytesLeft, AfterPrime
    <3>4. TxOwnership' /\ SliceInBounds'
      <4>1. \A u \in Threads : pc'[u] # "uwrite"
        BY <2>1, <2>2 DEF AfterPrime
      <4>2. span[t] <= span[t]
        BY <2>1 DEF IInv, TypeOK, Index
      <4> QED
        BY <2>1, <2>2, <3>1, <4>1, <4>2 DEF TxOwnership, SliceInBounds
    <3>5. drv.held \in Nat /\ Outstanding'
      BY <2>1, <3>1 DEF Outstanding, IInv, TypeOK, DriverState
    <3>6. HeldWhenOutstanding' /\ OpenUntilEnd' /\ HeldWhileSending'
      BY <2>1, <2>2, <3>1, <3>5
      DEF IInv, HeldWhenOutstanding, OpenUntilEnd, HeldWhileSending
    <3> QED
      BY <3>2, <3>3, <3>4, <3>6 DEF IInv
  <2> QED
    BY <1>7, <2>3, <2>4, UARTWriteCases DEF PrimeWrite
<1>8. CASE FlushReturn(t)
  BY <1>8, MoveIInv DEF FlushReturn, IInv, TypeOK, Labels, ring, ghosts, history
<1> QED
  BY <1>1, <1>2, <1>3, <1>4, <1>5, <1>6, <1>7, <1>8, <1>9, <1>10 DEF Call, InCall

\* The owner runs only when no other thread is in a call: it has the lowest
\* priority.
LEMMA OwnerAlone ==
  ASSUME At(Owner, "idle"), NEW t \in Threads, TypeOK
  PROVE  pc[t] = "idle"
<1>1. CASE t = Owner
  BY <1>1 DEF At
<1>2. CASE t # Owner
  BY <1>2 DEF At, CanRun, TypeOK
<1> QED
  BY <1>1, <1>2

LEMMA EndIInv == IInv /\ End => IInv'
<1> SUFFICES ASSUME IInv, End
             PROVE  IInv'
  OBVIOUS
<1>1. \A t \in Threads : pc[t] = "idle"
  BY OwnerAlone DEF End, IInv
<1>2. /\ drv' \in DriverState
      /\ open' = FALSE /\ ends' = ends + 1
      /\ UNCHANGED <<txBuffer, txWriteIndex, txReadIndex, txActive, pc, left, span, stored, sent, history>>
  BY DEF End, IInv, TypeOK, DriverState, ring, locals, ghosts, history
<1>3. TypeOK'
  <2>1. open' \in BOOLEAN
    BY DEF End
  <2>2. ends' \in Nat
    BY <1>2 DEF IInv, TypeOK
  <2> QED
    BY <1>2, <2>1, <2>2 DEF IInv, TypeOK, history
<1>4. CallsNeedOpenPort' /\ BytesLeft' /\ TxOwnership' /\ SliceInBounds'
  BY <1>1, <1>2 DEF CallsNeedOpenPort, BytesLeft, TxOwnership, SliceInBounds
<1>5. HeldWhenOutstanding' /\ OpenUntilEnd' /\ HeldWhileSending'
  BY <1>2 DEF IInv, TypeOK, HeldWhenOutstanding, OpenUntilEnd, HeldWhileSending
<1> QED
  BY <1>3, <1>4, <1>5 DEF IInv

LEMMA BeginIInv == IInv /\ Begin => IInv'
<1> SUFFICES ASSUME IInv, Begin
             PROVE  IInv'
  OBVIOUS
<1>1. \A t \in Threads : pc[t] = "idle"
  BY OwnerAlone DEF Begin, IInv
<1>2. /\ ~open /\ txActive' = FALSE /\ txReadIndex' = 0 /\ txWriteIndex' = 0
      /\ stored' = 0 /\ sent' = <<>> /\ stale' = FALSE /\ crowded' = FALSE
      /\ UNCHANGED <<txBuffer, pc, left, span, ends>>
  BY DEF Begin, locals
<1>3. \/ open' = TRUE /\ drv' = IdleDriver(drv.held)
      \/ open' = FALSE /\ drv' = drv
  BY <1>2 DEF Begin, IInv, TypeOK
<1>4. TypeOK'
  <2>0. sent' \in Seq(Nat)
    BY <1>2
  <2>1. /\ open' \in BOOLEAN /\ txActive' \in BOOLEAN
        /\ stale' \in BOOLEAN /\ crowded' \in BOOLEAN
    BY <1>2, <1>3
  <2>2. txReadIndex' \in Index /\ txWriteIndex' \in Index /\ stored' \in Nat
    BY <1>2 DEF Index
  <2>3. drv' \in DriverState
    BY <1>3, IdleState DEF IInv, TypeOK, DriverState
  <2> QED
    BY <1>2, <2>0, <2>1, <2>2, <2>3 DEF IInv, TypeOK
<1>5. open' => ~Outstanding'
  BY <1>3 DEF Outstanding, IdleDriver
<1>6. drv'.held = drv.held
  BY <1>3 DEF IdleDriver
<1>7. CallsNeedOpenPort' /\ BytesLeft' /\ TxOwnership' /\ SliceInBounds'
  BY <1>1, <1>2, <1>5 DEF CallsNeedOpenPort, BytesLeft, TxOwnership, SliceInBounds
<1>8. ends # 0
  BY <1>2 DEF IInv, OpenUntilEnd, TypeOK
<1>9. HeldWhenOutstanding' /\ OpenUntilEnd' /\ HeldWhileSending'
  BY <1>2, <1>5, <1>8 DEF IInv, TypeOK, HeldWhenOutstanding, OpenUntilEnd, HeldWhileSending
<1> QED
  BY <1>4, <1>7, <1>9 DEF IInv

LEMMA TxDataIInv == IInv /\ TxData => IInv'
<1> SUFFICES ASSUME IInv, TxData
             PROVE  IInv'
  OBVIOUS
<1>1. /\ open /\ Outstanding /\ txActive
      /\ drv.buf = txReadIndex /\ drv.size \in 1 .. N - txReadIndex
      /\ drv.count \in 1 .. drv.size
  <2>1. open /\ Outstanding /\ drv.count # 0
    BY DEF TxData, Outstanding
  <2>2. drv.count \in Nat /\ drv.size \in Nat
    BY DEF IInv, TypeOK, DriverState
  <2>3. txActive /\ drv.buf = txReadIndex /\ drv.size \in 1 .. N - txReadIndex
        /\ drv.count <= drv.size
    BY <2>1 DEF IInv, TxOwnership, SliceInBounds
  <2> QED
    BY <2>1, <2>2, <2>3
<1>2. /\ drv' = [drv EXCEPT !.count = @ - 1, !.txie = FALSE, !.cpt = TRUE, !.shift = TRUE]
      /\ UNCHANGED <<open, txBuffer, txWriteIndex, txReadIndex, txActive, pc, left, span, ends, stored, history>>
      /\ sent' = IF stale THEN sent ELSE Append(sent, txBuffer[drv.buf + drv.size - drv.count])
  BY DEF TxData, ring, locals
<1>3. /\ drv' \in DriverState /\ Outstanding'
      /\ drv'.buf = drv.buf /\ drv'.size = drv.size /\ drv'.held = drv.held
      /\ drv'.count = drv.count - 1
  <2>1. drv.count - 1 \in 0 .. N /\ drv \in DriverState
    BY <1>1 DEF IInv, TypeOK, DriverState
  <2> QED
    BY <1>2, <2>1 DEF DriverState, Outstanding
<1>4. sent' \in Seq(Nat)
  <2>1. drv.buf + drv.size - drv.count \in Index
    <3>1. /\ txReadIndex \in 0 .. N - 1 /\ drv.size \in 0 .. N /\ drv.count \in 0 .. N
          /\ drv.buf = txReadIndex /\ drv.size <= N - txReadIndex
          /\ 1 <= drv.count /\ drv.count <= drv.size
      BY <1>1 DEF IInv, TypeOK, DriverState, Index
    <3> QED
      BY <3>1 DEF Index
  <2> QED
    BY <1>2, <2>1 DEF IInv, TypeOK
<1>5. TypeOK'
  BY <1>2, <1>3, <1>4 DEF IInv, TypeOK, history
<1>6. CallsNeedOpenPort' /\ BytesLeft'
  BY <1>2 DEF IInv, CallsNeedOpenPort, BytesLeft
<1>7. TxOwnership' /\ SliceInBounds'
  <2>1. \A t \in Threads : pc'[t] # "uwrite"
    BY <1>1, <1>2 DEF IInv, TxOwnership
  <2>2. drv'.count <= drv'.size
    BY <1>1, <1>3 DEF IInv, TypeOK, Index
  <2> QED
    BY <1>1, <1>2, <1>3, <2>1, <2>2 DEF TxOwnership, SliceInBounds
<1>8. HeldWhenOutstanding' /\ OpenUntilEnd' /\ HeldWhileSending'
  BY <1>1, <1>2, <1>3 DEF IInv, HeldWhenOutstanding, OpenUntilEnd, HeldWhileSending
<1> QED
  BY <1>5, <1>6, <1>7, <1>8 DEF IInv

LEMMA ShiftOutIInv == IInv /\ ShiftOut => IInv'
<1> SUFFICES ASSUME IInv, ShiftOut
             PROVE  IInv'
  OBVIOUS
<1>1. /\ drv' \in DriverState
      /\ drv'.buf = drv.buf /\ drv'.size = drv.size /\ drv'.count = drv.count
      /\ drv'.held = drv.held /\ drv'.cpt = drv.cpt
      /\ UNCHANGED <<open, txBuffer, txWriteIndex, txReadIndex, txActive, pc, left, span, ends, stored, sent, history>>
  BY DEF ShiftOut, IInv, TypeOK, DriverState, ring, locals, ghosts, history
<1>2. TypeOK'
  BY <1>1 DEF IInv, TypeOK, history
<1>3. CallsNeedOpenPort' /\ BytesLeft'
  BY <1>1 DEF IInv, CallsNeedOpenPort, BytesLeft
<1>4. TxOwnership' /\ SliceInBounds'
  BY <1>1 DEF IInv, TxOwnership, SliceInBounds, Outstanding
<1>5. HeldWhenOutstanding' /\ OpenUntilEnd' /\ HeldWhileSending'
  BY <1>1 DEF IInv, HeldWhenOutstanding, OpenUntilEnd, HeldWhileSending, Outstanding
<1> QED
  BY <1>2, <1>3, <1>4, <1>5 DEF IInv

LEMMA TxCompleteIInv == IInv /\ TxComplete => IInv'
<1> SUFFICES ASSUME IInv, TxComplete
             PROVE  IInv'
  OBVIOUS
<1> DEFINE done == [drv EXCEPT !.txie = FALSE, !.cpt = FALSE, !.held = @ - 1]
           r == (txReadIndex + drv.size) % N
<1>1. /\ open /\ Outstanding /\ txActive
      /\ drv.count = 0 /\ drv.held > 0
      /\ \A t \in Threads : pc[t] # "uwrite"
  BY DEF TxComplete, IInv, TxOwnership, HeldWhenOutstanding, Outstanding
<1>2. done \in DriverState /\ done.count = 0 /\ done.cpt = FALSE /\ done.held = drv.held - 1
  BY <1>1, RetiredState DEF IInv, TypeOK
<1>3. r \in Index
  <2>1. drv.size \in Nat /\ txReadIndex \in Index
    BY DEF IInv, TypeOK, DriverState
  <2> QED
    BY <2>1, NextIndex
<1>4. /\ txReadIndex' = r
      /\ UNCHANGED <<open, txBuffer, txWriteIndex, pc, left, span, ends, stored, sent, history>>
  BY DEF TxComplete, locals, ghosts, history
<1>5. CallsNeedOpenPort' /\ BytesLeft'
  BY <1>4 DEF IInv, CallsNeedOpenPort, BytesLeft
<1>6. CASE drv' = done /\ txActive' \in BOOLEAN
  <2>1. ~Outstanding'
    BY <1>2, <1>6 DEF Outstanding
  <2>2. TypeOK'
    BY <1>2, <1>3, <1>4, <1>6 DEF IInv, TypeOK, history
  <2>3. TxOwnership' /\ SliceInBounds'
    BY <1>1, <1>4, <2>1 DEF TxOwnership, SliceInBounds
  <2>4. HeldWhenOutstanding' /\ OpenUntilEnd' /\ HeldWhileSending'
    BY <1>1, <1>2, <1>4, <1>6, <2>1
    DEF IInv, HeldWhenOutstanding, OpenUntilEnd, HeldWhileSending
  <2> QED
    BY <1>5, <2>2, <2>3, <2>4 DEF IInv
<1>7. CASE drv' = Started(done, r, Slice(r, txWriteIndex)) /\ txActive' = txActive
  <2>1. Slice(r, txWriteIndex) \in 1 .. N - r
    BY <1>3, SliceRange DEF IInv, TypeOK
  <2>2. /\ drv' \in DriverState /\ Outstanding'
        /\ drv'.buf = r /\ drv'.size = Slice(r, txWriteIndex)
        /\ drv'.count = drv'.size /\ drv'.held = drv.held
    <3>1. Slice(r, txWriteIndex) \in 0 .. N /\ Slice(r, txWriteIndex) # 0
      BY <1>3, <2>1 DEF Index
    <3> HIDE DEF done, r
    <3>2. /\ drv' \in DriverState
          /\ drv'.buf = r /\ drv'.size = Slice(r, txWriteIndex)
          /\ drv'.count = drv'.size /\ drv'.held = done.held + 1
      BY <1>2, <1>3, <1>7, <3>1, StartedState
    <3>3. drv.held - 1 + 1 = drv.held
      BY DEF IInv, TypeOK, DriverState
    <3> QED
      BY <1>2, <3>1, <3>2, <3>3 DEF Outstanding
  <2>3. TypeOK'
    BY <1>3, <1>4, <1>7, <2>2 DEF IInv, TypeOK, history
  <2>4. TxOwnership' /\ SliceInBounds'
    BY <1>1, <1>3, <1>4, <1>7, <2>1, <2>2 DEF TxOwnership, SliceInBounds, Index
  <2>5. HeldWhenOutstanding' /\ OpenUntilEnd' /\ HeldWhileSending'
    BY <1>1, <1>4, <2>2 DEF IInv, HeldWhenOutstanding, OpenUntilEnd, HeldWhileSending
  <2> QED
    BY <1>5, <2>3, <2>4, <2>5 DEF IInv
<1>8. \/ drv' = done /\ txActive' \in BOOLEAN
      \/ drv' = Started(done, r, Slice(r, txWriteIndex)) /\ txActive' = txActive
  <2>1. CASE r = txWriteIndex
    BY <2>1 DEF TxComplete
  <2>2. CASE r # txWriteIndex
    <3>1. drv' \in UARTWrite(done, r, Slice(r, txWriteIndex)) /\ txActive' = txActive
      BY <2>2 DEF TxComplete
    <3> HIDE DEF done, r
    <3> QED
      BY <1>1, <3>1, UARTWriteCases
  <2> QED
    BY <2>1, <2>2
<1> QED
  BY <1>6, <1>7, <1>8

LEMMA StepIInv == IInv /\ [Next]_vars => IInv'
<1> SUFFICES ASSUME IInv, [Next]_vars
             PROVE  IInv'
  OBVIOUS
<1>1. CASE UNCHANGED vars
  BY <1>1
  DEF vars, ring, locals, ghosts, history, IInv, TypeOK, CallsNeedOpenPort, BytesLeft, TxOwnership,
      SliceInBounds, HeldWhenOutstanding, OpenUntilEnd, HeldWhileSending, Outstanding
<1>2. CASE Next
  BY <1>2, ThreadIInv, BeginIInv, EndIInv, TxDataIInv, ShiftOutIInv, TxCompleteIInv
  DEF Next, Hardware
<1> QED
  BY <1>1, <1>2

LEMMA Invariance == Spec => []IInv
  BY InitIInv, StepIInv, PTL DEF Spec

-----------------------------------------------------------------------------
(* The theorems.                                                           *)

\* Every variable keeps its type and the indices stay inside txBuffer.
THEOREM TypeCorrect == Spec => []TypeOK
<1>1. IInv => TypeOK
  BY DEF IInv
<1> QED
  BY <1>1, Invariance, PTL

\* For any number of threads of any priorities, txActive is a lock on the
\* transmitter: one claim at a time, never while a write is in progress.
THEOREM Ownership == Spec => []TxOwnership
<1>1. IInv => TxOwnership
  BY DEF IInv
<1> QED
  BY <1>1, Invariance, PTL

\* For any size of the ring, the driver is never given a slice that runs
\* past the end of txBuffer.
THEOREM SlicesStayInBuffer == Spec => []SliceInBounds
<1>1. IInv => SliceInBounds
  BY DEF IInv
<1> QED
  BY <1>1, Invariance, PTL

\* Until the port is closed for the first time, the power constraints of
\* transmission are held exactly while a write is in progress.
THEOREM ConstraintsBalance == Spec => []HeldWhileSending
<1>1. IInv => HeldWhileSending
  BY DEF IInv
<1> QED
  BY <1>1, Invariance, PTL

-----------------------------------------------------------------------------
(* A port with one writer is the channel.                                  *)

\* One task writes; the interrupt runs between any two of its steps.
OneWriter == Threads = {Owner}

\* How far index i is ahead of index r, and how many bytes wait in the ring.
Dist(r, i) == IF i >= r THEN i - r ELSE i + N - r
Waiting == Dist(txReadIndex, txWriteIndex)

\* What of the slice in progress has left already.
SentOfSlice == IF Outstanding THEN drv.size - drv.count ELSE 0

\* The ring holds the last bytes that were stored, in order, and the wire has
\* carried all the others and the beginning of the slice in progress.
DataInv ==
  open =>
    /\ Waiting <= stored
    /\ \A i \in Index : Dist(txReadIndex, i) < Waiting =>
         txBuffer[i] = stored - Waiting + Dist(txReadIndex, i) + 1
    /\ Len(sent) = stored - Waiting + SentOfSlice
    /\ Outstanding => drv.size <= Waiting

\* The tests write() and primeTx() have made still hold, but for that of the
\* full ring once txActive is tested.
WriterInv ==
  /\ pc[Owner] = "store" => Waiting < N - 1
  /\ pc[Owner] \in {"pending", "prime"} => ~txActive
  /\ pc[Owner] = "uwrite" => span[Owner] <= Waiting

\* The port as long as primeTx() has not found the ring empty.
FreshInv == ~stale => DataInv /\ WriterInv

\* The arithmetic of the ring as distances: one index is at every distance.
LEMMA DistRange ==
  \A r, i \in Index : /\ Dist(r, i) \in 0 .. N - 1
                      /\ Dist(r, i) = 0 <=> i = r
                      /\ \A j \in Index : Dist(r, i) = Dist(r, j) => i = j
  BY DEF Index, Dist

\* Retiring k bytes brings everything that waits k nearer.
LEMMA Retire ==
  ASSUME NEW r \in Index, NEW w \in Index, NEW k \in 1 .. N - r, k <= Dist(r, w)
  PROVE  /\ (r + k) % N \in Index
         /\ Dist((r + k) % N, w) = Dist(r, w) - k
         /\ \A i \in Index : Dist((r + k) % N, i) < Dist(r, w) - k =>
              Dist(r, i) = Dist((r + k) % N, i) + k /\ Dist(r, i) < Dist(r, w)
<1>0. r \in Nat /\ r < N /\ w \in Nat /\ w < N /\ k \in Nat /\ 1 <= k /\ r + k <= N
  BY DEF Index
<1>1. (r + k) % N = IF r + k < N THEN r + k ELSE r + k - N
  <2>1. (r + k) < N => (r + k) % N = r + k
    BY <1>0
  <2>2. (r + k) >= N => (r + k) % N = r + k - N
    BY <1>0
  <2> QED
    BY <1>0, <2>1, <2>2
<1> DEFINE s == (r + k) % N
<1>2. s \in Index
  BY <1>0, <1>1 DEF Index
<1>3. Dist(s, w) = Dist(r, w) - k
  BY <1>0, <1>1 DEF Dist
<1>4. ASSUME NEW i \in Index, Dist(s, i) < Dist(r, w) - k
      PROVE  Dist(r, i) = Dist(s, i) + k /\ Dist(r, i) < Dist(r, w)
  <2>1. i \in Nat /\ i < N
    BY DEF Index
  <2>2. CASE r + k < N
    <3>1. s = r + k
      BY <1>0, <1>1, <2>2
    <3> HIDE DEF s
    <3> QED
      BY <1>0, <1>4, <2>1, <3>1 DEF Dist
  <2>3. CASE r + k = N
    <3>1. s = 0
      BY <1>0, <1>1, <2>3
    <3> HIDE DEF s
    <3> QED
      BY <1>0, <1>4, <2>1, <2>3, <3>1 DEF Dist
  <2> QED
    BY <1>0, <2>2, <2>3
<1> QED
  BY <1>2, <1>3, <1>4

\* Storing a byte puts the write index one further from the read index.
LEMMA Advance ==
  ASSUME NEW r \in Index, NEW w \in Index, Dist(r, w) < N - 1
  PROVE  (w + 1) % N \in Index /\ Dist(r, (w + 1) % N) = Dist(r, w) + 1
<1>0. r \in Nat /\ r < N /\ w \in Nat /\ w < N
  BY DEF Index
<1>1. (w + 1) % N = IF w + 1 < N THEN w + 1 ELSE w + 1 - N
  <2>1. (w + 1) < N => (w + 1) % N = w + 1
    BY <1>0
  <2>2. (w + 1) >= N => (w + 1) % N = w + 1 - N
    BY <1>0
  <2> QED
    BY <1>0, <2>1, <2>2
<1>2. (w + 1) % N \in Index
  BY <1>0, <1>1 DEF Index
<1> QED
  BY <1>0, <1>1, <1>2 DEF Dist

\* The tests of the code as distances.
LEMMA FullEmpty ==
  ASSUME TypeOK
  PROVE  /\ Waiting \in 0 .. N - 1
         /\ Full <=> Waiting = N - 1
         /\ Empty <=> Waiting = 0
<1>0. txReadIndex \in Index /\ txWriteIndex \in Index
  BY DEF TypeOK
<1>1. txReadIndex \in Nat /\ txReadIndex < N /\ txWriteIndex \in Nat /\ txWriteIndex < N
  BY <1>0 DEF Index
<1>2. (txWriteIndex + 1) % N = IF txWriteIndex + 1 < N THEN txWriteIndex + 1 ELSE txWriteIndex + 1 - N
  <2>1. (txWriteIndex + 1) < N => (txWriteIndex + 1) % N = txWriteIndex + 1
    BY <1>1
  <2>2. (txWriteIndex + 1) >= N => (txWriteIndex + 1) % N = txWriteIndex + 1 - N
    BY <1>1
  <2> QED
    BY <1>1, <2>1, <2>2
<1>3. Waiting \in 0 .. N - 1 /\ (Empty <=> Waiting = 0)
  BY <1>0, DistRange DEF Waiting, Empty
<1>4. Full <=> Waiting = N - 1
  BY <1>1, <1>2 DEF Full, Waiting, Dist
<1> QED
  BY <1>3, <1>4

\* A slice holds bytes that wait.
LEMMA SliceWaits ==
  ASSUME NEW r \in Index, NEW w \in Index, r # w
  PROVE  Slice(r, w) <= Dist(r, w)
  BY DEF Index, Slice, Dist

\* The types these proofs count with.
LEMMA Counts ==
  ASSUME TypeOK
  PROVE  /\ stored \in Nat /\ Len(sent) \in Nat /\ Waiting \in Nat /\ Waiting < N
         /\ txReadIndex \in Index /\ txWriteIndex \in Index
         /\ drv.size \in Nat /\ drv.count \in Nat
<1>1. Waiting \in 0 .. N - 1
  BY FullEmpty
<1>2. Len(sent) \in Nat
  BY DEF TypeOK
<1> QED
  BY <1>1, <1>2 DEF TypeOK, DriverState

\* What a step that leaves the ring and the wire alone must keep.
LEMMA SameData ==
  ASSUME DataInv,
         UNCHANGED <<open, txBuffer, txWriteIndex, txReadIndex, stored, sent>>,
         open => SentOfSlice' = SentOfSlice,
         open /\ Outstanding' => drv'.size <= Waiting
  PROVE  DataInv' /\ Waiting' = Waiting
<1>1. Waiting' = Waiting
  BY DEF Waiting, Dist
<1> QED
  BY <1>1 DEF DataInv, Dist

\* The steps of the only writer.
LEMMA StoreData ==
  ASSUME OneWriter, IInv, DataInv, WriterInv, Store(Owner)
  PROVE  DataInv' /\ WriterInv' /\ stored' = stored + 1 /\ sent' = sent
<1>1. /\ open /\ Waiting < N - 1
      /\ txBuffer \in [Index -> Nat] /\ TypeOK
  BY DEF Store, At, IInv, TypeOK, CallsNeedOpenPort, WriterInv, OneWriter
<1>2. /\ stored \in Nat /\ Len(sent) \in Nat /\ Waiting \in Nat
      /\ txReadIndex \in Index /\ txWriteIndex \in Index
  BY <1>1, Counts
<1>3. /\ stored' = stored + 1 /\ sent' = sent /\ open' = open /\ drv' = drv
      /\ txReadIndex' = txReadIndex
      /\ txWriteIndex' = (txWriteIndex + 1) % N
      /\ txBuffer' = [txBuffer EXCEPT ![txWriteIndex] = stored + 1]
  BY DEF Store
<1>4. pc'[Owner] \in {"check", "full"}
  BY <1>1 DEF Store, Goto, TypeOK
<1>5. Waiting' = Waiting + 1
  <2>1. Dist(txReadIndex, (txWriteIndex + 1) % N) = Dist(txReadIndex, txWriteIndex) + 1
    BY <1>1, <1>2, Advance DEF Waiting
  <2> QED
    BY <1>3, <2>1 DEF Waiting, Dist
<1>6. SentOfSlice' = SentOfSlice /\ Outstanding' = Outstanding
  BY <1>3 DEF SentOfSlice, Outstanding
<1>7. ASSUME NEW i \in Index, Dist(txReadIndex, i) < Waiting + 1
      PROVE  txBuffer'[i] = stored + 1 - (Waiting + 1) + Dist(txReadIndex, i) + 1
  <2>1. Dist(txReadIndex, i) \in Nat
    BY <1>2, DistRange
  <2>2. CASE i = txWriteIndex
    <3>1. txBuffer'[i] = stored + 1
      BY <1>1, <1>3, <2>2
    <3>2. Dist(txReadIndex, i) = Waiting
      BY <2>2 DEF Waiting
    <3> QED
      BY <1>2, <3>1, <3>2
  <2>3. CASE i # txWriteIndex
    <3>1. txBuffer'[i] = txBuffer[i]
      BY <1>1, <1>3, <2>3
    <3>2. Dist(txReadIndex, i) # Waiting
      BY <1>2, <2>3, DistRange DEF Waiting
    <3>3. Dist(txReadIndex, i) < Waiting
      BY <1>2, <1>7, <2>1, <3>2
    <3>4. txBuffer[i] = stored - Waiting + Dist(txReadIndex, i) + 1
      BY <1>1, <3>3 DEF DataInv
    <3> QED
      BY <1>2, <2>1, <3>1, <3>4
  <2> QED
    BY <2>2, <2>3
<1>8. DataInv'
  <2>1. Waiting' <= stored'
    BY <1>1, <1>2, <1>3, <1>5 DEF DataInv
  <2>2. \A i \in Index : Dist(txReadIndex', i) < Waiting' =>
          txBuffer'[i] = stored' - Waiting' + Dist(txReadIndex', i) + 1
    <3> SUFFICES ASSUME NEW i \in Index, Dist(txReadIndex', i) < Waiting'
                 PROVE  txBuffer'[i] = stored' - Waiting' + Dist(txReadIndex', i) + 1
      OBVIOUS
    <3>1. Dist(txReadIndex', i) = Dist(txReadIndex, i)
      BY <1>3
    <3>2. txBuffer'[i] = stored + 1 - (Waiting + 1) + Dist(txReadIndex, i) + 1
      BY <1>5, <1>7, <3>1
    <3>3. stored' - Waiting' = stored + 1 - (Waiting + 1)
      BY <1>2, <1>3, <1>5
    <3> QED
      BY <3>1, <3>2, <3>3
  <2>3. Len(sent') = stored' - Waiting' + SentOfSlice'
    <3>1. Len(sent) = stored - Waiting + SentOfSlice
      BY <1>1 DEF DataInv
    <3>2. stored' - Waiting' = stored - Waiting
      BY <1>2, <1>3, <1>5
    <3> QED
      BY <1>3, <1>6, <3>1, <3>2
  <2>4. Outstanding' => drv'.size <= Waiting'
    <3>1. drv.size \in Nat
      BY <1>1, Counts
    <3> QED
      BY <1>1, <1>2, <1>3, <1>5, <1>6, <3>1 DEF DataInv
  <2> QED
    BY <2>1, <2>2, <2>3, <2>4 DEF DataInv, Dist
<1>9. WriterInv'
  BY <1>4 DEF WriterInv
<1> QED
  BY <1>3, <1>8, <1>9

LEMMA PrimeTxData ==
  ASSUME OneWriter, IInv, DataInv, WriterInv, PrimeTx(Owner)
  PROVE  /\ Empty => Len(sent) = stored /\ stale' = TRUE
         /\ ~Empty => DataInv' /\ WriterInv' /\ stale' = stale
         /\ UNCHANGED <<stored, sent>>
<1>0. /\ ~txActive /\ TypeOK /\ open /\ ~Outstanding
      /\ stale' = (stale \/ Empty)
      /\ UNCHANGED <<open, txBuffer, txWriteIndex, txReadIndex, drv, stored, sent>>
  BY DEF PrimeTx, At, IInv, CallsNeedOpenPort, TxOwnership, WriterInv
<1>e. CASE Empty
  <2>1. Waiting = 0 /\ SentOfSlice = 0
    BY <1>0, <1>e, FullEmpty DEF SentOfSlice
  <2>2. Len(sent) = stored - Waiting + SentOfSlice /\ stored \in Nat
    BY <1>0 DEF DataInv, TypeOK
  <2>3. Len(sent) = stored
    BY <2>1, <2>2
  <2> QED
    BY <1>0, <1>e, <2>3
<1> SUFFICES ASSUME ~Empty
             PROVE  DataInv' /\ WriterInv' /\ stale' = stale
  BY <1>0, <1>e
<1>1. Waiting > 0
  BY <1>0, FullEmpty
<1>2. SentOfSlice' = SentOfSlice /\ Outstanding' = Outstanding
  BY <1>0 DEF SentOfSlice, Outstanding
<1>3. DataInv' /\ Waiting' = Waiting
  <2>1. open /\ Outstanding' => drv'.size <= Waiting
    BY <1>0, <1>2 DEF DataInv
  <2> QED
    BY <1>0, <1>2, <2>1, SameData
<1>4. pc'[Owner] = "uwrite" /\ span'[Owner] = Slice(txReadIndex, txWriteIndex)
  BY <1>0 DEF PrimeTx, Goto, TypeOK
<1>5. Slice(txReadIndex, txWriteIndex) <= Waiting
  <2>1. txReadIndex \in Index /\ txWriteIndex \in Index
    BY <1>0, Counts
  <2>2. Waiting # 0
    BY <1>1
  <2>3. txReadIndex # txWriteIndex
    BY <2>1, <2>2, DistRange DEF Waiting
  <2> QED
    BY <2>1, <2>3, SliceWaits DEF Waiting
<1> QED
  <2>1. stale \in BOOLEAN
    BY <1>0 DEF TypeOK
  <2>2. WriterInv'
    BY <1>3, <1>4, <1>5 DEF WriterInv
  <2> QED
    BY <1>0, <1>3, <2>1, <2>2

LEMMA PrimeWriteData ==
  ASSUME OneWriter, IInv, DataInv, WriterInv, PrimeWrite(Owner)
  PROVE  DataInv' /\ WriterInv' /\ UNCHANGED <<stored, sent>>
<1>1. /\ open /\ ~Outstanding /\ span[Owner] <= Waiting /\ TypeOK
      /\ span[Owner] \in 1 .. N - txReadIndex
      /\ UNCHANGED <<open, txBuffer, txWriteIndex, txReadIndex, txActive, span, stored, sent>>
  BY DEF PrimeWrite, At, IInv, CallsNeedOpenPort, TxOwnership, SliceInBounds, WriterInv,
         ring, ghosts, history
<1>2. \/ drv' = drv
      \/ drv' = Started(drv, txReadIndex, span[Owner])
  BY UARTWriteCases DEF PrimeWrite
<1>3. SentOfSlice' = 0 /\ (Outstanding' => drv'.size <= Waiting)
  <2>1. CASE drv' = drv
    BY <1>1, <2>1 DEF SentOfSlice, Outstanding
  <2>2. CASE drv' = Started(drv, txReadIndex, span[Owner])
    <3>1. span[Owner] \in 0 .. N /\ txReadIndex \in Index /\ drv \in DriverState
      BY <1>1 DEF TypeOK
    <3>2. drv'.size = span[Owner] /\ drv'.count = span[Owner]
      BY <2>2, <3>1, StartedState
    <3>3. span[Owner] - span[Owner] = 0
      BY <3>1
    <3> QED
      BY <1>1, <3>2, <3>3 DEF SentOfSlice
  <2> QED
    BY <1>2, <2>1, <2>2
<1>4. SentOfSlice = 0
  BY <1>1 DEF SentOfSlice
<1>5. DataInv'
  BY <1>1, <1>3, <1>4, SameData
<1>6. pc'[Owner] \in {"full", "idle"}
  BY <1>1 DEF PrimeWrite, Goto, AfterPrime, TypeOK
<1> QED
  BY <1>1, <1>5, <1>6 DEF WriterInv

LEMMA WriterData ==
  ASSUME OneWriter, IInv, DataInv, WriterInv,
         \/ \E n \in 1 .. MaxWrite : WriteCall(Owner, n)
         \/ FlushCall(Owner) \/ FlushReturn(Owner) \/ TestFull(Owner)
         \/ TestActive(Owner) \/ CheckActive(Owner) \/ CheckPending(Owner)
  PROVE  DataInv' /\ WriterInv' /\ UNCHANGED <<stored, sent>>
<1>1. UNCHANGED <<open, txBuffer, txWriteIndex, txReadIndex, txActive, drv, stored, sent>>
  BY DEF WriteCall, FlushCall, FlushReturn, TestFull, TestActive, CheckActive,
         CheckPending, ring, ghosts, history
<1>2. SentOfSlice' = SentOfSlice /\ Outstanding' = Outstanding
  BY <1>1 DEF SentOfSlice, Outstanding
<1>3. DataInv' /\ Waiting' = Waiting
  <2>1. open /\ Outstanding' => drv'.size <= Waiting
    BY <1>1, <1>2 DEF DataInv
  <2> QED
    BY <1>1, <1>2, <2>1, SameData
<1>4. \/ pc'[Owner] \in {"full", "active", "flush", "idle"}
      \/ pc'[Owner] = "store" /\ ~Full
      \/ pc'[Owner] \in {"pending", "prime"} /\ ~txActive
  BY DEF WriteCall, FlushCall, FlushReturn, TestFull, TestActive, CheckActive, CheckPending,
         At, Goto, IInv, TypeOK, WriterInv
<1>5. Waiting \in 0 .. N - 1 /\ (Full <=> Waiting = N - 1)
  BY FullEmpty DEF IInv
<1>6. ~Full => Waiting < N - 1
  BY <1>5
<1> QED
  BY <1>1, <1>3, <1>4, <1>6 DEF WriterInv

\* The interrupt moves a byte of the slice to the wire: the oldest that has
\* not left.
LEMMA TxDataData ==
  ASSUME IInv, DataInv, WriterInv, ~stale, TxData
  PROVE  /\ DataInv' /\ WriterInv'
         /\ Len(sent) < stored
         /\ sent' = Append(sent, Len(sent) + 1)
         /\ stored' = stored
<1> DEFINE gone == drv.size - drv.count
           idx == drv.buf + drv.size - drv.count
<1>1. /\ open /\ Outstanding /\ TypeOK
      /\ drv.buf = txReadIndex /\ drv.size \in 1 .. N - txReadIndex
      /\ drv.count \in 1 .. drv.size
      /\ drv.size <= Waiting
  <2>1. open /\ Outstanding /\ drv.count # 0 /\ TypeOK
    BY DEF TxData, IInv, Outstanding
  <2>2. drv.buf = txReadIndex /\ drv.size \in 1 .. N - txReadIndex /\ drv.count <= drv.size
    BY <2>1 DEF IInv, SliceInBounds
  <2>3. drv.count \in Nat /\ drv.size \in Nat
    BY <2>1, Counts
  <2> QED
    BY <2>1, <2>2, <2>3 DEF DataInv
<1>2. /\ stored \in Nat /\ Len(sent) \in Nat /\ Waiting \in Nat
      /\ txReadIndex \in Index /\ drv.size \in Nat /\ drv.count \in Nat
  BY <1>1, Counts
<1>3. /\ sent' = Append(sent, txBuffer[idx])
      /\ drv' = [drv EXCEPT !.count = @ - 1, !.txie = FALSE, !.cpt = TRUE, !.shift = TRUE]
      /\ UNCHANGED <<open, txBuffer, txWriteIndex, txReadIndex, txActive, pc, span, stored>>
  BY DEF TxData, ring, locals
<1>4. /\ drv'.size = drv.size /\ drv'.count = drv.count - 1 /\ drv'.cpt
  BY <1>1, <1>3 DEF TypeOK, DriverState
<1>5. /\ gone \in Nat /\ gone < drv.size /\ gone < Waiting
      /\ idx \in Index /\ Dist(txReadIndex, idx) = gone
  <2>1. gone \in Nat /\ gone < drv.size /\ gone < Waiting
    BY <1>1, <1>2
  <2>2. idx = txReadIndex + gone
    BY <1>1, <1>2 DEF Index
  <2>3. txReadIndex + gone < N
    BY <1>1, <1>2, <2>1 DEF Index
  <2> HIDE DEF gone, idx
  <2> QED
    BY <1>2, <2>1, <2>2, <2>3 DEF Index, Dist
<1>6. SentOfSlice = gone /\ SentOfSlice' = gone + 1
  <2>1. SentOfSlice = gone
    BY <1>1 DEF SentOfSlice
  <2>2. Outstanding'
    BY <1>4 DEF Outstanding
  <2>3. drv'.size - drv'.count = gone + 1
    BY <1>2, <1>4
  <2> QED
    BY <2>1, <2>2, <2>3 DEF SentOfSlice
<1>7. Len(sent) = stored - Waiting + gone /\ Waiting <= stored
  BY <1>1, <1>6 DEF DataInv
<1> HIDE DEF gone, idx
<1>8. txBuffer[idx] = Len(sent) + 1
  <2>1. txBuffer[idx] = stored - Waiting + gone + 1
    BY <1>1, <1>5 DEF DataInv
  <2> QED
    BY <1>7, <2>1
<1>9. Len(sent) < stored
  BY <1>2, <1>5, <1>7
<1>10. Len(sent') = Len(sent) + 1
  BY <1>1, <1>3, <1>8 DEF TypeOK
<1>11. Waiting' = Waiting
  BY <1>3 DEF Waiting, Dist
<1>12. DataInv'
  <2>1. Waiting' <= stored'
    BY <1>3, <1>7, <1>11
  <2>2. \A i \in Index : Dist(txReadIndex', i) < Waiting' =>
          txBuffer'[i] = stored' - Waiting' + Dist(txReadIndex', i) + 1
    BY <1>1, <1>3, <1>11 DEF DataInv
  <2>3. Len(sent') = stored' - Waiting' + SentOfSlice'
    BY <1>2, <1>3, <1>5, <1>6, <1>7, <1>10, <1>11
  <2>4. drv'.size <= Waiting'
    BY <1>1, <1>4, <1>11
  <2> QED
    BY <2>1, <2>2, <2>3, <2>4 DEF DataInv, Dist
<1>13. WriterInv'
  BY <1>3, <1>11 DEF WriterInv
<1> QED
  BY <1>3, <1>8, <1>9, <1>12, <1>13

LEMMA ShiftOutData ==
  ASSUME IInv, DataInv, WriterInv, ShiftOut
  PROVE  DataInv' /\ WriterInv' /\ UNCHANGED <<stored, sent>>
<1>1. UNCHANGED <<open, txBuffer, txWriteIndex, txReadIndex, txActive, pc, span, stored, sent>>
  BY DEF ShiftOut, ring, locals, ghosts, history
<1>2. drv'.size = drv.size /\ drv'.count = drv.count /\ drv'.cpt = drv.cpt
  BY DEF ShiftOut, IInv, TypeOK, DriverState
<1>3. SentOfSlice' = SentOfSlice /\ Outstanding' = Outstanding
  BY <1>2 DEF SentOfSlice, Outstanding
<1>4. DataInv' /\ Waiting' = Waiting
  <2>1. open /\ Outstanding' => drv'.size <= Waiting
    BY <1>2, <1>3 DEF DataInv
  <2> QED
    BY <1>1, <1>3, <2>1, SameData
<1> QED
  BY <1>1, <1>4 DEF WriterInv

\* The slice has left: what waits is what was stored behind it.
LEMMA TxCompleteData ==
  ASSUME OneWriter, IInv, DataInv, WriterInv, TxComplete
  PROVE  /\ DataInv' /\ WriterInv' /\ UNCHANGED <<stored, sent>>
         /\ Waiting' <= Waiting /\ pc[Owner] # "prime"
<1> DEFINE done == [drv EXCEPT !.txie = FALSE, !.cpt = FALSE, !.held = @ - 1]
           r == (txReadIndex + drv.size) % N
<1>1. /\ open /\ Outstanding /\ txActive /\ TypeOK
      /\ drv.size \in 1 .. N - txReadIndex
      /\ drv.count = 0 /\ drv.size <= Waiting
      /\ pc[Owner] # "uwrite"
  BY DEF TxComplete, IInv, SliceInBounds, TxOwnership, Outstanding, DataInv
<1>2. /\ stored \in Nat /\ Len(sent) \in Nat /\ Waiting \in Nat
      /\ txReadIndex \in Index /\ txWriteIndex \in Index /\ drv.size \in Nat
  BY <1>1, Counts
<1>3. /\ txReadIndex' = r
      /\ UNCHANGED <<open, txBuffer, txWriteIndex, pc, span, stored, sent>>
  BY DEF TxComplete, locals, ghosts, history
<1>4. /\ r \in Index
      /\ Dist(r, txWriteIndex) = Waiting - drv.size
      /\ \A i \in Index : Dist(r, i) < Waiting - drv.size =>
           Dist(txReadIndex, i) = Dist(r, i) + drv.size /\ Dist(txReadIndex, i) < Waiting
  BY <1>1, <1>2, Retire DEF Waiting
<1>5. Waiting' = Waiting - drv.size
  BY <1>3, <1>4 DEF Waiting, Dist
<1>6. done \in DriverState /\ done.count = 0 /\ done.cpt = FALSE
  <2>1. drv.held > 0 /\ drv \in DriverState
    BY <1>1 DEF IInv, HeldWhenOutstanding, TypeOK
  <2> QED
    BY <1>1, <2>1, RetiredState
<1>7. SentOfSlice' = 0 /\ (Outstanding' => drv'.size <= Waiting')
  <2> HIDE DEF done, r
  <2>1. CASE drv' = done
    BY <1>6, <2>1 DEF SentOfSlice, Outstanding
  <2>2. CASE r # txWriteIndex /\ drv' = Started(done, r, Slice(r, txWriteIndex))
    <3>1. Slice(r, txWriteIndex) \in 1 .. N - r
      BY <1>2, <1>4, SliceRange
    <3>2. Slice(r, txWriteIndex) \in 0 .. N
      BY <1>4, <3>1 DEF Index
    <3>3. drv'.size = Slice(r, txWriteIndex) /\ drv'.count = Slice(r, txWriteIndex)
      BY <1>4, <1>6, <2>2, <3>2, StartedState
    <3>4. drv'.size - drv'.count = 0
      BY <3>2, <3>3
    <3>5. Slice(r, txWriteIndex) <= Dist(r, txWriteIndex)
      BY <1>2, <1>4, <2>2, SliceWaits
    <3> QED
      BY <1>4, <1>5, <3>3, <3>4, <3>5 DEF SentOfSlice
  <2>3. \/ drv' = done
        \/ r # txWriteIndex /\ drv' \in UARTWrite(done, r, Slice(r, txWriteIndex))
    BY DEF TxComplete, done, r
  <2> QED
    BY <2>1, <2>2, <2>3, UARTWriteCases
<1>8. Len(sent) = stored - Waiting + drv.size /\ Waiting <= stored
  <2>1. SentOfSlice = drv.size - 0
    BY <1>1 DEF SentOfSlice
  <2> QED
    BY <1>1, <1>2, <2>1 DEF DataInv
<1> HIDE DEF done, r
<1>9. DataInv'
  <2>1. Waiting' <= stored'
    BY <1>2, <1>3, <1>5, <1>8
  <2>2. \A i \in Index : Dist(txReadIndex', i) < Waiting' =>
          txBuffer'[i] = stored' - Waiting' + Dist(txReadIndex', i) + 1
    <3> SUFFICES ASSUME NEW i \in Index, Dist(txReadIndex', i) < Waiting'
                 PROVE  txBuffer'[i] = stored' - Waiting' + Dist(txReadIndex', i) + 1
      OBVIOUS
    <3>1. Dist(txReadIndex', i) = Dist(r, i) /\ Dist(r, i) \in Nat
      BY <1>3, <1>4, DistRange
    <3>2. Dist(txReadIndex, i) = Dist(r, i) + drv.size /\ Dist(txReadIndex, i) < Waiting
      BY <1>4, <1>5, <3>1
    <3>3. txBuffer[i] = stored - Waiting + Dist(txReadIndex, i) + 1
      BY <1>1, <3>2 DEF DataInv
    <3>4. stored' - Waiting' = stored - Waiting + drv.size
      BY <1>2, <1>3, <1>5
    <3> QED
      BY <1>2, <1>3, <3>1, <3>2, <3>3, <3>4
  <2>3. Len(sent') = stored' - Waiting' + SentOfSlice'
    BY <1>2, <1>3, <1>5, <1>7, <1>8
  <2> QED
    BY <1>7, <2>1, <2>2, <2>3 DEF DataInv, Dist
<1>10. WriterInv'
  <2>1. pc[Owner] \notin {"pending", "prime"}
    BY <1>1 DEF WriterInv
  <2>2. pc[Owner] = "store" => Waiting' < N - 1
    BY <1>1, <1>2, <1>5 DEF WriterInv
  <2> QED
    BY <1>1, <1>3, <2>1, <2>2 DEF WriterInv
<1>11. Waiting' <= Waiting
  BY <1>2, <1>5
<1>12. pc[Owner] # "prime"
  BY <1>1 DEF WriterInv
<1> QED
  BY <1>3, <1>9, <1>10, <1>11, <1>12

LEMMA CloseData ==
  ASSUME OneWriter, IInv, DataInv, WriterInv, End
  PROVE  DataInv' /\ WriterInv' /\ UNCHANGED <<stored, sent>>
<1>1. ~open' /\ pc[Owner] = "idle"
      /\ UNCHANGED <<pc, stored, sent>>
  BY DEF End, At, locals, ghosts, history
<1> QED
  BY <1>1 DEF DataInv, WriterInv

\* An empty ring, an idle driver, nothing on the wire.
LEMMA EmptyData ==
  ASSUME txReadIndex = 0, txWriteIndex = 0, stored = 0, sent = <<>>,
         NEW h, drv = IdleDriver(h), pc[Owner] = "idle"
  PROVE  DataInv /\ WriterInv
<1>1. Waiting = 0
  BY DEF Waiting, Dist
<1>2. ~Outstanding /\ SentOfSlice = 0
  BY DEF Outstanding, SentOfSlice, IdleDriver
<1>3. \A i \in Index : ~(Dist(txReadIndex, i) < 0)
  BY DEF Dist, Index
<1>4. Len(sent) = 0
  OBVIOUS
<1> QED
  BY <1>1, <1>2, <1>3, <1>4 DEF DataInv, WriterInv

LEMMA OpenData ==
  ASSUME OneWriter, IInv, Begin
  PROVE  /\ DataInv' /\ WriterInv'
         /\ stored' = 0 /\ sent' = <<>> /\ stale' = FALSE /\ pc'[Owner] = "idle"
<1>1. /\ txReadIndex' = 0 /\ txWriteIndex' = 0 /\ stored' = 0 /\ sent' = <<>>
      /\ stale' = FALSE /\ pc'[Owner] = "idle"
      /\ ~open' \/ drv' = IdleDriver(drv.held)
  BY DEF Begin, At, locals
<1>2. Waiting' = 0
  BY <1>1 DEF Waiting, Dist
<1>3. open' => ~Outstanding' /\ SentOfSlice' = 0
  BY <1>1 DEF Outstanding, SentOfSlice, IdleDriver
<1>4. \A i \in Index : ~(Dist(txReadIndex', i) < 0)
  BY <1>1 DEF Dist, Index
<1>5. Len(sent') = 0
  BY <1>1
<1> QED
  BY <1>1, <1>2, <1>3, <1>4, <1>5 DEF DataInv, WriterInv, Dist

\* The steps of a program with one writer.
LEMMA Steps ==
  ASSUME OneWriter, [Next]_vars
  PROVE  \/ UNCHANGED vars
         \/ Store(Owner) \/ PrimeTx(Owner) \/ PrimeWrite(Owner)
         \/ \E n \in 1 .. MaxWrite : WriteCall(Owner, n)
         \/ FlushCall(Owner) \/ FlushReturn(Owner) \/ TestFull(Owner)
         \/ TestActive(Owner) \/ CheckActive(Owner) \/ CheckPending(Owner)
         \/ TxData \/ ShiftOut \/ TxComplete \/ End \/ Begin
  BY DEF Next, OneWriter, Call, InCall, Hardware

\* Only primeTx() and begin() decide whether the port is stale.
LEMMA StaleSteps ==
  ASSUME OneWriter, [Next]_vars
  PROVE  PrimeTx(Owner) \/ Begin \/ stale' = stale
<1>1. CASE UNCHANGED vars
  BY <1>1 DEF vars, ghosts, history
<1>2. CASE \/ \E n \in 1 .. MaxWrite : WriteCall(Owner, n)
           \/ FlushCall(Owner) \/ FlushReturn(Owner) \/ TestFull(Owner)
           \/ TestActive(Owner) \/ CheckActive(Owner) \/ CheckPending(Owner)
  BY <1>2 DEF WriteCall, FlushCall, FlushReturn, TestFull, TestActive, CheckActive,
              CheckPending, ghosts, history
<1>3. CASE Store(Owner) \/ PrimeWrite(Owner) \/ End
  BY <1>3 DEF Store, PrimeWrite, End, ghosts, history
<1>4. CASE TxData \/ ShiftOut \/ TxComplete
  BY <1>4 DEF TxData, ShiftOut, TxComplete, ghosts, history
<1> QED
  BY <1>1, <1>2, <1>3, <1>4, Steps

\* A step of a port that is not stale keeps the data invariant and is one of
\* the channel.
LEMMA FreshStep ==
  ASSUME OneWriter, IInv, ~stale, DataInv, WriterInv, [Next]_vars
  PROVE  FreshInv' /\ [Chan!Next]_(Chan!chanVars)
<1> USE DEF Chan!Next, Chan!chanVars, FreshInv
<1>1. CASE UNCHANGED vars
  <2>1. UNCHANGED <<open, txBuffer, txWriteIndex, txReadIndex, txActive, drv, pc, span, stored, sent, stale>>
    BY <1>1 DEF vars, ring, locals, ghosts, history
  <2> QED
    BY <2>1 DEF DataInv, WriterInv, Waiting, Dist, SentOfSlice, Outstanding
<1>2. CASE Store(Owner)
  <2>1. stale' = stale
    BY <1>2 DEF Store, history
  <2> QED
    BY <1>2, <2>1, StoreData DEF Chan!Accept
<1>3. CASE PrimeTx(Owner)
  BY <1>3, PrimeTxData DEF Chan!GoStale
<1>4. CASE Begin
  BY <1>4, OpenData DEF Chan!Reopen
<1>5. CASE ~PrimeTx(Owner) /\ ~Begin
  <2>1. stale' = stale
    BY <1>5, StaleSteps
  <2>2. CASE PrimeWrite(Owner)
    BY <2>1, <2>2, PrimeWriteData
  <2>3. CASE \/ \E n \in 1 .. MaxWrite : WriteCall(Owner, n)
             \/ FlushCall(Owner) \/ FlushReturn(Owner) \/ TestFull(Owner)
             \/ TestActive(Owner) \/ CheckActive(Owner) \/ CheckPending(Owner)
    BY <2>1, <2>3, WriterData
  <2>4. CASE TxData
    BY <2>1, <2>4, TxDataData DEF Chan!Transmit
  <2>5. CASE ShiftOut
    BY <2>1, <2>5, ShiftOutData
  <2>6. CASE TxComplete
    BY <2>1, <2>6, TxCompleteData
  <2>7. CASE End
    BY <2>1, <2>7, CloseData
  <2> QED
    BY <1>1, <1>2, <1>5, <2>2, <2>3, <2>4, <2>5, <2>6, <2>7, Steps
<1> QED
  BY <1>3, <1>4, <1>5

LEMMA StepData ==
  ASSUME OneWriter, IInv, FreshInv, [Next]_vars
  PROVE  FreshInv' /\ [Chan!Next]_(Chan!chanVars)
<1>1. CASE ~stale
  BY <1>1, FreshStep DEF FreshInv
<1>2. CASE stale /\ Begin
  BY <1>2, OpenData DEF FreshInv, Chan!Next, Chan!Reopen
<1>3. CASE stale /\ ~Begin
  <2>1. stale'
    <3>1. PrimeTx(Owner) => stale'
      BY <1>3 DEF PrimeTx
    <3> QED
      BY <1>3, <3>1, StaleSteps
  <2> QED
    BY <1>3, <2>1 DEF FreshInv, Chan!Next
<1> QED
  BY <1>1, <1>2, <1>3

LEMMA InitData == Init => FreshInv /\ Chan!Init
<1> SUFFICES ASSUME Init
             PROVE  FreshInv /\ Chan!Init
  OBVIOUS
<1>1. DataInv /\ WriterInv
  BY EmptyData DEF Init
<1> QED
  BY <1>1 DEF Init, FreshInv, Chan!Init

\* With one writer, a ring of any size and any number of sessions, a serial
\* port carries the bytes write() stored once each and in order, until
\* primeTx() is called with an empty ring; and that happens only when all
\* that was stored has been sent.
THEOREM PortIsChannel == ASSUME OneWriter PROVE Spec => ChannelSpec
<1>1. Init => IInv /\ FreshInv /\ Chan!Init
  BY InitIInv, InitData
<1>2. IInv /\ FreshInv /\ [Next]_vars => IInv' /\ FreshInv' /\ [Chan!Next]_(Chan!chanVars)
  BY StepIInv, StepData
<1> QED
  BY <1>1, <1>2, PTL DEF Spec, ChannelSpec, Chan!Spec

LEMMA DataInvariance == ASSUME OneWriter PROVE Spec => [](IInv /\ FreshInv)
<1>1. Init => IInv /\ FreshInv
  BY InitIInv, InitData
<1>2. IInv /\ FreshInv /\ [Next]_vars => (IInv /\ FreshInv)'
  BY StepIInv, StepData
<1> QED
  BY <1>1, <1>2, PTL DEF Spec

\* With one writer, the slot found free is still free when the byte is stored
\* (StoresInFreeSlot), until primeTx() is called with an empty ring.
THEOREM StoresAreFree == ASSUME OneWriter PROVE Spec => StoresInFreeSlot
<1>1. IInv /\ FreshInv /\ [Next]_vars =>
        [~stale => \A t \in Threads : pc[t] = "store" /\ pc'[t] # "store" => ~Full]_vars
  <2> SUFFICES ASSUME IInv, FreshInv, ~stale, NEW t \in Threads, pc[t] = "store"
               PROVE  ~Full
    OBVIOUS
  <2>1. Waiting < N - 1
    BY DEF FreshInv, WriterInv, OneWriter
  <2>2. Waiting \in 0 .. N - 1 /\ (Full <=> Waiting = N - 1)
    BY FullEmpty DEF IInv
  <2> QED
    BY <2>1, <2>2
<1> QED
  BY <1>1, DataInvariance, PTL DEF Spec, StoresInFreeSlot

-----------------------------------------------------------------------------
(* A writer that never waits for room never makes the port stale.          *)

\* While no write() was longer than the room it found, none has to wait for
\* room, and primeTx() is called at the end of write() only.
RoomInv ==
  /\ pc[Owner] # "active"
  /\ pc[Owner] \in {"full", "store"} => left[Owner] + Waiting < N
  /\ pc[Owner] \in {"check", "pending", "prime", "uwrite"} => left[Owner] = 0
  /\ pc[Owner] = "prime" => Waiting > 0

PoliteInv == ~crowded => ~stale /\ RoomInv

\* The room as a distance.
LEMMA RoomLeft ==
  ASSUME TypeOK
  PROVE  Room = N - 1 - Waiting
<1>1. txReadIndex \in Nat /\ txReadIndex < N /\ txWriteIndex \in Nat /\ txWriteIndex < N
  BY DEF TypeOK, Index
<1>2. txWriteIndex >= txReadIndex => Pending = txWriteIndex - txReadIndex
  BY <1>1 DEF Pending
<1>3. ~(txWriteIndex >= txReadIndex) => Pending = txWriteIndex + N - txReadIndex
  BY <1>1 DEF Pending
<1>4. Pending = Waiting
  BY <1>1, <1>2, <1>3 DEF Waiting, Dist
<1> QED
  BY <1>4 DEF Room

\* The steps between the calls of write() and primeTx().
LEMMA PoliteWriter ==
  ASSUME OneWriter, IInv, DataInv, WriterInv, RoomInv, ~crowded',
         \/ \E n \in 1 .. MaxWrite : WriteCall(Owner, n)
         \/ FlushCall(Owner) \/ FlushReturn(Owner) \/ TestFull(Owner)
         \/ TestActive(Owner) \/ CheckActive(Owner) \/ CheckPending(Owner)
  PROVE  RoomInv'
<1>1. /\ TypeOK /\ left[Owner] \in Nat /\ Waiting \in 0 .. N - 1
      /\ Full <=> Waiting = N - 1
      /\ Empty <=> Waiting = 0
  BY FullEmpty DEF IInv, TypeOK
<1>2. Waiting' = Waiting
  BY DEF WriteCall, FlushCall, FlushReturn, TestFull, TestActive, CheckActive, CheckPending,
         ring, Waiting, Dist
<1>3. ASSUME NEW n \in 1 .. MaxWrite, WriteCall(Owner, n)
      PROVE  RoomInv'
  <2>1. n <= N - 1 - Waiting
    <3>1. ~(n > Room)
      BY <1>3 DEF WriteCall
    <3>2. Room = N - 1 - Waiting
      BY <1>1, RoomLeft
    <3> QED
      BY <1>1, <3>1, <3>2
  <2>2. pc'[Owner] = "full" /\ left'[Owner] = n
    BY <1>1, <1>3 DEF WriteCall, Goto, TypeOK
  <2>3. n + Waiting < N
    BY <1>1, <2>1
  <2> QED
    BY <1>2, <2>2, <2>3 DEF RoomInv
<1>4. CASE TestFull(Owner)
  <2>1. left[Owner] > 0 /\ left[Owner] + Waiting < N
    BY <1>4 DEF TestFull, At, IInv, BytesLeft, RoomInv
  <2>2. ~Full
    BY <1>1, <2>1
  <2>3. pc'[Owner] = "store" /\ left' = left
    BY <1>1, <1>4, <2>2 DEF TestFull, Goto, TypeOK
  <2> QED
    BY <1>2, <2>1, <2>3 DEF RoomInv
<1>5. CASE CheckActive(Owner) \/ CheckPending(Owner)
  <2>1. /\ left[Owner] = 0 /\ left' = left
        /\ pc'[Owner] \in {"idle", "pending", "prime"}
        /\ pc'[Owner] = "prime" => ~Empty
    BY <1>1, <1>5 DEF CheckActive, CheckPending, At, Goto, TypeOK, RoomInv
  <2>2. ~Empty => Waiting > 0
    BY <1>1
  <2> QED
    BY <1>2, <2>1, <2>2 DEF RoomInv
<1>6. CASE FlushCall(Owner) \/ FlushReturn(Owner)
  <2>1. pc'[Owner] \in {"idle", "flush"}
    BY <1>1, <1>6 DEF FlushCall, FlushReturn, Goto, TypeOK
  <2> QED
    BY <2>1 DEF RoomInv
<1>7. ~TestActive(Owner)
  BY DEF TestActive, At, RoomInv
<1> QED
  BY <1>3, <1>4, <1>5, <1>6, <1>7

LEMMA PoliteStep ==
  ASSUME OneWriter, IInv, ~stale, DataInv, WriterInv, RoomInv, ~crowded', [Next]_vars, ~Begin
  PROVE  ~stale' /\ RoomInv'
<1>1. /\ TypeOK /\ left[Owner] \in Nat /\ Waiting \in 0 .. N - 1
      /\ Empty <=> Waiting = 0
  BY FullEmpty DEF IInv, TypeOK
<1>2. ~stale'
  <2>1. CASE PrimeTx(Owner)
    <3>1. ~Empty
      BY <1>1, <2>1 DEF PrimeTx, At, RoomInv
    <3> QED
      BY <2>1, <3>1, PrimeTxData
  <2> QED
    BY <2>1, StaleSteps
<1>3. CASE UNCHANGED vars \/ TxData \/ ShiftOut
  <2>1. UNCHANGED <<pc, left, txReadIndex, txWriteIndex>>
    BY <1>3 DEF vars, TxData, ShiftOut, ring, locals
  <2> QED
    BY <1>2, <2>1 DEF RoomInv, Waiting, Dist
<1>4. CASE TxComplete
  <2>1. Waiting' <= Waiting /\ pc[Owner] # "prime"
    BY <1>4, TxCompleteData
  <2>2. UNCHANGED <<pc, left>>
    BY <1>4 DEF TxComplete, locals
  <2>3. Waiting' \in Nat
    <3>1. TypeOK'
      BY StepIInv DEF IInv
    <3>2. txReadIndex' \in Index /\ txWriteIndex' \in Index
      BY <3>1 DEF TypeOK
    <3>3. Dist(txReadIndex', txWriteIndex') \in 0 .. N - 1
      BY <3>2, DistRange
    <3> QED
      BY <3>3 DEF Waiting, Dist
  <2>4. left[Owner] + Waiting < N => left[Owner] + Waiting' < N
    BY <1>1, <2>1, <2>3
  <2> QED
    BY <1>2, <2>1, <2>2, <2>4 DEF RoomInv
<1>5. CASE Store(Owner)
  <2>1. /\ left[Owner] > 0 /\ left[Owner] + Waiting < N
        /\ left'[Owner] = left[Owner] - 1
        /\ pc'[Owner] = IF left[Owner] = 1 THEN "check" ELSE "full"
    BY <1>1, <1>5 DEF Store, At, Goto, TypeOK, IInv, BytesLeft, RoomInv
  <2>2. Waiting' = Waiting + 1
    <3>1. txReadIndex \in Index /\ txWriteIndex \in Index /\ Dist(txReadIndex, txWriteIndex) < N - 1
      BY <1>1, <2>1 DEF TypeOK, Waiting
    <3>2. Dist(txReadIndex, (txWriteIndex + 1) % N) = Dist(txReadIndex, txWriteIndex) + 1
      BY <3>1, Advance
    <3> QED
      BY <1>5, <3>2 DEF Store, Waiting, Dist
  <2>3. left'[Owner] + Waiting' < N
    BY <1>1, <2>1, <2>2
  <2>4. left[Owner] = 1 => left'[Owner] = 0
    BY <2>1
  <2> QED
    BY <1>2, <2>1, <2>3, <2>4 DEF RoomInv
<1>6. CASE PrimeTx(Owner)
  <2>1. pc[Owner] = "prime" /\ ~txActive
    BY <1>6 DEF PrimeTx, At, WriterInv
  <2>2. pc'[Owner] = "uwrite" /\ left'[Owner] = 0
    BY <1>1, <1>6, <2>1 DEF PrimeTx, Goto, TypeOK, RoomInv
  <2> QED
    BY <1>2, <2>2 DEF RoomInv
<1>7. CASE PrimeWrite(Owner)
  <2>1. left[Owner] = 0
    BY <1>7 DEF PrimeWrite, At, RoomInv
  <2>2. pc'[Owner] = "idle"
    BY <1>1, <1>7, <2>1 DEF PrimeWrite, AfterPrime, Goto, TypeOK
  <2> QED
    BY <1>2, <2>2 DEF RoomInv
<1>8. CASE End
  <2>1. pc'[Owner] = "idle"
    BY <1>8 DEF End, At, locals
  <2> QED
    BY <1>2, <2>1 DEF RoomInv
<1> QED
  BY <1>2, <1>3, <1>4, <1>5, <1>6, <1>7, <1>8, PoliteWriter, Steps

\* The room is found once and for all: crowded is reset by begin() only.
LEMMA CrowdedSteps ==
  ASSUME OneWriter, TypeOK, [Next]_vars, ~crowded', ~Begin
  PROVE  ~crowded
<1>1. CASE UNCHANGED vars
  BY <1>1 DEF vars, ghosts, history
<1>2. CASE \/ \E n \in 1 .. MaxWrite : WriteCall(Owner, n)
           \/ FlushCall(Owner) \/ FlushReturn(Owner) \/ TestFull(Owner)
           \/ TestActive(Owner) \/ CheckActive(Owner) \/ CheckPending(Owner)
  BY <1>2 DEF WriteCall, FlushCall, FlushReturn, TestFull, TestActive, CheckActive,
              CheckPending, ghosts, history
<1>3. CASE Store(Owner) \/ PrimeTx(Owner) \/ PrimeWrite(Owner) \/ End
  BY <1>3 DEF Store, PrimeTx, PrimeWrite, End, ghosts, history
<1>4. CASE TxData \/ ShiftOut \/ TxComplete
  BY <1>4 DEF TxData, ShiftOut, TxComplete, ghosts, history
<1> QED
  BY <1>1, <1>2, <1>3, <1>4, Steps

\* With one writer that never writes more than there is room for, primeTx()
\* is never called with an empty ring (StaleOnlyWhenCrowded): with
\* PortIsChannel, such a port is the channel without reservation.
THEOREM PoliteIsFresh == ASSUME OneWriter PROVE Spec => []StaleOnlyWhenCrowded
<1>1. Init => IInv /\ FreshInv /\ PoliteInv
  <2>1. Init => PoliteInv
    BY DEF Init, PoliteInv, RoomInv
  <2> QED
    BY <2>1, InitIInv, InitData
<1>2. IInv /\ FreshInv /\ PoliteInv /\ [Next]_vars => (IInv /\ FreshInv /\ PoliteInv)'
  <2> SUFFICES ASSUME IInv, FreshInv, PoliteInv, [Next]_vars
               PROVE  IInv' /\ FreshInv' /\ PoliteInv'
    OBVIOUS
  <2>1. IInv' /\ FreshInv'
    BY StepIInv, StepData
  <2>2. CASE Begin
    <3>1. ~stale' /\ pc'[Owner] = "idle"
      BY <2>2, OpenData
    <3> QED
      BY <2>1, <3>1 DEF PoliteInv, RoomInv
  <2>3. CASE ~Begin
    <3>1. ~crowded' => ~crowded
      BY <2>3, CrowdedSteps DEF IInv
    <3> QED
      BY <2>1, <2>3, <3>1, PoliteStep DEF PoliteInv, FreshInv
  <2> QED
    BY <2>2, <2>3
<1>3. PoliteInv => StaleOnlyWhenCrowded
  BY DEF PoliteInv, StaleOnlyWhenCrowded
<1> QED
  BY <1>1, <1>2, <1>3, PTL DEF Spec

=============================================================================
