--------------------------- MODULE SerialRxProofs ---------------------------
(***************************************************************************)
(* Proofs about SerialRx for every set of threads and every size of the    *)
(* driver's ring.                                                          *)
(***************************************************************************)
EXTENDS SerialRx, SequenceTheorems, TLAPS

\* The sketches for which the properties hold: a task that reads in blocking
\* mode has called acquire(), and no task nests acquire().
Exclusive == Gated /\ MaxNest \in {0, 1}

-----------------------------------------------------------------------------
(* The inductive invariant.                                                *)

Rings ==
  [data : [0 .. R - 1 -> Char], head : 0 .. R - 1, tail : 0 .. R - 1, count : 0 .. R]

\* Where a blocking read() is.
Reading(t) == pc[t] \in {"clear", "while", "get", "pend", "again", "count"}

\* A peek() and the UART_read() after it are not separated.
MaskInv ==
  /\ \A t \in Threads : pc[t] = "take" <=> masked = t
  /\ masked # NoThread => open

\* In callback mode the character peek() saw is there, and the driver is left
\* without a read of its own.
CallbackInv ==
  ~blocking =>
    /\ ~drv.drain /\ ~drv.busy
    /\ \A t \in Threads : ~Reading(t)
    /\ \A t \in Threads : pc[t] = "take" /\ char[t] # NoChar => ring.count # 0

\* In blocking mode the owner of the gate reads; what woke it is still there.
BlockingInv ==
  blocking =>
    /\ \A t \in Threads : pc[t] # "take"
    /\ \A t \in Threads : Reading(t) => depth[t] > 0
    /\ \A t \in Threads : pc[t] = "again" => ring.count # 0
    /\ readSem = 1 => ring.count # 0 /\ ~drv.wake
    /\ readSem = 1 \/ drv.wake => \E t \in Threads : pc[t] = "pend"

ClosedInv == ~open => rx.buf = 0 /\ \A t \in Threads : pc[t] = "idle"

\* The head follows the youngest character.
HeadInv == (ring.head + 1) % R = (ring.tail + ring.count) % R

IInv ==
  /\ TypeOK
  /\ MaskInv
  /\ GateHeld
  /\ CallbackInv
  /\ BlockingInv
  /\ ClosedInv
  /\ HeadInv

-----------------------------------------------------------------------------
(* The ring.                                                               *)

USE RxAssumption

LEMMA Wrap ==
  ASSUME NEW x \in Int, 0 <= x, x < R + R
  PROVE  /\ (x % R) \in 0 .. R - 1
         /\ x < R => (x % R) = x
         /\ x >= R => (x % R) = x - R
<1>1. x < R => (x % R) = x
  OBVIOUS
<1>2. x >= R => (x % R) = x - R
  OBVIOUS
<1> QED
  BY <1>1, <1>2

\* Where the place k after place a is, and that k places are different ones.
LEMMA Place ==
  ASSUME NEW a \in Nat, NEW k \in Nat, a < R, k < R
  PROVE  /\ a + k < R => (a + k) % R = a + k
         /\ a + k >= R => (a + k) % R = a + k - R
  OBVIOUS

LEMMA Places ==
  ASSUME NEW a \in Nat, NEW k \in Nat, a < R, k < R, NEW i \in 1 .. k
  PROVE  (a + i - 1) % R \in 0 .. R - 1 /\ (a + i - 1) % R # (a + k) % R
<1> DEFINE x == a + i - 1
           y == a + k
<1>1. x \in Int /\ y \in Int /\ 0 <= x /\ x < y /\ y < R + R /\ y < x + R
  <2>1. i \in Int /\ 1 <= i /\ i <= k
    OBVIOUS
  <2> QED
    BY <2>1
<1> HIDE DEF x, y
<1>2. /\ (x % R) \in 0 .. R - 1
      /\ x < R => (x % R) = x
      /\ x >= R => (x % R) = x - R
  BY <1>1, Wrap
<1>3. /\ y < R => (y % R) = y
      /\ y >= R => (y % R) = y - R
  <2>1. y \in Int /\ 0 <= y /\ y < R + R
    BY <1>1
  <2> QED
    BY <2>1, Wrap
<1>4. (x % R) # (y % R)
  BY <1>1, <1>2, <1>3
<1> QED
  BY <1>2, <1>4 DEF x, y

\* The characters in a ring, oldest first.
Items(r) == [i \in 1 .. r.count |-> r.data[(r.tail + i - 1) % R]]

LEMMA ItemsSeq ==
  ASSUME NEW r \in Rings
  PROVE  /\ Items(r) \in Seq(Char)
         /\ Len(Items(r)) = r.count
         /\ \A i \in 1 .. r.count : Items(r)[i] = r.data[(r.tail + i - 1) % R]
<1>1. r.count \in Nat /\ r.tail \in Int /\ r.data \in [0 .. R - 1 -> Char]
      /\ r.count <= R /\ 0 <= r.tail /\ r.tail < R
  BY DEF Rings
<1>2. ASSUME NEW i \in 1 .. r.count
      PROVE  r.data[(r.tail + i - 1) % R] \in Char
  <2> DEFINE x == r.tail + i - 1
  <2>1. x \in Int /\ 0 <= x /\ x < R + R
    BY <1>1
  <2>2. (x % R) \in 0 .. R - 1
    <3> HIDE DEF x
    <3> QED
      BY <2>1, Wrap
  <2> QED
    BY <1>1, <2>2
<1>3. Items(r) \in [1 .. r.count -> Char]
  BY <1>2 DEF Items
<1>4. Items(r) \in Seq(Char)
  BY <1>1, <1>3
<1>5. DOMAIN Items(r) = 1 .. r.count
  BY DEF Items
<1> QED
  BY <1>1, <1>4, <1>5, LenProperties DEF Items

LEMMA GetItems ==
  ASSUME NEW r \in Rings, r.count # 0
  PROVE  /\ RingGet(r) \in Rings
         /\ RingGet(r).count = r.count - 1
         /\ Items(r) # <<>>
         /\ Head(Items(r)) = Oldest(r)
         /\ Tail(Items(r)) = Items(RingGet(r))
         /\ Oldest(r) \in Char
         /\ (r.head + 1) % R = (r.tail + r.count) % R =>
              (RingGet(r).head + 1) % R = (RingGet(r).tail + RingGet(r).count) % R
<1> DEFINE g == RingGet(r)
<1>1. /\ r.count \in Nat /\ r.tail \in Int /\ r.data \in [0 .. R - 1 -> Char]
      /\ 1 <= r.count /\ r.count <= R /\ 0 <= r.tail /\ r.tail < R
      /\ r.head \in 0 .. R - 1
  BY DEF Rings
<1>2. /\ r.tail + 1 < R => (r.tail + 1) % R = r.tail + 1
      /\ r.tail + 1 >= R => (r.tail + 1) % R = 0
  <2> DEFINE x == r.tail + 1
  <2>1. x \in Int /\ 0 <= x /\ x <= R
    BY <1>1
  <2> HIDE DEF x
  <2>2. x < R => (x % R) = x
    BY <2>1
  <2>3. x = R => (x % R) = 0
    BY <2>1
  <2>4. x >= R => (x % R) = 0
    BY <2>1, <2>3
  <2> QED
    BY <2>2, <2>4 DEF x
<1>3. (r.tail + 1) % R \in 0 .. R - 1
  BY <1>1, <1>2
<1>4. /\ g \in Rings
      /\ g.data = r.data /\ g.head = r.head /\ g.tail = (r.tail + 1) % R /\ g.count = r.count - 1
  <2>1. r.count - 1 \in 0 .. R
    BY <1>1
  <2> QED
    BY <1>3, <2>1 DEF RingGet, Rings
<1>5. ASSUME NEW k \in Int, 0 <= k, k < R
      PROVE  (g.tail + k) % R = (r.tail + 1 + k) % R
  <2>1. CASE r.tail + 1 < R
    BY <1>2, <1>4, <2>1
  <2>2. CASE r.tail + 1 >= R
    <3>1. g.tail = 0 /\ r.tail + 1 = R
      BY <1>1, <1>2, <1>4, <2>2
    <3>2. (0 + k) % R = k
      BY <1>5
    <3>3. (R + k) % R = k
      BY <1>5
    <3> QED
      BY <3>1, <3>2, <3>3
  <2> QED
    BY <1>1, <2>1, <2>2
<1>6. Items(r) \in Seq(Char) /\ Len(Items(r)) = r.count
      /\ \A i \in 1 .. r.count : Items(r)[i] = r.data[(r.tail + i - 1) % R]
  BY ItemsSeq
<1>7. Items(g) \in Seq(Char) /\ Len(Items(g)) = g.count
      /\ \A i \in 1 .. g.count : Items(g)[i] = g.data[(g.tail + i - 1) % R]
  BY <1>4, ItemsSeq
<1>8. Items(r) # <<>>
  BY <1>1, <1>6
<1>9. Head(Items(r)) = Oldest(r) /\ Oldest(r) \in Char
  <2>1. (r.tail + 1 - 1) % R = r.tail
    BY <1>1
  <2>2. Head(Items(r)) = Items(r)[1]
    BY <1>6, <1>8
  <2>3. Items(r)[1] = r.data[(r.tail + 1 - 1) % R]
    <3>1. 1 \in 1 .. r.count
      BY <1>1
    <3> QED
      BY <1>6, <3>1
  <2> QED
    BY <1>1, <2>1, <2>2, <2>3 DEF Oldest
<1>10. Tail(Items(r)) = Items(g)
  <2>1. /\ Tail(Items(r)) \in Seq(Char)
        /\ Len(Tail(Items(r))) = r.count - 1
        /\ \A i \in 1 .. r.count - 1 : Tail(Items(r))[i] = Items(r)[i + 1]
    BY <1>6, <1>8, HeadTailProperties
  <2>2. ASSUME NEW i \in 1 .. r.count - 1
        PROVE  Tail(Items(r))[i] = Items(g)[i]
    <3>1. i - 1 \in Int /\ 0 <= i - 1 /\ i - 1 < R /\ i + 1 \in 1 .. r.count
      BY <1>1
    <3>2. (g.tail + (i - 1)) % R = (r.tail + 1 + (i - 1)) % R
      BY <1>5, <3>1
    <3>3. g.tail + (i - 1) = g.tail + i - 1 /\ r.tail + 1 + (i - 1) = r.tail + (i + 1) - 1
      BY <1>1, <1>3, <1>4
    <3>4. Items(r)[i + 1] = r.data[(r.tail + (i + 1) - 1) % R]
      BY <1>6, <3>1
    <3>5. Items(g)[i] = g.data[(g.tail + i - 1) % R]
      BY <1>4, <1>7
    <3> QED
      BY <1>4, <2>1, <3>2, <3>3, <3>4, <3>5
  <2> QED
    BY <1>4, <1>7, <2>1, <2>2, SeqEqual
<1>11. (r.head + 1) % R = (r.tail + r.count) % R =>
         (g.head + 1) % R = (g.tail + g.count) % R
  <2>1. (g.tail + (r.count - 1)) % R = (r.tail + 1 + (r.count - 1)) % R
    <3>1. r.count - 1 \in Int /\ 0 <= r.count - 1 /\ r.count - 1 < R
      BY <1>1
    <3> QED
      BY <1>5, <3>1
  <2>2. r.tail + 1 + (r.count - 1) = r.tail + r.count
    BY <1>1
  <2> QED
    BY <1>4, <2>1, <2>2
<1> QED
  BY <1>4, <1>8, <1>9, <1>10, <1>11

LEMMA PutItems ==
  ASSUME NEW r \in Rings, NEW c \in Char,
         (r.head + 1) % R = (r.tail + r.count) % R
  PROVE  /\ RingPut(r, c) \in Rings
         /\ RingPut(r, c).count # 0
         /\ r.count = R => RingPut(r, c) = r
         /\ r.count # R => Items(RingPut(r, c)) = Append(Items(r), c)
         /\ (RingPut(r, c).head + 1) % R = (RingPut(r, c).tail + RingPut(r, c).count) % R
<1> DEFINE g == RingPut(r, c)
           n == (r.head + 1) % R
<1>1. /\ r.count \in Nat /\ r.tail \in Int /\ r.data \in [0 .. R - 1 -> Char]
      /\ r.count <= R /\ 0 <= r.tail /\ r.tail < R
      /\ r.head \in Int /\ 0 <= r.head /\ r.head < R
  BY DEF Rings
<1>2. CASE r.count = R
  <2>1. RingPut(r, c) = r
    BY <1>2 DEF RingPut
  <2>2. r.count # 0
    BY <1>2
  <2> QED
    BY <1>2, <2>1, <2>2
<1>3. CASE r.count # R
  <2>1. r.count < R
    BY <1>1, <1>3
  <2>2. n \in 0 .. R - 1
    <3> DEFINE x == r.head + 1
    <3>1. x \in Int /\ 0 <= x /\ x < R + R
      BY <1>1
    <3>2. (x % R) \in 0 .. R - 1
      <4> HIDE DEF x
      <4> QED
        BY <3>1, Wrap
    <3> QED
      BY <3>2
  <2>3. g = [r EXCEPT !.data[n] = c, !.head = n, !.count = @ + 1]
    BY <1>3 DEF RingPut
  <2> HIDE DEF n, g
  <2>4. /\ g.data = [r.data EXCEPT ![n] = c] /\ g.head = n
        /\ g.count = r.count + 1 /\ g.tail = r.tail
        /\ g \in Rings
    <3>1. r.count + 1 \in 0 .. R
      BY <1>1, <2>1
    <3>2. [r.data EXCEPT ![n] = c] \in [0 .. R - 1 -> Char]
      BY <1>1
    <3> QED
      BY <2>2, <2>3, <3>1, <3>2 DEF Rings
  <2>5. n = (r.tail + r.count) % R
    BY DEF n
  <2>6. /\ r.tail + r.count < R => n = r.tail + r.count
        /\ r.tail + r.count >= R => n = r.tail + r.count - R
    <3>1. r.tail \in Nat /\ r.count \in Nat
      BY <1>1
    <3> QED
      BY <1>1, <2>1, <2>5, <3>1, Place
  <2>7. (n + 1) % R = (r.tail + (r.count + 1)) % R
    <3>1. CASE r.tail + r.count < R
      <4>1. n + 1 = r.tail + (r.count + 1)
        BY <1>1, <2>2, <2>6, <3>1
      <4> QED
        BY <4>1
    <3>2. CASE r.tail + r.count >= R
      <4> DEFINE y == n + 1
      <4>0. n = r.tail + r.count - R
        BY <2>6, <3>2
      <4>1. y \in Int /\ 0 <= y /\ y < R
        BY <1>1, <2>1, <3>2, <4>0
      <4>2. r.tail + (r.count + 1) = R + y
        BY <1>1, <4>0
      <4> HIDE DEF y
      <4>3. (y % R) = y /\ (R + y) % R = y
        BY <4>1
      <4> QED
        BY <4>2, <4>3 DEF y
    <3> QED
      BY <1>1, <3>1, <3>2
  <2>8. ASSUME NEW i \in 1 .. r.count
        PROVE  (r.tail + i - 1) % R \in 0 .. R - 1 /\ (r.tail + i - 1) % R # n
    <3>1. r.tail \in Nat /\ r.count \in Nat
      BY <1>1
    <3> QED
      BY <1>1, <2>1, <2>5, <3>1, Places
  <2>9. Items(r) \in Seq(Char) /\ Len(Items(r)) = r.count
        /\ \A i \in 1 .. r.count : Items(r)[i] = r.data[(r.tail + i - 1) % R]
    BY ItemsSeq
  <2>10. Items(g) \in Seq(Char) /\ Len(Items(g)) = g.count
         /\ \A i \in 1 .. g.count : Items(g)[i] = g.data[(g.tail + i - 1) % R]
    BY <2>4, ItemsSeq
  <2>11. /\ Append(Items(r), c) \in Seq(Char)
         /\ Len(Append(Items(r), c)) = r.count + 1
         /\ \A i \in 1 .. r.count : Append(Items(r), c)[i] = Items(r)[i]
         /\ Append(Items(r), c)[r.count + 1] = c
    BY <1>1, <2>9, AppendProperties
  <2>12. ASSUME NEW i \in 1 .. r.count + 1
         PROVE  Items(g)[i] = Append(Items(r), c)[i]
    <3>1. CASE i = r.count + 1
      <4>1. g.data[n] = c
        BY <1>1, <2>2, <2>4
      <4>2. r.tail + (r.count + 1) - 1 = r.tail + r.count
        BY <1>1
      <4>3. i \in 1 .. g.count
        BY <2>4
      <4>4. Items(g)[i] = g.data[(r.tail + (r.count + 1) - 1) % R]
        BY <2>4, <2>10, <3>1, <4>3
      <4> QED
        BY <2>5, <2>11, <3>1, <4>1, <4>2, <4>4
    <3>2. CASE i # r.count + 1
      <4>1. i \in 1 .. r.count /\ i \in 1 .. g.count
        BY <1>1, <2>4, <3>2
      <4>2. Items(g)[i] = g.data[(r.tail + i - 1) % R]
        BY <2>4, <2>10, <4>1
      <4>3. g.data[(r.tail + i - 1) % R] = r.data[(r.tail + i - 1) % R]
        BY <1>1, <2>4, <2>8, <4>1
      <4> QED
        BY <2>9, <2>11, <4>1, <4>2, <4>3
    <3> QED
      BY <3>1, <3>2
  <2>13. Items(g) = Append(Items(r), c)
    BY <2>4, <2>10, <2>11, <2>12, SeqEqual
  <2>14. g.count # 0
    BY <1>1, <2>4
  <2> QED
    BY <1>3, <2>4, <2>7, <2>13, <2>14 DEF g
<1> QED
  BY <1>2, <1>3

LEMMA EmptyItems ==
  /\ EmptyRing \in Rings
  /\ (EmptyRing.head + 1) % R = (EmptyRing.tail + EmptyRing.count) % R
  /\ Items(EmptyRing) = <<>>
<1>1. /\ EmptyRing.head = R - 1 /\ EmptyRing.tail = 0 /\ EmptyRing.count = 0
      /\ EmptyRing \in Rings
  <2>1. [i \in 0 .. R - 1 |-> 0] \in [0 .. R - 1 -> Char]
    BY DEF Char
  <2> QED
    BY <2>1 DEF EmptyRing, Rings
<1>2. R - 1 + 1 = R /\ R % R = 0 /\ (0 + 0) % R = 0
  OBVIOUS
<1>3. Items(EmptyRing) \in Seq(Char) /\ Len(Items(EmptyRing)) = 0
  BY <1>1, ItemsSeq
<1> QED
  BY <1>1, <1>2, <1>3, EmptySeq

-----------------------------------------------------------------------------
(* The invariant is kept.                                                  *)

Labels == {"idle", "take", "clear", "while", "get", "pend", "again", "count"}

LEMMA Types ==
  ASSUME TypeOK
  PROVE  /\ ring \in Rings /\ pc \in [Threads -> Labels] /\ got \in Seq(Char \cup {NoChar})
         /\ char \in [Threads -> Char \cup {NoChar}]
         /\ depth \in [Threads -> 0 .. MaxNest]
  BY DEF TypeOK, Rings, Labels

LEMMA InitIInv == Init => IInv
<1> SUFFICES ASSUME Init
             PROVE  IInv
  OBVIOUS
<1>1. TypeOK
  <2>1. ring \in Rings
    BY EmptyItems DEF Init
  <2>2. rx \in [buf : Char, overrun : BOOLEAN] /\ arrived \in Char
    BY DEF Init, Char
  <2>3. drv \in [busy : BOOLEAN, want : 0 .. 2, drain : BOOLEAN, wake : BOOLEAN]
    BY DEF Init, IdleDriver
  <2>4. char \in [Threads -> Char \cup {NoChar}] /\ depth \in [Threads -> 0 .. MaxNest]
    BY DEF Init
  <2>5. got \in Seq(Char \cup {NoChar}) /\ ends \in 0 .. MaxEnds
    BY DEF Init
  <2> QED
    BY <2>1, <2>2, <2>3, <2>4, <2>5 DEF Init, TypeOK, Rings
<1>2. MaskInv /\ GateHeld /\ ClosedInv
  BY DEF Init, MaskInv, GateHeld, ClosedInv
<1>3. CallbackInv /\ BlockingInv
  BY DEF Init, CallbackInv, BlockingInv, Reading, IdleDriver
<1>4. HeadInv
  BY EmptyItems DEF Init, HeadInv
<1> QED
  BY <1>1, <1>2, <1>3, <1>4 DEF IInv

\* One task at a time is in a blocking read().
LEMMA OneReader ==
  ASSUME IInv, blocking, NEW t \in Threads, NEW u \in Threads, Reading(t), Reading(u)
  PROVE  t = u
  BY DEF IInv, BlockingInv, GateHeld

\* A task that is in a blocking read() is so in blocking mode, with the port open.
LEMMA ReaderMode ==
  ASSUME IInv, NEW t \in Threads, Reading(t)
  PROVE  blocking /\ open
  BY DEF IInv, CallbackInv, ClosedInv, Reading

LEMMA PeekIInv ==
  ASSUME IInv, NEW t \in Threads, ReadPeek(t)
  PROVE  IInv'
<1>1. /\ masked = NoThread /\ open /\ ~blocking /\ pc[t] = "idle"
      /\ \A u \in Threads : pc[u] # "take"
  BY DEF ReadPeek, At, IInv, MaskInv
<1>2. /\ masked' = t
      /\ char' = [char EXCEPT ![t] = IF ring.count # 0 THEN Oldest(ring) ELSE NoChar]
      /\ pc' = [pc EXCEPT ![t] = "take"]
      /\ UNCHANGED <<open, blocking, ends, rx, ring, drv, readSem, gate, depth, arrived, got>>
  BY DEF ReadPeek, Goto, session, driver, locking
<1>3. TypeOK'
  <2>1. char' \in [Threads -> Char \cup {NoChar}]
    <3>1. ring.count # 0 => Oldest(ring) \in Char
      BY GetItems, Types DEF IInv
    <3> QED
      BY <1>2, <3>1, Types DEF IInv
  <2>2. pc' \in [Threads -> Labels]
    BY <1>2, Types DEF IInv, Labels
  <2> QED
    BY <1>2, <2>1, <2>2 DEF IInv, TypeOK, Labels
<1>4. pc'[t] = "take" /\ \A u \in Threads \ {t} : pc'[u] = pc[u]
  BY <1>2, Types DEF IInv
<1>5. MaskInv'
  BY <1>1, <1>2, <1>4 DEF MaskInv
<1>6. GateHeld' /\ HeadInv' /\ ClosedInv' /\ BlockingInv'
  BY <1>1, <1>2 DEF IInv, GateHeld, HeadInv, ClosedInv, BlockingInv
<1>7. CallbackInv'
  <2>1. char'[t] # NoChar => ring.count # 0
    BY <1>2, Types DEF IInv
  <2> QED
    BY <1>1, <1>2, <1>4, <2>1 DEF IInv, CallbackInv, Reading
<1> QED
  BY <1>3, <1>5, <1>6, <1>7 DEF IInv

\* What UART_read() does in callback mode: it is never refused and never left
\* to the Hwi.
LEMMA TakeCases ==
  ASSUME IInv, NEW t \in Threads, ReadTake(t)
  PROVE  /\ ~blocking /\ open /\ masked = t
         /\ drv' = drv
         /\ \/ ring' = ring /\ got' = got
            \/ ring.count # 0 /\ ring' = RingGet(ring) /\ got' = Append(got, Oldest(ring))
         /\ masked' = NoThread
         /\ pc' = [pc EXCEPT ![t] = "idle"]
         /\ UNCHANGED <<open, blocking, ends, rx, readSem, gate, depth, char, arrived>>
<1>1. /\ ~blocking /\ open /\ masked = t /\ pc[t] = "take" /\ ~drv.busy
      /\ char[t] # NoChar => ring.count # 0
  BY DEF ReadTake, At, IInv, MaskInv, BlockingInv, CallbackInv, ClosedInv
<1> QED
  BY <1>1 DEF ReadTake, Obtain, Goto, session, locking

LEMMA TakeIInv ==
  ASSUME IInv, NEW t \in Threads, ReadTake(t)
  PROVE  IInv'
<1>1. pc[t] = "take" /\ \A u \in Threads \ {t} : pc[u] # "take"
  BY TakeCases DEF ReadTake, At, IInv, MaskInv
<1>2. pc'[t] = "idle" /\ (\A u \in Threads \ {t} : pc'[u] = pc[u]) /\ pc' \in [Threads -> Labels]
  BY TakeCases, Types DEF IInv, Labels
<1>3. TypeOK' /\ HeadInv'
  <2>1. CASE ring' = ring /\ got' = got
    BY <1>2, <2>1, TakeCases DEF IInv, TypeOK, HeadInv, Labels
  <2>2. CASE ring.count # 0 /\ ring' = RingGet(ring) /\ got' = Append(got, Oldest(ring))
    <3>1. ring' \in Rings /\ Oldest(ring) \in Char /\ HeadInv'
      BY <2>2, GetItems, Types DEF IInv, HeadInv
    <3>2. got' \in Seq(Char \cup {NoChar})
      BY <2>2, <3>1, Types, AppendProperties DEF IInv
    <3> QED
      BY <1>2, <3>1, <3>2, TakeCases DEF IInv, TypeOK, Labels, Rings
  <2> QED
    BY <2>1, <2>2, TakeCases
<1>4. MaskInv' /\ GateHeld' /\ ClosedInv' /\ BlockingInv'
  BY <1>1, <1>2, TakeCases DEF IInv, MaskInv, GateHeld, ClosedInv, BlockingInv
<1>5. CallbackInv'
  BY <1>1, <1>2, TakeCases DEF IInv, CallbackInv, Reading
<1> QED
  BY <1>3, <1>4, <1>5 DEF IInv

LEMMA AcquireIInv ==
  ASSUME IInv, NEW t \in Threads, Acquire(t)
  PROVE  IInv'
<1>1. /\ gate' = t /\ gate \in {NoThread, t}
      /\ depth' = [depth EXCEPT ![t] = @ + 1] /\ depth[t] < MaxNest
      /\ UNCHANGED <<open, blocking, ends, rx, ring, drv, readSem, masked, pc, char, arrived, got>>
  BY DEF Acquire, session, driver, locals
<1>2. depth' \in [Threads -> 0 .. MaxNest]
  <2>1. depth[t] + 1 \in 0 .. MaxNest
    BY <1>1, Types DEF IInv
  <2> QED
    BY <1>1, <2>1, Types DEF IInv
<1>3. \A u \in Threads : depth[u] > 0 => depth'[u] > 0
  BY <1>1, Types DEF IInv
<1>4. \A u \in Threads \ {t} : depth'[u] = depth[u]
  BY <1>1, Types DEF IInv
<1>5. TypeOK' /\ GateHeld'
  BY <1>1, <1>2, <1>4 DEF IInv, TypeOK, GateHeld
<1>6. MaskInv' /\ CallbackInv' /\ ClosedInv' /\ HeadInv'
  BY <1>1 DEF IInv, MaskInv, CallbackInv, Reading, ClosedInv, HeadInv
<1>7. BlockingInv'
  BY <1>1, <1>3 DEF IInv, BlockingInv, Reading
<1> QED
  BY <1>5, <1>6, <1>7 DEF IInv

\* release() frees the gate whatever the depth: right if it is never 2.
LEMMA ReleaseIInv ==
  ASSUME Exclusive, IInv, NEW t \in Threads, Release(t)
  PROVE  IInv'
<1>1. /\ gate' = NoThread /\ pc[t] = "idle"
      /\ depth' = [depth EXCEPT ![t] = @ - 1] /\ depth[t] > 0
      /\ UNCHANGED <<open, blocking, ends, rx, ring, drv, readSem, masked, pc, char, arrived, got>>
  BY DEF Release, At, session, driver, locals
<1>2. depth[t] = 1 /\ gate = t
  BY <1>1, Types DEF IInv, GateHeld, Exclusive
<1>3. depth' \in [Threads -> 0 .. MaxNest] /\ depth'[t] = 0
      /\ \A u \in Threads \ {t} : depth'[u] = depth[u]
  BY <1>1, <1>2, Types DEF IInv
<1>4. TypeOK' /\ GateHeld'
  BY <1>1, <1>2, <1>3 DEF IInv, TypeOK, GateHeld
<1>5. MaskInv' /\ CallbackInv' /\ ClosedInv' /\ HeadInv'
  BY <1>1 DEF IInv, MaskInv, CallbackInv, Reading, ClosedInv, HeadInv
<1>6. BlockingInv'
  BY <1>1, <1>3 DEF IInv, BlockingInv, Reading
<1> QED
  BY <1>4, <1>5, <1>6 DEF IInv

\* A step of a blocking read() that leaves the ring alone.
LEMMA ReadMoveIInv ==
  ASSUME Exclusive, IInv, NEW t \in Threads,
         ReadCall(t) \/ ReadClear(t) \/ ReadWhile(t) \/ ReadCount(t)
  PROVE  /\ IInv'
         /\ UNCHANGED <<open, rx, ring, arrived, got>>
<1>1. UNCHANGED <<open, blocking, ends, rx, ring, gate, depth, masked, char, arrived, got>>
  BY DEF ReadCall, ReadClear, ReadWhile, ReadCount, session, driver, locking
<1>2. blocking /\ open /\ pc[t] # "take" /\ pc[t] # "pend" /\ depth[t] > 0
  BY ReaderMode
  DEF ReadCall, ReadClear, ReadWhile, ReadCount, At, IInv, BlockingInv, Reading, Exclusive
<1>3. PICK l \in {"clear", "while", "get", "idle"} : pc' = [pc EXCEPT ![t] = l]
  BY DEF ReadCall, ReadClear, ReadWhile, ReadCount, Goto
<1>4. pc' \in [Threads -> Labels] /\ pc'[t] = l /\ \A u \in Threads \ {t} : pc'[u] = pc[u]
  BY <1>3, Types DEF IInv, Labels
<1>5. /\ drv' \in [busy : BOOLEAN, want : 0 .. 2, drain : BOOLEAN, wake : BOOLEAN]
      /\ drv'.wake = drv.wake
      /\ readSem' \in {0, readSem}
  <2>1. drv \in [busy : BOOLEAN, want : 0 .. 2, drain : BOOLEAN, wake : BOOLEAN]
    BY DEF IInv, TypeOK
  <2>2. CASE ReadCall(t)
    <3>1. drv' = [drv EXCEPT !.busy = TRUE, !.want = 1] /\ readSem' = readSem
      BY <2>2 DEF ReadCall, driver
    <3>2. 1 \in 0 .. 2
      OBVIOUS
    <3> QED
      BY <2>1, <3>1, <3>2
  <2>3. CASE ReadCount(t)
    <3>1. PICK k \in 0 .. 2 : drv' = [drv EXCEPT !.want = k]
      BY <2>3 DEF ReadCount
    <3>2. readSem' = readSem
      BY <2>3 DEF ReadCount
    <3> QED
      BY <2>1, <3>1, <3>2
  <2> QED
    BY <2>1, <2>2, <2>3 DEF ReadClear, ReadWhile, driver
<1>6. TypeOK'
  BY <1>1, <1>4, <1>5 DEF IInv, TypeOK, Labels
<1>7. MaskInv' /\ GateHeld' /\ CallbackInv' /\ ClosedInv' /\ HeadInv'
  BY <1>1, <1>2, <1>4
  DEF IInv, MaskInv, GateHeld, CallbackInv, ClosedInv, HeadInv
<1>8. BlockingInv'
  <2>1. \A u \in Threads : pc[u] = "pend" => pc'[u] = "pend"
    BY <1>2, <1>4
  <2>2. readSem' = 1 => readSem = 1
    BY <1>5
  <2>3. readSem' = 1 \/ drv'.wake => \E u \in Threads : pc'[u] = "pend"
    BY <1>2, <1>5, <2>1, <2>2 DEF IInv, BlockingInv
  <2>4. \A u \in Threads : Reading(u)' => depth'[u] > 0
    BY <1>1, <1>2, <1>4 DEF IInv, BlockingInv, Reading
  <2> QED
    BY <1>1, <1>2, <1>4, <1>5, <2>2, <2>3, <2>4 DEF IInv, BlockingInv
<1> QED
  BY <1>1, <1>6, <1>7, <1>8 DEF IInv

LEMMA GetCases ==
  ASSUME IInv, NEW t \in Threads, ReadGet(t)
  PROVE  /\ blocking /\ open /\ readSem # 1 /\ ~drv.wake
         /\ \A u \in Threads \ {t} : ~Reading(u)
         /\ \/ ring.count = 0 /\ ring' = ring /\ got' = got /\ pc' = [pc EXCEPT ![t] = "pend"]
               /\ drv' = [drv EXCEPT !.wake = TRUE]
            \/ /\ ring.count # 0 /\ ring' = RingGet(ring) /\ got' = Append(got, Oldest(ring))
               /\ pc' = [pc EXCEPT ![t] = "count"] /\ drv' = drv
         /\ UNCHANGED <<open, blocking, ends, rx, readSem, gate, depth, masked, char, arrived>>
<1>1. Reading(t) /\ pc[t] = "get"
  BY DEF ReadGet, At, Reading
<1>2. blocking /\ open
  BY <1>1, ReaderMode
<1>3. \A u \in Threads \ {t} : ~Reading(u)
  BY <1>1, <1>2, OneReader
<1>4. \A u \in Threads : pc[u] # "pend"
  BY <1>1, <1>3 DEF Reading
<1>5. readSem # 1 /\ ~drv.wake
  BY <1>2, <1>4 DEF IInv, BlockingInv
<1> QED
  BY <1>2, <1>3, <1>5 DEF ReadGet, Obtain, Goto, session, locking

LEMMA AgainCases ==
  ASSUME IInv, NEW t \in Threads, ReadAgain(t)
  PROVE  /\ blocking /\ open /\ readSem # 1 /\ ~drv.wake
         /\ \A u \in Threads \ {t} : ~Reading(u)
         /\ ring.count # 0 /\ ring' = RingGet(ring) /\ got' = Append(got, Oldest(ring))
         /\ pc' = [pc EXCEPT ![t] = "count"] /\ drv' = drv
         /\ UNCHANGED <<open, blocking, ends, rx, readSem, gate, depth, masked, char, arrived>>
<1>1. Reading(t) /\ pc[t] = "again"
  BY DEF ReadAgain, At, Reading
<1>2. blocking /\ open
  BY <1>1, ReaderMode
<1>3. \A u \in Threads \ {t} : ~Reading(u)
  BY <1>1, <1>2, OneReader
<1>4. \A u \in Threads : pc[u] # "pend"
  BY <1>1, <1>3 DEF Reading
<1>5. readSem # 1 /\ ~drv.wake /\ ring.count # 0
  BY <1>1, <1>2, <1>4 DEF IInv, BlockingInv
<1> QED
  BY <1>2, <1>3, <1>5 DEF ReadAgain, Obtain, Goto, session, locking

\* A character is taken out of the ring by a blocking read().
LEMMA TakenIInv ==
  ASSUME IInv, NEW t \in Threads, Reading(t), blocking, open, readSem # 1, ~drv.wake,
         \A u \in Threads \ {t} : ~Reading(u),
         ring.count # 0, ring' = RingGet(ring), got' = Append(got, Oldest(ring)),
         pc' = [pc EXCEPT ![t] = "count"], drv' = drv,
         UNCHANGED <<open, blocking, ends, rx, readSem, gate, depth, masked, char, arrived>>
  PROVE  IInv'
<1>1. pc' \in [Threads -> Labels] /\ pc'[t] = "count" /\ \A u \in Threads \ {t} : pc'[u] = pc[u]
  BY Types DEF IInv, Labels
<1>2. ring' \in Rings /\ Oldest(ring) \in Char /\ HeadInv'
  BY GetItems, Types DEF IInv, HeadInv
<1>3. got' \in Seq(Char \cup {NoChar})
  BY <1>2, Types, AppendProperties DEF IInv
<1>4. TypeOK'
  BY <1>1, <1>2, <1>3 DEF IInv, TypeOK, Labels, Rings
<1>5. MaskInv' /\ GateHeld' /\ CallbackInv' /\ ClosedInv'
  BY <1>1 DEF IInv, MaskInv, GateHeld, CallbackInv, ClosedInv, Reading
<1>6. BlockingInv'
  <2>1. depth[t] > 0
    BY DEF IInv, BlockingInv
  <2>2. \A u \in Threads : pc'[u] # "take" /\ pc'[u] # "again"
    BY <1>1 DEF IInv, BlockingInv, Reading
  <2>3. \A u \in Threads : Reading(u)' => u = t
    BY <1>1 DEF Reading
  <2> QED
    BY <2>1, <2>2, <2>3 DEF BlockingInv
<1> QED
  BY <1>2, <1>4, <1>5, <1>6 DEF IInv

LEMMA GetIInv ==
  ASSUME IInv, NEW t \in Threads, ReadGet(t)
  PROVE  IInv'
<1>1. Reading(t)
  BY DEF ReadGet, At, Reading
<1>2. CASE ring.count # 0
  BY <1>1, <1>2, GetCases, TakenIInv
<1>3. CASE ring.count = 0
  <2>1. /\ blocking /\ open /\ readSem # 1 /\ ring' = ring /\ got' = got
        /\ pc' = [pc EXCEPT ![t] = "pend"] /\ drv' = [drv EXCEPT !.wake = TRUE]
        /\ UNCHANGED <<open, blocking, ends, rx, readSem, gate, depth, masked, char, arrived>>
    BY <1>3, GetCases
  <2>2. pc' \in [Threads -> Labels] /\ pc'[t] = "pend" /\ \A u \in Threads \ {t} : pc'[u] = pc[u]
    BY <2>1, Types DEF IInv, Labels
  <2>3. TypeOK'
    BY <2>1, <2>2 DEF IInv, TypeOK, Labels
  <2>4. MaskInv' /\ GateHeld' /\ CallbackInv' /\ ClosedInv' /\ HeadInv'
    BY <1>1, <2>1, <2>2 DEF IInv, MaskInv, GateHeld, CallbackInv, ClosedInv, HeadInv, Reading
  <2>5. BlockingInv'
    BY <1>1, <2>1, <2>2 DEF IInv, BlockingInv, Reading
  <2> QED
    BY <2>3, <2>4, <2>5 DEF IInv
<1> QED
  BY <1>2, <1>3

LEMMA AgainIInv ==
  ASSUME IInv, NEW t \in Threads, ReadAgain(t)
  PROVE  IInv'
<1>1. Reading(t)
  BY DEF ReadAgain, At, Reading
<1> QED
  BY <1>1, AgainCases, TakenIInv

LEMMA PendIInv ==
  ASSUME IInv, NEW t \in Threads, ReadPend(t)
  PROVE  IInv'
<1>1. /\ readSem = 1 /\ readSem' = 0 /\ pc' = [pc EXCEPT ![t] = "again"] /\ pc[t] = "pend"
      /\ UNCHANGED <<open, blocking, ends, rx, ring, drv, gate, depth, masked, char, arrived, got>>
  BY DEF ReadPend, At, Goto, session, locking
<1>2. blocking /\ open /\ ring.count # 0 /\ ~drv.wake /\ depth[t] > 0
  BY <1>1, ReaderMode DEF IInv, BlockingInv, Reading
<1>3. pc' \in [Threads -> Labels] /\ pc'[t] = "again" /\ \A u \in Threads \ {t} : pc'[u] = pc[u]
  BY <1>1, Types DEF IInv, Labels
<1>4. TypeOK'
  BY <1>1, <1>3 DEF IInv, TypeOK, Labels
<1>5. MaskInv' /\ GateHeld' /\ CallbackInv' /\ ClosedInv' /\ HeadInv'
  BY <1>1, <1>2, <1>3 DEF IInv, MaskInv, GateHeld, CallbackInv, ClosedInv, HeadInv
<1>6. BlockingInv'
  BY <1>1, <1>2, <1>3 DEF IInv, BlockingInv, Reading
<1> QED
  BY <1>4, <1>5, <1>6 DEF IInv

LEMMA EndIInv ==
  ASSUME IInv, End
  PROVE  IInv'
<1>1. /\ open' = FALSE /\ ends' = ends + 1 /\ ends < MaxEnds
      /\ rx' = [buf |-> 0, overrun |-> FALSE]
      /\ \A t \in Threads : pc[t] = "idle"
      /\ UNCHANGED <<blocking, ring, drv, readSem, gate, depth, masked, pc, char, arrived, got>>
  BY DEF End, driver, locking, locals
<1>2. masked = NoThread
  BY <1>1 DEF IInv, TypeOK, MaskInv
<1>3. TypeOK'
  <2>1. ends' \in 0 .. MaxEnds
    BY <1>1 DEF IInv, TypeOK
  <2>2. rx' \in [buf : Char, overrun : BOOLEAN]
    BY <1>1 DEF Char
  <2>3. open' \in BOOLEAN
    BY <1>1
  <2> QED
    BY <1>1, <2>1, <2>2, <2>3 DEF IInv, TypeOK
<1>4. MaskInv' /\ GateHeld' /\ ClosedInv' /\ HeadInv'
  BY <1>1, <1>2 DEF IInv, MaskInv, GateHeld, ClosedInv, HeadInv
<1>5. CallbackInv' /\ BlockingInv'
  BY <1>1 DEF IInv, CallbackInv, BlockingInv, Reading
<1> QED
  BY <1>3, <1>4, <1>5 DEF IInv

LEMMA BeginIInv ==
  ASSUME IInv, Begin
  PROVE  IInv'
<1>1. /\ ~open /\ open' = TRUE /\ blocking' \in BOOLEAN
      /\ ring' = EmptyRing /\ drv' = IdleDriver /\ readSem' = 0 /\ gate' = NoThread
      /\ arrived' = 0 /\ got' = <<>>
      /\ \A t \in Threads : depth[t] = 0
      /\ UNCHANGED <<rx, masked, pc, char, depth, ends>>
  BY DEF Begin, locals
<1>2. \A t \in Threads : pc[t] = "idle"
  BY <1>1 DEF IInv, ClosedInv
<1>3. TypeOK'
  <2>1. ring' \in Rings
    BY <1>1, EmptyItems
  <2>2. drv' \in [busy : BOOLEAN, want : 0 .. 2, drain : BOOLEAN, wake : BOOLEAN]
    BY <1>1 DEF IdleDriver
  <2>3. arrived' \in Char /\ got' \in Seq(Char \cup {NoChar})
    BY <1>1 DEF Char
  <2>4. open' \in BOOLEAN /\ blocking' \in BOOLEAN
    BY <1>1
  <2> QED
    BY <1>1, <2>1, <2>2, <2>3, <2>4 DEF IInv, TypeOK, Rings
<1>4. MaskInv' /\ GateHeld' /\ ClosedInv'
  BY <1>1, <1>2 DEF IInv, MaskInv, GateHeld, ClosedInv
<1>5. HeadInv'
  BY <1>1, EmptyItems DEF HeadInv
<1>6. CallbackInv' /\ BlockingInv'
  BY <1>1, <1>2 DEF CallbackInv, BlockingInv, Reading, IdleDriver
<1> QED
  BY <1>3, <1>4, <1>5, <1>6 DEF IInv

LEMMA ArriveIInv ==
  ASSUME IInv, Arrive
  PROVE  IInv'
<1>1. /\ arrived' = arrived + 1 /\ arrived < MaxArrive
      /\ rx' = [buf |-> arrived + 1, overrun |-> rx.buf # 0]
      /\ open
      /\ UNCHANGED <<open, blocking, ends, ring, drv, readSem, gate, depth, masked, pc, char, got>>
  BY DEF Arrive, session, driver, locking, locals
<1>2. TypeOK'
  <2>1. arrived + 1 \in Char
    BY <1>1 DEF IInv, TypeOK, Char
  <2> QED
    BY <1>1, <2>1 DEF IInv, TypeOK
<1>3. MaskInv' /\ GateHeld' /\ ClosedInv' /\ HeadInv' /\ CallbackInv' /\ BlockingInv'
  BY <1>1 DEF IInv, MaskInv, GateHeld, ClosedInv, HeadInv, CallbackInv, BlockingInv, Reading
<1> QED
  BY <1>2, <1>3 DEF IInv

LEMMA ErrorIInv ==
  ASSUME IInv, HwiError
  PROVE  IInv'
<1>1. /\ rx' = [buf |-> 0, overrun |-> FALSE]
      /\ UNCHANGED <<open, blocking, ends, ring, drv, readSem, gate, depth, masked, pc, char,
                     arrived, got>>
  BY DEF HwiError, session, driver, locking, locals
<1>2. TypeOK'
  <2>1. rx' \in [buf : Char, overrun : BOOLEAN]
    BY <1>1 DEF Char
  <2> QED
    BY <1>1, <2>1 DEF IInv, TypeOK
<1>3. MaskInv' /\ GateHeld' /\ ClosedInv' /\ HeadInv' /\ CallbackInv' /\ BlockingInv'
  BY <1>1 DEF IInv, MaskInv, GateHeld, ClosedInv, HeadInv, CallbackInv, BlockingInv, Reading
<1> QED
  BY <1>2, <1>3 DEF IInv

\* What the interrupt does with a character: it only ever goes to the ring.
LEMMA ReceiveCases ==
  ASSUME IInv, HwiReceive
  PROVE  /\ open /\ masked = NoThread /\ rx.buf # 0 /\ ~rx.overrun
         /\ rx' = [rx EXCEPT !.buf = 0]
         /\ ring' = RingPut(ring, rx.buf)
         /\ \/ ~blocking /\ drv' = drv /\ readSem' = readSem
            \/ /\ blocking
               /\ readSem' = IF drv.wake THEN 1 ELSE readSem
               /\ drv' = [drv EXCEPT !.wake = FALSE]
         /\ UNCHANGED <<open, blocking, ends, gate, depth, masked, pc, char, arrived, got>>
<1>1. ~blocking => ~drv.drain
  BY DEF IInv, CallbackInv
<1> QED
  BY <1>1 DEF HwiReceive, session, locking, locals

LEMMA ReceiveIInv ==
  ASSUME IInv, HwiReceive
  PROVE  IInv'
<1>1. /\ UNCHANGED <<open, blocking, ends, gate, depth, masked, pc, char, arrived, got>>
      /\ rx' = [rx EXCEPT !.buf = 0] /\ ring' = RingPut(ring, rx.buf) /\ masked = NoThread
  BY ReceiveCases
<1>2. ring' \in Rings /\ ring'.count # 0 /\ HeadInv'
  <2>1. rx.buf \in Char /\ ring \in Rings
    BY Types DEF IInv, TypeOK
  <2> QED
    BY <1>1, <2>1, PutItems DEF IInv, HeadInv
<1>3. /\ drv' \in [busy : BOOLEAN, want : 0 .. 2, drain : BOOLEAN, wake : BOOLEAN]
      /\ drv'.busy = drv.busy /\ drv'.drain = drv.drain
      /\ readSem' \in {0, 1}
  <2>1. drv \in [busy : BOOLEAN, want : 0 .. 2, drain : BOOLEAN, wake : BOOLEAN]
        /\ readSem \in {0, 1}
    BY DEF IInv, TypeOK
  <2>2. [drv EXCEPT !.wake = FALSE] \in [busy : BOOLEAN, want : 0 .. 2, drain : BOOLEAN, wake : BOOLEAN]
    BY <2>1
  <2>3. drv' = drv \/ drv' = [drv EXCEPT !.wake = FALSE]
    BY ReceiveCases
  <2>4. readSem' = 1 \/ readSem' = readSem
    BY ReceiveCases
  <2> QED
    BY <2>1, <2>2, <2>3, <2>4
<1>4. TypeOK'
  <2>1. rx' \in [buf : Char, overrun : BOOLEAN]
    <3>1. 0 \in Char /\ rx \in [buf : Char, overrun : BOOLEAN]
      BY DEF IInv, TypeOK, Char
    <3> QED
      BY <1>1, <3>1
  <2> QED
    BY <1>1, <1>2, <1>3, <2>1 DEF IInv, TypeOK, Rings
<1>5. MaskInv' /\ GateHeld' /\ ClosedInv'
  BY <1>1 DEF IInv, MaskInv, GateHeld, ClosedInv
<1>6. CallbackInv'
  BY <1>1, <1>2, <1>3 DEF IInv, CallbackInv, Reading
<1>7. BlockingInv'
  <2> SUFFICES ASSUME blocking
               PROVE  BlockingInv'
    BY <1>1 DEF BlockingInv
  <2>1. /\ readSem' = IF drv.wake THEN 1 ELSE readSem
        /\ drv' = [drv EXCEPT !.wake = FALSE]
    BY ReceiveCases
  <2>2. ~drv'.wake
    BY <2>1 DEF IInv, TypeOK
  <2>3. readSem' = 1 => \E t \in Threads : pc[t] = "pend"
    BY <2>1 DEF IInv, BlockingInv
  <2> QED
    BY <1>1, <1>2, <2>2, <2>3 DEF IInv, BlockingInv, Reading
<1> QED
  BY <1>2, <1>4, <1>5, <1>6, <1>7 DEF IInv

LEMMA StepIInv == ASSUME Exclusive PROVE IInv /\ [Next]_vars => IInv'
<1> SUFFICES ASSUME IInv, [Next]_vars
             PROVE  IInv'
  OBVIOUS
<1>1. CASE UNCHANGED vars
  <2>1. UNCHANGED <<open, blocking, ends, rx, ring, drv, readSem, gate, depth, masked, pc, char,
                    arrived, got>>
    BY <1>1 DEF vars, session, driver, locking, locals
  <2> QED
    BY <2>1 DEF IInv, TypeOK, MaskInv, GateHeld, ClosedInv, HeadInv, CallbackInv, BlockingInv, Reading
<1>2. ASSUME NEW t \in Threads,
             ReadPeek(t) \/ ReadCall(t) \/ Acquire(t) \/ Release(t) \/ InRead(t)
      PROVE  IInv'
  BY <1>2, PeekIInv, ReadMoveIInv, AcquireIInv, ReleaseIInv, TakeIInv, GetIInv, PendIInv, AgainIInv
  DEF InRead
<1> QED
  BY <1>1, <1>2, BeginIInv, EndIInv, ArriveIInv, ErrorIInv, ReceiveIInv DEF Next

LEMMA Invariance == ASSUME Exclusive PROVE Spec => []IInv
  BY InitIInv, StepIInv, PTL DEF Spec

-----------------------------------------------------------------------------
(* Each step is one of SerialInput.                                        *)

Receiver == [buf : Char, overrun : BOOLEAN]

\* What a ring and a receiver hold.
Held(r, x) == Items(r) \o IF x.buf # 0 /\ ~x.overrun THEN <<x.buf>> ELSE <<>>

LEMMA WaitingIsHeld == Waiting = Held(ring, rx) /\ Waiting' = Held(ring', rx')
  BY DEF Waiting, Held, Items

LEMMA HeldCases ==
  ASSUME NEW r \in Rings, NEW x \in Receiver
  PROVE  /\ Items(r) \in Seq(Char) /\ Len(Items(r)) = r.count /\ x.buf \in Char
         /\ x.buf # 0 /\ ~x.overrun => Held(r, x) = Append(Items(r), x.buf)
         /\ x.buf = 0 \/ x.overrun => Held(r, x) = Items(r)
<1>1. Items(r) \in Seq(Char) /\ Len(Items(r)) = r.count
  BY ItemsSeq
<1>2. x.buf \in Char
  BY DEF Receiver
<1>3. CASE x.buf # 0 /\ ~x.overrun
  <2>1. Held(r, x) = Items(r) \o <<x.buf>>
    BY <1>3 DEF Held
  <2>2. Append(Items(r), x.buf) = Items(r) \o <<x.buf>>
    BY <1>1, <1>2, AppendIsConcat
  <2> QED
    BY <1>1, <1>2, <1>3, <2>1, <2>2
<1>4. CASE x.buf = 0 \/ x.overrun
  <2>1. Held(r, x) = Items(r) \o <<>>
    BY <1>4 DEF Held
  <2>2. Items(r) \o <<>> = Items(r)
    BY <1>1, ConcatEmptySeq
  <2> QED
    BY <1>1, <1>2, <1>4, <2>1, <2>2
<1> QED
  BY <1>3, <1>4

LEMMA FrontAppend ==
  ASSUME NEW s \in Seq(Char), NEW c \in Char
  PROVE  Input!Front(Append(s, c)) = s
<1> DEFINE a == Append(s, c)
<1>1. /\ a \in Seq(Char) /\ Len(a) = Len(s) + 1 /\ Len(s) \in Nat
      /\ \A i \in 1 .. Len(s) : a[i] = s[i]
  BY AppendProperties, LenProperties
<1> HIDE DEF a
<1>2. \A i \in 1 .. Len(s) : a[i] \in Char
  BY <1>1, ElementOfSeq
<1>3. /\ SubSeq(a, 1, Len(s)) \in Seq(Char)
      /\ Len(SubSeq(a, 1, Len(s))) = IF 1 <= Len(s) THEN Len(s) - 1 + 1 ELSE 0
      /\ \A i \in 1 .. Len(s) - 1 + 1 : SubSeq(a, 1, Len(s))[i] = a[1 + i - 1]
  <2>1. 1 \in Int /\ Len(s) \in Int
    BY <1>1
  <2> QED
    BY <1>2, <2>1, SubSeqProperties
<1>4. Len(SubSeq(a, 1, Len(s))) = Len(s)
  BY <1>1, <1>3
<1>5. ASSUME NEW i \in 1 .. Len(s)
      PROVE  SubSeq(a, 1, Len(s))[i] = s[i]
  <2>1. i \in 1 .. Len(s) - 1 + 1 /\ 1 + i - 1 = i
    BY <1>1
  <2> QED
    BY <1>1, <1>3, <2>1
<1>6. SubSeq(a, 1, Len(s)) = s
  BY <1>3, <1>4, <1>5, SeqEqual
<1>7. Len(a) - 1 = Len(s)
  BY <1>1
<1> QED
  BY <1>6, <1>7 DEF Input!Front, a

\* Taking the oldest character out of the ring.
LEMMA Delivered ==
  ASSUME IInv, ring.count # 0, ring' = RingGet(ring), rx' = rx,
         got' = Append(got, Oldest(ring)), open, open' = open, arrived' = arrived
  PROVE  Input!Deliver
<1>1. ring \in Rings /\ rx \in Receiver
  BY Types DEF IInv, TypeOK, Receiver
<1>2. /\ ring' \in Rings /\ Items(ring) # <<>> /\ Head(Items(ring)) = Oldest(ring)
      /\ Tail(Items(ring)) = Items(ring')
  BY <1>1, GetItems
<1>3. Items(ring) \in Seq(Char) /\ Items(ring') \in Seq(Char) /\ rx.buf \in Char
  BY <1>1, <1>2, HeldCases
<1>4. /\ Held(ring, rx) # <<>> /\ Head(Held(ring, rx)) = Oldest(ring)
      /\ Held(ring', rx) = Tail(Held(ring, rx))
  <2>1. CASE rx.buf # 0 /\ ~rx.overrun
    <3>1. /\ Held(ring, rx) = Append(Items(ring), rx.buf)
          /\ Held(ring', rx) = Append(Items(ring'), rx.buf)
      BY <1>1, <1>2, <2>1, HeldCases
    <3>2. /\ Head(Append(Items(ring), rx.buf)) = Oldest(ring)
          /\ Tail(Append(Items(ring), rx.buf)) = Append(Items(ring'), rx.buf)
      BY <1>2, <1>3, HeadTailAppend
    <3>3. Append(Items(ring), rx.buf) # <<>>
      BY <1>3, AppendProperties
    <3> QED
      BY <3>1, <3>2, <3>3
  <2>2. CASE rx.buf = 0 \/ rx.overrun
    BY <1>1, <1>2, <2>2, HeldCases
  <2> QED
    BY <2>1, <2>2
<1>5. /\ (IF open THEN Waiting ELSE <<>>) = Held(ring, rx)
      /\ (IF open THEN Waiting ELSE <<>>)' = Held(ring', rx)
  BY WaitingIsHeld
<1> QED
  BY <1>4, <1>5 DEF Input!Deliver

\* A step that changes neither the ring nor the receiver.
LEMMA Unseen ==
  ASSUME UNCHANGED <<open, rx, ring, arrived, got>>
  PROVE  UNCHANGED Input!inputVars
<1>1. Waiting' = Waiting
  BY WaitingIsHeld
<1> QED
  BY <1>1 DEF Input!inputVars

LEMMA ThreadSim ==
  ASSUME Exclusive, IInv, NEW t \in Threads,
         ReadPeek(t) \/ ReadCall(t) \/ Acquire(t) \/ Release(t) \/ InRead(t)
  PROVE  Input!Deliver \/ UNCHANGED Input!inputVars
<1>1. CASE ReadCall(t) \/ ReadClear(t) \/ ReadWhile(t) \/ ReadCount(t)
  BY <1>1, ReadMoveIInv, Unseen
<1>2. CASE ReadPeek(t) \/ Acquire(t) \/ Release(t) \/ ReadPend(t)
  BY <1>2, Unseen DEF ReadPeek, Acquire, Release, ReadPend, session, driver
<1>3. CASE ReadTake(t)
  BY <1>3, TakeCases, Delivered, Unseen
<1>4. CASE ReadGet(t)
  BY <1>4, GetCases, Delivered, Unseen
<1>5. CASE ReadAgain(t)
  BY <1>5, AgainCases, Delivered
<1> QED
  BY <1>1, <1>2, <1>3, <1>4, <1>5 DEF InRead

LEMMA ArriveSim ==
  ASSUME IInv, Arrive
  PROVE  Input!Keep \/ Input!Overrun
<1>1. /\ open /\ open' = open /\ got' = got /\ ring' = ring
      /\ arrived' = arrived + 1 /\ arrived \in Nat /\ arrived + 1 \in Char
      /\ rx' = [buf |-> arrived + 1, overrun |-> rx.buf # 0]
  BY DEF Arrive, session, driver, IInv, TypeOK, Char
<1>2. ring \in Rings /\ rx \in Receiver /\ rx' \in Receiver
  BY <1>1, Types DEF IInv, TypeOK, Receiver
<1>3. /\ (IF open THEN Waiting ELSE <<>>) = Held(ring, rx)
      /\ (IF open THEN Waiting ELSE <<>>)' = Held(ring, rx')
  BY <1>1, WaitingIsHeld
<1>4. CASE rx.buf = 0
  <2>1. rx'.buf = arrived + 1 /\ rx'.buf # 0 /\ ~rx'.overrun
    <3>1. rx'.buf = arrived + 1 /\ rx'.overrun = (rx.buf # 0)
      BY <1>1
    <3>2. arrived + 1 # 0
      BY <1>1
    <3> QED
      BY <1>4, <3>1, <3>2
  <2>2. Held(ring, rx') = Append(Items(ring), arrived + 1) /\ Held(ring, rx) = Items(ring)
    BY <1>2, <1>4, <2>1, HeldCases
  <2> QED
    BY <1>1, <1>3, <2>2 DEF Input!Keep
<1>5. CASE rx.buf # 0
  <2>1. rx'.overrun
    BY <1>1, <1>5
  <2>2. Held(ring, rx') = Items(ring)
    BY <1>2, <2>1, HeldCases
  <2>3. CASE rx.overrun
    <3>1. Held(ring, rx) = Items(ring)
      BY <1>2, <2>3, HeldCases
    <3> QED
      BY <1>1, <1>3, <2>2, <3>1 DEF Input!Overrun
  <2>4. CASE ~rx.overrun
    <3>1. Held(ring, rx) = Append(Items(ring), rx.buf)
          /\ Items(ring) \in Seq(Char) /\ rx.buf \in Char
      BY <1>2, <1>5, <2>4, HeldCases
    <3>2. Held(ring, rx) # <<>> /\ Input!Front(Held(ring, rx)) = Items(ring)
      BY <3>1, FrontAppend, AppendProperties
    <3> QED
      BY <1>1, <1>3, <2>2, <3>2 DEF Input!Overrun
  <2> QED
    BY <1>2, <2>3, <2>4 DEF Receiver
<1> QED
  BY <1>4, <1>5

LEMMA ErrorSim ==
  ASSUME IInv, HwiError
  PROVE  UNCHANGED Input!inputVars
<1>1. /\ open' = open /\ got' = got /\ ring' = ring /\ arrived' = arrived
      /\ rx.overrun /\ rx' = [buf |-> 0, overrun |-> FALSE]
  BY DEF HwiError, session, driver
<1>2. ring \in Rings /\ rx \in Receiver /\ rx' \in Receiver /\ rx'.buf = 0
  BY <1>1, Types DEF IInv, TypeOK, Receiver, Char
<1>3. Held(ring, rx) = Items(ring) /\ Held(ring, rx') = Items(ring)
  BY <1>1, <1>2, HeldCases
<1>4. Waiting' = Waiting
  BY <1>1, <1>3, WaitingIsHeld
<1> QED
  BY <1>1, <1>4 DEF Input!inputVars

LEMMA ReceiveSim ==
  ASSUME IInv, HwiReceive
  PROVE  Input!DropNewest \/ UNCHANGED Input!inputVars
<1>1. /\ open /\ open' = open /\ got' = got /\ arrived' = arrived
      /\ rx.buf # 0 /\ ~rx.overrun
      /\ rx' = [rx EXCEPT !.buf = 0] /\ ring' = RingPut(ring, rx.buf)
  BY ReceiveCases
<1>2. ring \in Rings /\ rx \in Receiver /\ rx.buf \in Char
  BY Types DEF IInv, TypeOK, Receiver
<1>3. rx' \in Receiver /\ rx'.buf = 0
  <2>1. 0 \in Char
    BY DEF Char
  <2> QED
    BY <1>1, <1>2, <2>1 DEF Receiver
<1>4. /\ ring' \in Rings
      /\ ring.count = R => ring' = ring
      /\ ring.count # R => Items(ring') = Append(Items(ring), rx.buf)
  BY <1>1, <1>2, PutItems DEF IInv, HeadInv
<1>5. /\ Held(ring, rx) = Append(Items(ring), rx.buf) /\ Held(ring', rx') = Items(ring')
      /\ Items(ring) \in Seq(Char) /\ Len(Items(ring)) = ring.count
  BY <1>1, <1>2, <1>3, <1>4, HeldCases
<1>6. /\ Waiting = Held(ring, rx) /\ Waiting' = Held(ring', rx')
      /\ (IF open THEN Waiting ELSE <<>>) = Held(ring, rx)
      /\ (IF open THEN Waiting ELSE <<>>)' = Held(ring', rx')
  BY <1>1, WaitingIsHeld
<1>7. CASE ring.count # R
  <2>1. Waiting' = Waiting
    BY <1>4, <1>5, <1>6, <1>7
  <2> QED
    BY <1>1, <2>1 DEF Input!inputVars
<1>8. CASE ring.count = R
  <2>1. Len(Held(ring, rx)) = R + 1
    BY <1>2, <1>5, <1>8, AppendProperties
  <2>2. Input!Front(Held(ring, rx)) = Held(ring', rx')
    BY <1>2, <1>4, <1>5, <1>8, FrontAppend
  <2> QED
    BY <1>1, <1>6, <2>1, <2>2 DEF Input!DropNewest
<1> QED
  BY <1>7, <1>8

LEMMA BeginSim ==
  ASSUME IInv, Begin
  PROVE  Input!Reopen
<1>1. /\ ~open /\ open' = TRUE /\ arrived' = 0 /\ got' = <<>> /\ ring' = EmptyRing
      /\ rx' = rx /\ rx.buf = 0
  BY DEF Begin, IInv, ClosedInv
<1>2. rx \in Receiver
  BY DEF IInv, TypeOK, Receiver
<1>3. Held(ring', rx') = <<>>
  BY <1>1, <1>2, EmptyItems, HeldCases
<1>4. (IF open THEN Waiting ELSE <<>>)' = <<>>
  BY <1>1, <1>3, WaitingIsHeld
<1> QED
  BY <1>1, <1>4 DEF Input!Reopen

LEMMA EndSim ==
  ASSUME End
  PROVE  Input!Close
<1>1. open /\ open' = FALSE /\ arrived' = arrived /\ got' = got
  BY DEF End
<1> QED
  BY <1>1 DEF Input!Close

LEMMA StepSim ==
  ASSUME Exclusive
  PROVE  IInv /\ [Next]_vars => [Input!Next]_(Input!inputVars)
<1> SUFFICES ASSUME IInv, [Next]_vars
             PROVE  [Input!Next]_(Input!inputVars)
  OBVIOUS
<1>1. CASE UNCHANGED vars
  BY <1>1, Unseen DEF vars, session, driver
<1>2. CASE Next
  BY <1>2, ThreadSim, ArriveSim, ErrorSim, ReceiveSim, BeginSim, EndSim DEF Next, Input!Next
<1> QED
  BY <1>1, <1>2

LEMMA InitSim == Init => Input!Init
<1> SUFFICES ASSUME Init
             PROVE  Input!Init
  OBVIOUS
<1>1. ring = EmptyRing /\ rx.buf = 0 /\ rx \in Receiver
  BY DEF Init, Receiver, Char
<1>2. Held(ring, rx) = <<>>
  BY <1>1, EmptyItems, HeldCases
<1> QED
  BY <1>2, WaitingIsHeld DEF Init, Input!Init

-----------------------------------------------------------------------------
(* The theorems.                                                           *)

\* Every variable of the receive path keeps its type.
THEOREM TypeCorrect == ASSUME Exclusive PROVE Spec => []TypeOK
<1>1. IInv => TypeOK
  BY DEF IInv
<1> QED
  BY <1>1, Invariance, PTL

\* For any number of tasks and a ring of any size, a UART_read() in callback
\* mode finds its character and is never left to the interrupt.
THEOREM ReadsAreSatisfied == ASSUME Exclusive PROVE Spec => []ReadSatisfied
<1>1. IInv => ReadSatisfied
  BY DEF IInv, CallbackInv, ReadSatisfied
<1> QED
  BY <1>1, Invariance, PTL

\* In both modes, for any number of tasks and a ring of any size, calls of
\* read() return the characters that arrived, once each and in order, and
\* only the youngest are lost.
THEOREM ReadsInOrder == ASSUME Exclusive PROVE Spec => InputSpec
<1>1. Init => IInv /\ Input!Init
  BY InitIInv, InitSim
<1>2. IInv /\ [Next]_vars => IInv' /\ [Input!Next]_(Input!inputVars)
  BY StepIInv, StepSim
<1> QED
  BY <1>1, <1>2, PTL DEF Spec, InputSpec, Input!Spec

=============================================================================
