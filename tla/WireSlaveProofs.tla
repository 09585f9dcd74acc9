-------------------------- MODULE WireSlaveProofs --------------------------
(***************************************************************************)
(* Proofs about WireSlave for every buffer, every message length and every *)
(* number of STARTs.                                                       *)
(***************************************************************************)
EXTENDS WireSlave, TLAPS

\* The masters and sketches for which the properties hold: the master starts
\* after begin() and once the flags of the last message are served, a repeated
\* START follows neither a message that did not fit nor a read, and onRequest
\* writes something.
Orderly == ~Lag /\ ~Early /\ ~RestartFull /\ ~Reread /\ 0 \notin Answers

-----------------------------------------------------------------------------
(* The inductive invariant.                                                *)

Octet == (0 .. R - 1) \cup {Filler, Stale}

Driver ==
  [open : BOOLEAN, mutex : 0 .. 1, busy : BOOLEAN, read : BOOLEAN,
   left : 0 .. R, size : 0 .. R, wLeft : 0 .. R, wNext : 0 .. R,
   held : Nat, stuck : BOOLEAN]

\* TypeOK without the lengths of the sequences.
TypeInv ==
  /\ pc \in {"closed", "opened", "pended", "armed", "posted", "begun"}
  /\ drv \in Driver
  /\ flags \subseteq {"start", "rx", "tx", "stop"}
  /\ line \in Seq(Octet)
  /\ bus \in {"free", "wr", "rd", "nack"}
  /\ starts \in 0 .. MaxStarts
  /\ wrote \in 0 .. MaxWrite
  /\ last \in {"none", "wr", "rd"}
  /\ answered \in -1 .. R
  /\ out \in Seq(Octet)
  /\ finished \in Seq(0 .. R)
  /\ heard \in Seq(0 .. R)

\* Where begin() is, and which flags can be up on which kind of message.
PhaseInv ==
  /\ pc # "begun" => bus = "free" /\ flags = {} /\ wrote = 0
  /\ pc \in {"pended", "armed"} <=> drv.mutex = 0
  /\ pc = "closed" <=> ~drv.open
  /\ drv.size = IF pc \in {"armed", "posted", "begun"} THEN R ELSE 0
  /\ ~drv.stuck
  /\ "stop" \in flags => bus = "free"
  /\ bus = "free" /\ "stop" \notin flags => flags = {}
  /\ "tx" \in flags => wrote = 0 /\ bus # "wr"
  /\ "rx" \in flags => wrote > 0
  /\ bus \in {"rd", "nack"} => wrote = 0

\* The bytes of this message that the handler has taken.
Seen == wrote - (IF "rx" \in flags THEN 1 ELSE 0)

Quiet == bus = "free" /\ flags = {}

\* The driver has counted the bytes it has seen of this message, or, while
\* the START of it is not yet seen, those of the last one.
CountInv ==
  /\ Quiet => ~drv.busy /\ drv.left = drv.size
  /\ "start" \in flags =>
       /\ Seen = 0
       /\ drv.busy => drv.read /\ drv.left < R
       /\ ~drv.busy => drv.left = R
  /\ ~Quiet /\ "start" \notin flags =>
       /\ Count(drv) = Fits(Seen)
       /\ Seen > 0 => drv.read
  /\ bus = "wr" /\ "start" \notin flags => (drv.busy <=> Seen \in 1 .. R)

\* What onReceive has been told, and will be told when the flags that are up
\* are served, is what the master has finished.
Told == IF "start" \in flags /\ drv.busy THEN Append(heard, Count(drv)) ELSE heard

HeardInv ==
  finished = IF bus = "free" /\ "stop" \in flags /\ last = "wr"
             THEN Append(Told, Fits(wrote))
             ELSE Told

\* Once the bytes of the line are seen, read says which way the last one went.
LastInv ==
  /\ wrote > 0 => last = "wr" /\ answered = -1
  /\ answered # -1 => ~drv.read
  /\ bus = "nack" \/ (bus = "free" /\ "tx" \in flags) => last = "rd"
  /\ "rx" \in flags \/ bus = "rd" \/ (drv.read <=> last = "wr")

Answer(j) == IF j <= answered THEN j - 1 ELSE Filler
Taken == Len(out) + Len(line)

\* The bytes the master took and those on their way to it are the answer in
\* order, and the driver stands at the byte after them.
BytesInv ==
  /\ "start" \in flags \/ bus = "wr" => answered = -1
  /\ answered = -1 => out = <<>> /\ line = <<>>
  /\ "start" \notin flags /\ (bus \in {"rd", "nack"} \/ "tx" \in flags) =>
       (drv.busy <=> answered # -1)
  /\ answered # -1 =>
       /\ answered > 0
       /\ drv.wNext + drv.wLeft = answered
       /\ drv.wNext = IF Taken <= answered THEN Taken ELSE answered
  /\ \A j \in 1 .. Len(out) : out[j] = Answer(j)
  /\ \A j \in 1 .. Len(line) : line[j] = Answer(Len(out) + j)

\* The lengths.
BoundInv ==
  /\ Len(line) <= 2
  /\ "tx" \in flags => Len(line) <= 1
  /\ Len(out) <= MaxRead
  /\ bus = "rd" => Len(out) < MaxRead
  /\ Len(finished) <= starts
  /\ bus = "wr" => Len(finished) < starts

IInv == TypeInv /\ PhaseInv /\ CountInv /\ HeardInv /\ LastInv /\ BytesInv /\ BoundInv

-----------------------------------------------------------------------------
(* What the driver's steps do to the object.                               *)

LEMMA ConstrainIs ==
  ASSUME NEW d \in Driver
  PROVE  Constrain(d) = [d EXCEPT !.held = d.held + 1] /\ Constrain(d) \in Driver
BY DEF Constrain, Driver

LEMMA ArmReadIs ==
  ASSUME NEW d \in Driver
  PROVE  LET e == ArmRead(d)
         IN /\ e \in Driver /\ e.open = d.open /\ e.mutex = d.mutex /\ e.stuck = d.stuck
            /\ ~e.busy /\ e.read = d.read /\ e.left = R /\ e.size = R
            /\ e.wLeft = d.wLeft /\ e.wNext = d.wNext
<1>1. R \in 0 .. R /\ FALSE \in BOOLEAN
  BY SlaveAssumption
<1>2. ArmRead(d) = [d EXCEPT !.left = R, !.size = R, !.busy = FALSE]
  BY DEF ArmRead
<1> QED  BY <1>1, <1>2 DEF Driver

LEMMA ReceivedIs ==
  ASSUME NEW d \in Driver, d.mutex = 1
  PROVE  LET e == Received(d)
         IN /\ e \in Driver /\ e.open = d.open /\ e.mutex = d.mutex /\ e.stuck = d.stuck
            /\ ~e.busy /\ e.read = d.read /\ e.left = R /\ e.size = R
            /\ e.wLeft = d.wLeft /\ e.wNext = d.wNext
<1>1. Received(d) = Constrain(ArmRead(d)) /\ ArmRead(d) \in Driver
  BY ArmReadIs DEF Received, Prime
<1>2. Received(d) = [ArmRead(d) EXCEPT !.held = ArmRead(d).held + 1]
      /\ Received(d) \in Driver
  BY <1>1, ConstrainIs
<1> QED  BY <1>1, <1>2, ArmReadIs DEF Driver

LEMMA RequestedIs ==
  ASSUME NEW d \in Driver, d.mutex = 1, NEW n \in 1 .. R
  PROVE  LET e == Requested(d, n)
         IN /\ e \in Driver /\ e.open = d.open /\ e.mutex = d.mutex /\ e.stuck = d.stuck
            /\ e.left = d.left /\ e.size = d.size /\ e.read = d.read
            /\ e.wLeft = n /\ e.wNext = 0
<1> DEFINE a == ArmWrite(d, n)
<1> n \in 0 .. R /\ 0 \in 0 .. R /\ FALSE \in BOOLEAN
  BY SlaveAssumption
<1>1. a \in Driver /\ a = [d EXCEPT !.wLeft = n, !.wNext = 0, !.busy = FALSE]
  BY DEF ArmWrite, Driver
<1>2. Requested(d, n) = Constrain(a)
  BY DEF Requested, Prime
<1>3. Constrain(a) = [a EXCEPT !.held = a.held + 1] /\ Constrain(a) \in Driver
  BY <1>1, ConstrainIs
<1> QED  BY <1>1, <1>2, <1>3 DEF Driver

LEMMA CompleteIs ==
  ASSUME NEW d \in Driver
  PROVE  LET e == Complete(d)
         IN /\ e \in Driver /\ e.open = d.open /\ e.mutex = d.mutex /\ e.stuck = d.stuck
            /\ ~e.busy /\ e.read = d.read /\ e.left = d.left /\ e.size = d.size
            /\ e.wLeft = d.wLeft /\ e.wNext = d.wNext
<1> DEFINE h == IF d.held = 0 THEN 0 ELSE d.held - 1
<1>1. h \in Nat /\ FALSE \in BOOLEAN
  BY DEF Driver
<1>2. Complete(d) = [d EXCEPT !.busy = FALSE, !.held = h]
  BY DEF Complete, Driver
<1> HIDE DEF h
<1> QED  BY <1>1, <1>2 DEF Driver

LEMMA SentIs ==
  ASSUME NEW d \in Driver, d.wNext + d.wLeft <= R
  PROVE  LET e == Sent(d)
         IN /\ e \in Driver /\ e.open = d.open /\ e.mutex = d.mutex /\ e.stuck = d.stuck
            /\ e.busy = d.busy /\ e.read = d.read /\ e.left = d.left /\ e.size = d.size
            /\ d.wLeft = 0 => e.wLeft = 0 /\ e.wNext = d.wNext
            /\ d.wLeft > 0 => e.wLeft = d.wLeft - 1 /\ e.wNext = d.wNext + 1
<1>1. CASE d.wLeft = 0
  BY <1>1 DEF Sent
<1>2. CASE d.wLeft > 0
  <2> DEFINE x == d.wLeft - 1
             y == d.wNext + 1
  <2>1. x \in 0 .. R /\ y \in 0 .. R
    BY <1>2, SlaveAssumption DEF Driver
  <2>2. Sent(d) = [d EXCEPT !.wLeft = x, !.wNext = y]
    BY <1>2 DEF Sent, Driver
  <2>3. d.wLeft # 0
    BY <1>2
  <2> HIDE DEF x, y
  <2>4. LET e == Sent(d)
        IN /\ e \in Driver /\ e.open = d.open /\ e.mutex = d.mutex /\ e.stuck = d.stuck
           /\ e.busy = d.busy /\ e.read = d.read /\ e.left = d.left /\ e.size = d.size
           /\ e.wLeft = x /\ e.wNext = y
    BY <2>1, <2>2 DEF Driver
  <2> QED  BY <2>3, <2>4 DEF x, y
<1> QED  BY <1>1, <1>2 DEF Driver

-----------------------------------------------------------------------------
(* The steps of begin(address).                                            *)

LEMMA OpenKeeps ==
  ASSUME Orderly, IInv, Open
  PROVE  IInv'
<1> USE SlaveAssumption DEF Orderly, IInv
<1>0. /\ drv' \in Driver
      /\ drv'.open
      /\ drv'.mutex = drv.mutex /\ drv'.busy = drv.busy /\ drv'.read = drv.read
      /\ drv'.left = drv.left
      /\ drv'.size = drv.size /\ drv'.wLeft = drv.wLeft /\ drv'.wNext = drv.wNext
      /\ drv'.stuck = drv.stuck
  BY TRUE \in BOOLEAN DEF Open, TypeInv, Driver
<1>1. TypeInv'
  BY <1>0 DEF Open, hardware, master, TypeInv
<1>2. PhaseInv'
  BY <1>0 DEF Open, hardware, master, TypeInv, PhaseInv
<1>3. CountInv'
  BY <1>0 DEF Open, hardware, master, TypeInv, PhaseInv, CountInv, Quiet, Seen, Count,
     Fits, Driver
<1>4. HeardInv'
  BY <1>0 DEF Open, hardware, master, TypeInv, PhaseInv, CountInv, HeardInv, Told,
     Count, Quiet, Driver
<1>5. BytesInv'
  BY <1>0 DEF Open, hardware, master, TypeInv, PhaseInv, BytesInv, Answer, Taken, Driver
<1>6. BoundInv'
  BY <1>0 DEF Open, hardware, master, TypeInv, PhaseInv, BoundInv
<1>7. LastInv'
  BY <1>0 DEF Open, hardware, master, TypeInv, LastInv
<1> QED  BY <1>1, <1>2, <1>3, <1>4, <1>5, <1>6, <1>7 DEF IInv

LEMMA PrimePendKeeps ==
  ASSUME Orderly, IInv, PrimePend
  PROVE  IInv'
<1> USE SlaveAssumption DEF Orderly, IInv
<1> DEFINE e == [drv EXCEPT !.mutex = 0]
<1>a. e \in Driver /\ e.mutex = 0
  BY 0 \in 0 .. 1 DEF TypeInv, Driver
<1>b. drv' = [e EXCEPT !.held = e.held + 1] /\ drv' \in Driver
  BY <1>a, ConstrainIs DEF PrimePend
<1>0. /\ drv' \in Driver
      /\ drv'.mutex = 0
      /\ drv'.open = drv.open /\ drv'.busy = drv.busy /\ drv'.read = drv.read
      /\ drv'.left = drv.left
      /\ drv'.size = drv.size /\ drv'.wLeft = drv.wLeft /\ drv'.wNext = drv.wNext
      /\ drv'.stuck = drv.stuck
  BY <1>a, <1>b DEF Driver, TypeInv
<1> HIDE DEF e
<1>1. TypeInv'
  BY <1>0 DEF PrimePend, hardware, master, TypeInv
<1>2. PhaseInv'
  BY <1>0 DEF PrimePend, hardware, master, TypeInv, PhaseInv
<1>3. CountInv'
  BY <1>0 DEF PrimePend, hardware, master, TypeInv, PhaseInv, CountInv, Quiet, Seen,
     Count, Fits, Driver
<1>4. HeardInv'
  BY <1>0 DEF PrimePend, hardware, master, TypeInv, PhaseInv, CountInv, HeardInv, Told,
     Count, Quiet, Driver
<1>5. BytesInv'
  BY <1>0 DEF PrimePend, hardware, master, TypeInv, PhaseInv, BytesInv, Answer, Taken,
     Driver
<1>6. BoundInv'
  BY <1>0 DEF PrimePend, hardware, master, TypeInv, PhaseInv, BoundInv
<1>7. LastInv'
  BY <1>0 DEF PrimePend, hardware, master, TypeInv, LastInv
<1> QED  BY <1>1, <1>2, <1>3, <1>4, <1>5, <1>6, <1>7 DEF IInv

LEMMA PrimeArmKeeps ==
  ASSUME Orderly, IInv, PrimeArm
  PROVE  IInv'
<1> USE SlaveAssumption DEF Orderly, IInv
<1>0. /\ drv' \in Driver
      /\ drv'.left = R /\ drv'.size = R /\ ~drv'.busy
      /\ drv'.open = drv.open /\ drv'.mutex = drv.mutex /\ drv'.read = drv.read
      /\ drv'.wLeft = drv.wLeft
      /\ drv'.wNext = drv.wNext /\ drv'.stuck = drv.stuck
  BY ArmReadIs DEF PrimeArm, TypeInv
<1>1. TypeInv'
  BY <1>0 DEF PrimeArm, hardware, master, TypeInv
<1>2. PhaseInv'
  BY <1>0 DEF PrimeArm, hardware, master, TypeInv, PhaseInv
<1>3. CountInv'
  BY <1>0 DEF PrimeArm, hardware, master, TypeInv, PhaseInv, CountInv, Quiet, Seen,
     Count, Fits, Driver
<1>4. HeardInv'
  BY <1>0 DEF PrimeArm, hardware, master, TypeInv, PhaseInv, CountInv, HeardInv, Told,
     Count, Quiet, Driver
<1>5. BytesInv'
  BY <1>0 DEF PrimeArm, hardware, master, TypeInv, PhaseInv, BytesInv, Answer, Taken,
     Driver
<1>6. BoundInv'
  BY <1>0 DEF PrimeArm, hardware, master, TypeInv, PhaseInv, BoundInv
<1>7. LastInv'
  BY <1>0 DEF PrimeArm, hardware, master, TypeInv, LastInv
<1> QED  BY <1>1, <1>2, <1>3, <1>4, <1>5, <1>6, <1>7 DEF IInv

LEMMA PrimePostKeeps ==
  ASSUME Orderly, IInv, PrimePost
  PROVE  IInv'
<1> USE SlaveAssumption DEF Orderly, IInv
<1>0. /\ drv' \in Driver
      /\ drv'.mutex = 1
      /\ drv'.open = drv.open /\ drv'.busy = drv.busy /\ drv'.read = drv.read
      /\ drv'.left = drv.left
      /\ drv'.size = drv.size /\ drv'.wLeft = drv.wLeft /\ drv'.wNext = drv.wNext
      /\ drv'.stuck = drv.stuck
  BY 1 \in 0 .. 1 DEF PrimePost, TypeInv, Driver
<1>1. TypeInv'
  BY <1>0 DEF PrimePost, hardware, master, TypeInv
<1>2. PhaseInv'
  BY <1>0 DEF PrimePost, hardware, master, TypeInv, PhaseInv
<1>3. CountInv'
  BY <1>0 DEF PrimePost, hardware, master, TypeInv, PhaseInv, CountInv, Quiet, Seen,
     Count, Fits, Driver
<1>4. HeardInv'
  BY <1>0 DEF PrimePost, hardware, master, TypeInv, PhaseInv, CountInv, HeardInv, Told,
     Count, Quiet, Driver
<1>5. BytesInv'
  BY <1>0 DEF PrimePost, hardware, master, TypeInv, PhaseInv, BytesInv, Answer, Taken,
     Driver
<1>6. BoundInv'
  BY <1>0 DEF PrimePost, hardware, master, TypeInv, PhaseInv, BoundInv
<1>7. LastInv'
  BY <1>0 DEF PrimePost, hardware, master, TypeInv, LastInv
<1> QED  BY <1>1, <1>2, <1>3, <1>4, <1>5, <1>6, <1>7 DEF IInv

LEMMA PrimeReturnKeeps ==
  ASSUME Orderly, IInv, PrimeReturn
  PROVE  IInv'
<1> USE SlaveAssumption DEF Orderly, IInv
<1>0. /\ drv' \in Driver
      /\ ~drv'.busy
      /\ drv'.open = drv.open /\ drv'.mutex = drv.mutex /\ drv'.read = drv.read
      /\ drv'.left = drv.left
      /\ drv'.size = drv.size /\ drv'.wLeft = drv.wLeft /\ drv'.wNext = drv.wNext
      /\ drv'.stuck = drv.stuck
  BY FALSE \in BOOLEAN DEF PrimeReturn, TypeInv, Driver
<1>1. TypeInv'
  BY <1>0 DEF PrimeReturn, hardware, master, TypeInv
<1>2. PhaseInv'
  BY <1>0 DEF PrimeReturn, hardware, master, TypeInv, PhaseInv
<1>3. CountInv'
  BY <1>0 DEF PrimeReturn, hardware, master, TypeInv, PhaseInv, CountInv, Quiet, Seen,
     Count, Fits, Driver
<1>4. HeardInv'
  BY <1>0 DEF PrimeReturn, hardware, master, TypeInv, PhaseInv, CountInv, HeardInv,
     Told, Count, Quiet, Driver
<1>5. BytesInv'
  BY <1>0 DEF PrimeReturn, hardware, master, TypeInv, PhaseInv, BytesInv, Answer,
     Taken, Driver
<1>6. BoundInv'
  BY <1>0 DEF PrimeReturn, hardware, master, TypeInv, PhaseInv, BoundInv
<1>7. LastInv'
  BY <1>0 DEF PrimeReturn, hardware, master, TypeInv, LastInv
<1> QED  BY <1>1, <1>2, <1>3, <1>4, <1>5, <1>6, <1>7 DEF IInv

-----------------------------------------------------------------------------
(* The steps of the master.                                                *)

LEMMA Fitting ==
  ASSUME NEW w \in Nat
  PROVE  Fits(w) \in 0 .. R /\ (w > 0 => Fits(w) \in 1 .. R)
BY SlaveAssumption DEF Fits

\* The next START finds what the driver has still to report of the message
\* before it.
LEMMA RestartReports ==
  ASSUME Orderly, IInv, flags = {}, pc = "begun", bus \in {"free", "wr"},
         wrote <= R \/ bus = "free", Finish(FALSE)
  PROVE  /\ finished' = IF drv.busy THEN Append(heard, Count(drv)) ELSE heard
         /\ drv.busy => drv.read /\ drv.left < R
         /\ ~drv.busy => drv.left = R
         /\ finished' \in Seq(0 .. R)
         /\ Len(finished') <= Len(finished) + (IF bus = "wr" THEN 1 ELSE 0)
<1> USE SlaveAssumption DEF Orderly, IInv
<1>1. finished = heard /\ heard \in Seq(0 .. R) /\ drv.size = R /\ wrote \in Nat /\ drv.left \in 0 .. R
  BY DEF HeardInv, Told, TypeInv, PhaseInv, Driver
<1>2. CASE bus = "free" \/ wrote = 0
  <2>1. finished' = finished
    BY <1>2, <1>1 DEF Finish, Due
  <2>2. ~drv.busy /\ drv.left = R
    BY <1>2, <1>1 DEF CountInv, Quiet, Seen, Count, Fits, TypeInv
  <2> QED  BY <1>1, <2>1, <2>2
<1>3. CASE bus = "wr" /\ wrote > 0
  <2>1. finished' = Append(finished, Fits(wrote))
    BY <1>3, <1>1 DEF Finish, Due
  <2>2. drv.busy /\ drv.read /\ Count(drv) = Fits(wrote) /\ wrote \in 1 .. R
    BY <1>3, <1>1 DEF CountInv, Quiet, Seen
  <2>3. Fits(wrote) = wrote /\ drv.left < R
    BY <2>2, <1>1 DEF Fits, Count
  <2>4. Append(heard, wrote) \in Seq(0 .. R) /\ Len(Append(heard, wrote)) = Len(heard) + 1
    BY <1>1, <2>2
  <2> QED  BY <1>1, <1>3, <2>1, <2>2, <2>3, <2>4
<1> QED  BY <1>1, <1>2, <1>3

LEMMA StartWriteKeeps ==
  ASSUME Orderly, IInv, StartWrite
  PROVE  IInv'
<1> USE SlaveAssumption DEF Orderly, IInv
<1>0. /\ flags = {} /\ pc = "begun" /\ bus \in {"free", "wr"}
      /\ wrote <= R \/ bus = "free"
      /\ Finish(FALSE)
      /\ starts < MaxStarts /\ starts' = starts + 1
      /\ flags' = {"start"} /\ bus' = "wr" /\ wrote' = 0
      /\ answered' = -1 /\ out' = <<>> /\ line' = <<>>
      /\ UNCHANGED <<pc, drv, last, heard>>
  BY DEF StartWrite, Start
<1>r. /\ finished' = IF drv.busy THEN Append(heard, Count(drv)) ELSE heard
      /\ drv.busy => drv.read /\ drv.left < R
      /\ ~drv.busy => drv.left = R
      /\ finished' \in Seq(0 .. R)
      /\ Len(finished') <= Len(finished) + (IF bus = "wr" THEN 1 ELSE 0)
  BY <1>0, RestartReports
<1>1. TypeInv'
  BY <1>0, <1>r DEF TypeInv
<1>2. PhaseInv'
  BY <1>0 DEF TypeInv, PhaseInv
<1>3. CountInv'
  <2>1. /\ "rx" \notin flags' /\ "start" \in flags' /\ bus' # "free" /\ wrote' = 0
        /\ drv' = drv
    BY <1>0
  <2>2. Seen' = 0
    <3>1. Seen' = wrote' - 0
      BY <2>1 DEF Seen
    <3> QED  BY <2>1, <3>1
  <2>3. ~Quiet'
    BY <2>1 DEF Quiet
  <2> QED  BY <2>1, <2>2, <2>3, <1>r DEF CountInv
<1>4. HeardInv'
  BY <1>0, <1>r DEF HeardInv, Told, Count
<1>5. BytesInv'
  BY <1>0 DEF BytesInv, Answer, Taken
<1>6. BoundInv'
  BY <1>0, <1>r DEF TypeInv, BoundInv
<1>7. LastInv'
  BY <1>0 DEF LastInv, TypeInv
<1> QED  BY <1>1, <1>2, <1>3, <1>4, <1>5, <1>6, <1>7 DEF IInv

LEMMA StartReadKeeps ==
  ASSUME Orderly, IInv, StartRead
  PROVE  IInv'
<1> USE SlaveAssumption DEF Orderly, IInv
<1>0. /\ flags = {} /\ pc = "begun" /\ bus \in {"free", "wr"}
      /\ wrote <= R \/ bus = "free"
      /\ Finish(FALSE)
      /\ starts < MaxStarts /\ starts' = starts + 1
      /\ flags' = {"start", "tx"} /\ bus' = "rd" /\ wrote' = 0
      /\ answered' = -1 /\ out' = <<>> /\ line' = <<>>
      /\ UNCHANGED <<pc, drv, last, heard>>
  BY DEF StartRead, Start
<1>r. /\ finished' = IF drv.busy THEN Append(heard, Count(drv)) ELSE heard
      /\ drv.busy => drv.read /\ drv.left < R
      /\ ~drv.busy => drv.left = R
      /\ finished' \in Seq(0 .. R)
      /\ Len(finished') <= Len(finished) + (IF bus = "wr" THEN 1 ELSE 0)
  BY <1>0, RestartReports
<1>1. TypeInv'
  BY <1>0, <1>r DEF TypeInv
<1>2. PhaseInv'
  BY <1>0 DEF TypeInv, PhaseInv
<1>3. CountInv'
  <2>1. /\ "rx" \notin flags' /\ "start" \in flags' /\ bus' # "free" /\ wrote' = 0
        /\ drv' = drv
    BY <1>0
  <2>2. Seen' = 0
    <3>1. Seen' = wrote' - 0
      BY <2>1 DEF Seen
    <3> QED  BY <2>1, <3>1
  <2>3. ~Quiet'
    BY <2>1 DEF Quiet
  <2> QED  BY <2>1, <2>2, <2>3, <1>r DEF CountInv
<1>4. HeardInv'
  BY <1>0, <1>r DEF HeardInv, Told, Count
<1>5. BytesInv'
  BY <1>0 DEF BytesInv, Answer, Taken
<1>6. BoundInv'
  BY <1>0, <1>r DEF TypeInv, BoundInv
<1>7. LastInv'
  BY <1>0 DEF LastInv, TypeInv
<1> QED  BY <1>1, <1>2, <1>3, <1>4, <1>5, <1>6, <1>7 DEF IInv

LEMMA WriteByteKeeps ==
  ASSUME Orderly, IInv, WriteByte
  PROVE  IInv'
<1> USE SlaveAssumption DEF Orderly, IInv
<1>1. TypeInv'
  BY DEF WriteByte, TypeInv
<1>2. PhaseInv'
  BY DEF WriteByte, TypeInv, PhaseInv
<1>3. CountInv'
  BY DEF WriteByte, TypeInv, PhaseInv, CountInv, Quiet, Seen, Count, Fits, Driver
<1>4. HeardInv'
  BY DEF WriteByte, TypeInv, PhaseInv, CountInv, HeardInv, Told, Count, Quiet, Driver
<1>5. BytesInv'
  BY DEF WriteByte, TypeInv, PhaseInv, BytesInv, Answer, Taken, Driver
<1>6. BoundInv'
  BY DEF WriteByte, TypeInv, PhaseInv, BoundInv
<1>7. LastInv'
  BY DEF WriteByte, TypeInv, PhaseInv, BytesInv, LastInv
<1> QED  BY <1>1, <1>2, <1>3, <1>4, <1>5, <1>6, <1>7 DEF IInv

\* The master takes the first byte on its way.
LEMMA ByteMoves ==
  ASSUME IInv, line # <<>>, out' = Append(out, Head(line)), line' = Tail(line)
  PROVE  /\ out' \in Seq(Octet) /\ line' \in Seq(Octet)
         /\ Len(out') = Len(out) + 1 /\ Len(line') = Len(line) - 1
         /\ \A j \in 1 .. Len(out') : out'[j] = IF j <= Len(out) THEN out[j] ELSE line[1]
         /\ \A j \in 1 .. Len(line') : line'[j] = line[j + 1]
BY DEF IInv, TypeInv

LEMMA ReadByteKeeps ==
  ASSUME Orderly, IInv, ReadByte
  PROVE  IInv'
<1> USE SlaveAssumption DEF Orderly, IInv
<1>0. /\ out' \in Seq(Octet) /\ line' \in Seq(Octet)
      /\ Len(out') = Len(out) + 1 /\ Len(line') = Len(line) - 1
      /\ \A j \in 1 .. Len(out') : out'[j] = IF j <= Len(out) THEN out[j] ELSE line[1]
      /\ \A j \in 1 .. Len(line') : line'[j] = line[j + 1]
  BY ByteMoves DEF ReadByte
<1>1. TypeInv'
  BY DEF ReadByte, master, TypeInv
<1>2. PhaseInv'
  BY DEF ReadByte, master, TypeInv, PhaseInv
<1>3. CountInv'
  BY DEF ReadByte, master, TypeInv, PhaseInv, CountInv, Quiet, Seen, Count, Fits, Driver
<1>4. HeardInv'
  BY DEF ReadByte, master, TypeInv, PhaseInv, CountInv, HeardInv, Told, Count, Quiet,
     Driver
<1>5. BytesInv'
  <2>1. /\ answered' = answered /\ answered # -1 /\ drv' = drv /\ wrote' = wrote
        /\ ("start" \in flags') = ("start" \in flags) /\ bus = "rd" /\ bus' # "wr"
        /\ answered \in -1 .. R
    BY DEF ReadByte, master, BytesInv, TypeInv
  <2>2. Taken' = Taken /\ Len(out) \in Nat /\ Len(line) \in Nat /\ Len(line) > 0
    BY <1>0 DEF Taken, TypeInv
  <2>3. \A j \in 1 .. Len(out') : out'[j] = Answer(j)
    <3>1. line[1] = Answer(Len(out) + 1)
      BY <2>2 DEF BytesInv
    <3> QED  BY <1>0, <2>2, <3>1 DEF BytesInv
  <2>4. \A j \in 1 .. Len(line') : line'[j] = Answer(Len(out') + j)
    <3> SUFFICES ASSUME NEW j \in 1 .. Len(line')
                 PROVE  line'[j] = Answer(Len(out') + j)
      OBVIOUS
    <3>1. j + 1 \in 1 .. Len(line) /\ Len(out') + j = Len(out) + (j + 1)
      BY <1>0, <2>2
    <3>2. line[j + 1] = Answer(Len(out) + (j + 1))
      BY <3>1 DEF BytesInv
    <3> QED  BY <1>0, <3>1, <3>2
  <2> HIDE DEF IInv
  <2>5. BytesInv
    BY DEF IInv
  <2> QED  BY <2>1, <2>2, <2>3, <2>4, <2>5 DEF BytesInv, Answer
<1>6. BoundInv'
  BY DEF ReadByte, master, TypeInv, PhaseInv, BoundInv
<1>7. LastInv'
  BY DEF ReadByte, TypeInv, PhaseInv, BytesInv, LastInv
<1> QED  BY <1>1, <1>2, <1>3, <1>4, <1>5, <1>6, <1>7 DEF IInv

LEMMA ReadLastKeeps ==
  ASSUME Orderly, IInv, ReadLast
  PROVE  IInv'
<1> USE SlaveAssumption DEF Orderly, IInv
<1>0. /\ out' \in Seq(Octet) /\ line' \in Seq(Octet)
      /\ Len(out') = Len(out) + 1 /\ Len(line') = Len(line) - 1
      /\ \A j \in 1 .. Len(out') : out'[j] = IF j <= Len(out) THEN out[j] ELSE line[1]
      /\ \A j \in 1 .. Len(line') : line'[j] = line[j + 1]
  BY ByteMoves DEF ReadLast
<1>1. TypeInv'
  BY DEF ReadLast, TypeInv
<1>2. PhaseInv'
  BY DEF ReadLast, TypeInv, PhaseInv
<1>3. CountInv'
  BY DEF ReadLast, TypeInv, PhaseInv, CountInv, Quiet, Seen, Count, Fits, Driver
<1>4. HeardInv'
  BY DEF ReadLast, TypeInv, PhaseInv, CountInv, HeardInv, Told, Count, Quiet, Driver
<1>5. BytesInv'
  <2>1. /\ answered' = answered /\ answered # -1 /\ drv' = drv /\ wrote' = wrote
        /\ ("start" \in flags') = ("start" \in flags) /\ bus = "rd" /\ bus' # "wr"
        /\ answered \in -1 .. R
    BY DEF ReadLast, BytesInv, TypeInv
  <2>2. Taken' = Taken /\ Len(out) \in Nat /\ Len(line) \in Nat /\ Len(line) > 0
    BY <1>0 DEF Taken, TypeInv
  <2>3. \A j \in 1 .. Len(out') : out'[j] = Answer(j)
    <3>1. line[1] = Answer(Len(out) + 1)
      BY <2>2 DEF BytesInv
    <3> QED  BY <1>0, <2>2, <3>1 DEF BytesInv
  <2>4. \A j \in 1 .. Len(line') : line'[j] = Answer(Len(out') + j)
    <3> SUFFICES ASSUME NEW j \in 1 .. Len(line')
                 PROVE  line'[j] = Answer(Len(out') + j)
      OBVIOUS
    <3>1. j + 1 \in 1 .. Len(line) /\ Len(out') + j = Len(out) + (j + 1)
      BY <1>0, <2>2
    <3>2. line[j + 1] = Answer(Len(out) + (j + 1))
      BY <3>1 DEF BytesInv
    <3> QED  BY <1>0, <3>1, <3>2
  <2> HIDE DEF IInv
  <2>5. BytesInv
    BY DEF IInv
  <2> QED  BY <2>1, <2>2, <2>3, <2>4, <2>5 DEF BytesInv, Answer
<1>6. BoundInv'
  BY DEF ReadLast, TypeInv, PhaseInv, BoundInv
<1>7. LastInv'
  BY DEF ReadLast, TypeInv, PhaseInv, BytesInv, LastInv
<1> QED  BY <1>1, <1>2, <1>3, <1>4, <1>5, <1>6, <1>7 DEF IInv

LEMMA StopKeeps ==
  ASSUME Orderly, IInv, Stop
  PROVE  IInv'
<1> USE SlaveAssumption DEF Orderly, IInv
<1>1. TypeInv'
  <2>1. finished' \in Seq(0 .. R)
    <3>1. finished \in Seq(0 .. R) /\ Fits(wrote) \in 0 .. R
      <4>1. wrote \in Nat /\ finished \in Seq(0 .. R)
        BY DEF TypeInv
      <4> QED  BY <4>1, Fitting
    <3>2. Finish(TRUE)
      BY DEF Stop
    <3>3. CASE Due(TRUE)
      BY <3>1, <3>2, <3>3 DEF Finish
    <3>4. CASE ~Due(TRUE)
      BY <3>1, <3>2, <3>4 DEF Finish
    <3> QED  BY <3>3, <3>4
  <2> QED  BY <2>1 DEF Stop, TypeInv
<1>2. PhaseInv'
  BY DEF Stop, Finish, Due, Fits, TypeInv, PhaseInv
<1>3. CountInv'
  BY DEF Stop, Finish, Due, Fits, TypeInv, PhaseInv, CountInv, Quiet, Seen, Count, Fits, Driver
<1>4. HeardInv'
  <2>1. /\ Finish(TRUE) /\ bus \in {"wr", "nack"} /\ bus' = "free" /\ "stop" \in flags'
        /\ last' = last /\ wrote' = wrote
    BY DEF Stop
  <2>2. finished = Told /\ Told' = Told
    BY <2>1 DEF Stop, HeardInv, Told, Count
  <2>3. Due(TRUE) <=> last = "wr"
    BY <2>1 DEF Due, LastInv
  <2>4. CASE last = "wr"
    BY <2>1, <2>2, <2>3, <2>4 DEF Finish, HeardInv
  <2>5. CASE last # "wr"
    BY <2>1, <2>2, <2>3, <2>5 DEF Finish, HeardInv
  <2> QED  BY <2>4, <2>5
<1>5. BytesInv'
  BY DEF Stop, Finish, Due, Fits, TypeInv, PhaseInv, BytesInv, Answer, Taken, Driver
<1>6. BoundInv'
  BY DEF Stop, Finish, Due, Fits, TypeInv, PhaseInv, BoundInv
<1>7. LastInv'
  BY DEF Stop, TypeInv, PhaseInv, BytesInv, LastInv
<1> QED  BY <1>1, <1>2, <1>3, <1>4, <1>5, <1>6, <1>7 DEF IInv

-----------------------------------------------------------------------------
(* The steps of the handler.                                               *)

\* The handler runs after begin(), and the mutex is free.
LEMMA HandlerRuns ==
  ASSUME IInv, flags # {}
  PROVE  pc = "begun" /\ drv.mutex = 1 /\ drv.size = R /\ drv.open /\ ~drv.stuck
<1>1. pc = "begun"
  BY DEF IInv, PhaseInv
<1>2. drv.mutex # 0 /\ drv.size = R /\ drv.open /\ ~drv.stuck
  BY <1>1 DEF IInv, PhaseInv
<1>3. drv.mutex \in 0 .. 1
  BY DEF IInv, TypeInv, Driver
<1> QED  BY <1>1, <1>2, <1>3

LEMMA HwiStartKeeps ==
  ASSUME Orderly, IInv, HwiStart
  PROVE  IInv'
<1> USE SlaveAssumption DEF Orderly, IInv
<1>r. pc = "begun" /\ drv.mutex = 1 /\ drv.size = R /\ drv.open /\ ~drv.stuck
      /\ drv \in Driver
  BY HandlerRuns DEF HwiStart, TypeInv
<1>d. drv.busy => Report(drv) = Received(drv) /\ drv.left \in 0 .. R - 1
  BY <1>r DEF HwiStart, CountInv, Report, Driver
<1>0. /\ drv' \in Driver
      /\ ~drv'.busy /\ drv'.left = R /\ drv'.read = drv.read
      /\ drv'.open = drv.open /\ drv'.mutex = 1 /\ drv'.size = R /\ ~drv'.stuck
      /\ drv'.wLeft = drv.wLeft /\ drv'.wNext = drv.wNext
  <2>1. CASE drv.busy
    <3>1. drv' = Received(drv)
      BY <2>1, <1>d DEF HwiStart
    <3> QED  BY <3>1, <1>r, ReceivedIs
  <2>2. CASE ~drv.busy
    BY <2>2, <1>r DEF HwiStart, CountInv
  <2> QED  BY <2>1, <2>2
<1>h. /\ heard' = Told /\ heard' \in Seq(0 .. R)
  <2>1. CASE drv.busy
    <3>1. Count(drv) \in 1 .. R
      BY <2>1, <1>d, <1>r DEF Count
    <3>2. drv.read /\ "start" \in flags /\ heard \in Seq(0 .. R)
      BY <2>1 DEF HwiStart, CountInv, TypeInv
    <3>3. heard' = Append(heard, Count(drv)) /\ Told = Append(heard, Count(drv))
      BY <2>1, <3>1, <3>2 DEF HwiStart, Hear, Told
    <3> HIDE DEF IInv
    <3> QED  BY <3>1, <3>2, <3>3
  <2>2. CASE ~drv.busy
    BY <2>2 DEF HwiStart, Told, TypeInv
  <2> QED  BY <2>1, <2>2
<1>f. /\ "start" \in flags /\ flags' = flags \ {"start"}
      /\ UNCHANGED <<pc, line, bus, starts, wrote, last, finished, answered, out>>
  BY DEF HwiStart, master
<1>1. TypeInv'
  BY <1>0, <1>h, <1>f DEF TypeInv
<1>2. PhaseInv'
  BY <1>0, <1>r, <1>f DEF PhaseInv, TypeInv
<1>3. CountInv'
  BY <1>0, <1>r, <1>f DEF CountInv, PhaseInv, TypeInv, Quiet, Seen, Count, Fits
<1>4. HeardInv'
  BY <1>h, <1>f DEF HeardInv, Told
<1>5. BytesInv'
  BY <1>0, <1>f DEF BytesInv, PhaseInv, Answer, Taken
<1>6. BoundInv'
  BY <1>f DEF BoundInv, TypeInv
<1>7. LastInv'
  BY <1>0, <1>f DEF LastInv, PhaseInv, TypeInv
<1> QED  BY <1>1, <1>2, <1>3, <1>4, <1>5, <1>6, <1>7 DEF IInv

LEMMA HwiReceiveKeeps ==
  ASSUME Orderly, IInv, HwiReceive
  PROVE  IInv'
<1> USE SlaveAssumption DEF Orderly, IInv
<1>r. pc = "begun" /\ drv.mutex = 1 /\ drv.size = R /\ drv.open /\ ~drv.stuck
      /\ drv \in Driver
  BY HandlerRuns DEF HwiReceive, TypeInv
<1>f. /\ "rx" \in flags /\ "start" \notin flags /\ flags' = flags \ {"rx"}
      /\ UNCHANGED <<pc, line, bus, starts, wrote, last, finished, answered, out, heard>>
  BY DEF HwiReceive, master
<1> DEFINE d == [drv EXCEPT !.read = TRUE, !.busy = TRUE]
           x == drv.left - 1
<1>d. /\ d \in Driver
      /\ d.left = drv.left /\ d.read
      /\ d.open = drv.open /\ d.mutex = 1 /\ d.size = R /\ ~d.stuck
      /\ d.wLeft = drv.wLeft /\ d.wNext = drv.wNext /\ d.busy
  BY <1>r, TRUE \in BOOLEAN DEF Driver
<1>e. drv' = IF d.left > 0 THEN [d EXCEPT !.left = x] ELSE Complete(d)
  BY <1>d DEF HwiReceive
<1>x. drv.left \in 0 .. R /\ (drv.left > 0 => x \in 0 .. R)
  BY <1>r DEF Driver
<1> HIDE DEF d
<1>0. /\ drv' \in Driver
      /\ drv'.left = IF drv.left > 0 THEN drv.left - 1 ELSE 0
      /\ drv'.read /\ (drv'.busy <=> drv.left > 0)
      /\ drv'.open = drv.open /\ drv'.mutex = 1 /\ drv'.size = R /\ ~drv'.stuck
      /\ drv'.wLeft = drv.wLeft /\ drv'.wNext = drv.wNext
  <2>1. CASE drv.left > 0
    <3> HIDE DEF x
    <3>1. drv' = [d EXCEPT !.left = x] /\ x \in 0 .. R
      BY <2>1, <1>d, <1>e, <1>x
    <3>2. /\ drv' \in Driver
          /\ drv'.left = x
          /\ drv'.read /\ drv'.busy
          /\ drv'.open = drv.open /\ drv'.mutex = 1 /\ drv'.size = R /\ ~drv'.stuck
          /\ drv'.wLeft = drv.wLeft /\ drv'.wNext = drv.wNext
      BY <3>1, <1>d DEF Driver
    <3> QED  BY <3>2, <2>1 DEF x
  <2>2. CASE drv.left = 0
    <3>1. drv' = Complete(d) /\ ~ drv.left > 0
      BY <2>2, <1>d, <1>e
    <3> QED  BY <3>1, <2>2, <1>d, CompleteIs
  <2> QED  BY <2>1, <2>2, <1>x
<1>1. TypeInv'
  BY <1>0, <1>f DEF TypeInv
<1>2. PhaseInv'
  BY <1>0, <1>r, <1>f DEF PhaseInv, TypeInv
<1>3. CountInv'
  <2>1. Seen' = Seen + 1 /\ Seen \in Nat /\ ~Quiet /\ bus = bus'
    BY <1>f DEF Seen, PhaseInv, TypeInv, Quiet
  <2>2. Count(drv) = Fits(Seen) /\ Count(drv) = R - drv.left
    BY <2>1, <1>f, <1>r DEF CountInv, Count
  <2>3. Quiet' => bus = "free" /\ "stop" \notin flags
    BY <1>f DEF Quiet
  <2>4. ~Quiet'
    BY <2>1, <2>3 DEF PhaseInv, Quiet
  <2>5. Count(drv') = Fits(Seen + 1) /\ (drv.left > 0 <=> Seen + 1 \in 1 .. R)
    BY <2>1, <2>2, <1>0, <1>x DEF Fits, Count
  <2> QED  BY <1>0, <1>f, <2>1, <2>4, <2>5 DEF CountInv, Count
<1>4. HeardInv'
  BY <1>f DEF HeardInv, Told
<1>5. BytesInv'
  <2>1. wrote > 0 /\ "tx" \notin flags /\ bus \notin {"rd", "nack"}
    BY <1>f DEF PhaseInv, TypeInv
  <2> QED  BY <1>0, <1>f, <2>1 DEF BytesInv, Answer, Taken
<1>6. BoundInv'
  BY <1>f DEF BoundInv, TypeInv
<1>7. LastInv'
  BY <1>0, <1>f DEF LastInv, PhaseInv, TypeInv
<1> QED  BY <1>1, <1>2, <1>3, <1>4, <1>5, <1>6, <1>7 DEF IInv

LEMMA HwiStopKeeps ==
  ASSUME Orderly, IInv, HwiStop
  PROVE  IInv'
<1> USE SlaveAssumption DEF Orderly, IInv
<1>r. pc = "begun" /\ drv.mutex = 1 /\ drv.size = R /\ drv.open /\ ~drv.stuck
      /\ drv \in Driver
  BY HandlerRuns DEF HwiStop, TypeInv
<1>f. /\ flags = {"stop"} /\ flags' = {} /\ bus = "free"
      /\ drv' = Complete(Report(drv)) /\ heard' = Hear(drv)
      /\ UNCHANGED <<pc, line, bus, starts, wrote, last, finished, answered, out>>
  BY DEF HwiStop, master, PhaseInv
<1>w. wrote \in Nat /\ Seen = wrote /\ ~Quiet
  BY <1>f DEF TypeInv, Seen, Quiet
<1>c. Count(drv) = Fits(wrote) /\ (wrote > 0 => drv.read) /\ Count(drv) = R - drv.left
  BY <1>f, <1>r, <1>w DEF CountInv, Count
<1> DEFINE d == Report(drv)
<1>d. /\ d \in Driver
      /\ d.open = drv.open /\ d.mutex = 1 /\ d.size = R /\ ~d.stuck /\ d.left = R
      /\ d.read = drv.read /\ d.wLeft = drv.wLeft /\ d.wNext = drv.wNext
  <2>1. CASE drv.read
    <3>1. d = Received(drv)
      BY <2>1 DEF Report
    <3> QED  BY <3>1, <1>r, ReceivedIs
  <2>2. CASE ~drv.read
    <3>1. d = drv /\ wrote = 0
      BY <2>2, <1>c, <1>w DEF Report
    <3>2. drv.left = R
      BY <3>1, <1>c, <1>r DEF Fits, Driver
    <3> QED  BY <3>1, <3>2, <1>r
  <2> QED  BY <2>1, <2>2
<1>e. drv' = Complete(d)
  BY <1>f
<1> HIDE DEF d
<1>0. /\ drv' \in Driver
      /\ drv'.open = drv.open /\ drv'.mutex = 1 /\ drv'.size = R /\ ~drv'.stuck
      /\ drv'.left = R /\ ~drv'.busy /\ drv'.read = drv.read
      /\ drv'.wLeft = drv.wLeft /\ drv'.wNext = drv.wNext
  BY <1>d, <1>e, CompleteIs
<1>h. heard' = finished /\ heard' \in Seq(0 .. R)
  <2>1. Told = heard /\ heard \in Seq(0 .. R) /\ finished \in Seq(0 .. R)
    BY <1>f DEF Told, TypeInv
  <2>2. Fits(wrote) \in 0 .. R /\ (drv.read <=> last = "wr")
    BY <1>w, <1>f, Fitting DEF LastInv
  <2>3. Hear(drv) = IF last = "wr" THEN Append(heard, Fits(wrote)) ELSE heard
    BY <2>2, <1>c DEF Hear
  <2>4. finished = IF last = "wr" THEN Append(heard, Fits(wrote)) ELSE heard
    BY <2>1, <1>f DEF HeardInv
  <2> QED  BY <2>1, <2>3, <2>4, <1>f
<1>1. TypeInv'
  BY <1>0, <1>h, <1>f DEF TypeInv
<1>2. PhaseInv'
  BY <1>0, <1>r, <1>f DEF PhaseInv, TypeInv
<1>3. CountInv'
  BY <1>0, <1>f DEF CountInv, Quiet
<1>4. HeardInv'
  BY <1>h, <1>f DEF HeardInv, Told
<1>5. BytesInv'
  BY <1>0, <1>f DEF BytesInv, PhaseInv, Answer, Taken
<1>6. BoundInv'
  BY <1>f DEF BoundInv, TypeInv
<1>7. LastInv'
  BY <1>0, <1>f DEF LastInv, PhaseInv, TypeInv
<1> QED  BY <1>1, <1>2, <1>3, <1>4, <1>5, <1>6, <1>7 DEF IInv

LEMMA HwiTransmitKeeps ==
  ASSUME Orderly, IInv, NEW n \in Answers, HwiTransmit(n)
  PROVE  IInv'
<1> USE SlaveAssumption DEF Orderly, IInv
<1>r. pc = "begun" /\ drv.mutex = 1 /\ drv.size = R /\ drv.open /\ ~drv.stuck
      /\ drv \in Driver
  BY HandlerRuns DEF HwiTransmit, TypeInv
<1> DEFINE p == [drv EXCEPT !.read = FALSE]
           d == IF drv.busy THEN p ELSE Requested(p, n)
           m == IF drv.busy THEN answered ELSE n
           e == [d EXCEPT !.busy = TRUE]
           b == NextByte(d, m)
<1>f. /\ "tx" \in flags /\ "start" \notin flags /\ "rx" \notin flags
      /\ answered' = m /\ drv' = Sent(e) /\ line' = Append(line, b)
      /\ flags' = IF Len(line) = 0 THEN flags ELSE flags \ {"tx"}
      /\ UNCHANGED <<pc, bus, starts, wrote, last, finished, out, heard>>
  BY DEF HwiTransmit, Transmit, master
<1>n. n \in 1 .. R
  OBVIOUS
<1>w. wrote = 0 /\ bus # "wr" /\ Seen = 0 /\ ~Quiet
  BY <1>f DEF PhaseInv, Seen, Quiet
<1>a. /\ drv.busy <=> answered # -1
      /\ answered = -1 => Taken = 0
      /\ answered # -1 => /\ answered > 0
                          /\ drv.wNext + drv.wLeft = answered
                          /\ drv.wNext = IF Taken <= answered THEN Taken ELSE answered
  BY <1>f DEF BytesInv, Taken
<1>t. /\ Len(out) \in Nat /\ Len(line) \in Nat /\ Taken = Len(out) + Len(line)
      /\ answered \in -1 .. R
  BY DEF TypeInv, Taken
<1>p. /\ p \in Driver /\ ~p.read
      /\ p.open = drv.open /\ p.mutex = 1 /\ p.size = R /\ ~p.stuck /\ p.left = drv.left
      /\ p.wLeft = drv.wLeft /\ p.wNext = drv.wNext
  BY <1>r, FALSE \in BOOLEAN DEF Driver
<1>m. m \in 1 .. R
  BY <1>a, <1>t, <1>n
<1>d. /\ d \in Driver
      /\ d.open = drv.open /\ d.mutex = 1 /\ d.size = R /\ ~d.stuck /\ d.left = drv.left
      /\ ~d.read
      /\ d.wNext + d.wLeft = m
      /\ d.wNext = IF Taken <= m THEN Taken ELSE m
  <2>1. CASE drv.busy
    BY <2>1, <1>p, <1>a
  <2>2. CASE ~drv.busy
    <3> HIDE DEF p
    <3>1. d = Requested(p, n) /\ m = n /\ Taken = 0
      BY <2>2, <1>a
    <3>2. /\ d \in Driver /\ d.open = p.open /\ d.mutex = p.mutex /\ d.stuck = p.stuck
          /\ d.left = p.left /\ d.size = p.size /\ d.read = p.read /\ d.wLeft = n /\ d.wNext = 0
      BY <3>1, <1>p, <1>n, RequestedIs
    <3> QED  BY <3>1, <3>2, <1>p, <1>n
  <2> QED  BY <2>1, <2>2
<1> HIDE DEF p, d, m
<1>e. /\ e \in Driver /\ e.busy /\ ~e.read
      /\ e.open = drv.open /\ e.mutex = 1 /\ e.size = R /\ ~e.stuck /\ e.left = drv.left
      /\ e.wNext = d.wNext /\ e.wLeft = d.wLeft
  BY <1>d, TRUE \in BOOLEAN DEF Driver
<1> HIDE DEF e
<1>s. /\ drv' \in Driver /\ drv'.open = e.open /\ drv'.mutex = e.mutex
      /\ drv'.stuck = e.stuck
      /\ drv'.busy = e.busy /\ drv'.read = e.read /\ drv'.left = e.left
      /\ drv'.size = e.size
      /\ e.wLeft = 0 => drv'.wLeft = 0 /\ drv'.wNext = e.wNext
      /\ e.wLeft > 0 => drv'.wLeft = e.wLeft - 1 /\ drv'.wNext = e.wNext + 1
  <2>1. e.wNext + e.wLeft <= R
    BY <1>d, <1>e, <1>m
  <2> QED  BY <2>1, <1>e, <1>f, SentIs
<1>v. d.wLeft \in 0 .. R /\ d.wNext \in 0 .. R
  BY <1>d DEF Driver
<1>b. b = (IF Taken + 1 <= m THEN Taken ELSE Filler) /\ b \in Octet
  BY <1>d, <1>v, <1>m, <1>t DEF NextByte, Octet
<1>q. /\ drv'.wNext + drv'.wLeft = m
      /\ drv'.wNext = IF Taken + 1 <= m THEN Taken + 1 ELSE m
  BY <1>d, <1>v, <1>m, <1>t, <1>s, <1>e
<1> HIDE DEF b
<1>0. /\ drv' \in Driver /\ drv'.busy /\ ~drv'.read
      /\ drv'.open = drv.open /\ drv'.mutex = 1 /\ drv'.size = R /\ ~drv'.stuck
      /\ drv'.left = drv.left
  BY <1>e, <1>s
<1>l. /\ line' \in Seq(Octet) /\ Len(line') = Len(line) + 1
      /\ \A j \in 1 .. Len(line') : line'[j] = IF j <= Len(line) THEN line[j] ELSE b
  BY <1>f, <1>b DEF TypeInv
<1>1. TypeInv'
  BY <1>0, <1>f, <1>l, <1>m DEF TypeInv
<1>2. PhaseInv'
  BY <1>0, <1>r, <1>f DEF PhaseInv, TypeInv
<1>3. CountInv'
  <2>1. Seen' = 0 /\ ~Quiet'
    BY <1>f, <1>w DEF Seen, Quiet, PhaseInv
  <2>2. Count(drv) = Fits(0) /\ Count(drv') = Count(drv)
    BY <1>f, <1>w, <1>0, <1>r DEF CountInv, Count
  <2> QED  BY <2>1, <2>2, <1>f, <1>w DEF CountInv, Count
<1>4. HeardInv'
  BY <1>f DEF HeardInv, Told
<1>5. BytesInv'
  <2>1. Taken' = Taken + 1
    BY <1>f, <1>l, <1>t DEF Taken
  <2>2. ASSUME NEW j \in 1 .. Len(line')
        PROVE  line'[j] = IF Len(out) + j <= m THEN Len(out) + j - 1 ELSE Filler
    <3>1. CASE j <= Len(line)
      <4>1. line'[j] = Answer(Len(out) + j) /\ answered # -1
        BY <3>1, <1>l, <1>t DEF BytesInv, Taken
      <4> QED  BY <4>1, <1>a DEF Answer, m
    <3>2. CASE j = Len(line) + 1
      BY <3>2, <1>l, <1>b, <1>t
    <3> QED  BY <3>1, <3>2, <1>l, <1>t
  <2>3. ASSUME NEW j \in 1 .. Len(out)
        PROVE  out[j] = IF j <= m THEN j - 1 ELSE Filler
    <3>1. out[j] = Answer(j) /\ answered # -1
      BY <1>t DEF BytesInv
    <3> QED  BY <3>1, <1>a DEF Answer, m
  <2>4. answered' = m /\ m > 0 /\ m # -1 /\ out' = out /\ bus' # "wr" /\ "start" \notin flags'
    BY <1>f, <1>m, <1>w
  <2> HIDE DEF IInv
  <2> QED  BY <2>1, <2>2, <2>3, <2>4, <1>q, <1>0 DEF BytesInv, Answer
<1>6. BoundInv'
  BY <1>f, <1>l, <1>t, <1>w DEF BoundInv, TypeInv
<1>7. LastInv'
  BY <1>0, <1>f, <1>w DEF LastInv, PhaseInv, TypeInv
<1> QED  BY <1>1, <1>2, <1>3, <1>4, <1>5, <1>6, <1>7 DEF IInv

-----------------------------------------------------------------------------
(* The properties.                                                         *)

LEMMA InitInv == Init => IInv
<1> SUFFICES ASSUME Init PROVE IInv
  OBVIOUS
<1> USE SlaveAssumption
<1>1. 0 \in 0 .. R /\ 1 \in 0 .. 1 /\ 0 \in Nat /\ TRUE \in BOOLEAN /\ FALSE \in BOOLEAN
  OBVIOUS
<1>2. drv \in Driver
  BY <1>1 DEF Init, ClosedDriver, Driver
<1>3. TypeInv
  BY <1>2 DEF Init, TypeInv
<1>4. PhaseInv /\ CountInv
  BY DEF Init, ClosedDriver, PhaseInv, CountInv, Quiet, Seen
<1>5. HeardInv /\ LastInv /\ BytesInv /\ BoundInv
  BY DEF Init, ClosedDriver, HeardInv, Told, LastInv, BytesInv, Answer, Taken, BoundInv
<1> QED  BY <1>3, <1>4, <1>5 DEF IInv

LEMMA NextInv ==
  ASSUME Orderly, IInv, [Next]_vars
  PROVE  IInv'
<1>1. CASE Hwi
  BY <1>1, HwiStartKeeps, HwiReceiveKeeps, HwiTransmitKeeps, HwiStopKeeps DEF Hwi
<1>2. CASE Begin
  BY <1>2, OpenKeeps, PrimePendKeeps, PrimeArmKeeps, PrimePostKeeps, PrimeReturnKeeps
  DEF Begin
<1>3. CASE Master
  BY <1>3, StartWriteKeeps, StartReadKeeps, WriteByteKeeps, ReadByteKeeps, ReadLastKeeps,
     StopKeeps
  DEF Master
<1>4. CASE UNCHANGED vars
  BY <1>4
  DEF vars, hardware, master, IInv, TypeInv, PhaseInv, CountInv, HeardInv, LastInv,
     BytesInv, BoundInv,
      Quiet, Seen, Told, Answer, Taken
<1> QED  BY <1>1, <1>2, <1>3, <1>4 DEF Next

LEMMA Invariance == ASSUME Orderly PROVE Spec => []IInv
<1>1. Init => IInv
  BY InitInv
<1>2. IInv /\ [Next]_vars => IInv'
  BY NextInv
<1> QED  BY <1>1, <1>2, PTL DEF Spec

\* TypeOK holds for every buffer length, message length and number of STARTs:
\* the handler never waits for the mutex (hwiIntFxn(), primeTransfer()), the
\* counters stay in their buffers, and at most two bytes are on their way.
THEOREM TypeCorrect == ASSUME Orderly PROVE Spec => []TypeOK
<1>1. IInv => TypeOK
  <2> SUFFICES ASSUME IInv PROVE TypeOK
    OBVIOUS
  <2> USE SlaveAssumption DEF IInv
  <2>1. drv \in [open : BOOLEAN, mutex : 0 .. 1, busy : BOOLEAN, read : BOOLEAN,
                 left : 0 .. R, size : {0, R}, wLeft : 0 .. R, wNext : 0 .. R,
                 held : Nat, stuck : {FALSE}]
    <3>1. drv \in Driver /\ drv.size \in {0, R} /\ drv.stuck \in {FALSE}
      BY DEF TypeInv, PhaseInv, Driver
    <3> QED  BY <3>1 DEF Driver
  <2>2. ASSUME NEW S, NEW s \in Seq(S), NEW k \in Nat, Len(s) <= k
        PROVE  s \in BoundedSeq(S, k)
    <3>1. Len(s) \in 0 .. k /\ s \in [1 .. Len(s) -> S]
      BY <2>2
    <3> QED  BY <3>1 DEF BoundedSeq, SeqOf
  <2>3. line \in BoundedSeq(Octet, 2) /\ out \in BoundedSeq(Octet, MaxRead)
    BY <2>2 DEF TypeInv, BoundInv
  <2>4. Len(heard) \in Nat /\ Len(heard) <= Len(finished) /\ Len(finished) <= MaxStarts
    <3>1. /\ starts \in 0 .. MaxStarts /\ Len(finished) <= starts
          /\ heard \in Seq(0 .. R) /\ finished \in Seq(0 .. R)
      BY DEF TypeInv, BoundInv
    <3>2. Len(Told) \in Nat /\ Len(heard) <= Len(Told) /\ Len(Told) <= Len(finished)
      <4>1. /\ Len(Append(heard, Count(drv))) = Len(heard) + 1
            /\ Len(Append(Told, Fits(wrote))) = Len(Told) + 1
        BY <3>1 DEF Told
      <4> QED  BY <3>1, <4>1 DEF HeardInv, Told
    <3> QED  BY <3>1, <3>2
  <2>5. finished \in BoundedSeq(0 .. R, MaxStarts) /\ heard \in BoundedSeq(0 .. R, MaxStarts)
    BY <2>2, <2>4 DEF TypeInv
  <2> QED  BY <2>1, <2>3, <2>5 DEF TypeOK, TypeInv, Octet
<1> QED  BY <1>1, Invariance, PTL

\* onReceive is told every message once, in order, with the bytes that fit of
\* it (hwiIntFxn(), writeCallback()), for every length of buffer and message.
THEOREM MessagesStayIntact == ASSUME Orderly PROVE Spec => []MessagesIntact
<1>1. IInv => MessagesIntact
  <2> SUFFICES ASSUME IInv PROVE MessagesIntact
    OBVIOUS
  <2>1. heard \in Seq(0 .. R) /\ wrote \in Nat
    BY SlaveAssumption DEF IInv, TypeInv
  <2>2. ASSUME NEW s \in Seq(0 .. R), NEW x \in 0 .. R, NEW t \in Seq(0 .. R), IsPrefix(t, s)
        PROVE  IsPrefix(t, Append(s, x))
    BY <2>2 DEF IsPrefix
  <2>3. IsPrefix(heard, heard)
    BY <2>1 DEF IsPrefix
  <2>4. Told \in Seq(0 .. R) /\ IsPrefix(heard, Told)
    <3>1. CASE "start" \in flags /\ drv.busy
      <4>1. pc = "begun" /\ drv.size = R /\ drv.left < R /\ drv.left \in 0 .. R
        BY <3>1 DEF IInv, TypeInv, PhaseInv, CountInv, Driver
      <4>2. Count(drv) \in 0 .. R
        BY <4>1, SlaveAssumption DEF Count
      <4>3. Told = Append(heard, Count(drv))
        BY <3>1 DEF Told
      <4> QED  BY <4>2, <4>3, <2>1, <2>2, <2>3
    <3>2. CASE ~("start" \in flags /\ drv.busy)
      BY <3>2, <2>1, <2>3 DEF Told
    <3> QED  BY <3>1, <3>2
  <2>5. Fits(wrote) \in 0 .. R
    BY <2>1, Fitting
  <2>6. finished = Told \/ (finished = Append(Told, Fits(wrote)))
    <3>1. HeardInv
      BY DEF IInv
    <3>2. CASE bus = "free" /\ "stop" \in flags /\ last = "wr"
      BY <3>1, <3>2 DEF HeardInv
    <3>3. CASE ~(bus = "free" /\ "stop" \in flags /\ last = "wr")
      <4>1. finished = Told
        BY <3>1, <3>3 DEF HeardInv
      <4> QED  BY <4>1
    <3> QED  BY <3>2, <3>3
  <2> QED  BY <2>1, <2>2, <2>4, <2>5, <2>6 DEF MessagesIntact
<1> QED  BY <1>1, Invariance, PTL

\* Every read gets the bytes onRequest wrote for it, in order, and then 0xFF
\* (readCallback(), I2CSlave_write(), the I2CSLAVE_WRITE_MODE case of
\* hwiIntFxn()), for every answer and every number of bytes the master takes.
THEOREM ReadsAreAnswered == ASSUME Orderly PROVE Spec => []ReadAnswered
<1>1. IInv => ReadAnswered
  <2> SUFFICES ASSUME IInv, out # <<>>
               PROVE  /\ answered >= 0
                      /\ \A j \in DOMAIN out :
                           out[j] = IF j <= answered THEN j - 1 ELSE Filler
    BY DEF ReadAnswered
  <2>1. answered # -1 /\ answered \in -1 .. R /\ out \in Seq(Octet)
    BY DEF IInv, TypeInv, BytesInv
  <2>2. \A j \in 1 .. Len(out) : out[j] = Answer(j)
    BY DEF IInv, BytesInv
  <2> QED  BY <2>1, <2>2 DEF Answer
<1> QED  BY <1>1, Invariance, PTL

=============================================================================
