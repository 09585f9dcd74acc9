--------------------------- MODULE WireBusProofs ---------------------------
(***************************************************************************)
(* Proofs about WireBus for every set of tasks, buses and devices and      *)
(* every size of the buffers.                                              *)
(***************************************************************************)
EXTENDS WireBus, TLAPS

\* The sketches and devices for which the properties hold: after an
\* endTransmission() without STOP a sketch goes on with the same device, it
\* does not flush() what it has begun to write, it never requests the whole
\* buffer, and no device refuses the last byte of a write.
Disciplined ==
  /\ Roaming = FALSE /\ MidFlush = FALSE /\ LateNack = FALSE
  /\ MaxRequest < B

-----------------------------------------------------------------------------
(* The inductive invariant.                                                *)

Busy == {"transfer", "mutex", "wait", "finish"}

\* How many times task t has entered the gate of the bus it is using.
Entries(t) ==
  LET begun == IF open[t] THEN 1 ELSE 0
  IN IF pc[t] \in Busy THEN (IF call[t].end THEN begun + 1 ELSE 1)
     ELSE IF pc[t] = "gate" /\ ~call[t].end THEN 0 ELSE begun

\* The gate of a bus counts the entries of its one owner.
GateInv ==
  /\ \A t \in Tasks : Entries(t) > 0 => gate[call[t].bus] = t
  /\ \A b \in Buses : gate[b] = NoTask => enters[b] = 0
  /\ \A b \in Buses, t \in Tasks : gate[b] = t =>
       call[t].bus = b /\ Entries(t) > 0 /\ enters[b] = Entries(t)

\* Where a task is in its calls, and what is left to do there.
PlaceInv(t) ==
  /\ pc[t] = "sketch" => ~call[t].end
  /\ pc[t] = "gate" /\ ~call[t].end => open[t]
  /\ pc[t] \in Busy /\ ~call[t].end => ~open[t]
  /\ pc[t] \in {"mutex", "wait"} => ctx[t].writes > 0 \/ ctx[t].reads > 0

\* The context holds what the sketch asked for.
AskedInv(t) ==
  /\ ctx[t].txW = ctx[t].writes /\ ctx[t].writes = asked[t].n
  /\ asked[t].q < B
  /\ pc[t] = "sketch" => ctx[t].reads = 0 /\ asked[t].q = 0
  /\ pc[t] = "sketch" /\ open[t] => ctx[t].addr = asked[t].dev
  /\ pc[t] = "gate" => ctx[t].idle \/ ctx[t].addr = asked[t].dev
  /\ pc[t] = "gate" /\ ~call[t].end => asked[t].q = 0
  /\ pc[t] \in Busy => ctx[t].reads = asked[t].q /\ ctx[t].addr = asked[t].dev

\* What read() can return has arrived.
FreshInv(t) ==
  /\ ctx[t].rxR <= ctx[t].rxW /\ ctx[t].rxW < B
  /\ pc[t] = "mutex" => fresh[t] = 0
  /\ pc[t] \in {"sketch", "gate"} /\ call[t].ok => ctx[t].rxW - ctx[t].rxR <= fresh[t]
  /\ pc[t] = "finish" /\ call[t].ok => ctx[t].reads <= fresh[t]

LocalInv(t) == PlaceInv(t) /\ AskedInv(t) /\ FreshInv(t)

\* The driver works for the one task that sleeps in it, and counts what is
\* left of its transfer.
DriverInv(b) ==
  /\ drv[b].held = IF drv[b].on THEN 1 ELSE 0
  /\ drv[b].on => drv[b].mutex # NoTask
  /\ drv[b].mutex = NoTask \/ drv[b].on => drv[b].done = 0
  /\ drv[b].mutex # NoTask =>
       /\ drv[b].cur = drv[b].mutex
       /\ pc[drv[b].mutex] = "wait" /\ call[drv[b].mutex].bus = b
  /\ drv[b].on =>
       /\ drv[b].mode \in {"write", "read"}
       /\ drv[b].w > 0 \/ drv[b].r > 0
       /\ drv[b].mode = "read" => drv[b].r > 0
       /\ fresh[drv[b].cur] >= 0
       /\ fresh[drv[b].cur] + drv[b].r = ctx[drv[b].cur].reads
  /\ ~drv[b].on /\ drv[b].mutex # NoTask /\ drv[b].mode = "idle" =>
       ctx[drv[b].mutex].reads <= fresh[drv[b].mutex]

WaitInv(t) == pc[t] = "wait" => drv[call[t].bus].mutex = t

IInv ==
  /\ TypeOK
  /\ GateInv
  /\ \A t \in Tasks : LocalInv(t) /\ WaitInv(t)
  /\ \A b \in Buses : DriverInv(b)

-----------------------------------------------------------------------------
USE WireAssumption

LEMMA Nobody == Nothing \in Txn /\ Nothing.n = 0 /\ Nothing.q = 0
<1>1. (CHOOSE d \in Devices : TRUE) \in Devices
  OBVIOUS
<1> QED
  BY <1>1 DEF Nothing, Txn

LEMMA EntriesRange ==
  ASSUME NEW t \in Tasks
  PROVE  Entries(t) \in 0 .. 2
  BY DEF Entries

\* An index that is not the last one has a successor.
LEMMA NextCell ==
  \A x \in 0 .. B - 1 : ((x + 1) % B) # 0 => x + 1 \in 0 .. B - 1
<1> SUFFICES ASSUME NEW x \in 0 .. B - 1, ((x + 1) % B) # 0
             PROVE  x + 1 \in 0 .. B - 1
  OBVIOUS
<1>1. (B % B) = 0
  BY SMT
<1>2. x + 1 # B
  BY <1>1
<1> QED
  BY <1>2

\* and its successor is the index plus one.
LEMMA StepCell ==
  \A x \in 0 .. B - 1 : x + 1 < B => ((x + 1) % B) = x + 1
  BY SMT

\* What a step of one task leaves alone.
Others(t) ==
  \A u \in Tasks \ {t} :
    /\ ctx'[u] = ctx[u] /\ pc'[u] = pc[u] /\ call'[u] = call[u]
    /\ open'[u] = open[u] /\ asked'[u] = asked[u] /\ fresh'[u] = fresh[u]

LEMMA SameGate ==
  ASSUME IInv, NEW t \in Tasks, Others(t), UNCHANGED locking,
         Entries(t)' = Entries(t),
         Entries(t) > 0 => call'[t].bus = call[t].bus
  PROVE  GateInv'
<1>1. \A u \in Tasks : Entries(u)' = Entries(u)
  BY DEF Others, Entries
<1>2. \A u \in Tasks : Entries(u) > 0 => call'[u].bus = call[u].bus
  BY DEF Others
<1>3. gate' = gate /\ enters' = enters
  BY DEF locking
<1>4. GateInv
  BY DEF IInv
<1> HIDE DEF Entries
<1> QED
  BY <1>1, <1>2, <1>3, <1>4 DEF GateInv

\* Task t moves and enters or leaves the gate of its bus.
LEMMA GateStep ==
  ASSUME IInv, NEW t \in Tasks, NEW b \in Buses, Others(t),
         call[t].bus = b, call'[t].bus = b,
         gate[b] \in {NoTask, t},
         enters' = [enters EXCEPT ![b] = Entries(t)'],
         gate' = [gate EXCEPT ![b] = IF Entries(t)' = 0 THEN NoTask ELSE t]
  PROVE  GateInv'
<1>1. \A u \in Tasks \ {t} : Entries(u)' = Entries(u) /\ call'[u].bus = call[u].bus
  BY DEF Others, Entries
<1>2. Entries(t)' \in 0 .. 2 /\ \A u \in Tasks : Entries(u) \in 0 .. 2
  BY DEF Entries
<1>3. GateInv /\ gate \in [Buses -> Tasks \cup {NoTask}] /\ enters \in [Buses -> 0 .. 255]
  BY DEF IInv, TypeOK
<1> HIDE DEF Entries
<1>4. \A c \in Buses \ {b} : gate'[c] = gate[c] /\ enters'[c] = enters[c] /\ gate[c] # t
  BY <1>3 DEF GateInv
<1>5. enters'[b] = Entries(t)' /\ gate'[b] = IF Entries(t)' = 0 THEN NoTask ELSE t
  BY <1>3
<1>6. ASSUME NEW u \in Tasks, Entries(u)' > 0
      PROVE  gate'[call'[u].bus] = u
  <2>1. CASE u = t
    BY <1>2, <1>5, <1>6, <2>1
  <2>2. CASE u # t
    <3>1. Entries(u) > 0 /\ gate[call[u].bus] = u
      BY <1>1, <1>3, <1>6, <2>2 DEF GateInv
    <3>2. call[u].bus # b /\ call[u].bus \in Buses
      BY <3>1, <2>2 DEF IInv, TypeOK
    <3> QED
      BY <1>1, <1>4, <2>2, <3>1, <3>2
  <2> QED
    BY <2>1, <2>2
<1>7. ASSUME NEW c \in Buses, gate'[c] = NoTask
      PROVE  enters'[c] = 0
  BY <1>3, <1>4, <1>5, <1>7 DEF GateInv
<1>8. ASSUME NEW c \in Buses, NEW u \in Tasks, gate'[c] = u
      PROVE  call'[u].bus = c /\ Entries(u)' > 0 /\ enters'[c] = Entries(u)'
  <2>1. CASE c = b
    BY <1>2, <1>5, <1>8, <2>1
  <2>2. CASE c # b
    BY <1>1, <1>3, <1>4, <1>8, <2>2 DEF GateInv
  <2> QED
    BY <2>1, <2>2
<1> QED
  BY <1>6, <1>7, <1>8 DEF GateInv

\* What holds of one task's own state is left to it by the others.
LEMMA OtherLocal ==
  ASSUME IInv, NEW t \in Tasks, Others(t), LocalInv(t)'
  PROVE  \A u \in Tasks : LocalInv(u)'
<1> SUFFICES ASSUME NEW u \in Tasks
             PROVE  LocalInv(u)'
  OBVIOUS
<1>1. CASE u = t
  BY <1>1
<1>2. CASE u # t
  BY <1>2 DEF IInv, LocalInv, PlaceInv, AskedInv, FreshInv, Others
<1> QED
  BY <1>1, <1>2

\* A task that does not sleep in the driver moves.
LEMMA TaskStep ==
  ASSUME IInv, NEW t \in Tasks, Others(t), drv' = drv,
         pc[t] # "wait", pc'[t] # "wait",
         TypeOK', LocalInv(t)', GateInv'
  PROVE  IInv'
<1>1. \A u \in Tasks : LocalInv(u)'
  BY OtherLocal
<1>2. ASSUME NEW u \in Tasks
      PROVE  WaitInv(u)'
  BY DEF IInv, WaitInv, Others
<1>3. ASSUME NEW b \in Buses
      PROVE  DriverInv(b)'
  <2>1. DriverInv(b) /\ drv[b].mutex \in Tasks \cup {NoTask}
    BY DEF IInv, TypeOK, Driver
  <2>2. drv[b].mutex # t
    BY <2>1 DEF DriverInv
  <2>3. CASE drv[b].mutex = NoTask
    BY <2>1, <2>3 DEF DriverInv
  <2>4. CASE drv[b].mutex # NoTask
    <3>1. drv[b].mutex \in Tasks \ {t} /\ drv[b].cur = drv[b].mutex
      BY <2>1, <2>2, <2>4 DEF DriverInv
    <3> QED
      BY <2>1, <2>4, <3>1 DEF DriverInv, Others
  <2> QED
    BY <2>3, <2>4
<1> QED
  BY <1>1, <1>2, <1>3 DEF IInv

-----------------------------------------------------------------------------
(* The calls of a sketch that only touch its context.                      *)

LEMMA WriteStep ==
  ASSUME IInv, NEW t \in Tasks, Write(t)
  PROVE  IInv'
<1>1. TypeOK /\ LocalInv(t) /\ pc[t] = "sketch" /\ pc' = pc /\ drv' = drv
  BY DEF IInv, Write, InSketch
<1>2. ctx[t] \in Context /\ asked[t] \in Txn
  BY <1>1 DEF TypeOK
<1>3. ctx[t].txW \in 0 .. B - 1 /\ ctx[t].txW + 1 \in 0 .. B - 1
  BY <1>2, NextCell DEF Write, Context
<1>4. /\ ctx'[t] = [ctx[t] EXCEPT !.txW = @ + 1, !.writes = ctx[t].txW + 1]
      /\ asked'[t] = [asked[t] EXCEPT !.n = @ + 1]
  BY <1>1 DEF TypeOK, Write
<1>5. asked[t].n = ctx[t].txW
  BY <1>1 DEF LocalInv, AskedInv
<1>6. ctx'[t] \in Context
  BY <1>2, <1>3, <1>4 DEF Context
<1>7. asked'[t] \in Txn
  BY <1>2, <1>3, <1>4, <1>5 DEF Txn
<1>8. TypeOK'
  <2>1. ctx' \in [Tasks -> Context]
    BY <1>1, <1>6 DEF TypeOK, Write
  <2>2. asked' \in [Tasks -> Txn]
    BY <1>1, <1>7 DEF TypeOK, Write
  <2> QED
    BY <1>1, <2>1, <2>2 DEF TypeOK, Write, locking
<1>9. LocalInv(t)'
  <2>1. /\ ctx'[t].txW = ctx[t].txW + 1 /\ ctx'[t].writes = ctx[t].txW + 1
        /\ ctx'[t].addr = ctx[t].addr /\ ctx'[t].reads = ctx[t].reads
        /\ ctx'[t].rxR = ctx[t].rxR /\ ctx'[t].rxW = ctx[t].rxW
    BY <1>2, <1>4 DEF Context
  <2>2. /\ asked'[t].n = ctx[t].txW + 1
        /\ asked'[t].q = asked[t].q /\ asked'[t].dev = asked[t].dev
    BY <1>2, <1>4, <1>5 DEF Txn
  <2>3. call' = call /\ open' = open /\ fresh' = fresh
    BY DEF Write
  <2>4. PlaceInv(t)'
    BY <1>1, <2>3 DEF LocalInv, PlaceInv
  <2>5. AskedInv(t)'
    BY <1>1, <2>1, <2>2, <2>3 DEF LocalInv, AskedInv, Busy
  <2>6. FreshInv(t)'
    BY <1>1, <2>1, <2>3 DEF LocalInv, FreshInv
  <2> QED
    BY <2>4, <2>5, <2>6 DEF LocalInv
<1>10. Others(t)
  BY <1>1 DEF Others, Write, TypeOK
<1>11. GateInv'
  BY <1>10, SameGate DEF Entries, Write
<1> QED
  BY <1>1, <1>8, <1>9, <1>10, <1>11, TaskStep

LEMMA FlushStep ==
  ASSUME IInv, Disciplined, NEW t \in Tasks, Flush(t)
  PROVE  IInv'
<1>1. TypeOK /\ LocalInv(t) /\ pc[t] = "sketch" /\ pc' = pc /\ drv' = drv /\ call' = call /\ open' = open
  BY DEF IInv, Flush, InSketch
<1>2. ctx[t] \in Context /\ asked[t] \in Txn
  BY <1>1 DEF TypeOK
<1>3. ctx[t].txW = 0 /\ ctx[t].writes = 0 /\ asked[t].n = 0
  BY <1>1 DEF Flush, Disciplined, LocalInv, AskedInv
<1>4. /\ ctx'[t] = [ctx[t] EXCEPT !.txW = 0, !.rxR = ctx[t].rxW]
      /\ asked'[t] = [asked[t] EXCEPT !.n = 0]
      /\ fresh'[t] = 0
  BY <1>1 DEF TypeOK, Flush
<1>5. ctx[t].rxW \in 0 .. B - 1
  BY <1>1, <1>2 DEF LocalInv, FreshInv, Context
<1>6. ctx'[t] \in Context
  <2>1. 0 \in 0 .. B - 1
    BY SMT
  <2> QED
    BY <1>2, <1>4, <1>5, <2>1 DEF Context
<1>7. asked'[t] \in Txn
  BY <1>2, <1>4 DEF Txn
<1>8. TypeOK'
  <2>1. ctx' \in [Tasks -> Context]
    BY <1>1, <1>6 DEF TypeOK, Flush
  <2>2. asked' \in [Tasks -> Txn]
    BY <1>1, <1>7 DEF TypeOK, Flush
  <2>3. fresh' \in [Tasks -> -1 .. B]
    BY <1>1 DEF TypeOK, Flush
  <2> QED
    BY <1>1, <2>1, <2>2, <2>3 DEF TypeOK, Flush, locking
<1>9. LocalInv(t)'
  <2>1. /\ ctx'[t].txW = 0 /\ ctx'[t].writes = 0
        /\ ctx'[t].addr = ctx[t].addr /\ ctx'[t].reads = ctx[t].reads
        /\ ctx'[t].rxR = ctx[t].rxW /\ ctx'[t].rxW = ctx[t].rxW
    BY <1>2, <1>3, <1>4 DEF Context
  <2>2. asked'[t].n = 0 /\ asked'[t].q = asked[t].q /\ asked'[t].dev = asked[t].dev
    BY <1>2, <1>4 DEF Txn
  <2>4. PlaceInv(t)'
    BY <1>1 DEF LocalInv, PlaceInv
  <2>5. AskedInv(t)'
    BY <1>1, <2>1, <2>2 DEF LocalInv, AskedInv, Busy
  <2>6. FreshInv(t)'
    BY <1>1, <1>4, <1>5, <2>1 DEF LocalInv, FreshInv
  <2> QED
    BY <2>4, <2>5, <2>6 DEF LocalInv
<1>10. Others(t)
  BY <1>1 DEF Others, Flush, TypeOK
<1>11. GateInv'
  BY <1>10, SameGate DEF Entries, Flush
<1> QED
  BY <1>1, <1>8, <1>9, <1>10, <1>11, TaskStep

LEMMA ReadStep ==
  ASSUME IInv, NEW t \in Tasks, Read(t)
  PROVE  IInv'
<1>1. /\ TypeOK /\ LocalInv(t) /\ pc[t] = "sketch" /\ pc' = pc /\ drv' = drv /\ call' = call
      /\ open' = open /\ asked' = asked
  BY DEF IInv, Read, InSketch
<1>2. ctx[t] \in Context /\ fresh[t] \in -1 .. B
  BY <1>1 DEF TypeOK
<1>3. ctx[t].rxR \in 0 .. B - 1 /\ ctx[t].rxW \in 0 .. B - 1 /\ ctx[t].rxR + 1 <= ctx[t].rxW
  BY <1>1, <1>2 DEF LocalInv, FreshInv, Context, Read
<1>4. ctx'[t] = [ctx[t] EXCEPT !.rxR = ctx[t].rxR + 1]
  <2>1. ((ctx[t].rxR + 1) % B) = ctx[t].rxR + 1
    BY <1>3, StepCell
  <2> QED
    BY <1>1, <2>1 DEF TypeOK, Read
<1>5. fresh'[t] = IF fresh[t] = -1 THEN -1 ELSE fresh[t] - 1
  BY <1>1 DEF TypeOK, Read
<1>6. ctx'[t] \in Context
  BY <1>2, <1>3, <1>4 DEF Context
<1>7. fresh'[t] \in -1 .. B
  BY <1>2, <1>5
<1>8. TypeOK'
  <2>1. ctx' \in [Tasks -> Context]
    BY <1>1, <1>6 DEF TypeOK, Read
  <2>2. fresh' \in [Tasks -> -1 .. B]
    BY <1>1, <1>7 DEF TypeOK, Read
  <2> QED
    BY <1>1, <2>1, <2>2 DEF TypeOK, Read, locking
<1>9. LocalInv(t)'
  <2>1. /\ ctx'[t].txW = ctx[t].txW /\ ctx'[t].writes = ctx[t].writes
        /\ ctx'[t].addr = ctx[t].addr /\ ctx'[t].reads = ctx[t].reads
        /\ ctx'[t].rxR = ctx[t].rxR + 1 /\ ctx'[t].rxW = ctx[t].rxW
    BY <1>2, <1>4 DEF Context
  <2>4. PlaceInv(t)'
    BY <1>1 DEF LocalInv, PlaceInv
  <2>5. AskedInv(t)'
    BY <1>1, <2>1 DEF LocalInv, AskedInv, Busy
  <2>6. FreshInv(t)'
    BY <1>1, <1>2, <1>3, <1>5, <2>1 DEF LocalInv, FreshInv
  <2> QED
    BY <2>4, <2>5, <2>6 DEF LocalInv
<1>10. Others(t)
  BY <1>1 DEF Others, Read, TypeOK
<1>11. GateInv'
  BY <1>1, <1>10, SameGate DEF Entries, Read
<1> QED
  BY <1>1, <1>8, <1>9, <1>10, <1>11, TaskStep

-----------------------------------------------------------------------------
(* The calls of a sketch that enter the library.                           *)

LEMMA BeginStep ==
  ASSUME IInv, Disciplined, NEW t \in Tasks, NEW b \in Buses, NEW d \in Devices,
         BeginTransmission(t, b, d)
  PROVE  IInv'
<1>1. /\ TypeOK /\ LocalInv(t) /\ pc[t] = "sketch" /\ ~open[t] /\ drv' = drv /\ ctx' = ctx
      /\ fresh' = fresh /\ UNCHANGED locking
  BY DEF IInv, BeginTransmission, MayBegin, InSketch
<1>2. ctx[t] \in Context /\ call[t] \in [bus : Buses, end : BOOLEAN, stop : BOOLEAN, ok : BOOLEAN]
  BY <1>1 DEF TypeOK
<1>3. /\ call'[t] = [call[t] EXCEPT !.bus = b, !.end = FALSE]
      /\ open'[t] = TRUE /\ pc'[t] = "gate"
      /\ asked'[t] = [dev |-> d, n |-> ctx[t].writes, q |-> 0]
  BY <1>1 DEF TypeOK, BeginTransmission, Goto
<1>4. call'[t].end = FALSE /\ call'[t].ok = call[t].ok
  BY <1>2, <1>3
<1>5. TypeOK'
  <2>1. call' \in [Tasks -> [bus : Buses, end : BOOLEAN, stop : BOOLEAN, ok : BOOLEAN]]
    BY <1>1, <1>2 DEF TypeOK, BeginTransmission
  <2>2. [dev |-> d, n |-> ctx[t].writes, q |-> 0] \in Txn
    BY <1>2 DEF Txn, Context
  <2>3. asked' \in [Tasks -> Txn]
    BY <1>1, <2>2 DEF TypeOK, BeginTransmission
  <2>4. open' \in [Tasks -> BOOLEAN]
    BY <1>1 DEF TypeOK, BeginTransmission
  <2>5. pc' \in [Tasks -> {"sketch", "gate", "transfer", "mutex", "wait", "finish"}]
    BY <1>1 DEF TypeOK, BeginTransmission, Goto
  <2> QED
    BY <1>1, <2>1, <2>3, <2>4, <2>5 DEF TypeOK, locking
<1>6. LocalInv(t)'
  <2>1. PlaceInv(t)'
    BY <1>3, <1>4 DEF PlaceInv, Busy
  <2>2. AskedInv(t)'
    <3>1. ctx[t].idle \/ ctx[t].addr = d
      BY DEF BeginTransmission, MayBegin, Disciplined
    <3>2. asked'[t].dev = d /\ asked'[t].n = ctx[t].writes /\ asked'[t].q = 0
      BY <1>3
    <3> QED
      BY <1>1, <1>3, <3>1, <3>2 DEF LocalInv, AskedInv, Busy
  <2>3. FreshInv(t)'
    BY <1>1, <1>3, <1>4 DEF LocalInv, FreshInv
  <2> QED
    BY <2>1, <2>2, <2>3 DEF LocalInv
<1>7. Others(t)
  BY <1>1 DEF Others, BeginTransmission, TypeOK, Goto
<1>8. Entries(t) = 0 /\ Entries(t)' = 0
  BY <1>1, <1>3, <1>4 DEF Entries, Busy
<1>9. GateInv'
  BY <1>1, <1>7, <1>8, SameGate
<1> QED
  BY <1>1, <1>3, <1>5, <1>6, <1>7, <1>9, TaskStep

Call == [bus : Buses, end : BOOLEAN, stop : BOOLEAN, ok : BOOLEAN]

LEMMA RequestStep ==
  ASSUME IInv, Disciplined, NEW t \in Tasks, NEW b \in Buses, NEW d \in Devices,
         NEW q \in 1 .. MaxRequest, NEW stop \in BOOLEAN,
         RequestFrom(t, b, d, q, stop)
  PROVE  IInv'
<1>1. /\ TypeOK /\ LocalInv(t) /\ pc[t] = "sketch" /\ drv' = drv /\ ctx' = ctx
      /\ fresh' = fresh /\ open' = open /\ UNCHANGED locking
  BY DEF IInv, RequestFrom, MayBegin, InSketch
<1>2. ctx[t] \in Context /\ call[t] \in Call /\ asked[t] \in Txn
  BY <1>1 DEF TypeOK, Call
<1>3. /\ call'[t] = [call[t] EXCEPT !.bus = b, !.end = TRUE, !.stop = stop]
      /\ pc'[t] = "gate"
      /\ asked'[t] = [asked[t] EXCEPT !.dev = d, !.q = q]
  BY <1>1 DEF TypeOK, RequestFrom, Goto
<1>4. call'[t].end = TRUE /\ call'[t].ok = call[t].ok /\ call'[t].bus = b
  BY <1>2, <1>3 DEF Call
<1>5. q \in 0 .. B - 1 /\ q \in 0 .. B
  BY DEF Disciplined
<1>6. TypeOK'
  <2>1. call' \in [Tasks -> Call]
    BY <1>1, <1>2 DEF TypeOK, RequestFrom, Call
  <2>2. asked'[t] \in Txn
    BY <1>2, <1>3, <1>5 DEF Txn
  <2>3. asked' \in [Tasks -> Txn]
    BY <1>1, <2>2 DEF TypeOK, RequestFrom
  <2>4. pc' \in [Tasks -> {"sketch", "gate", "transfer", "mutex", "wait", "finish"}]
    BY <1>1 DEF TypeOK, RequestFrom, Goto
  <2> QED
    BY <1>1, <2>1, <2>3, <2>4 DEF TypeOK, locking, Call
<1>7. LocalInv(t)'
  <2>1. PlaceInv(t)'
    BY <1>3, <1>4 DEF PlaceInv, Busy
  <2>2. AskedInv(t)'
    <3>1. ctx[t].idle \/ ctx[t].addr = d
      BY <1>1 DEF RequestFrom, MayBegin, Disciplined, LocalInv, AskedInv
    <3>2. asked'[t].dev = d /\ asked'[t].n = asked[t].n /\ asked'[t].q = q
      BY <1>2, <1>3 DEF Txn
    <3> QED
      BY <1>1, <1>3, <1>4, <1>5, <3>1, <3>2 DEF LocalInv, AskedInv, Busy
  <2>3. FreshInv(t)'
    BY <1>1, <1>3, <1>4 DEF LocalInv, FreshInv
  <2> QED
    BY <2>1, <2>2, <2>3 DEF LocalInv
<1>8. Others(t)
  BY <1>1 DEF Others, RequestFrom, TypeOK, Goto
<1>9. Entries(t)' = Entries(t)
  BY <1>1, <1>3, <1>4 DEF Entries, Busy
<1>10. Entries(t) > 0 => call'[t].bus = call[t].bus
  BY <1>1, <1>4 DEF Entries, Busy, RequestFrom, MayBegin
<1>11. GateInv'
  BY <1>1, <1>8, <1>9, <1>10, SameGate
<1> QED
  BY <1>1, <1>3, <1>6, <1>7, <1>8, <1>11, TaskStep

LEMMA EndStep ==
  ASSUME IInv, NEW t \in Tasks, NEW stop \in BOOLEAN, EndTransmission(t, stop)
  PROVE  IInv'
<1>1. /\ TypeOK /\ LocalInv(t) /\ pc[t] = "sketch" /\ open[t] /\ drv' = drv /\ ctx' = ctx
      /\ fresh' = fresh /\ asked' = asked /\ UNCHANGED locking
  BY DEF IInv, EndTransmission, InSketch
<1>2. call[t] \in Call
  BY <1>1 DEF TypeOK, Call
<1>3. /\ call'[t] = [call[t] EXCEPT !.stop = stop]
      /\ open'[t] = FALSE /\ pc'[t] = "transfer"
  BY <1>1 DEF TypeOK, EndTransmission, Goto
<1>4. call'[t].end = call[t].end /\ ~call[t].end /\ call'[t].ok = call[t].ok /\ call'[t].bus = call[t].bus
  BY <1>1, <1>2, <1>3 DEF Call, LocalInv, PlaceInv
<1>5. TypeOK'
  <2>1. call' \in [Tasks -> Call]
    BY <1>1, <1>2 DEF TypeOK, EndTransmission, Call
  <2>2. open' \in [Tasks -> BOOLEAN]
    BY <1>1 DEF TypeOK, EndTransmission
  <2>3. pc' \in [Tasks -> {"sketch", "gate", "transfer", "mutex", "wait", "finish"}]
    BY <1>1 DEF TypeOK, EndTransmission, Goto
  <2> QED
    BY <1>1, <2>1, <2>2, <2>3 DEF TypeOK, locking, Call
<1>6. LocalInv(t)'
  <2>1. PlaceInv(t)'
    BY <1>3, <1>4 DEF PlaceInv, Busy
  <2>2. AskedInv(t)'
    BY <1>1, <1>3, <1>4 DEF LocalInv, AskedInv, Busy
  <2>3. FreshInv(t)'
    BY <1>1, <1>3, <1>4 DEF LocalInv, FreshInv
  <2> QED
    BY <2>1, <2>2, <2>3 DEF LocalInv
<1>7. Others(t)
  BY <1>1 DEF Others, EndTransmission, TypeOK, Goto
<1>8. Entries(t)' = Entries(t)
  BY <1>1, <1>3, <1>4 DEF Entries, Busy
<1>9. GateInv'
  BY <1>1, <1>4, <1>7, <1>8, SameGate
<1> QED
  BY <1>1, <1>3, <1>5, <1>6, <1>7, <1>9, TaskStep

LEMMA TransferStep ==
  ASSUME IInv, NEW t \in Tasks, Transfer(t)
  PROVE  IInv'
<1>1. /\ TypeOK /\ LocalInv(t) /\ pc[t] = "transfer" /\ open' = open /\ drv' = drv /\ ctx' = ctx
      /\ asked' = asked /\ UNCHANGED locking
  BY DEF IInv, Transfer
<1>2. call[t] \in Call /\ ctx[t] \in Context
  BY <1>1 DEF TypeOK, Call
<1>3. /\ call'[t] = [call[t] EXCEPT !.ok = FALSE]
      /\ fresh'[t] = 0
      /\ pc'[t] \in {"mutex", "finish"}
      /\ pc'[t] = "mutex" => ~(ctx[t].writes = 0 /\ ctx[t].reads = 0)
  BY <1>1 DEF TypeOK, Transfer, Goto
<1>4. call'[t].end = call[t].end /\ call'[t].ok = FALSE /\ call'[t].bus = call[t].bus
  BY <1>2, <1>3 DEF Call
<1>5. TypeOK'
  <2>1. call' \in [Tasks -> Call]
    BY <1>1, <1>2 DEF TypeOK, Transfer, Call
  <2>2. fresh' \in [Tasks -> -1 .. B]
    BY <1>1 DEF TypeOK, Transfer
  <2>3. pc' \in [Tasks -> {"sketch", "gate", "transfer", "mutex", "wait", "finish"}]
    BY <1>1 DEF TypeOK, Transfer, Goto
  <2> QED
    BY <1>1, <2>1, <2>2, <2>3 DEF TypeOK, locking, Call
<1>6. LocalInv(t)'
  <2>1. PlaceInv(t)'
    BY <1>1, <1>2, <1>3, <1>4 DEF LocalInv, PlaceInv, Busy, Context
  <2>2. AskedInv(t)'
    BY <1>1, <1>3, <1>4 DEF LocalInv, AskedInv, Busy
  <2>3. FreshInv(t)'
    BY <1>1, <1>3, <1>4 DEF LocalInv, FreshInv
  <2> QED
    BY <2>1, <2>2, <2>3 DEF LocalInv
<1>7. Others(t)
  BY <1>1 DEF Others, Transfer, TypeOK, Goto
<1>8. Entries(t)' = Entries(t)
  BY <1>1, <1>3, <1>4 DEF Entries, Busy
<1>9. GateInv'
  BY <1>1, <1>4, <1>7, <1>8, SameGate
<1> QED
  BY <1>1, <1>3, <1>5, <1>6, <1>7, <1>9, TaskStep

LEMMA CountUp == \A x \in 0 .. 2 : ((x + 1) % 256) = x + 1
  BY SMT

LEMMA EnterStep ==
  ASSUME IInv, NEW t \in Tasks, EnterGate(t)
  PROVE  IInv'
<1> DEFINE b == call[t].bus
<1>1. /\ TypeOK /\ LocalInv(t) /\ GateInv /\ pc[t] = "gate" /\ open' = open /\ drv' = drv
      /\ call' = call /\ asked' = asked /\ fresh' = fresh /\ gate[b] \in {NoTask, t}
  BY DEF IInv, EnterGate, ghosts
<1>2. ctx[t] \in Context /\ asked[t] \in Txn /\ b \in Buses /\ call[t].end \in BOOLEAN
  BY <1>1 DEF TypeOK
<1>3. /\ ctx'[t] = [OpenContext(ctx[t], asked[t].dev) EXCEPT !.reads = asked[t].q]
      /\ pc'[t] = IF call[t].end THEN "transfer" ELSE "sketch"
  BY <1>1 DEF TypeOK, EnterGate, Goto
<1>4. ctx'[t] \in Context
  BY <1>2, <1>3 DEF Context, Txn, OpenContext
<1>5. Others(t)
  BY <1>1 DEF Others, EnterGate, TypeOK, Goto
<1>6. Entries(t)' = Entries(t) + 1 /\ enters[b] = Entries(t)
  <2>1. Entries(t)' = Entries(t) + 1
    BY <1>1, <1>3 DEF Entries, Busy, LocalInv, PlaceInv
  <2>2. Entries(t) \in 0 .. 2
    BY EntriesRange
  <2>3. CASE gate[b] = t
    BY <1>1, <1>2, <2>1, <2>3 DEF GateInv
  <2>4. CASE gate[b] = NoTask
    <3>1. NoTask # t
      OBVIOUS
    <3>2. ~(Entries(t) > 0)
      BY <1>1, <2>4, <3>1 DEF GateInv
    <3> QED
      BY <1>1, <1>2, <2>1, <2>2, <2>4, <3>2 DEF GateInv
  <2> QED
    BY <1>1, <2>1, <2>3, <2>4
<1>7. /\ enters' = [enters EXCEPT ![b] = Entries(t)']
      /\ gate' = [gate EXCEPT ![b] = IF Entries(t)' = 0 THEN NoTask ELSE t]
  <2>1. Entries(t) \in 0 .. 2
    BY EntriesRange
  <2>2. ((Entries(t) + 1) % 256) = Entries(t) + 1
    BY <2>1, CountUp
  <2>3. Entries(t)' # 0
    BY <1>6, <2>1
  <2> HIDE DEF Entries
  <2> QED
    BY <1>6, <2>2, <2>3 DEF EnterGate
<1>8. GateInv'
  BY <1>1, <1>2, <1>5, <1>7, GateStep
<1>9. TypeOK'
  <2>1. ctx' \in [Tasks -> Context]
    BY <1>1, <1>4 DEF TypeOK, EnterGate
  <2>2. Entries(t)' \in 0 .. 255
    BY <1>6, EntriesRange
  <2>3. enters' \in [Buses -> 0 .. 255] /\ gate' \in [Buses -> Tasks \cup {NoTask}]
    BY <1>1, <1>7, <2>2 DEF TypeOK
  <2>4. pc' \in [Tasks -> {"sketch", "gate", "transfer", "mutex", "wait", "finish"}]
    BY <1>1 DEF TypeOK, EnterGate, Goto
  <2> QED
    BY <1>1, <2>1, <2>3, <2>4 DEF TypeOK
<1>10. LocalInv(t)'
  <2>1. /\ ctx'[t].txW = ctx[t].txW /\ ctx'[t].writes = ctx[t].writes
        /\ ctx'[t].addr = IF ctx[t].idle THEN asked[t].dev ELSE ctx[t].addr
        /\ ctx'[t].reads = asked[t].q
        /\ ctx'[t].rxR = ctx[t].rxR /\ ctx'[t].rxW = ctx[t].rxW
    BY <1>2, <1>3 DEF Context, OpenContext
  <2>2. PlaceInv(t)'
    BY <1>1, <1>3 DEF LocalInv, PlaceInv, Busy
  <2>3. AskedInv(t)'
    BY <1>1, <1>3, <2>1 DEF LocalInv, AskedInv, Busy
  <2>4. FreshInv(t)'
    BY <1>1, <1>3, <2>1 DEF LocalInv, FreshInv
  <2> QED
    BY <2>2, <2>3, <2>4 DEF LocalInv
<1>11. pc'[t] # "wait"
  BY <1>3
<1> QED
  BY <1>1, <1>5, <1>8, <1>9, <1>10, <1>11, TaskStep

LEMMA FinishStep ==
  ASSUME IInv, NEW t \in Tasks, Finish(t)
  PROVE  IInv'
<1> DEFINE b == call[t].bus
<1>1. /\ TypeOK /\ LocalInv(t) /\ GateInv /\ pc[t] = "finish" /\ open' = open /\ drv' = drv
      /\ fresh' = fresh
  BY DEF IInv, Finish
<1>2. /\ ctx[t] \in Context /\ asked[t] \in Txn /\ call[t] \in Call /\ b \in Buses
      /\ call[t].end \in BOOLEAN /\ call[t].stop \in BOOLEAN
  BY <1>1 DEF TypeOK, Call
<1>3. /\ ctx'[t] = Emptied(ctx[t], call[t].stop)
      /\ asked'[t] = IF open[t] THEN [asked[t] EXCEPT !.n = 0, !.q = 0] ELSE Nothing
      /\ call'[t] = [call[t] EXCEPT !.end = FALSE, !.stop = TRUE]
      /\ pc'[t] = "sketch"
  BY <1>1 DEF TypeOK, Finish, Goto
<1>4. call'[t].end = FALSE /\ call'[t].ok = call[t].ok /\ call'[t].bus = b
  BY <1>2, <1>3 DEF Call
<1>5. Others(t)
  BY <1>1 DEF Others, Finish, TypeOK, Goto
<1>6. gate[b] = t /\ Entries(t) = Entries(t)' + 1 /\ enters[b] = Entries(t)
  <2>1. Entries(t) > 0 /\ Entries(t) = Entries(t)' + 1
    BY <1>1, <1>3, <1>4 DEF Entries, Busy, LocalInv, PlaceInv
  <2> QED
    BY <1>1, <1>2, <2>1 DEF GateInv
<1>7. Entries(t)' \in 0 .. 2
  BY DEF Entries
<1>8. /\ enters' = [enters EXCEPT ![b] = Entries(t)']
      /\ gate' = [gate EXCEPT ![b] = IF Entries(t)' = 0 THEN NoTask ELSE t]
  <2> HIDE DEF Entries
  <2>1. enters[b] - 1 = Entries(t)'
    BY <1>6, <1>7
  <2> QED
    BY <1>6, <2>1 DEF Finish
<1>9. GateInv'
  BY <1>1, <1>2, <1>4, <1>5, <1>6, <1>8, GateStep
<1>10. /\ ctx'[t].txW = 0 /\ ctx'[t].writes = 0 /\ ctx'[t].addr = ctx[t].addr
       /\ ctx'[t].reads = 0 /\ ctx'[t].rxR = 0 /\ ctx'[t].rxW = ctx[t].reads
  BY <1>2, <1>3 DEF Context, Emptied
<1>11. asked'[t] \in Txn /\ asked'[t].n = 0 /\ asked'[t].q = 0
  BY <1>2, <1>3, Nobody DEF Txn
<1>12. ctx[t].reads \in 0 .. B - 1
  BY <1>1, <1>2 DEF LocalInv, AskedInv, Busy, Txn
<1>13. TypeOK'
  <2>1. 0 \in 0 .. B - 1 /\ 0 \in 0 .. B /\ ctx[t].reads \in 0 .. B
    BY <1>12
  <2>2. (ctx[t].idle \/ call[t].stop) \in BOOLEAN
    OBVIOUS
  <2>3. Emptied(ctx[t], call[t].stop) \in Context
    BY <1>2, <2>1, <2>2 DEF Context, Emptied
  <2>4. ctx' \in [Tasks -> Context]
    BY <1>1, <2>3 DEF TypeOK, Finish
  <2>5. enters' \in [Buses -> 0 .. 255] /\ gate' \in [Buses -> Tasks \cup {NoTask}]
    BY <1>1, <1>7, <1>8 DEF TypeOK
  <2>6. pc' \in [Tasks -> {"sketch", "gate", "transfer", "mutex", "wait", "finish"}]
    BY <1>1 DEF TypeOK, Finish, Goto
  <2>7. call' \in [Tasks -> Call]
    BY <1>1, <1>2 DEF TypeOK, Finish, Call
  <2>8. asked' \in [Tasks -> Txn]
    BY <1>1, <1>3, <1>11 DEF TypeOK, Finish
  <2> QED
    BY <1>1, <2>4, <2>5, <2>6, <2>7, <2>8 DEF TypeOK, Call
<1>14. LocalInv(t)'
  <2>1. PlaceInv(t)'
    BY <1>3, <1>4 DEF PlaceInv, Busy
  <2>2. open[t] => asked'[t].dev = asked[t].dev
    BY <1>2, <1>3 DEF Txn
  <2>3. AskedInv(t)'
    BY <1>1, <1>3, <1>4, <1>10, <1>11, <2>2 DEF LocalInv, AskedInv, Busy
  <2>4. FreshInv(t)'
    BY <1>1, <1>3, <1>4, <1>10, <1>12 DEF LocalInv, FreshInv
  <2> QED
    BY <2>1, <2>3, <2>4 DEF LocalInv
<1>15. pc'[t] # "wait"
  BY <1>3
<1> QED
  BY <1>1, <1>5, <1>9, <1>13, <1>14, <1>15, TaskStep

-----------------------------------------------------------------------------
(* The task takes the driver and leaves it.                                *)

LEMMA PrimeStep ==
  ASSUME IInv, NEW t \in Tasks, Prime(t)
  PROVE  IInv'
<1> DEFINE b == call[t].bus
<1>1. /\ TypeOK /\ LocalInv(t) /\ pc[t] = "mutex" /\ drv[b].mutex = NoTask
      /\ ctx' = ctx /\ call' = call /\ open' = open /\ asked' = asked /\ fresh' = fresh
      /\ UNCHANGED locking
  BY DEF IInv, Prime, ghosts
<1>2. ctx[t] \in Context /\ b \in Buses /\ drv[b] \in Driver
  BY <1>1 DEF TypeOK
<1>3. DriverInv(b) /\ drv[b].on \in BOOLEAN /\ drv[b].done = 0 /\ drv[b].held = 0
  BY <1>1, <1>2 DEF IInv, DriverInv, Driver
<1>4. /\ pc'[t] = "wait"
      /\ drv'[b] = [drv[b] EXCEPT !.mutex = t, !.cur = t, !.held = @ + 1,
                      !.w = ctx[t].writes, !.r = ctx[t].reads, !.on = TRUE,
                      !.mode = IF ctx[t].writes # 0 THEN "write" ELSE "read"]
      /\ \A c \in Buses \ {b} : drv'[c] = drv[c]
  BY <1>1, <1>2 DEF TypeOK, Prime, Goto
<1>5. /\ drv'[b].mutex = t /\ drv'[b].cur = t /\ drv'[b].held = 1 /\ drv'[b].on = TRUE
      /\ drv'[b].w = ctx[t].writes /\ drv'[b].r = ctx[t].reads /\ drv'[b].done = 0
      /\ drv'[b].mode = IF ctx[t].writes # 0 THEN "write" ELSE "read"
  BY <1>2, <1>3, <1>4 DEF Driver
<1>6. TypeOK'
  <2>1. drv'[b] \in Driver
    <3>1. /\ ctx[t].writes \in 0 .. B - 1 /\ ctx[t].reads \in 0 .. B
          /\ drv[b].held + 1 \in Int
          /\ (IF ctx[t].writes # 0 THEN "write" ELSE "read") \in {"idle", "write", "read", "error"}
      BY <1>2, <1>3 DEF Context
    <3>2. t \in Tasks \cup {NoTask} /\ TRUE \in BOOLEAN
      OBVIOUS
    <3> HIDE DEF b
    <3> QED
      BY <1>2, <1>4, <3>1, <3>2 DEF Driver
  <2>2. drv' \in [Buses -> Driver]
    <3>1. drv' = [c \in Buses |-> drv'[c]]
      BY <1>1, <1>2 DEF TypeOK, Prime
    <3>2. \A c \in Buses : drv'[c] \in Driver
      BY <1>1, <1>4, <2>1 DEF TypeOK
    <3> QED
      BY <3>1, <3>2
  <2>3. pc' \in [Tasks -> {"sketch", "gate", "transfer", "mutex", "wait", "finish"}]
    BY <1>1 DEF TypeOK, Prime, Goto
  <2> QED
    BY <1>1, <2>2, <2>3 DEF TypeOK, locking
<1>7. Others(t)
  BY <1>1 DEF Others, Prime, TypeOK, Goto
<1>8. LocalInv(t)'
  <2>1. PlaceInv(t)'
    BY <1>1, <1>4 DEF LocalInv, PlaceInv, Busy
  <2>2. AskedInv(t)'
    BY <1>1, <1>4 DEF LocalInv, AskedInv, Busy
  <2>3. FreshInv(t)'
    BY <1>1, <1>4 DEF LocalInv, FreshInv
  <2> QED
    BY <2>1, <2>2, <2>3 DEF LocalInv
<1>9. \A u \in Tasks : LocalInv(u)'
  BY <1>7, <1>8, OtherLocal
<1>10. GateInv'
  <2>1. Entries(t)' = Entries(t)
    BY <1>1, <1>4 DEF Entries, Busy
  <2> QED
    BY <1>1, <1>7, <2>1, SameGate
<1>11. ASSUME NEW u \in Tasks
       PROVE  WaitInv(u)'
  <2>1. CASE u = t
    BY <1>1, <1>5, <2>1 DEF WaitInv
  <2>2. CASE u # t
    <3>1. WaitInv(u) /\ call[u].bus \in Buses /\ NoTask # u
      BY DEF IInv, TypeOK
    <3> QED
      BY <1>1, <1>4, <1>7, <2>2, <3>1 DEF WaitInv, Others
  <2> QED
    BY <2>1, <2>2
<1>12. ASSUME NEW c \in Buses
       PROVE  DriverInv(c)'
  <2>1. CASE c = b
    <3>1. ctx[t].writes > 0 \/ ctx[t].reads > 0
      BY <1>1 DEF LocalInv, PlaceInv
    <3>2. fresh[t] = 0 /\ ctx[t].writes \in Nat /\ ctx[t].reads \in Nat
      BY <1>1, <1>2 DEF LocalInv, FreshInv, Context
    <3>3. t # NoTask
      OBVIOUS
    <3>4. /\ drv'[b].mode \in {"write", "read"}
          /\ drv'[b].w > 0 \/ drv'[b].r > 0
          /\ drv'[b].mode = "read" => drv'[b].r > 0
      BY <1>5, <3>1, <3>2
    <3>5. fresh'[t] >= 0 /\ fresh'[t] + drv'[b].r = ctx'[t].reads
      BY <1>1, <1>5, <3>2
    <3> QED
      BY <1>1, <1>4, <1>5, <2>1, <3>3, <3>4, <3>5 DEF DriverInv
  <2>2. CASE c # b
    <3>1. DriverInv(c) /\ drv'[c] = drv[c] /\ drv[c].mutex \in Tasks \cup {NoTask}
      BY <1>4, <2>2 DEF IInv, TypeOK, Driver
    <3>2. drv[c].mutex # t
      BY <1>1, <3>1 DEF DriverInv
    <3>3. drv[c].mutex = NoTask \/ pc'[drv[c].mutex] = pc[drv[c].mutex]
      BY <1>7, <3>1, <3>2 DEF Others
    <3> QED
      BY <1>1, <3>1, <3>3 DEF DriverInv
  <2> QED
    BY <2>1, <2>2
<1> QED
  BY <1>6, <1>9, <1>10, <1>11, <1>12 DEF IInv

LEMMA WaitStep ==
  ASSUME IInv, NEW t \in Tasks, Wait(t)
  PROVE  IInv'
<1> DEFINE b == call[t].bus
<1>1. /\ TypeOK /\ LocalInv(t) /\ pc[t] = "wait" /\ drv[b].mutex = t /\ drv[b].done = 1
      /\ ctx' = ctx /\ open' = open /\ asked' = asked /\ fresh' = fresh
      /\ UNCHANGED locking
  BY DEF IInv, Wait, WaitInv, ghosts
<1>2. ctx[t] \in Context /\ b \in Buses /\ drv[b] \in Driver /\ call[t] \in Call
  BY <1>1 DEF TypeOK, Call
<1>3. DriverInv(b) /\ drv[b].on \in BOOLEAN /\ drv[b].on = FALSE /\ drv[b].held = 0
  BY <1>1, <1>2 DEF IInv, DriverInv, Driver
<1>4. /\ pc'[t] = "finish"
      /\ call'[t] = [call[t] EXCEPT !.ok = (drv[b].mode = "idle")]
      /\ drv'[b] = [drv[b] EXCEPT !.done = 0, !.mutex = NoTask]
      /\ \A c \in Buses \ {b} : drv'[c] = drv[c]
  BY <1>1, <1>2 DEF TypeOK, Wait, Goto
<1>5. /\ drv'[b].mutex = NoTask /\ drv'[b].on = FALSE /\ drv'[b].held = 0 /\ drv'[b].done = 0
      /\ call'[t].bus = b /\ call'[t].end = call[t].end
      /\ call'[t].ok = (drv[b].mode = "idle")
  BY <1>2, <1>3, <1>4 DEF Driver, Call
<1>6. TypeOK'
  <2>1. drv'[b] \in Driver
    BY <1>2, <1>4 DEF Driver
  <2>2. drv' \in [Buses -> Driver]
    BY <1>1, <2>1 DEF TypeOK, Wait
  <2>3. pc' \in [Tasks -> {"sketch", "gate", "transfer", "mutex", "wait", "finish"}]
    BY <1>1 DEF TypeOK, Wait, Goto
  <2>4. call' \in [Tasks -> Call]
    BY <1>1, <1>2 DEF TypeOK, Wait, Call
  <2> QED
    BY <1>1, <2>2, <2>3, <2>4 DEF TypeOK, locking, Call
<1>7. Others(t)
  BY <1>1 DEF Others, Wait, TypeOK, Goto
<1>8. LocalInv(t)'
  <2>1. PlaceInv(t)'
    BY <1>1, <1>4, <1>5 DEF LocalInv, PlaceInv, Busy
  <2>2. AskedInv(t)'
    BY <1>1, <1>4, <1>5 DEF LocalInv, AskedInv, Busy
  <2>3. drv[b].mode = "idle" => ctx[t].reads <= fresh[t]
    <3>1. t # NoTask
      OBVIOUS
    <3> QED
      BY <1>1, <1>3, <3>1 DEF DriverInv
  <2>4. FreshInv(t)'
    BY <1>1, <1>4, <1>5, <2>3 DEF LocalInv, FreshInv
  <2> QED
    BY <2>1, <2>2, <2>4 DEF LocalInv
<1>9. \A u \in Tasks : LocalInv(u)'
  BY <1>7, <1>8, OtherLocal
<1>10. GateInv'
  <2>1. Entries(t)' = Entries(t)
    BY <1>1, <1>4, <1>5 DEF Entries, Busy
  <2> QED
    BY <1>1, <1>5, <1>7, <2>1, SameGate
<1>11. ASSUME NEW u \in Tasks
       PROVE  WaitInv(u)'
  <2>1. CASE u = t
    BY <1>4, <2>1 DEF WaitInv
  <2>2. CASE u # t
    <3>1. WaitInv(u) /\ call[u].bus \in Buses
      BY DEF IInv, TypeOK
    <3> QED
      BY <1>1, <1>4, <1>7, <2>2, <3>1 DEF WaitInv, Others
  <2> QED
    BY <2>1, <2>2
<1>12. ASSUME NEW c \in Buses
       PROVE  DriverInv(c)'
  <2>1. CASE c = b
    BY <1>5, <2>1 DEF DriverInv
  <2>2. CASE c # b
    <3>1. DriverInv(c) /\ drv'[c] = drv[c] /\ drv[c].mutex \in Tasks \cup {NoTask}
      BY <1>4, <2>2 DEF IInv, TypeOK, Driver
    <3>2. drv[c].mutex = NoTask \/ drv[c].mutex # t
      BY <2>2, <3>1 DEF DriverInv
    <3>3. drv[c].mutex = NoTask \/ (/\ pc'[drv[c].mutex] = pc[drv[c].mutex]
                                    /\ call'[drv[c].mutex] = call[drv[c].mutex])
      BY <1>7, <3>1, <3>2 DEF Others
    <3> QED
      BY <1>1, <3>1, <3>3 DEF DriverInv
  <2> QED
    BY <2>1, <2>2
<1> QED
  BY <1>6, <1>9, <1>10, <1>11, <1>12 DEF IInv

-----------------------------------------------------------------------------
(* The interrupts of a bus.                                                *)

\* The Hwi changes its driver, and what has arrived for the sleeping task.
LEMMA BusStep ==
  ASSUME IInv, NEW b \in Buses,
         ctx' = ctx, gate' = gate, enters' = enters, pc' = pc, call' = call,
         open' = open, asked' = asked,
         \A c \in Buses \ {b} : drv'[c] = drv[c],
         drv'[b].mutex = drv[b].mutex,
         \A t \in Tasks : t # drv[b].mutex => fresh'[t] = fresh[t],
         TypeOK', DriverInv(b)'
  PROVE  IInv'
<1>1. GateInv'
  BY DEF IInv, GateInv, Entries
<1>2. ASSUME NEW t \in Tasks
      PROVE  LocalInv(t)'
  <2>1. LocalInv(t) /\ DriverInv(b)
    BY DEF IInv
  <2>2. PlaceInv(t)' /\ AskedInv(t)'
    BY <2>1 DEF LocalInv, PlaceInv, AskedInv
  <2>3. CASE t # drv[b].mutex
    BY <2>1, <2>2, <2>3 DEF LocalInv, FreshInv
  <2>4. CASE t = drv[b].mutex
    <3>1. pc[t] = "wait"
      BY <2>1, <2>4 DEF DriverInv
    <3> QED
      BY <2>1, <2>2, <3>1 DEF LocalInv, FreshInv
  <2> QED
    BY <2>3, <2>4
<1>3. ASSUME NEW t \in Tasks
      PROVE  WaitInv(t)'
  <2>1. call[t].bus \in Buses /\ WaitInv(t)
    BY DEF IInv, TypeOK
  <2> QED
    BY <2>1 DEF WaitInv
<1>4. ASSUME NEW c \in Buses
      PROVE  DriverInv(c)'
  <2>1. CASE c = b
    BY <2>1
  <2>2. CASE c # b
    <3>1. DriverInv(b) /\ DriverInv(c) /\ drv'[c] = drv[c] /\ drv[c].mutex \in Tasks \cup {NoTask}
      BY <2>2 DEF IInv, TypeOK, Driver
    <3>2. drv[c].mutex = NoTask \/ fresh'[drv[c].mutex] = fresh[drv[c].mutex]
      BY <2>2, <3>1 DEF DriverInv
    <3> QED
      BY <3>1, <3>2 DEF DriverInv
  <2> QED
    BY <2>1, <2>2
<1> QED
  BY <1>1, <1>2, <1>3, <1>4 DEF IInv

LEMMA ErrorStep ==
  ASSUME IInv, NEW b \in Buses, HwiError(b)
  PROVE  IInv'
<1>1. /\ TypeOK /\ DriverInv(b) /\ drv[b].on
      /\ ctx' = ctx /\ gate' = gate /\ enters' = enters /\ pc' = pc /\ call' = call
      /\ open' = open /\ asked' = asked /\ fresh' = fresh
  BY DEF IInv, HwiError, ghosts, locking
<1>2. drv[b] \in Driver
  BY <1>1 DEF TypeOK
<1>3. /\ drv'[b] = [drv[b] EXCEPT !.on = FALSE, !.mode = "error", !.w = 0, !.r = 0, !.done = 1,
                                  !.held = drv[b].held - 1]
      /\ \A c \in Buses \ {b} : drv'[c] = drv[c]
  BY <1>1, <1>2 DEF TypeOK, HwiError, Complete, Driver
<1>4. /\ drv'[b].on = FALSE /\ drv'[b].mode = "error" /\ drv'[b].held = 0
      /\ drv'[b].mutex = drv[b].mutex /\ drv'[b].cur = drv[b].cur
  BY <1>1, <1>2, <1>3 DEF Driver, DriverInv
<1>5. TypeOK'
  <2>1. 0 \in 0 .. B - 1 /\ 0 \in 0 .. B /\ drv[b].held - 1 \in Int
    BY <1>2 DEF Driver
  <2>2. drv'[b] \in Driver
    BY <1>2, <1>3, <2>1 DEF Driver
  <2>3. drv' \in [Buses -> Driver]
    <3>1. drv' = [c \in Buses |-> drv'[c]]
      BY <1>1 DEF TypeOK, HwiError
    <3>2. \A c \in Buses : drv'[c] \in Driver
      BY <1>1, <1>3, <2>2 DEF TypeOK
    <3> QED
      BY <3>1, <3>2
  <2> QED
    BY <1>1, <2>3 DEF TypeOK
<1>6. DriverInv(b)'
  BY <1>1, <1>4 DEF DriverInv
<1> QED
  BY <1>1, <1>3, <1>4, <1>5, <1>6, BusStep

LEMMA LastByteStep ==
  ASSUME IInv, Disciplined, NEW b \in Buses, LastByte(b)
  PROVE  IInv'
<1>1. /\ TypeOK /\ DriverInv(b)
      /\ ctx' = ctx /\ gate' = gate /\ enters' = enters /\ pc' = pc /\ call' = call
      /\ open' = open /\ asked' = asked /\ fresh' = fresh
  BY DEF IInv, LastByte, ghosts, locking
<1>2. drv[b] \in Driver
  BY <1>1 DEF TypeOK
<1>3. /\ drv' = [drv EXCEPT ![b] = [drv[b] EXCEPT !.last = FALSE]]
      /\ drv'[b] = [drv[b] EXCEPT !.last = FALSE]
      /\ \A c \in Buses \ {b} : drv'[c] = drv[c]
  BY <1>1 DEF TypeOK, LastByte, Disciplined
<1>4. /\ drv'[b].on = drv[b].on /\ drv'[b].mode = drv[b].mode /\ drv'[b].held = drv[b].held
      /\ drv'[b].mutex = drv[b].mutex /\ drv'[b].cur = drv[b].cur /\ drv'[b].done = drv[b].done
      /\ drv'[b].w = drv[b].w /\ drv'[b].r = drv[b].r
  BY <1>2, <1>3 DEF Driver
<1>5. TypeOK'
  <2>1. [drv[b] EXCEPT !.last = FALSE] \in Driver
    BY <1>2 DEF Driver
  <2>2. drv' \in [Buses -> Driver]
    BY <1>1, <1>3, <2>1 DEF TypeOK
  <2> QED
    BY <1>1, <2>2 DEF TypeOK
<1>6. DriverInv(b)'
  BY <1>1, <1>4 DEF DriverInv
<1> QED
  BY <1>1, <1>3, <1>4, <1>5, <1>6, BusStep

LEMMA HwiWriteStep ==
  ASSUME IInv, NEW b \in Buses, HwiWrite(b)
  PROVE  IInv'
<1> DEFINE d == drv[b]
<1>1. /\ TypeOK /\ DriverInv(b) /\ d.on /\ d.mode = "write"
      /\ ctx' = ctx /\ gate' = gate /\ enters' = enters /\ pc' = pc /\ call' = call
      /\ open' = open /\ asked' = asked /\ fresh' = fresh
  BY DEF IInv, HwiWrite, ghosts, locking
<1>2. d \in Driver /\ d.w \in 0 .. B - 1 /\ d.r \in 0 .. B
  BY <1>1 DEF TypeOK, Driver
<1>3. /\ d.mutex # NoTask /\ d.cur = d.mutex /\ d.held = 1 /\ d.done = 0
      /\ d.w > 0 \/ d.r > 0
      /\ pc[d.mutex] = "wait" /\ call[d.mutex].bus = b
      /\ fresh[d.mutex] >= 0 /\ fresh[d.mutex] + d.r = ctx[d.mutex].reads
  BY <1>1 DEF DriverInv
<1>4. \A c \in Buses \ {b} : drv'[c] = drv[c]
  BY <1>1 DEF TypeOK, HwiWrite
<1>5. drv' = [c \in Buses |-> drv'[c]]
  <2>1. \E e : drv' = [drv EXCEPT ![b] = e]
    BY Zenon DEF HwiWrite
  <2> QED
    BY <1>1, <2>1 DEF TypeOK
<1>6. ASSUME drv'[b] \in Driver
      PROVE  TypeOK'
  <2>1. \A c \in Buses : drv'[c] \in Driver
    BY <1>1, <1>4, <1>6 DEF TypeOK
  <2>2. drv' \in [Buses -> Driver]
    BY <1>5, <2>1
  <2> QED
    BY <1>1, <2>2 DEF TypeOK
<1>7. CASE d.w = 1 /\ d.r = 0
  <2>1. drv'[b] = [d EXCEPT !.mode = "idle", !.on = FALSE, !.last = TRUE, !.w = 0, !.r = 0,
                            !.done = 1, !.held = d.held - 1]
    BY <1>1, <1>2, <1>7 DEF TypeOK, HwiWrite, Complete, Driver
  <2>2. drv'[b] \in Driver
    <3>1. 0 \in 0 .. B - 1 /\ 0 \in 0 .. B /\ d.held - 1 \in Int
      BY <1>3
    <3> QED
      BY <1>2, <2>1, <3>1 DEF Driver
  <2>3. /\ drv'[b].on = FALSE /\ drv'[b].mode = "idle" /\ drv'[b].held = 0
        /\ drv'[b].mutex = d.mutex /\ drv'[b].cur = d.cur
    BY <1>2, <1>3, <2>1 DEF Driver
  <2>4. ctx[d.mutex].reads <= fresh[d.mutex]
    <3>1. fresh[d.mutex] \in -1 .. B
      BY <1>1, <1>2, <1>3 DEF TypeOK, Driver
    <3> QED
      BY <1>3, <1>7, <3>1
  <2>5. DriverInv(b)'
    BY <1>1, <1>3, <2>3, <2>4 DEF DriverInv
  <2> QED
    BY <1>1, <1>4, <1>6, <2>2, <2>3, <2>5, BusStep
<1>8. CASE d.w > 0 /\ ~(d.w = 1 /\ d.r = 0)
  <2>1. drv'[b] = [d EXCEPT !.w = d.w - 1]
    BY <1>1, <1>2, <1>8 DEF TypeOK, HwiWrite, Driver
  <2>2. drv'[b] \in Driver
    <3>1. d.w - 1 \in 0 .. B - 1
      BY <1>2, <1>8
    <3> QED
      BY <1>2, <2>1, <3>1 DEF Driver
  <2>3. /\ drv'[b].on = d.on /\ drv'[b].mode = d.mode /\ drv'[b].held = d.held
        /\ drv'[b].mutex = d.mutex /\ drv'[b].cur = d.cur /\ drv'[b].done = d.done
        /\ drv'[b].w = d.w - 1 /\ drv'[b].r = d.r
    BY <1>2, <2>1 DEF Driver
  <2>4. drv'[b].w > 0 \/ drv'[b].r > 0
    BY <1>2, <1>8, <2>3
  <2>5. DriverInv(b)'
    BY <1>1, <1>3, <2>3, <2>4 DEF DriverInv
  <2> QED
    BY <1>1, <1>4, <1>6, <2>2, <2>3, <2>5, BusStep
<1>9. CASE d.w = 0
  <2>1. drv'[b] = [d EXCEPT !.mode = "read"]
    BY <1>1, <1>2, <1>9 DEF TypeOK, HwiWrite, Driver
  <2>2. drv'[b] \in Driver
    BY <1>2, <2>1 DEF Driver
  <2>3. /\ drv'[b].on = d.on /\ drv'[b].mode = "read" /\ drv'[b].held = d.held
        /\ drv'[b].mutex = d.mutex /\ drv'[b].cur = d.cur /\ drv'[b].done = d.done
        /\ drv'[b].w = d.w /\ drv'[b].r = d.r
    BY <1>2, <2>1 DEF Driver
  <2>4. drv'[b].r > 0
    BY <1>2, <1>3, <1>9, <2>3
  <2>5. DriverInv(b)'
    BY <1>1, <1>3, <2>3, <2>4 DEF DriverInv
  <2> QED
    BY <1>1, <1>4, <1>6, <2>2, <2>3, <2>5, BusStep
<1> QED
  BY <1>2, <1>7, <1>8, <1>9

LEMMA HwiReadStep ==
  ASSUME IInv, NEW b \in Buses, HwiRead(b)
  PROVE  IInv'
<1> DEFINE d == drv[b]
           t == drv[b].mutex
<1>1. /\ TypeOK /\ DriverInv(b) /\ d.on /\ d.mode = "read"
      /\ ctx' = ctx /\ gate' = gate /\ enters' = enters /\ pc' = pc /\ call' = call
      /\ open' = open /\ asked' = asked
  BY DEF IInv, HwiRead, locking
<1>2. d \in Driver /\ d.r \in 0 .. B
  BY <1>1 DEF TypeOK, Driver
<1>3. /\ t # NoTask /\ d.cur = t /\ d.held = 1 /\ d.done = 0 /\ d.r > 0
      /\ pc[t] = "wait" /\ call[t].bus = b
      /\ fresh[t] >= 0 /\ fresh[t] + d.r = ctx[t].reads
  BY <1>1 DEF DriverInv
<1>4. t \in Tasks /\ fresh[t] \in -1 .. B /\ ctx[t].reads \in 0 .. B
  BY <1>1, <1>2, <1>3 DEF TypeOK, Driver, Context
<1>5. /\ fresh' = [fresh EXCEPT ![t] = fresh[t] + 1]
      /\ fresh'[t] = fresh[t] + 1
      /\ \A u \in Tasks : u # t => fresh'[u] = fresh[u]
  BY <1>1, <1>3, <1>4 DEF TypeOK, HwiRead
<1>6. \A c \in Buses \ {b} : drv'[c] = drv[c]
  BY <1>1 DEF TypeOK, HwiRead
<1>7. drv' = [c \in Buses |-> drv'[c]]
  <2>1. \E e : drv' = [drv EXCEPT ![b] = e]
    BY Zenon DEF HwiRead
  <2> QED
    BY <1>1, <2>1 DEF TypeOK
<1>8. ASSUME drv'[b] \in Driver
      PROVE  TypeOK'
  <2>1. \A c \in Buses : drv'[c] \in Driver
    BY <1>1, <1>6, <1>8 DEF TypeOK
  <2>2. drv' \in [Buses -> Driver]
    BY <1>7, <2>1
  <2>3. fresh[t] + 1 \in -1 .. B
    BY <1>3, <1>4, <1>2
  <2>4. fresh' \in [Tasks -> -1 .. B]
    BY <1>1, <1>5, <2>3 DEF TypeOK
  <2> QED
    BY <1>1, <2>2, <2>4 DEF TypeOK
<1>9. CASE d.r > 1
  <2>1. drv'[b] = [d EXCEPT !.r = d.r - 1]
    BY <1>1, <1>2, <1>9 DEF TypeOK, HwiRead, Driver
  <2>2. drv'[b] \in Driver
    <3>1. d.r - 1 \in 0 .. B
      BY <1>2, <1>9
    <3> QED
      BY <1>2, <2>1, <3>1 DEF Driver
  <2>3. /\ drv'[b].on = d.on /\ drv'[b].mode = d.mode /\ drv'[b].held = d.held
        /\ drv'[b].mutex = d.mutex /\ drv'[b].cur = d.cur /\ drv'[b].done = d.done
        /\ drv'[b].w = d.w /\ drv'[b].r = d.r - 1
    BY <1>2, <2>1 DEF Driver
  <2>4. drv'[b].r > 0 /\ fresh'[t] >= 0 /\ fresh'[t] + drv'[b].r = ctx[t].reads
    BY <1>2, <1>3, <1>4, <1>5, <1>9, <2>3
  <2>5. DriverInv(b)'
    BY <1>1, <1>3, <2>3, <2>4 DEF DriverInv
  <2> QED
    BY <1>1, <1>5, <1>6, <1>8, <2>2, <2>3, <2>5, BusStep
<1>10. CASE d.r = 1
  <2>1. drv'[b] = [d EXCEPT !.mode = "idle", !.on = FALSE, !.w = 0, !.r = 0, !.done = 1,
                            !.held = d.held - 1]
    <3>1. drv'[b] = Complete([[d EXCEPT !.r = 0] EXCEPT !.mode = "idle", !.on = FALSE])
      BY <1>1, <1>2, <1>10 DEF TypeOK, HwiRead, Driver
    <3> QED
      BY <1>2, <3>1 DEF Complete, Driver
  <2>2. drv'[b] \in Driver
    <3>1. 0 \in 0 .. B - 1 /\ 0 \in 0 .. B /\ d.held - 1 \in Int
      BY <1>3
    <3> QED
      BY <1>2, <2>1, <3>1 DEF Driver
  <2>3. /\ drv'[b].on = FALSE /\ drv'[b].mode = "idle" /\ drv'[b].held = 0
        /\ drv'[b].mutex = d.mutex /\ drv'[b].cur = d.cur
    BY <1>2, <1>3, <2>1 DEF Driver
  <2>4. ctx[t].reads <= fresh'[t]
    BY <1>3, <1>4, <1>5, <1>10
  <2>5. DriverInv(b)'
    BY <1>1, <1>3, <2>3, <2>4 DEF DriverInv
  <2> QED
    BY <1>1, <1>5, <1>6, <1>8, <2>2, <2>3, <2>5, BusStep
<1> QED
  BY <1>2, <1>3, <1>9, <1>10

-----------------------------------------------------------------------------
(* The invariant and what follows from it.                                 *)

LEMMA InitInv == Init => IInv
<1> SUFFICES ASSUME Init
             PROVE  IInv
  OBVIOUS
<1>1. AnyDevice \in Devices /\ AnyBus \in Buses
  BY DEF AnyDevice, AnyBus
<1>2. 0 \in 0 .. B - 1 /\ 0 \in 0 .. B /\ 0 \in -1 .. B /\ 0 \in 0 .. 255
  OBVIOUS
<1>3. TypeOK
  <2>1. NewContext(AnyDevice) \in Context
    BY <1>1, <1>2 DEF NewContext, Context
  <2>2. IdleDriver \in Driver
    BY <1>2 DEF IdleDriver, Driver
  <2>3. [bus |-> AnyBus, end |-> FALSE, stop |-> TRUE, ok |-> TRUE] \in Call
    BY <1>1 DEF Call
  <2> QED
    BY <1>2, <2>1, <2>2, <2>3, Nobody DEF Init, TypeOK, Call
<1>4. \A t \in Tasks : Entries(t) = 0
  BY DEF Init, Entries, Busy
<1>5. GateInv
  BY <1>4 DEF Init, GateInv
<1>6. ASSUME NEW t \in Tasks
      PROVE  LocalInv(t) /\ WaitInv(t)
  <2>1. PlaceInv(t) /\ WaitInv(t)
    BY DEF Init, PlaceInv, WaitInv, Busy
  <2>2. AskedInv(t)
    BY Nobody DEF Init, AskedInv, NewContext, Busy
  <2>3. FreshInv(t)
    BY DEF Init, FreshInv, NewContext
  <2> QED
    BY <2>1, <2>2, <2>3 DEF LocalInv
<1>7. ASSUME NEW b \in Buses
      PROVE  DriverInv(b)
  BY DEF Init, DriverInv, IdleDriver
<1> QED
  BY <1>3, <1>5, <1>6, <1>7 DEF IInv

LEMMA NextInv ==
  ASSUME Disciplined, IInv, [Next]_vars
  PROVE  IInv'
<1>1. ASSUME NEW t \in Tasks, Sketch(t)
      PROVE  IInv'
  BY <1>1, BeginStep, RequestStep, WriteStep, FlushStep, ReadStep, EndStep DEF Sketch
<1>2. ASSUME NEW t \in Tasks, InCall(t)
      PROVE  IInv'
  BY <1>2, EnterStep, TransferStep, PrimeStep, WaitStep, FinishStep DEF InCall
<1>3. ASSUME NEW b \in Buses, Hwi(b) \/ LastByte(b)
      PROVE  IInv'
  BY <1>3, HwiWriteStep, HwiReadStep, ErrorStep, LastByteStep DEF Hwi
<1>4. CASE UNCHANGED vars
  BY <1>4 DEF vars, locking, ghosts, IInv, TypeOK, GateInv, Entries, LocalInv, PlaceInv, AskedInv,
              FreshInv, WaitInv, DriverInv
<1> QED
  BY <1>1, <1>2, <1>3, <1>4 DEF Next

\* The state that Wire and the I2C driver share keeps its shape and its
\* internal accounts in every reachable state.
THEOREM Invariant ==
  ASSUME Disciplined
  PROVE  Spec => []IInv
<1>1. Init => IInv
  BY InitInv
<1>2. IInv /\ [Next]_vars => IInv'
  BY NextInv
<1> QED
  BY <1>1, <1>2, PTL DEF Spec

\* Every variable keeps its type: an index stays inside its buffer, the enter
\* count inside its byte.
THEOREM TypeCorrect ==
  ASSUME Disciplined
  PROVE  Spec => []TypeOK
<1>1. IInv => TypeOK
  BY DEF IInv
<1> QED
  BY <1>1, Invariant, PTL

\* The driver is handed the transfer the sketch asked for, by a task that owns
\* the bus (TransferAsAsked): two tasks never mix their bytes, devices or
\* quantities on one bus.
THEOREM TransfersAreAsked ==
  ASSUME Disciplined
  PROVE  Spec => []TransferAsAsked
<1>1. IInv => TransferAsAsked
  <2> SUFFICES ASSUME IInv, NEW t \in Tasks, pc[t] \in {"mutex", "wait"}
               PROVE  /\ [dev |-> ctx[t].addr, n |-> ctx[t].writes, q |-> ctx[t].reads] = asked[t]
                      /\ gate[call[t].bus] = t
                      /\ pc[t] = "wait" => drv[call[t].bus].cur = t
    BY DEF TransferAsAsked
  <2>1. LocalInv(t) /\ WaitInv(t) /\ asked[t] \in Txn /\ call[t].bus \in Buses /\ NoTask # t
    BY DEF IInv, TypeOK
  <2>2. [dev |-> ctx[t].addr, n |-> ctx[t].writes, q |-> ctx[t].reads] = asked[t]
    BY <2>1 DEF LocalInv, AskedInv, Busy, Txn
  <2>3. gate[call[t].bus] = t
    <3>1. Entries(t) > 0
      BY DEF Entries, Busy
    <3> QED
      BY <3>1 DEF IInv, GateInv
  <2>4. pc[t] = "wait" => drv[call[t].bus].cur = t
    BY <2>1 DEF IInv, WaitInv, DriverInv
  <2> QED
    BY <2>2, <2>3, <2>4
<1> QED
  BY <1>1, Invariant, PTL

\* I2C_transfer() returns after its transfer has ended and never before, and
\* the power constraints are held for as long as the transfer runs and are
\* released once (BlocksUntilDone).
THEOREM TransferBlocks ==
  ASSUME Disciplined
  PROVE  Spec => []BlocksUntilDone
<1>1. IInv => BlocksUntilDone
  BY DEF IInv, DriverInv, BlocksUntilDone
<1> QED
  BY <1>1, Invariant, PTL

\* read() after a transfer that succeeded returns only bytes that arrived in
\* it (ReadsReceived).
THEOREM ReadsAreReceived ==
  ASSUME Disciplined
  PROVE  Spec => []ReadsReceived
<1>1. IInv => ReadsReceived
  <2> SUFFICES ASSUME IInv, NEW t \in Tasks, InSketch(t), call[t].ok
               PROVE  Available(ctx[t]) <= fresh[t]
    BY DEF ReadsReceived
  <2>1. FreshInv(t) /\ ctx[t].rxR \in 0 .. B - 1 /\ ctx[t].rxW \in 0 .. B
    BY DEF IInv, LocalInv, TypeOK, Context
  <2> QED
    BY <2>1 DEF FreshInv, InSketch, Available
<1> QED
  BY <1>1, Invariant, PTL

\* A task that has ended what it began holds no bus, however its calls nested
\* (GateFreed).
THEOREM GateIsFreed ==
  ASSUME Disciplined
  PROVE  Spec => []GateFreed
<1>1. IInv => GateFreed
  <2> SUFFICES ASSUME IInv, NEW t \in Tasks, InSketch(t), ~open[t], NEW b \in Buses, gate[b] = t
               PROVE  FALSE
    BY DEF GateFreed
  <2>1. Entries(t) > 0
    BY DEF IInv, GateInv
  <2> QED
    BY <2>1 DEF Entries, InSketch, Busy
<1> QED
  BY <1>1, Invariant, PTL
=============================================================================
