--------------------------- MODULE PwmPinsProofs ---------------------------
(***************************************************************************)
(* Proofs about PwmPins for any tasks and pins and any number of CCRs.     *)
(***************************************************************************)
EXTENDS PwmPins, FiniteSetTheorems, WellFoundedInduction, TLAPS

\* The sketches for which the properties hold: none opens the timer of the
\* fixed pins with the drivers.
Considerate == FixedTimer \notin OtherTimers

-----------------------------------------------------------------------------
(* The inductive invariant.                                                *)

\* Task t is at one of the places S of a call.
At(p, S) == pc[Owner[p]] \in S /\ cur[Owner[p]].pin = p

\* analogWrite() has given pin p its index, and pinMode() has not taken it.
Holding(p) == function[p] = "analog" /\ p \notin irPins /\ ~At(p, {"mode"})

\* The indexes of timer tm that pins hold.
Taken(tm) == {i \in On(tm) : \E p \in Pins : Holding(p) /\ index[p] = i}

TypeInv ==
  /\ function \in [Pins -> {"unused", "digital", "analog"}]
  /\ index \in [Pins -> 0 .. MAPPABLE]
  /\ used \in [Indices -> Mappable \cup {FixedMark, NOT_IN_USE, IN_USE}]
  /\ ccrs \in [Timers -> Nat]
  /\ avail \subseteq Timers
  /\ open \in [Indices -> Pins \cup {NOT_IN_USE}]
  /\ others \subseteq OtherTimers
  /\ tone \in Timers \cup {INVALID}
  /\ timerIndex \in Timers \cup {INVALID}
  /\ irPins \subseteq Pins /\ IsFiniteSet(irPins)
  /\ pc \in [Tasks -> {"idle", "duty", "close", "free", "mode"}]
  /\ cur \in [Tasks -> [pin : Pins \cup {Nowhere}, idx : 0 .. MAPPABLE]]

\* A call in progress is on a pin of its task that is in PWM; until pinMode()
\* has freed it the call knows its index.
CallInv ==
  \A t \in Tasks : pc[t] # "idle" =>
    /\ cur[t].pin \in Pins /\ Owner[cur[t].pin] = t
    /\ function[cur[t].pin] = "analog" /\ cur[t].pin \notin irPins
    /\ pc[t] # "mode" => cur[t].idx = index[cur[t].pin]

\* A pin that holds an index has it alone, its mark is there, and the PWM
\* instance drives the pin until it is closed.
HoldInv ==
  \A p \in Pins : Holding(p) =>
    /\ index[p] \in Indices
    /\ used[index[p]] # NOT_IN_USE
    /\ p \in DOMAIN Home => used[index[p]] = FixedMark
    /\ p \in Mappable => ~Fixed(index[p]) /\ used[index[p]] \in {p, IN_USE}
    /\ open[index[p]] = IF At(p, {"free"}) THEN NOT_IN_USE ELSE p
    /\ \A q \in Pins : index[q] = index[p] => q = p

\* A fixed pin keeps its index; one that a failure left to a mappable pin is
\* never used again.
IndexInv ==
  /\ \A p \in DOMAIN Home : index[p] = Home[p]
  /\ \A p \in Mappable : index[p] \in Indices /\ ~Holding(p) => used[index[p]] = IN_USE

\* What an open PWM instance drives.
OpenInv ==
  /\ \A i \in Indices : open[i] # NOT_IN_USE =>
       \/ Holding(open[i]) /\ index[open[i]] = i
       \/ open[i] \in irPins /\ TimerOf(i) = timerIndex
  /\ \A i, j \in Indices : open[i] = open[j] /\ open[i] # NOT_IN_USE => i = j

\* The pins of the IR senders.
IRInv ==
  /\ timerIndex = INVALID <=> irPins = {}
  /\ \A p \in irPins : function[p] = "analog" /\ \E i \in Indices : open[i] = p

\* ccrs counts the indexes that are held, and each timer has one user.
PoolInv ==
  /\ \A tm \in Timers :
       /\ ccrs[tm] = Cardinality(Taken(tm))
       /\ tm \in avail <=> ccrs[tm] = 0 /\ tm # tone /\ tm # timerIndex
       /\ tm \in {tone, timerIndex} => ccrs[tm] = 0
  /\ tone = timerIndex => tone = INVALID

IInv == TypeInv /\ CallInv /\ HoldInv /\ IndexInv /\ OpenInv /\ IRInv /\ PoolInv

-----------------------------------------------------------------------------
USE PinAssumption

\* The quotient of a division.
LEMMA Quotient ==
  ASSUME NEW q \in 0 .. 2, NEW k \in 0 .. CCRs - 1
  PROVE  /\ CCRs * q + k \in Indices
         /\ TimerOf(CCRs * q + k) = q
<1>0. CCRs \in Nat /\ CCRs > 0 /\ k \in Nat /\ k < CCRs
  OBVIOUS
<1>1. CASE q = 0
  <2>1. CCRs * q + k = k /\ k \div CCRs = 0
    BY <1>0, <1>1
  <2> QED
    BY <1>0, <1>1, <2>1 DEF Indices, TimerOf
<1>2. CASE q = 1
  <2>1. CCRs * q + k = CCRs + k /\ (CCRs + k) \div CCRs = 1
    BY <1>0, <1>2
  <2>2. CCRs + k \in Indices
    BY <1>0 DEF Indices
  <2> QED
    BY <1>2, <2>1, <2>2 DEF TimerOf
<1>3. CASE q = 2
  <2>1. CCRs * q + k = CCRs + CCRs + k /\ (CCRs + CCRs + k) \div CCRs = 2
    BY <1>0, <1>3
  <2>2. CCRs + CCRs + k \in Indices
    BY <1>0 DEF Indices
  <2> QED
    BY <1>3, <2>1, <2>2 DEF TimerOf
<1> QED
  BY <1>1, <1>2, <1>3

\* An index is the number of its timer and that of its CCR.
LEMMA IndexSplits ==
  \A i \in Indices : \E q \in 0 .. 2, k \in 0 .. CCRs - 1 : i = CCRs * q + k
<1> SUFFICES ASSUME NEW i \in Indices
             PROVE  \E q \in 0 .. 2, k \in 0 .. CCRs - 1 : i = CCRs * q + k
  OBVIOUS
<1>1. CCRs \in Nat /\ CCRs > 0 /\ i \in 0 .. 3 * CCRs - 1
  BY DEF Indices
<1>2. CASE i < CCRs
  <2>1. i = CCRs * 0 + i /\ i \in 0 .. CCRs - 1
    BY <1>1, <1>2
  <2> QED
    BY <2>1, 0 \in 0 .. 2
<1>3. CASE i >= CCRs /\ i < CCRs + CCRs
  <2>1. i = CCRs * 1 + (i - CCRs) /\ i - CCRs \in 0 .. CCRs - 1
    BY <1>1, <1>3
  <2> QED
    BY <2>1, 1 \in 0 .. 2
<1>4. CASE i >= CCRs + CCRs
  <2>1. i = CCRs * 2 + (i - CCRs - CCRs) /\ i - CCRs - CCRs \in 0 .. CCRs - 1
    BY <1>1, <1>4
  <2> QED
    BY <2>1, 2 \in 0 .. 2
<1> QED
  BY <1>1, <1>2, <1>3, <1>4

\* Every index belongs to a timer.
LEMMA TimerOfIndex ==
  /\ \A i \in Indices : TimerOf(i) \in Timers
  /\ IsFiniteSet(Indices)
  /\ FixedTimer \in Timers
<1>1. \A i \in Indices : TimerOf(i) \in Timers
  BY IndexSplits, Quotient DEF Timers
<1>2. IsFiniteSet(Indices)
  <2>1. 0 \in Int /\ 3 * CCRs - 1 \in Int
    OBVIOUS
  <2> QED
    BY <2>1, FS_Interval DEF Indices
<1> QED
  BY <1>1, <1>2 DEF FixedTimer, Timers

\* A finite set of integers that is not empty has a least element.
LEMMA MinElement ==
  ASSUME NEW T, IsFiniteSet(T), T \subseteq Int, T # {}
  PROVE  Min(T) \in T
<1> DEFINE Below(x) == {y \in T : y < x}
           All == {Below(x) : x \in T}
           R == StrictSubsetOrdering(T)
<1>1. IsWellFoundedOn(R, FiniteSubsetsOf(T))
  BY FS_StrictSubsetOrderingWellFounded
<1>2. FiniteSubsetsOf(T) = SUBSET T
  BY FS_FiniteSubsetsOfFinite
<1>3. All \subseteq SUBSET T /\ All # {}
  <2>1. All \subseteq SUBSET T
    OBVIOUS
  <2>2. PICK x \in T : TRUE
    OBVIOUS
  <2>3. Below(x) \in All
    BY <2>2
  <2> QED
    BY <2>1, <2>3
<1>4. PICK A \in All : \A C \in All : <<C, A>> \notin R
  <2> HIDE DEF R, All
  <2>1. IsWellFoundedOn(R, SUBSET T)
    BY <1>1, <1>2
  <2> QED
    BY <1>3, <2>1, WFMin
<1>5. PICK x \in T : A = Below(x)
  BY <1>4
<1>6. ASSUME NEW y \in T, y < x
      PROVE  FALSE
  <2>1. y \in Below(x) /\ y \notin Below(y) /\ Below(y) \subseteq Below(x)
    <3>1. T \subseteq Int /\ x \in Int /\ y \in Int
      OBVIOUS
    <3>2. \A z \in T : z < y => z < x
      BY <1>6, <3>1
    <3>3. ~(y < y)
      BY <3>1
    <3> QED
      BY <1>6, <3>2, <3>3
  <2>2. <<Below(y), Below(x)>> \in R
    BY <2>1 DEF StrictSubsetOrdering
  <2> QED
    BY <1>4, <1>5, <2>2
<1>7. \A y \in T : x <= y
  BY <1>6
<1> QED
  BY <1>5, <1>7 DEF Min

\* The least timer of a set, and the least index.
LEMMA Least ==
  ASSUME NEW S, S \subseteq Timers \/ S \subseteq Indices, S # {}
  PROVE  Min(S) \in S
<1>1. IsFiniteSet(Timers) /\ Timers \subseteq Int
  <2>1. 0 \in Int /\ 2 \in Int
    OBVIOUS
  <2>2. IsFiniteSet(Timers)
    BY <2>1, FS_Interval DEF Timers
  <2> QED
    BY <2>2 DEF Timers
<1>2. IsFiniteSet(Indices) /\ Indices \subseteq Int
  BY TimerOfIndex DEF Indices
<1>3. IsFiniteSet(S) /\ S \subseteq Int
  BY <1>1, <1>2, FS_Subset
<1> QED
  BY <1>3, MinElement

-----------------------------------------------------------------------------
(* The steps.                                                              *)

\* A step that changes neither who holds what nor the pools.
LEMMA PoolSame ==
  ASSUME PoolInv, UNCHANGED <<index, ccrs, avail, tone, timerIndex>>,
         \A p \in Pins : Holding(p)' = Holding(p)
  PROVE  PoolInv'
<1>1. \A tm \in Timers : Taken(tm)' = Taken(tm)
  BY DEF Taken
<1> QED
  BY <1>1 DEF PoolInv

\* A step of task t inside a call before the index is given up.
LEMMA CallOnly ==
  ASSUME IInv, NEW t \in Tasks, UNCHANGED <<tables, avail, open, others, tone, ir>>,
         NEW l \in {"idle", "duty", "close"},
         NEW c \in [pin : Pins \cup {Nowhere}, idx : 0 .. MAPPABLE], Goto(t, l, c),
         pc[t] \notin {"free", "mode"},
         l # "idle" => /\ c.pin \in Pins /\ Owner[c.pin] = t /\ c.idx = index[c.pin]
                       /\ function[c.pin] = "analog" /\ c.pin \notin irPins
  PROVE  IInv'
<1>0. TypeInv /\ pc' = [pc EXCEPT ![t] = l] /\ cur' = [cur EXCEPT ![t] = c]
  BY DEF IInv, Goto
<1>1. /\ function' = function /\ index' = index /\ used' = used /\ ccrs' = ccrs
      /\ avail' = avail /\ open' = open /\ others' = others /\ tone' = tone
      /\ timerIndex' = timerIndex /\ irPins' = irPins
  BY DEF tables, ir
<1>2. \A u \in Tasks : /\ u # t => pc'[u] = pc[u] /\ cur'[u] = cur[u]
                       /\ pc'[t] = l /\ cur'[t] = c
  BY <1>0 DEF TypeInv
<1>3. ASSUME NEW p \in Pins
      PROVE  At(p, {"mode"})' = At(p, {"mode"}) /\ At(p, {"free"})' = At(p, {"free"})
  <2>1. Owner[p] \in Tasks
    OBVIOUS
  <2>2. CASE Owner[p] = t
    BY <1>2, <2>2 DEF At
  <2>3. CASE Owner[p] # t
    BY <1>2, <2>1, <2>3 DEF At
  <2> QED
    BY <2>2, <2>3
<1>4. \A p \in Pins : Holding(p)' = Holding(p)
  BY <1>1, <1>3 DEF Holding
<1>5. TypeInv'
  BY <1>0, <1>1 DEF TypeInv
<1>6. CallInv'
  BY <1>1, <1>2 DEF IInv, CallInv
<1>7. HoldInv'
  BY <1>1, <1>3, <1>4 DEF IInv, HoldInv
<1>8. IndexInv'
  <2>1. Mappable \subseteq Pins
    BY DEF Pins
  <2> QED
    BY <1>1, <1>4, <2>1 DEF IInv, IndexInv
<1>9. OpenInv'
  <2>1. \A i \in Indices : open[i] \in Pins \cup {NOT_IN_USE}
    BY <1>0 DEF TypeInv
  <2> QED
    BY <1>1, <1>4, <2>1 DEF IInv, OpenInv
<1>10. IRInv'
  BY <1>1 DEF IInv, IRInv
<1>11. PoolInv'
  BY <1>1, <1>4, PoolSame DEF IInv
<1> QED
  BY <1>5, <1>6, <1>7, <1>8, <1>9, <1>10, <1>11 DEF IInv

LEMMA NoCallType == NoCall \in [pin : Pins \cup {Nowhere}, idx : 0 .. MAPPABLE]
<1>1. MAPPABLE \in 0 .. MAPPABLE
  BY DEF MAPPABLE
<1> QED
  BY <1>1 DEF NoCall

LEMMA AnalogWriteAgainStep ==
  ASSUME IInv, NEW t \in Tasks, NEW p \in Pins, AnalogWriteAgain(t, p)
  PROVE  IInv'
<1> DEFINE c == [pin |-> p, idx |-> index[p]]
<1>1. c \in [pin : Pins \cup {Nowhere}, idx : 0 .. MAPPABLE] /\ c.pin = p /\ c.idx = index[p]
  BY DEF IInv, TypeInv
<1>2. /\ Goto(t, "duty", c) /\ pc[t] = "idle" /\ Owner[p] = t /\ p \notin irPins
      /\ function[p] = "analog" /\ UNCHANGED <<tables, avail, open, others, tone, ir>>
  BY DEF AnalogWriteAgain, MayUse
<1> HIDE DEF c
<1> QED
  BY <1>1, <1>2, CallOnly

LEMMA SetDutyStep ==
  ASSUME IInv, NEW t \in Tasks, SetDuty(t)
  PROVE  IInv'
  BY NoCallType, CallOnly DEF SetDuty

LEMMA PinModeStep ==
  ASSUME IInv, NEW t \in Tasks, NEW p \in Pins, PinMode(t, p)
  PROVE  IInv'
<1>0. /\ TypeInv /\ pc[t] = "idle" /\ Owner[p] = t /\ p \notin irPins
      /\ UNCHANGED <<index, used, ccrs, avail, open, others, tone, ir>>
  BY DEF IInv, PinMode, MayUse
<1>1. CASE function[p] = "analog"
  <2> DEFINE c == [pin |-> p, idx |-> index[p]]
  <2>1. c \in [pin : Pins \cup {Nowhere}, idx : 0 .. MAPPABLE] /\ c.pin = p /\ c.idx = index[p]
    BY <1>0 DEF TypeInv
  <2>2. Goto(t, "close", c) /\ UNCHANGED function
    BY <1>1 DEF PinMode
  <2> HIDE DEF c
  <2> QED
    BY <1>0, <1>1, <2>1, <2>2, CallOnly DEF tables
<1>2. CASE function[p] # "analog"
  <2>1. function' = [function EXCEPT ![p] = "digital"] /\ UNCHANGED calls
    BY <1>2 DEF PinMode
  <2>2. /\ index' = index /\ used' = used /\ ccrs' = ccrs /\ pc' = pc /\ cur' = cur
        /\ avail' = avail /\ open' = open /\ others' = others /\ tone' = tone
        /\ timerIndex' = timerIndex /\ irPins' = irPins
    BY <1>0, <2>1 DEF ir, calls
  <2>3. /\ function' \in [Pins -> {"unused", "digital", "analog"}]
        /\ \A q \in Pins : function'[q] = "analog" <=> function[q] = "analog"
    BY <1>0, <1>2, <2>1 DEF TypeInv
  <2>4. \A q \in Pins : At(q, {"mode"})' = At(q, {"mode"}) /\ At(q, {"free"})' = At(q, {"free"})
    BY <2>2 DEF At
  <2>5. \A q \in Pins : Holding(q)' = Holding(q)
    BY <2>2, <2>3, <2>4 DEF Holding
  <2>6. TypeInv'
    BY <1>0, <2>2, <2>3 DEF TypeInv
  <2>7. CallInv'
    BY <2>2, <2>3 DEF IInv, CallInv
  <2>8. HoldInv'
    BY <2>2, <2>4, <2>5 DEF IInv, HoldInv
  <2>9. IndexInv'
    BY <2>2, <2>5, Mappable \subseteq Pins DEF IInv, IndexInv, Pins
  <2>10. OpenInv'
    <3>1. \A i \in Indices : open[i] \in Pins \cup {NOT_IN_USE}
      BY <1>0 DEF TypeInv
    <3> QED
      BY <2>2, <2>5, <3>1 DEF IInv, OpenInv
  <2>11. IRInv'
    BY <1>0, <2>2, <2>3 DEF IInv, IRInv, TypeInv
  <2>12. PoolInv'
    BY <2>2, <2>5, PoolSame DEF IInv
  <2> QED
    BY <2>6, <2>7, <2>8, <2>9, <2>10, <2>11, <2>12 DEF IInv
<1> QED
  BY <1>1, <1>2

\* The pins are the mappable ones and those with a home, and no pin is both.
LEMMA PinKinds ==
  /\ Mappable \subseteq Pins /\ DOMAIN Home \subseteq Pins
  /\ \A p \in Pins : p \in Mappable <=> p \notin DOMAIN Home
  /\ \A p \in DOMAIN Home : Home[p] \in Indices /\ Fixed(Home[p])
  /\ MAPPABLE \notin Indices
<1>1. \A p \in DOMAIN Home : Home[p] \in {i \in Indices : Fixed(i)}
  OBVIOUS
<1>2. MAPPABLE \notin Indices
  BY DEF MAPPABLE, Indices
<1> QED
  BY <1>1, <1>2 DEF Pins

\* What CallInv and HoldInv say of the pin of a call that is to be closed.
LEMMA CallPin ==
  ASSUME IInv, NEW t \in Tasks, pc[t] \in {"duty", "close", "free"}
  PROVE  /\ cur[t].pin \in Pins /\ Owner[cur[t].pin] = t /\ Holding(cur[t].pin)
         /\ cur[t].idx = index[cur[t].pin] /\ cur[t].idx \in Indices
         /\ \A q \in Pins : q # cur[t].pin => index[q] # cur[t].idx
<1>1. /\ cur[t].pin \in Pins /\ Owner[cur[t].pin] = t /\ function[cur[t].pin] = "analog"
      /\ cur[t].pin \notin irPins /\ cur[t].idx = index[cur[t].pin]
  BY DEF IInv, CallInv
<1>2. Holding(cur[t].pin)
  BY <1>1 DEF Holding, At
<1> QED
  BY <1>1, <1>2 DEF IInv, HoldInv

LEMMA ClosePwmStep ==
  ASSUME IInv, NEW t \in Tasks, ClosePwm(t)
  PROVE  IInv'
<1>a. PICK p \in Pins, i \in Indices : p = cur[t].pin /\ i = cur[t].idx
  BY CallPin DEF ClosePwm
<1>0. /\ TypeInv /\ pc[t] = "close" /\ open' = [open EXCEPT ![i] = NOT_IN_USE]
      /\ pc' = [pc EXCEPT ![t] = "free"] /\ cur' = [cur EXCEPT ![t] = cur[t]]
  BY <1>a DEF IInv, ClosePwm, Goto
<1>1. /\ function' = function /\ index' = index /\ used' = used /\ ccrs' = ccrs
      /\ avail' = avail /\ others' = others /\ tone' = tone
      /\ timerIndex' = timerIndex /\ irPins' = irPins
  BY DEF ClosePwm, tables, ir
<1>2. /\ p \in Pins /\ Owner[p] = t /\ Holding(p) /\ i = index[p] /\ i \in Indices
      /\ \A q \in Pins : q # p => index[q] # i
  BY <1>0, <1>a, CallPin
<1>3. /\ cur' = cur /\ pc'[t] = "free" /\ \A u \in Tasks : u # t => pc'[u] = pc[u]
      /\ open'[i] = NOT_IN_USE /\ \A j \in Indices : j # i => open'[j] = open[j]
  BY <1>0, <1>2 DEF TypeInv
<1>4. open[i] = p
  BY <1>0, <1>2 DEF IInv, HoldInv, At
<1>5. /\ At(p, {"free"})'
      /\ \A q \in Pins : At(q, {"mode"})' = At(q, {"mode"})
      /\ \A q \in Pins : q # p => At(q, {"free"})' = At(q, {"free"})
  <2>1. At(p, {"free"})'
    BY <1>a, <1>2, <1>3 DEF At
  <2>2. ASSUME NEW q \in Pins
        PROVE  At(q, {"mode"})' = At(q, {"mode"}) /\ (q # p => At(q, {"free"})' = At(q, {"free"}))
    <3>1. CASE Owner[q] = t
      BY <1>0, <1>3, <3>1, <1>a DEF At
    <3>2. CASE Owner[q] # t
      <4>1. Owner[q] \in Tasks
        OBVIOUS
      <4> QED
        BY <1>3, <3>2, <4>1 DEF At
    <3> QED
      BY <3>1, <3>2
  <2> QED
    BY <2>1, <2>2
<1>6. \A q \in Pins : Holding(q)' = Holding(q)
  BY <1>1, <1>5 DEF Holding
<1>7. TypeInv'
  BY <1>0, <1>1, <1>3 DEF TypeInv
<1>8. CallInv'
  <2>1. ASSUME NEW u \in Tasks, pc'[u] # "idle"
        PROVE  /\ cur[u].pin \in Pins /\ Owner[cur[u].pin] = u
               /\ function[cur[u].pin] = "analog" /\ cur[u].pin \notin irPins
               /\ pc'[u] # "mode" => cur[u].idx = index[cur[u].pin]
    <3>1. CASE u = t
      BY <1>a, <1>0, <1>2, <1>3, <3>1 DEF IInv, CallInv
    <3>2. CASE u # t
      BY <1>3, <2>1, <3>2 DEF IInv, CallInv
    <3> QED
      BY <3>1, <3>2
  <2> QED
    BY <1>1, <1>3, <2>1 DEF CallInv
<1>9. HoldInv'
  <2>1. \A q \in Pins : Holding(q) => index[q] \in Indices
    BY DEF IInv, HoldInv
  <2> QED
    BY <1>1, <1>2, <1>3, <1>5, <1>6, <2>1 DEF IInv, HoldInv
<1>10. IndexInv'
  BY <1>1, <1>6, PinKinds DEF IInv, IndexInv
<1>11. OpenInv'
  <2>1. \A j \in Indices : open[j] \in Pins \cup {NOT_IN_USE}
    BY <1>0 DEF TypeInv
  <2>2. \A j \in Indices : open'[j] # NOT_IN_USE => open'[j] = open[j]
    BY <1>3
  <2> QED
    BY <1>1, <1>6, <2>1, <2>2 DEF IInv, OpenInv
<1>12. IRInv'
  <2>1. p \notin irPins
    BY <1>2 DEF Holding
  <2> QED
    BY <1>1, <1>3, <1>4, <2>1 DEF IInv, IRInv
<1>13. PoolInv'
  BY <1>1, <1>6, PoolSame DEF IInv
<1> QED
  BY <1>7, <1>8, <1>9, <1>10, <1>11, <1>12, <1>13 DEF IInv

LEMMA FreePwmStep ==
  ASSUME IInv, NEW t \in Tasks, FreePwm(t)
  PROVE  IInv'
<1>a. PICK p \in Pins, i \in Indices : p = cur[t].pin /\ i = cur[t].idx
  BY CallPin DEF FreePwm
<1>b. PICK tm \in Timers : tm = TimerOf(i)
  BY TimerOfIndex
<1>0. /\ TypeInv /\ pc[t] = "free" /\ used' = [used EXCEPT ![i] = NOT_IN_USE]
      /\ index' = IF used[i] = FixedMark THEN index ELSE [index EXCEPT ![p] = MAPPABLE]
      /\ ccrs' = [ccrs EXCEPT ![tm] = IF @ > 0 THEN @ - 1 ELSE 0]
      /\ avail' = IF ccrs[tm] = 1 THEN avail \cup {tm} ELSE avail
      /\ pc' = [pc EXCEPT ![t] = "mode"] /\ cur' = [cur EXCEPT ![t] = cur[t]]
  BY <1>a, <1>b DEF IInv, FreePwm, Goto
<1>1. /\ function' = function /\ open' = open /\ others' = others /\ tone' = tone
      /\ timerIndex' = timerIndex /\ irPins' = irPins
  BY DEF FreePwm, ir
<1>2. /\ p \in Pins /\ Owner[p] = t /\ Holding(p) /\ i = index[p] /\ i \in Indices
      /\ \A q \in Pins : q # p => index[q] # i
  BY <1>0, <1>a, CallPin
<1>3. /\ cur' = cur /\ pc'[t] = "mode" /\ \A u \in Tasks : u # t => pc'[u] = pc[u]
      /\ used'[i] = NOT_IN_USE /\ \A j \in Indices : j # i => used'[j] = used[j]
  BY <1>0, <1>2 DEF TypeInv
<1>4. /\ open[i] = NOT_IN_USE
      /\ p \in DOMAIN Home => used[i] = FixedMark
      /\ p \in Mappable => used[i] # FixedMark
  <2>1. p \in Mappable => used[i] \in {p, IN_USE}
    BY <1>2 DEF IInv, HoldInv
  <2>2. p # FixedMark /\ IN_USE # FixedMark
    BY <1>2
  <2>3. At(p, {"free"})
    BY <1>a, <1>0, <1>2 DEF At
  <2> QED
    BY <1>2, <2>1, <2>2, <2>3 DEF IInv, HoldInv
<1>6. /\ \A q \in Pins : q # p => index'[q] = index[q]
      /\ p \in DOMAIN Home => index'[p] = index[p]
      /\ p \in Mappable => index'[p] = MAPPABLE
      /\ index' \in [Pins -> 0 .. MAPPABLE]
  <2>1. CASE p \in DOMAIN Home
    BY <1>0, <1>2, <1>4, <2>1, PinKinds DEF TypeInv
  <2>2. CASE p \in Mappable
    <3>1. MAPPABLE \in 0 .. MAPPABLE
      BY DEF MAPPABLE
    <3>2. index' = [index EXCEPT ![p] = MAPPABLE]
      BY <1>0, <1>4, <2>2
    <3> QED
      BY <1>0, <1>2, <2>2, <3>1, <3>2, PinKinds DEF TypeInv
  <2> QED
    BY <1>2, <2>1, <2>2, PinKinds
<1>7. /\ At(p, {"mode"})'
      /\ \A q \in Pins : q # p => At(q, {"mode"})' = At(q, {"mode"})
      /\ \A q \in Pins : q # p => At(q, {"free"})' = At(q, {"free"})
  <2>1. At(p, {"mode"})'
    BY <1>a, <1>2, <1>3 DEF At
  <2>2. ASSUME NEW q \in Pins, q # p
        PROVE  At(q, {"mode"})' = At(q, {"mode"}) /\ At(q, {"free"})' = At(q, {"free"})
    <3>1. CASE Owner[q] = t
      BY <1>0, <1>3, <2>2, <3>1, <1>a DEF At
    <3>2. CASE Owner[q] # t
      <4>1. Owner[q] \in Tasks
        OBVIOUS
      <4> QED
        BY <1>3, <3>2, <4>1 DEF At
    <3> QED
      BY <3>1, <3>2
  <2> QED
    BY <2>1, <2>2
<1>8. /\ ~Holding(p)'
      /\ \A q \in Pins : q # p => Holding(q)' = Holding(q)
  BY <1>1, <1>7 DEF Holding
<1>9. /\ Taken(tm)' = Taken(tm) \ {i} /\ i \in Taken(tm)
      /\ \A o \in Timers : o # tm => Taken(o)' = Taken(o)
  <2>1. i \in Taken(tm)
    BY <1>b, <1>2 DEF Taken, On
  <2>2. \A j \in Indices : (\E q \in Pins : Holding(q)' /\ index'[q] = j)
                           <=> j # i /\ \E q \in Pins : Holding(q) /\ index[q] = j
    BY <1>2, <1>6, <1>8
  <2>3. ASSUME NEW o \in Timers
        PROVE  Taken(o)' = Taken(o) \ {i}
    BY <2>2 DEF Taken, On
  <2>4. \A o \in Timers : o # tm => i \notin Taken(o)
    BY <1>b DEF Taken, On
  <2> QED
    BY <1>b, <2>1, <2>3, <2>4
<1>10. IsFiniteSet(Taken(tm)) /\ Cardinality(Taken(tm)) \in Nat
       /\ Cardinality(Taken(tm)') = Cardinality(Taken(tm)) - 1 /\ Cardinality(Taken(tm)) > 0
  <2>1. IsFiniteSet(Taken(tm))
    BY TimerOfIndex, FS_Subset DEF Taken, On
  <2>2. Cardinality(Taken(tm)) \in Nat /\ Cardinality(Taken(tm) \ {i}) = Cardinality(Taken(tm)) - 1
    BY <1>9, <2>1, FS_CardinalityType, FS_RemoveElement
  <2>3. Taken(tm) # {}
    BY <1>9
  <2>4. Cardinality(Taken(tm)) # 0
    BY <2>1, <2>3, FS_EmptySet
  <2> QED
    BY <1>9, <2>1, <2>2, <2>4
<1>11. /\ ccrs[tm] = Cardinality(Taken(tm)) /\ ccrs'[tm] = ccrs[tm] - 1
       /\ \A o \in Timers : o # tm => ccrs'[o] = ccrs[o]
       /\ ccrs' \in [Timers -> Nat]
  <2>1. ccrs[tm] = Cardinality(Taken(tm))
    BY DEF IInv, PoolInv
  <2>2. ccrs' = [ccrs EXCEPT ![tm] = ccrs[tm] - 1]
    BY <1>0, <1>10, <2>1 DEF TypeInv
  <2>3. ccrs[tm] - 1 \in Nat
    BY <1>10, <2>1
  <2> QED
    BY <1>0, <2>1, <2>2, <2>3 DEF TypeInv
<1>12. TypeInv'
  <2>1. used' \in [Indices -> Mappable \cup {FixedMark, NOT_IN_USE, IN_USE}]
    BY <1>0 DEF TypeInv
  <2>2. pc' \in [Tasks -> {"idle", "duty", "close", "free", "mode"}]
    BY <1>0 DEF TypeInv
  <2> QED
    BY <1>0, <1>1, <1>3, <1>6, <1>11, <2>1, <2>2 DEF TypeInv
<1>13. CallInv'
  <2>1. ASSUME NEW u \in Tasks, pc'[u] # "idle"
        PROVE  /\ cur[u].pin \in Pins /\ Owner[cur[u].pin] = u
               /\ function[cur[u].pin] = "analog" /\ cur[u].pin \notin irPins
               /\ pc'[u] # "mode" => cur[u].idx = index'[cur[u].pin]
    <3>1. CASE u = t
      BY <1>a, <1>0, <1>3, <3>1 DEF IInv, CallInv
    <3>2. CASE u # t
      <4>1. /\ cur[u].pin \in Pins /\ Owner[cur[u].pin] = u
            /\ function[cur[u].pin] = "analog" /\ cur[u].pin \notin irPins
            /\ pc[u] # "mode" => cur[u].idx = index[cur[u].pin]
        BY <1>3, <2>1, <3>2 DEF IInv, CallInv
      <4>2. cur[u].pin # p
        BY <1>2, <3>2, <4>1
      <4> QED
        BY <1>3, <1>6, <3>2, <4>1, <4>2
    <3> QED
      BY <3>1, <3>2
  <2> QED
    BY <1>1, <1>3, <2>1 DEF CallInv
<1>14. HoldInv'
  <2>1. ASSUME NEW q \in Pins, Holding(q)'
        PROVE  /\ q # p /\ Holding(q) /\ index'[q] = index[q] /\ index[q] \in Indices
               /\ index[q] # i /\ used'[index[q]] = used[index[q]]
               /\ \A r \in Pins : index'[r] = index[q] => index[r] = index[q]
    <3>1. q # p /\ Holding(q)
      BY <1>8, <2>1
    <3>2. index'[q] = index[q] /\ index[q] \in Indices /\ index[q] # i
      BY <1>2, <1>6, <3>1 DEF IInv, HoldInv
    <3>3. ASSUME NEW r \in Pins, index'[r] = index[q]
          PROVE  index[r] = index[q]
      BY <1>2, <1>6, <3>2, <3>3, PinKinds
    <3> QED
      BY <1>3, <3>1, <3>2, <3>3
  <2> QED
    BY <1>1, <1>7, <2>1 DEF IInv, HoldInv
<1>15. IndexInv'
  <2>1. \A q \in DOMAIN Home : index'[q] = Home[q]
    BY <1>6, PinKinds DEF IInv, IndexInv
  <2>2. ASSUME NEW q \in Mappable, index'[q] \in Indices, ~Holding(q)'
        PROVE  used'[index'[q]] = IN_USE
    <3>1. q \in Pins /\ q # p
      BY <1>6, <2>2, PinKinds
    <3>2. index'[q] = index[q] /\ index[q] # i /\ ~Holding(q)
      BY <1>2, <1>6, <1>8, <2>2, <3>1
    <3> QED
      BY <1>3, <2>2, <3>2 DEF IInv, IndexInv
  <2> QED
    BY <2>1, <2>2 DEF IndexInv
<1>16. OpenInv'
  <2>1. ASSUME NEW j \in Indices, NEW q, q = open[j], q # NOT_IN_USE
        PROVE  \/ Holding(q)' /\ index'[q] = j
               \/ q \in irPins /\ TimerOf(j) = timerIndex
    <3>1. q \in Pins
      BY <1>0, <2>1 DEF TypeInv
    <3>2. CASE Holding(q) /\ index[q] = j
      <4>1. q # p
        BY <1>2, <1>4, <2>1, <3>2
      <4> QED
        BY <1>6, <1>8, <3>1, <3>2, <4>1
    <3> QED
      BY <2>1, <3>2 DEF IInv, OpenInv
  <2>2. \A j \in Indices : (open[j] # NOT_IN_USE)' =>
          (\/ Holding(open[j]) /\ index[open[j]] = j
           \/ open[j] \in irPins /\ TimerOf(j) = timerIndex)'
    BY <1>1, <2>1 DEF Holding, At
  <2> QED
    BY <1>1, <2>2 DEF IInv, OpenInv
<1>17. IRInv'
  BY <1>1 DEF IInv, IRInv
<1>18. PoolInv'
  <2>1. tm \notin {tone, timerIndex} /\ tm \notin avail
    BY <1>10, <1>11 DEF IInv, PoolInv
  <2>2. ASSUME NEW o \in Timers
        PROVE  /\ ccrs'[o] = Cardinality(Taken(o)')
               /\ o \in avail' <=> ccrs'[o] = 0 /\ o # tone /\ o # timerIndex
               /\ o \in {tone, timerIndex} => ccrs'[o] = 0
    <3>1. CASE o = tm
      BY <1>0, <1>10, <1>11, <2>1, <3>1
    <3>2. CASE o # tm
      BY <1>0, <1>9, <1>11, <3>2 DEF IInv, PoolInv
    <3> QED
      BY <3>1, <3>2
  <2> QED
    BY <1>1, <2>2 DEF IInv, PoolInv
<1> QED
  BY <1>12, <1>13, <1>14, <1>15, <1>16, <1>17, <1>18 DEF IInv

LEMMA SetFunctionStep ==
  ASSUME IInv, NEW t \in Tasks, SetFunction(t)
  PROVE  IInv'
<1>a. PICK p \in Pins : p = cur[t].pin /\ Owner[p] = t /\ p \notin irPins
  BY DEF SetFunction, IInv, CallInv
<1>0. /\ TypeInv /\ pc[t] = "mode" /\ function' = [function EXCEPT ![p] = "digital"]
      /\ pc' = [pc EXCEPT ![t] = "idle"] /\ cur' = [cur EXCEPT ![t] = NoCall]
  BY <1>a DEF IInv, SetFunction, Goto
<1>1. /\ open' = open /\ index' = index /\ used' = used /\ ccrs' = ccrs
      /\ avail' = avail /\ others' = others /\ tone' = tone
      /\ timerIndex' = timerIndex /\ irPins' = irPins
  BY DEF SetFunction, ir
<1>2. /\ pc'[t] = "idle" /\ \A u \in Tasks : u # t => pc'[u] = pc[u] /\ cur'[u] = cur[u]
      /\ function'[p] = "digital" /\ \A q \in Pins : q # p => function'[q] = function[q]
  BY <1>a, <1>0 DEF TypeInv
<1>3. ASSUME NEW q \in Pins, q # p
      PROVE  At(q, {"mode"})' = At(q, {"mode"})
  <2>1. CASE Owner[q] = t
    BY <1>a, <1>0, <1>2, <1>3, <2>1 DEF At
  <2>2. CASE Owner[q] # t
    <3>1. Owner[q] \in Tasks
      OBVIOUS
    <3> QED
      BY <1>2, <2>2, <3>1 DEF At
  <2> QED
    BY <2>1, <2>2
<1>4. ASSUME NEW q \in Pins
      PROVE  At(q, {"free"})' = At(q, {"free"})
  <2>1. CASE Owner[q] = t
    BY <1>0, <1>2, <2>1 DEF At
  <2>2. CASE Owner[q] # t
    <3>1. Owner[q] \in Tasks
      OBVIOUS
    <3> QED
      BY <1>2, <2>2, <3>1 DEF At
  <2> QED
    BY <2>1, <2>2
<1>5. At(p, {"mode"})
  BY <1>a, <1>0 DEF At
<1>6. \A q \in Pins : Holding(q)' = Holding(q)
  <2>2. \A q \in Pins : q # p => Holding(q)' = Holding(q)
    BY <1>1, <1>2, <1>3 DEF Holding
  <2>3. ASSUME NEW q \in Pins
        PROVE  Holding(q)' = Holding(q)
    <3>1. CASE q = p
      BY <1>2, <1>5, <3>1 DEF Holding
    <3>2. CASE q # p
      BY <2>2, <3>2
    <3> QED
      BY <3>1, <3>2
  <2> QED
    BY <2>3
<1>7. TypeInv'
  <2>1. /\ function' \in [Pins -> {"unused", "digital", "analog"}]
        /\ pc' \in [Tasks -> {"idle", "duty", "close", "free", "mode"}]
        /\ cur' \in [Tasks -> [pin : Pins \cup {Nowhere}, idx : 0 .. MAPPABLE]]
    BY <1>0, NoCallType DEF TypeInv
  <2> QED
    BY <1>0, <1>1, <2>1 DEF TypeInv
<1>8. CallInv'
  <2>1. ASSUME NEW u \in Tasks, pc'[u] # "idle"
        PROVE  /\ cur'[u].pin \in Pins /\ Owner[cur'[u].pin] = u
               /\ function'[cur'[u].pin] = "analog" /\ cur'[u].pin \notin irPins
               /\ pc'[u] # "mode" => cur'[u].idx = index[cur'[u].pin]
    <3>1. u # t /\ cur'[u] = cur[u] /\ pc'[u] = pc[u]
      BY <1>2, <2>1
    <3>2. cur[u].pin \in Pins /\ Owner[cur[u].pin] = u /\ cur[u].pin # p
      BY <1>a, <2>1, <3>1 DEF IInv, CallInv
    <3> QED
      BY <1>2, <2>1, <3>1, <3>2 DEF IInv, CallInv
  <2> QED
    BY <1>1, <2>1 DEF CallInv
<1>9. HoldInv'
  BY <1>1, <1>4, <1>6 DEF IInv, HoldInv
<1>10. IndexInv'
  BY <1>1, <1>6, PinKinds DEF IInv, IndexInv
<1>11. OpenInv'
  <2>1. \A j \in Indices : open[j] \in Pins \cup {NOT_IN_USE}
    BY <1>0 DEF TypeInv
  <2> QED
    BY <1>1, <1>6, <2>1 DEF IInv, OpenInv
<1>12. IRInv'
  BY <1>a, <1>0, <1>1, <1>2 DEF IInv, IRInv, TypeInv
<1>13. PoolInv'
  BY <1>1, <1>6, PoolSame DEF IInv
<1> QED
  BY <1>7, <1>8, <1>9, <1>10, <1>11, <1>12, <1>13 DEF IInv

\* A timer analogWrite() may use is nobody else's.
LEMMA UsableIsOwn ==
  ASSUME IInv, NEW tm \in Timers, Usable(tm)
  PROVE  tm # tone /\ tm # timerIndex /\ (tm \in avail <=> ccrs[tm] = 0) /\ ccrs[tm] \in Nat
<1>1. ccrs[tm] \in Nat
  BY DEF IInv, TypeInv
<1> QED
  BY <1>1 DEF IInv, PoolInv, Usable

\* An index that analogWrite() may take belongs to no other pin, and no pin
\* that is not in PWM is driven.
LEMMA FreeIndex ==
  ASSUME IInv, NEW p \in Pins, NEW i \in Indices, used[i] = NOT_IN_USE,
         p \in DOMAIN Home => i = Home[p],
         p \in Mappable => ~Fixed(i)
  PROVE  \A q \in Pins : q # p => index[q] # i
<1>1. ASSUME NEW q \in Pins, q # p, index[q] = i
      PROVE  FALSE
  <2>1. ~Holding(q)
    BY <1>1 DEF IInv, HoldInv
  <2>2. q \notin Mappable
    BY <1>1, <2>1 DEF IInv, IndexInv
  <2>3. q \in DOMAIN Home /\ Home[q] = i /\ Fixed(i)
    BY <1>1, <2>2, PinKinds DEF IInv, IndexInv
  <2>4. p \in DOMAIN Home /\ Home[p] = Home[q]
    BY <2>3, PinKinds
  <2> QED
    BY <1>1, <2>3, <2>4
<1> QED
  BY <1>1

LEMMA NotDriven ==
  ASSUME IInv, NEW p \in Pins, function[p] # "analog"
  PROVE  ~Holding(p) /\ p \notin irPins /\ \A i \in Indices : open[i] # p
<1>1. ~Holding(p) /\ p \notin irPins
  BY DEF Holding, IInv, IRInv
<1>2. p # NOT_IN_USE
  OBVIOUS
<1> QED
  BY <1>1, <1>2 DEF IInv, OpenInv

\* A pin takes an index.
LEMMA OpenStep ==
  ASSUME IInv, NEW t \in Tasks, NEW p \in Pins, NEW i \in Indices, NEW tm \in Timers,
         pc[t] = "idle", Owner[p] = t, function[p] # "analog", tm = TimerOf(i),
         Usable(tm), used[i] = NOT_IN_USE, open[i] = NOT_IN_USE,
         NEW mark, p \in DOMAIN Home => i = Home[p] /\ mark = FixedMark,
         p \in Mappable => ~Fixed(i) /\ mark = p,
         index' = [index EXCEPT ![p] = i], open' = [open EXCEPT ![i] = p],
         used' = [used EXCEPT ![i] = mark], ccrs' = [ccrs EXCEPT ![tm] = @ + 1],
         avail' = IF ccrs[tm] = 0 THEN avail \ {tm} ELSE avail,
         function' = [function EXCEPT ![p] = "analog"],
         Goto(t, "duty", [pin |-> p, idx |-> i]), UNCHANGED <<others, tone, ir>>
  PROVE  IInv'
<1>0. /\ TypeInv /\ pc' = [pc EXCEPT ![t] = "duty"]
      /\ cur' = [cur EXCEPT ![t] = [pin |-> p, idx |-> i]]
      /\ others' = others /\ tone' = tone /\ timerIndex' = timerIndex /\ irPins' = irPins
  BY DEF IInv, Goto, ir
<1>1. /\ pc'[t] = "duty" /\ cur'[t] = [pin |-> p, idx |-> i]
      /\ \A u \in Tasks : u # t => pc'[u] = pc[u] /\ cur'[u] = cur[u]
  BY <1>0 DEF TypeInv
<1>2. /\ index'[p] = i /\ \A q \in Pins : q # p => index'[q] = index[q]
      /\ function'[p] = "analog" /\ \A q \in Pins : q # p => function'[q] = function[q]
      /\ open'[i] = p /\ \A j \in Indices : j # i => open'[j] = open[j]
      /\ used'[i] = mark /\ \A j \in Indices : j # i => used'[j] = used[j]
  BY <1>0 DEF TypeInv
<1>3. /\ \A q \in Pins : q # p => index[q] # i
      /\ ~Holding(p) /\ p \notin irPins /\ \A j \in Indices : open[j] # p
  BY FreeIndex, NotDriven
<1>4. tm # tone /\ tm # timerIndex /\ (tm \in avail <=> ccrs[tm] = 0) /\ ccrs[tm] \in Nat
  BY UsableIsOwn
<1>5. /\ mark \in Mappable \cup {FixedMark} /\ mark # NOT_IN_USE
      /\ p # NOT_IN_USE
  BY PinKinds
<1>6. ASSUME NEW q \in Pins
      PROVE  (~At(q, {"mode"})' /\ ~At(q, {"free"})') \/ q # p
  BY <1>1 DEF At
<1>7. ASSUME NEW q \in Pins, q # p
      PROVE  At(q, {"mode"})' = At(q, {"mode"}) /\ At(q, {"free"})' = At(q, {"free"})
  <2>1. CASE Owner[q] = t
    BY <1>1, <2>1 DEF At
  <2>2. CASE Owner[q] # t
    <3>1. Owner[q] \in Tasks
      OBVIOUS
    <3> QED
      BY <1>1, <2>2, <3>1 DEF At
  <2> QED
    BY <2>1, <2>2
<1>8. Holding(p)' /\ \A q \in Pins : q # p => Holding(q)' = Holding(q)
  <2>1. Holding(p)'
    BY <1>0, <1>2, <1>3, <1>6 DEF Holding
  <2>2. \A q \in Pins : q # p => Holding(q)' = Holding(q)
    BY <1>0, <1>2, <1>7 DEF Holding
  <2> QED
    BY <2>1, <2>2
<1>9. /\ Taken(tm)' = Taken(tm) \cup {i} /\ i \notin Taken(tm)
      /\ \A o \in Timers : o # tm => Taken(o)' = Taken(o)
  <2>1. i \notin Taken(tm)
    BY <1>3 DEF Taken
  <2>2. \A j \in Indices : (\E q \in Pins : Holding(q)' /\ index'[q] = j)
                           <=> j = i \/ \E q \in Pins : Holding(q) /\ index[q] = j
    BY <1>2, <1>3, <1>8
  <2>3. Taken(tm)' = Taken(tm) \cup {i}
    BY <2>2 DEF Taken, On
  <2>4. ASSUME NEW o \in Timers, o # tm
        PROVE  Taken(o)' = Taken(o)
    BY <2>2, <2>4 DEF Taken, On
  <2> QED
    BY <2>1, <2>3, <2>4
<1>10. Cardinality(Taken(tm)') = Cardinality(Taken(tm)) + 1
  <2>1. IsFiniteSet(Taken(tm))
    BY TimerOfIndex, FS_Subset DEF Taken, On
  <2>2. Cardinality(Taken(tm) \cup {i}) = Cardinality(Taken(tm)) + 1
    BY <1>9, <2>1, FS_AddElement
  <2> QED
    BY <1>9, <2>2
<1>11. /\ ccrs'[tm] = ccrs[tm] + 1 /\ \A o \in Timers : o # tm => ccrs'[o] = ccrs[o]
       /\ ccrs' \in [Timers -> Nat]
  BY <1>0, <1>4 DEF TypeInv
<1>12. TypeInv'
  <2>1. i \in 0 .. MAPPABLE
    BY DEF Indices, MAPPABLE
  <2>2. [pin |-> p, idx |-> i] \in [pin : Pins \cup {Nowhere}, idx : 0 .. MAPPABLE]
    BY <2>1
  <2>3. /\ index' \in [Pins -> 0 .. MAPPABLE]
        /\ function' \in [Pins -> {"unused", "digital", "analog"}]
        /\ open' \in [Indices -> Pins \cup {NOT_IN_USE}]
        /\ used' \in [Indices -> Mappable \cup {FixedMark, NOT_IN_USE, IN_USE}]
    BY <1>0, <1>5, <2>1 DEF TypeInv
  <2>4. /\ pc' \in [Tasks -> {"idle", "duty", "close", "free", "mode"}]
        /\ cur' \in [Tasks -> [pin : Pins \cup {Nowhere}, idx : 0 .. MAPPABLE]]
    BY <1>0, <2>2 DEF TypeInv
  <2>5. avail' \subseteq Timers
    BY <1>0 DEF TypeInv
  <2> QED
    BY <1>0, <1>11, <2>3, <2>4, <2>5 DEF TypeInv
<1>13. CallInv'
  <2>1. ASSUME NEW u \in Tasks, pc'[u] # "idle"
        PROVE  /\ cur'[u].pin \in Pins /\ Owner[cur'[u].pin] = u
               /\ function'[cur'[u].pin] = "analog" /\ cur'[u].pin \notin irPins
               /\ pc'[u] # "mode" => cur'[u].idx = index'[cur'[u].pin]
    <3>1. CASE u = t
      BY <1>1, <1>2, <1>3, <3>1
    <3>2. CASE u # t
      <4>1. /\ cur[u].pin \in Pins /\ Owner[cur[u].pin] = u
            /\ function[cur[u].pin] = "analog" /\ cur[u].pin \notin irPins
            /\ pc[u] # "mode" => cur[u].idx = index[cur[u].pin]
        BY <1>1, <2>1, <3>2 DEF IInv, CallInv
      <4>2. cur[u].pin # p
        BY <3>2, <4>1
      <4> QED
        BY <1>1, <1>2, <3>2, <4>1, <4>2
    <3> QED
      BY <3>1, <3>2
  <2> QED
    BY <1>0, <2>1 DEF CallInv
<1>14. HoldInv'
  <2>1. ASSUME NEW q \in Pins, q # p, Holding(q)
        PROVE  /\ index'[q] = index[q] /\ index[q] \in Indices /\ index[q] # i
               /\ used'[index[q]] = used[index[q]] /\ open'[index[q]] = open[index[q]]
               /\ \A r \in Pins : index'[r] = index[q] => index[r] = index[q]
    <3>1. index'[q] = index[q] /\ index[q] \in Indices /\ index[q] # i
      BY <1>2, <1>3, <2>1 DEF IInv, HoldInv
    <3>2. \A r \in Pins : index'[r] = index[q] => index[r] = index[q]
      BY <1>2, <3>1
    <3> QED
      BY <1>2, <3>1, <3>2
  <2>2. ASSUME NEW q \in Pins, Holding(q)'
        PROVE  /\ index'[q] \in Indices
               /\ used'[index'[q]] # NOT_IN_USE
               /\ q \in DOMAIN Home => used'[index'[q]] = FixedMark
               /\ q \in Mappable => ~Fixed(index'[q]) /\ used'[index'[q]] \in {q, IN_USE}
               /\ open'[index'[q]] = IF At(q, {"free"})' THEN NOT_IN_USE ELSE q
               /\ \A r \in Pins : index'[r] = index'[q] => r = q
    <3>1. CASE q = p
      BY <1>2, <1>3, <1>5, <1>6, <3>1
    <3>2. CASE q # p
      <4>1. Holding(q)
        BY <1>8, <2>2, <3>2
      <4> QED
        BY <1>7, <2>1, <3>2, <4>1 DEF IInv, HoldInv
    <3> QED
      BY <3>1, <3>2
  <2> QED
    BY <2>2 DEF HoldInv
<1>15. IndexInv'
  <2>1. \A q \in DOMAIN Home : index'[q] = Home[q]
    BY <1>2, PinKinds DEF IInv, IndexInv
  <2>2. ASSUME NEW q \in Mappable, index'[q] \in Indices, ~Holding(q)'
        PROVE  used'[index'[q]] = IN_USE
    <3>1. q \in Pins /\ q # p
      BY <1>8, <2>2, PinKinds
    <3>2. index'[q] = index[q] /\ index[q] # i /\ ~Holding(q)
      BY <1>2, <1>3, <1>8, <2>2, <3>1
    <3> QED
      BY <1>2, <2>2, <3>2 DEF IInv, IndexInv
  <2> QED
    BY <2>1, <2>2 DEF IndexInv
<1>16. OpenInv'
  <2>1. ASSUME NEW j \in Indices, NEW q, q = open'[j], q # NOT_IN_USE
        PROVE  \/ Holding(q)' /\ index'[q] = j
               \/ q \in irPins /\ TimerOf(j) = timerIndex
    <3>1. CASE j = i
      BY <1>2, <1>8, <2>1, <3>1
    <3>2. CASE j # i
      <4>1. q = open[j] /\ q \in Pins /\ q # p
        BY <1>0, <1>2, <1>3, <2>1, <3>2 DEF TypeInv
      <4> QED
        BY <1>2, <1>8, <2>1, <4>1 DEF IInv, OpenInv
    <3> QED
      BY <3>1, <3>2
  <2>2. \A j \in Indices : (open[j] # NOT_IN_USE)' =>
          (\/ Holding(open[j]) /\ index[open[j]] = j
           \/ open[j] \in irPins /\ TimerOf(j) = timerIndex)'
    BY <1>0, <2>1 DEF Holding, At
  <2>3. \A j, k \in Indices : open'[j] = open'[k] /\ open'[j] # NOT_IN_USE => j = k
    BY <1>2, <1>3 DEF IInv, OpenInv
  <2> QED
    BY <2>2, <2>3 DEF OpenInv
<1>17. IRInv'
  <2>1. ASSUME NEW q \in irPins
        PROVE  function'[q] = "analog" /\ \E j \in Indices : open'[j] = q
    <3>1. q \in Pins /\ q # p /\ q # NOT_IN_USE
      BY <1>0, <1>3 DEF TypeInv
    <3>2. PICK j \in Indices : open[j] = q
      BY DEF IInv, IRInv
    <3>3. j # i
      BY <3>1, <3>2
    <3> QED
      BY <1>2, <3>1, <3>2, <3>3 DEF IInv, IRInv
  <2> QED
    BY <1>0, <2>1 DEF IInv, IRInv
<1>18. PoolInv'
  <2>2. ASSUME NEW o \in Timers
        PROVE  /\ ccrs'[o] = Cardinality(Taken(o)')
               /\ o \in avail' <=> ccrs'[o] = 0 /\ o # tone /\ o # timerIndex
               /\ o \in {tone, timerIndex} => ccrs'[o] = 0
    <3>1. CASE o = tm
      <4>1. ccrs'[tm] = Cardinality(Taken(tm)') /\ ccrs'[tm] # 0 /\ tm \notin avail'
        BY <1>4, <1>10, <1>11 DEF IInv, PoolInv
      <4> QED
        BY <1>4, <3>1, <4>1
    <3>2. CASE o # tm
      BY <1>9, <1>11, <3>2 DEF IInv, PoolInv
    <3> QED
      BY <3>1, <3>2
  <2> QED
    BY <1>0, <2>2 DEF IInv, PoolInv
<1> QED
  BY <1>12, <1>13, <1>14, <1>15, <1>16, <1>17, <1>18 DEF IInv

\* An index is open only for the pin that has it, or on the IR senders' timer.
LEMMA NotOpen ==
  ASSUME IInv, NEW i \in Indices, used[i] = NOT_IN_USE, TimerOf(i) # timerIndex
  PROVE  open[i] = NOT_IN_USE
<1>1. ASSUME NEW q \in Pins, open[i] = q
      PROVE  FALSE
  <2>1. q # NOT_IN_USE
    OBVIOUS
  <2>2. Holding(q) /\ index[q] = i
    BY <1>1, <2>1 DEF IInv, OpenInv
  <2> QED
    BY <2>2 DEF IInv, HoldInv
<1>2. open[i] \in Pins \cup {NOT_IN_USE}
  BY DEF IInv, TypeInv
<1> QED
  BY <1>1, <1>2

LEMMA AnalogWriteFixedStep ==
  ASSUME IInv, Considerate, NEW t \in Tasks, NEW p \in Pins, AnalogWriteFixed(t, p)
  PROVE  IInv'
<1>a. PICK i \in Indices : i = index[p]
  BY DEF AnalogWriteFixed, HasIndex
<1>0. /\ pc[t] = "idle" /\ Owner[p] = t /\ function[p] # "analog" /\ used[i] = NOT_IN_USE
      /\ Usable(FixedTimer) /\ OpenPwm(t, p, i, TRUE) /\ UNCHANGED <<others, tone, ir>>
  BY <1>a DEF AnalogWriteFixed, MayUse
<1>1. p \in DOMAIN Home /\ i = Home[p] /\ p \notin Mappable
  <2>1. ~Holding(p)
    BY <1>0 DEF Holding
  <2>2. p \notin Mappable
    BY <1>a, <1>0, <2>1 DEF IInv, IndexInv
  <2> QED
    BY <1>a, <2>2, PinKinds DEF IInv, IndexInv
<1>b. PICK tm \in Timers : tm = TimerOf(i) /\ tm = FixedTimer
  BY <1>1, TimerOfIndex, PinKinds DEF Fixed
<1>2. tm # tone /\ tm # timerIndex
  BY <1>0, <1>b, UsableIsOwn
<1>3. open[i] = NOT_IN_USE
  BY <1>0, <1>b, <1>2, NotOpen
<1>4. PwmOpens(i, "analog")
  <2>1. tm \notin others
    BY <1>b DEF IInv, TypeInv, Considerate
  <2>2. ASSUME NEW j \in Opened(tm)
        PROVE  open[j] \notin irPins
    <3>1. j \in Indices /\ TimerOf(j) = tm /\ open[j] # NOT_IN_USE
      BY DEF Opened, On
    <3>2. Holding(open[j])
      BY <1>2, <3>1 DEF IInv, OpenInv
    <3> QED
      BY <3>2 DEF Holding
  <2> QED
    BY <1>b, <1>2, <1>3, <2>1, <2>2 DEF PwmOpens
<1>5. Wired(p, i, TRUE) = p
  <2>1. \A q \in DOMAIN Home : Home[q] = i => q = p
    BY <1>1
  <2> QED
    BY <1>1, <2>1 DEF Wired
<1>6. /\ index' = [index EXCEPT ![p] = i] /\ open' = [open EXCEPT ![i] = p]
      /\ used' = [used EXCEPT ![i] = FixedMark] /\ ccrs' = [ccrs EXCEPT ![tm] = @ + 1]
      /\ avail' = IF ccrs[tm] = 0 THEN avail \ {tm} ELSE avail
      /\ function' = [function EXCEPT ![p] = "analog"]
      /\ Goto(t, "duty", [pin |-> p, idx |-> i])
  BY <1>0, <1>b, <1>4, <1>5 DEF OpenPwm, Claimed
<1> QED
  BY <1>0, <1>1, <1>b, <1>3, <1>6, OpenStep

\* The PWM instance of a mappable pin cannot be opened.
LEMMA FailStep ==
  ASSUME IInv, NEW t \in Tasks, NEW p \in Mappable, NEW i \in Indices, NEW tm \in Timers,
         function[p] # "analog", tm = TimerOf(i), ~Fixed(i), used[i] = NOT_IN_USE,
         index' = [index EXCEPT ![p] = i],
         used' = [j \in Indices |-> IF j \in On(tm) THEN IN_USE ELSE used[j]],
         UNCHANGED <<function, open, ccrs, avail, calls, others, tone, ir>>
  PROVE  IInv'
<1>0. /\ TypeInv /\ function' = function /\ open' = open /\ ccrs' = ccrs /\ avail' = avail
      /\ pc' = pc /\ cur' = cur /\ others' = others /\ tone' = tone
      /\ timerIndex' = timerIndex /\ irPins' = irPins
  BY DEF IInv, calls, ir
<1>1. p \in Pins /\ p \notin DOMAIN Home /\ used'[i] = IN_USE
      /\ \A j \in Indices : used'[j] \in {used[j], IN_USE} /\ (Fixed(j) => used'[j] = used[j])
  BY PinKinds DEF Fixed, On
<1>2. index'[p] = i /\ \A q \in Pins : q # p => index'[q] = index[q]
  BY <1>0, <1>1 DEF TypeInv
<1>3. ~Holding(p) /\ \A q \in Pins : q # p => index[q] # i
  BY <1>1, FreeIndex, NotDriven
<1>4. \A q \in Pins : /\ At(q, {"mode"})' = At(q, {"mode"}) /\ At(q, {"free"})' = At(q, {"free"})
                      /\ Holding(q)' = Holding(q)
  BY <1>0 DEF At, Holding
<1>5. IN_USE # NOT_IN_USE
  OBVIOUS
<1>6. TypeInv'
  <2>1. i \in 0 .. MAPPABLE
    BY DEF Indices, MAPPABLE
  <2>2. index' \in [Pins -> 0 .. MAPPABLE]
    BY <1>0, <2>1 DEF TypeInv
  <2>3. used' \in [Indices -> Mappable \cup {FixedMark, NOT_IN_USE, IN_USE}]
    BY <1>0 DEF TypeInv
  <2> QED
    BY <1>0, <2>2, <2>3 DEF TypeInv
<1>7. CallInv'
  <2>1. ASSUME NEW u \in Tasks, pc[u] # "idle"
        PROVE  cur[u].pin \in Pins /\ cur[u].pin # p
    BY <2>1 DEF IInv, CallInv
  <2> QED
    BY <1>0, <1>2, <2>1 DEF IInv, CallInv
<1>8. HoldInv'
  <2>1. ASSUME NEW q \in Pins, Holding(q)
        PROVE  /\ index'[q] = index[q] /\ index[q] \in Indices
               /\ \A r \in Pins : index'[r] = index[q] => index[r] = index[q]
               /\ q \in DOMAIN Home => Fixed(index[q])
    <3>1. q # p
      BY <1>3, <2>1
    <3>2. index'[q] = index[q] /\ index[q] \in Indices
      BY <1>2, <2>1, <3>1 DEF IInv, HoldInv
    <3>3. \A r \in Pins : index'[r] = index[q] => index[r] = index[q]
      BY <1>2, <1>3, <3>1
    <3>4. q \in DOMAIN Home => Fixed(index[q])
      BY PinKinds DEF IInv, IndexInv
    <3> QED
      BY <3>2, <3>3, <3>4
  <2>2. ASSUME NEW q \in Pins, Holding(q)
        PROVE  /\ index'[q] \in Indices
               /\ used'[index'[q]] # NOT_IN_USE
               /\ q \in DOMAIN Home => used'[index'[q]] = FixedMark
               /\ q \in Mappable => ~Fixed(index'[q]) /\ used'[index'[q]] \in {q, IN_USE}
               /\ open'[index'[q]] = IF At(q, {"free"})' THEN NOT_IN_USE ELSE q
               /\ \A r \in Pins : index'[r] = index'[q] => r = q
    <3>1. /\ index[q] \in Indices
          /\ used[index[q]] # NOT_IN_USE
          /\ q \in DOMAIN Home => used[index[q]] = FixedMark
          /\ q \in Mappable => ~Fixed(index[q]) /\ used[index[q]] \in {q, IN_USE}
          /\ open[index[q]] = IF At(q, {"free"}) THEN NOT_IN_USE ELSE q
          /\ \A r \in Pins : index[r] = index[q] => r = q
      BY <2>2 DEF IInv, HoldInv
    <3>2. used'[index[q]] \in {used[index[q]], IN_USE}
          /\ (Fixed(index[q]) => used'[index[q]] = used[index[q]])
      BY <1>1, <3>1
    <3> QED
      BY <1>0, <1>4, <1>5, <2>1, <2>2, <3>1, <3>2
  <2> QED
    BY <1>4, <2>2 DEF HoldInv
<1>9. IndexInv'
  <2>1. \A q \in DOMAIN Home : index'[q] = Home[q]
    BY <1>1, <1>2, PinKinds DEF IInv, IndexInv
  <2>2. ASSUME NEW q \in Mappable, index'[q] \in Indices, ~Holding(q)
        PROVE  used'[index'[q]] = IN_USE
    <3>1. CASE q = p
      BY <1>1, <1>2, <3>1
    <3>2. CASE q # p
      <4>1. index'[q] = index[q]
        BY <1>2, <3>2, PinKinds
      <4>2. used[index[q]] = IN_USE
        BY <2>2, <4>1 DEF IInv, IndexInv
      <4> QED
        BY <1>1, <2>2, <4>1, <4>2
    <3> QED
      BY <3>1, <3>2
  <2> QED
    BY <1>4, <2>1, <2>2, PinKinds DEF IndexInv
<1>10. OpenInv'
  <2>1. ASSUME NEW j \in Indices, NEW q, q = open[j], q # NOT_IN_USE
        PROVE  \/ Holding(q)' /\ index'[q] = j
               \/ q \in irPins /\ TimerOf(j) = timerIndex
    <3>1. q \in Pins
      BY <1>0, <2>1 DEF TypeInv
    <3> QED
      BY <1>2, <1>3, <1>4, <2>1, <3>1 DEF IInv, OpenInv
  <2>2. \A j \in Indices : (open[j] # NOT_IN_USE)' =>
          (\/ Holding(open[j]) /\ index[open[j]] = j
           \/ open[j] \in irPins /\ TimerOf(j) = timerIndex)'
    BY <1>0, <2>1 DEF Holding, At
  <2> QED
    BY <1>0, <2>2 DEF IInv, OpenInv
<1>11. IRInv'
  BY <1>0 DEF IInv, IRInv
<1>12. PoolInv'
  <2>1. ASSUME NEW o \in Timers
        PROVE  Taken(o)' = Taken(o)
    BY <1>2, <1>3, <1>4 DEF Taken
  <2> QED
    BY <1>0, <2>1 DEF IInv, PoolInv
<1> QED
  BY <1>6, <1>7, <1>8, <1>9, <1>10, <1>11, <1>12 DEF IInv

LEMMA AnalogWriteMappedStep ==
  ASSUME IInv, NEW t \in Tasks, NEW p \in Pins, AnalogWriteMapped(t, p)
  PROVE  IInv'
<1>1. Unused \subseteq Indices /\ Unused # {}
  BY DEF AnalogWriteMapped, Unused
<1>2. Min(Unused) \in Unused
  BY <1>1, Least
<1>a. PICK i \in Indices : i = Min(Unused)
  BY <1>1, <1>2
<1>b. PICK tm \in Timers : tm = TimerOf(i)
  BY <1>a, TimerOfIndex
<1>3. ~Fixed(i) /\ Usable(tm) /\ used[i] = NOT_IN_USE
  BY <1>2, <1>a, <1>b DEF Unused
<1>4. /\ pc[t] = "idle" /\ Owner[p] = t /\ function[p] # "analog"
      /\ OpenPwm(t, p, i, FALSE) /\ UNCHANGED <<others, tone, ir>>
  BY <1>a DEF AnalogWriteMapped, MayUse
<1>5. p \in Mappable /\ p \notin DOMAIN Home
  <2>1. index[p] \notin Indices
    BY DEF AnalogWriteMapped, HasIndex
  <2> QED
    BY <2>1, PinKinds DEF IInv, IndexInv
<1>6. CASE PwmOpens(i, "analog")
  <2>1. /\ index' = [index EXCEPT ![p] = i] /\ open' = [open EXCEPT ![i] = p]
        /\ used' = [used EXCEPT ![i] = p] /\ ccrs' = [ccrs EXCEPT ![tm] = @ + 1]
        /\ avail' = IF ccrs[tm] = 0 THEN avail \ {tm} ELSE avail
        /\ function' = [function EXCEPT ![p] = "analog"]
        /\ Goto(t, "duty", [pin |-> p, idx |-> i])
    BY <1>4, <1>b, <1>6 DEF OpenPwm, Claimed, Wired
  <2>2. open[i] = NOT_IN_USE
    BY <1>6 DEF PwmOpens
  <2> QED
    BY <1>b, <1>3, <1>4, <1>5, <2>1, <2>2, OpenStep
<1>7. CASE ~PwmOpens(i, "analog")
  <2>1. /\ index' = [index EXCEPT ![p] = i]
        /\ used' = [j \in Indices |-> IF j \in On(tm) THEN IN_USE ELSE used[j]]
        /\ UNCHANGED <<function, open, ccrs, avail, calls, others, tone, ir>>
    BY <1>4, <1>b, <1>7 DEF OpenPwm
  <2> QED
    BY <1>b, <1>3, <1>4, <1>5, <2>1, FailStep
<1> QED
  BY <1>6, <1>7

\* The timer of the IR senders is in the pool when the first takes it.
LEMMA IRTimerChosen ==
  ASSUME IInv, NEW p \in Pins, NEW tm, tm = IRTimer(p), tm # INVALID
  PROVE  /\ tm \in Timers /\ ccrs[tm] = 0 /\ tm # tone
         /\ IF irPins = {} THEN tm \in avail /\ timerIndex = INVALID ELSE tm = timerIndex
<1>0. TypeInv /\ (timerIndex = INVALID <=> irPins = {})
  BY DEF IInv, IRInv
<1>1. CASE timerIndex # INVALID
  <2>1. tm = timerIndex /\ tm \in Timers
    BY <1>0, <1>1 DEF IRTimer, TypeInv
  <2>2. ccrs[tm] = 0 /\ tm # tone
    BY <1>1, <2>1 DEF IInv, PoolInv
  <2> QED
    BY <1>0, <1>1, <2>1, <2>2
<1>2. CASE timerIndex = INVALID
  <2> DEFINE free == {o \in avail : (o = FixedTimer) = HasIndex(p)}
  <2>1. free # {} /\ tm = Min(free)
    BY <1>2 DEF IRTimer
  <2>2. free \subseteq avail /\ avail \subseteq Timers
    BY <1>0 DEF TypeInv
  <2> HIDE DEF free
  <2>3. tm \in avail /\ tm \in Timers
    BY <2>1, <2>2, Least
  <2> QED
    BY <1>0, <1>2, <2>3 DEF IInv, PoolInv
<1> QED
  BY <1>1, <1>2

LEMMA InitIRSenderStep ==
  ASSUME IInv, NEW t \in Tasks, NEW p \in Pins, InitIRSender(t, p)
  PROVE  IInv'
<1>a. PICK tm : tm = IRTimer(p) /\ tm # INVALID
  BY DEF InitIRSender
<1>0. /\ tm \in Timers /\ ccrs[tm] = 0 /\ tm # tone
      /\ IF irPins = {} THEN tm \in avail /\ timerIndex = INVALID ELSE tm = timerIndex
  BY <1>a, IRTimerChosen
<1>1. /\ TypeInv /\ pc[t] = "idle" /\ Owner[p] = t /\ p \notin irPins /\ function[p] # "analog"
      /\ timerIndex' = tm /\ irPins' = irPins \cup {p}
      /\ avail' = IF irPins = {} THEN avail \ {tm} ELSE avail
      /\ function' = [function EXCEPT ![p] = "analog"]
      /\ index' = index /\ used' = used /\ ccrs' = ccrs /\ others' = others /\ tone' = tone
      /\ pc' = pc /\ cur' = cur
  BY <1>a DEF IInv, InitIRSender, MayUse, calls
<1>b. PICK i \in Indices : TimerOf(i) = tm /\ open[i] = NOT_IN_USE /\ open' = [open EXCEPT ![i] = p]
  <2>1. CASE HasIndex(p)
    <3>1. p \in DOMAIN Home /\ index[p] = Home[p] /\ tm = FixedTimer
      BY <1>a, <2>1 DEF InitIRSender, IInv, IndexInv
    <3>2. index[p] \in Indices /\ TimerOf(index[p]) = tm
      BY <3>1, PinKinds DEF Fixed
    <3>3. Wired(p, index[p], TRUE) = p
      <4>1. \A q \in DOMAIN Home : Home[q] = index[p] => q = p
        BY <3>1
      <4> QED
        BY <3>1, <4>1 DEF Wired
    <3>4. open[index[p]] = NOT_IN_USE /\ open' = [open EXCEPT ![index[p]] = p]
      BY <1>a, <2>1, <3>3 DEF InitIRSender, PwmOpens
    <3> QED
      BY <3>2, <3>4
  <2>2. CASE ~HasIndex(p)
    <3> DEFINE k == Cardinality(irPins)
    <3>1. k \in 0 .. CCRs - 1
      <4>1. k \in Nat
        BY <1>1, FS_CardinalityType DEF TypeInv
      <4>2. k < CCRs
        BY DEF InitIRSender
      <4> QED
        BY <4>1, <4>2
    <3>2. CCRs * tm + k \in Indices /\ TimerOf(CCRs * tm + k) = tm
      BY <1>0, <3>1, Quotient DEF Timers
    <3>3. /\ open[CCRs * tm + k] = NOT_IN_USE
          /\ open' = [open EXCEPT ![CCRs * tm + k] = p]
      BY <1>a, <2>2 DEF InitIRSender, PwmOpens, Wired
    <3> QED
      BY <3>2, <3>3
  <2> QED
    BY <2>1, <2>2
<1>2. /\ function'[p] = "analog" /\ \A q \in Pins : q # p => function'[q] = function[q]
      /\ open'[i] = p /\ \A j \in Indices : j # i => open'[j] = open[j]
  BY <1>1, <1>b DEF TypeInv
<1>3. ~Holding(p) /\ \A j \in Indices : open[j] # p
  BY <1>1, NotDriven
<1>4. \A q \in Pins : /\ At(q, {"mode"})' = At(q, {"mode"})
                      /\ At(q, {"free"})' = At(q, {"free"})
  BY <1>1 DEF At
<1>5. \A q \in Pins : Holding(q)' = Holding(q)
  <2>1. ASSUME NEW q \in Pins
        PROVE  Holding(q)' = Holding(q)
    <3>1. CASE q = p
      BY <1>1, <1>3, <3>1 DEF Holding
    <3>2. CASE q # p
      BY <1>1, <1>2, <1>4, <3>2 DEF Holding
    <3> QED
      BY <3>1, <3>2
  <2> QED
    BY <2>1
<1>6. \A q \in Pins : Holding(q) => index[q] # i
  <2>1. IsFiniteSet(Taken(tm)) /\ Cardinality(Taken(tm)) = 0
    BY <1>0, TimerOfIndex, FS_Subset DEF Taken, On, IInv, PoolInv
  <2>2. Taken(tm) = {}
    BY <2>1, FS_EmptySet
  <2> QED
    BY <1>b, <2>2 DEF Taken, On
<1>7. TypeInv'
  <2>1. irPins' \subseteq Pins /\ IsFiniteSet(irPins')
    BY <1>1, FS_AddElement DEF TypeInv
  <2>2. /\ function' \in [Pins -> {"unused", "digital", "analog"}]
        /\ open' \in [Indices -> Pins \cup {NOT_IN_USE}]
        /\ avail' \subseteq Timers
    BY <1>1, <1>b DEF TypeInv
  <2> QED
    BY <1>0, <1>1, <2>1, <2>2 DEF TypeInv
<1>8. CallInv'
  <2>1. ASSUME NEW u \in Tasks, pc[u] # "idle"
        PROVE  cur[u].pin \in Pins /\ cur[u].pin # p
    BY <1>1, <2>1 DEF IInv, CallInv
  <2> QED
    BY <1>1, <1>2, <2>1 DEF IInv, CallInv
<1>9. HoldInv'
  <2>1. \A q \in Pins : Holding(q) => index[q] \in Indices /\ open'[index[q]] = open[index[q]]
    BY <1>2, <1>6 DEF IInv, HoldInv
  <2> QED
    BY <1>1, <1>4, <1>5, <2>1 DEF IInv, HoldInv
<1>10. IndexInv'
  BY <1>1, <1>5, PinKinds DEF IInv, IndexInv
<1>11. OpenInv'
  <2>1. ASSUME NEW j \in Indices, NEW q, q = open'[j], q # NOT_IN_USE
        PROVE  \/ Holding(q)' /\ index'[q] = j
               \/ q \in irPins' /\ TimerOf(j) = timerIndex'
    <3>1. CASE j = i
      BY <1>1, <1>b, <1>2, <2>1, <3>1
    <3>2. CASE j # i
      <4>1. q = open[j] /\ q \in Pins
        BY <1>1, <1>2, <2>1, <3>2 DEF TypeInv
      <4>2. CASE Holding(q) /\ index[q] = j
        BY <1>1, <1>5, <4>1, <4>2
      <4>3. CASE q \in irPins /\ TimerOf(j) = timerIndex
        BY <1>0, <1>1, <4>3
      <4> QED
        BY <2>1, <4>1, <4>2, <4>3 DEF IInv, OpenInv
    <3> QED
      BY <3>1, <3>2
  <2>2. \A j \in Indices : (open[j] # NOT_IN_USE)' =>
          (\/ Holding(open[j]) /\ index[open[j]] = j
           \/ open[j] \in irPins /\ TimerOf(j) = timerIndex)'
    BY <2>1 DEF Holding, At
  <2>3. \A j, k \in Indices : open'[j] = open'[k] /\ open'[j] # NOT_IN_USE => j = k
    BY <1>2, <1>3 DEF IInv, OpenInv
  <2> QED
    BY <2>2, <2>3 DEF OpenInv
<1>12. IRInv'
  <2>1. ASSUME NEW q \in irPins'
        PROVE  function'[q] = "analog" /\ \E j \in Indices : open'[j] = q
    <3>1. CASE q = p
      BY <1>2, <3>1
    <3>2. CASE q # p
      <4>1. q \in irPins /\ q \in Pins /\ q # NOT_IN_USE
        BY <1>1, <2>1, <3>2 DEF TypeInv
      <4>2. PICK j \in Indices : open[j] = q
        BY <4>1 DEF IInv, IRInv
      <4>3. j # i
        BY <1>b, <4>1, <4>2
      <4> QED
        BY <1>2, <3>2, <4>1, <4>2, <4>3 DEF IInv, IRInv
    <3> QED
      BY <3>1, <3>2
  <2>2. timerIndex' # INVALID /\ irPins' # {}
    BY <1>a, <1>1
  <2> QED
    BY <2>1, <2>2 DEF IRInv
<1>13. PoolInv'
  <2>1. \A o \in Timers : Taken(o)' = Taken(o)
    BY <1>1, <1>5 DEF Taken
  <2>2. ASSUME NEW o \in Timers
        PROVE  /\ o \in avail' <=> ccrs[o] = 0 /\ o # tone /\ o # tm
               /\ o \in {tone, tm} => ccrs[o] = 0
    <3>1. o \in avail <=> ccrs[o] = 0 /\ o # tone /\ o # timerIndex
      BY DEF IInv, PoolInv
    <3>2. o = tone => ccrs[o] = 0
      BY DEF IInv, PoolInv
    <3>3. CASE irPins = {}
      BY <1>0, <1>1, <3>1, <3>2, <3>3
    <3>4. CASE irPins # {}
      BY <1>0, <1>1, <3>1, <3>2, <3>4
    <3> QED
      BY <3>3, <3>4
  <2> QED
    BY <1>0, <1>1, <2>1, <2>2 DEF IInv, PoolInv
<1> QED
  BY <1>7, <1>8, <1>9, <1>10, <1>11, <1>12, <1>13 DEF IInv

\* A step of somebody else: it changes no pin.
LEMMA OutsideStep ==
  ASSUME IInv, UNCHANGED <<tables, open, ir, calls>>,
         others' \subseteq OtherTimers, tone' \in Timers \cup {INVALID}, avail' \subseteq Timers,
         PoolInv'
  PROVE  IInv'
<1>0. /\ TypeInv /\ function' = function /\ index' = index /\ used' = used /\ ccrs' = ccrs
      /\ open' = open /\ timerIndex' = timerIndex /\ irPins' = irPins
      /\ pc' = pc /\ cur' = cur
  BY DEF IInv, tables, ir, calls
<1>1. \A q \in Pins : Holding(q)' = Holding(q) /\ At(q, {"free"})' = At(q, {"free"})
  BY <1>0 DEF Holding, At
<1>2. TypeInv'
  BY <1>0 DEF TypeInv
<1>3. CallInv'
  BY <1>0 DEF IInv, CallInv
<1>4. HoldInv'
  BY <1>0, <1>1 DEF IInv, HoldInv
<1>5. IndexInv'
  BY <1>0, <1>1, PinKinds DEF IInv, IndexInv
<1>6. OpenInv'
  <2>1. \A j \in Indices : open[j] \in Pins \cup {NOT_IN_USE}
    BY <1>0 DEF TypeInv
  <2> QED
    BY <1>0, <1>1, <2>1 DEF IInv, OpenInv
<1>7. IRInv'
  BY <1>0 DEF IInv, IRInv
<1> QED
  BY <1>2, <1>3, <1>4, <1>5, <1>6, <1>7 DEF IInv

LEMMA SameTaken ==
  ASSUME UNCHANGED <<tables, ir, calls>>
  PROVE  \A o \in Timers : Taken(o)' = Taken(o)
  BY DEF tables, ir, calls, Taken, Holding, At

LEMMA ToneStep ==
  ASSUME IInv, Tone
  PROVE  IInv'
<1>1. PICK m \in Timers : m = Min(avail) /\ m \in avail
  <2>1. avail \subseteq Timers /\ avail # {}
    BY DEF IInv, TypeInv, Tone
  <2> QED
    BY <2>1, Least
<1>2. /\ tone = INVALID /\ tone' = m /\ avail' = avail \ {m}
      /\ UNCHANGED <<tables, open, others, ir, calls>>
  BY <1>1 DEF Tone
<1>3. ccrs[m] = 0 /\ m # timerIndex
  BY <1>1 DEF IInv, PoolInv
<1>4. ccrs' = ccrs /\ timerIndex' = timerIndex /\ \A o \in Timers : Taken(o)' = Taken(o)
  BY <1>2, SameTaken DEF tables, ir
<1>5. PoolInv'
  <2>1. ASSUME NEW o \in Timers
        PROVE  /\ o \in avail' <=> ccrs[o] = 0 /\ o # m /\ o # timerIndex
               /\ o \in {m, timerIndex} => ccrs[o] = 0
    BY <1>1, <1>2, <1>3 DEF IInv, PoolInv
  <2> QED
    BY <1>1, <1>2, <1>3, <1>4, <2>1 DEF IInv, PoolInv
<1>6. others' \subseteq OtherTimers /\ avail' \subseteq Timers
  BY <1>2 DEF IInv, TypeInv
<1> QED
  BY <1>2, <1>5, <1>6, OutsideStep

LEMMA OthersStep ==
  ASSUME IInv, NEW tm \in Timers, OtherOpens(tm) \/ OtherCloses(tm)
  PROVE  IInv'
<1>1. /\ UNCHANGED <<tables, avail, open, tone, ir, calls>>
      /\ others' \subseteq OtherTimers
  BY DEF OtherOpens, OtherCloses, IInv, TypeInv
<1>2. /\ ccrs' = ccrs /\ timerIndex' = timerIndex /\ avail' = avail /\ tone' = tone
      /\ \A o \in Timers : Taken(o)' = Taken(o)
  BY <1>1, SameTaken DEF tables, ir
<1>3. PoolInv'
  BY <1>2 DEF IInv, PoolInv
<1>4. tone' \in Timers \cup {INVALID} /\ avail' \subseteq Timers
  BY <1>2 DEF IInv, TypeInv
<1> QED
  BY <1>1, <1>3, <1>4, OutsideStep

-----------------------------------------------------------------------------
(* The invariant and what follows.                                         *)

LEMMA InitInv == Init => IInv
<1> SUFFICES ASSUME Init PROVE IInv
  OBVIOUS
<1>1. \A p \in Pins : ~Holding(p)
  BY DEF Init, Holding
<1>2. TypeInv
  <2>1. Indices \subseteq 0 .. MAPPABLE /\ MAPPABLE \in 0 .. MAPPABLE
    BY DEF Indices, MAPPABLE
  <2>2. index \in [Pins -> 0 .. MAPPABLE]
    BY <2>1, PinKinds DEF Init
  <2>3. cur \in [Tasks -> [pin : Pins \cup {Nowhere}, idx : 0 .. MAPPABLE]]
    BY NoCallType DEF Init
  <2>4. IsFiniteSet(irPins)
    BY FS_EmptySet DEF Init
  <2> QED
    BY <2>2, <2>3, <2>4 DEF Init, TypeInv
<1>3. CallInv
  BY DEF Init, CallInv
<1>4. HoldInv
  BY <1>1 DEF HoldInv
<1>5. IndexInv
  BY PinKinds DEF Init, IndexInv
<1>6. OpenInv
  BY DEF Init, OpenInv
<1>7. IRInv
  BY DEF Init, IRInv
<1>8. PoolInv
  <2>1. \A o \in Timers : Taken(o) = {}
    BY <1>1 DEF Taken
  <2>2. Cardinality({}) = 0
    BY FS_EmptySet
  <2> QED
    BY <2>1, <2>2 DEF Init, PoolInv
<1> QED
  BY <1>2, <1>3, <1>4, <1>5, <1>6, <1>7, <1>8 DEF IInv

LEMMA NextInv ==
  ASSUME Considerate, IInv, [Next]_vars
  PROVE  IInv'
<1>1. ASSUME NEW t \in Tasks, NEW p \in Pins, Call(t, p)
      PROVE  IInv'
  BY <1>1, AnalogWriteAgainStep, AnalogWriteFixedStep, AnalogWriteMappedStep, PinModeStep,
     InitIRSenderStep DEF Call
<1>2. ASSUME NEW t \in Tasks, Step(t)
      PROVE  IInv'
  BY <1>2, SetDutyStep, ClosePwmStep, FreePwmStep, SetFunctionStep DEF Step
<1>3. CASE Tone
  BY <1>3, ToneStep
<1>4. ASSUME NEW tm \in Timers, OtherOpens(tm) \/ OtherCloses(tm)
      PROVE  IInv'
  BY <1>4, OthersStep
<1>5. CASE UNCHANGED vars
  <2>1. /\ UNCHANGED <<tables, avail, open, others, tone, ir, calls>>
    BY <1>5 DEF vars
  <2>2. others' \subseteq OtherTimers /\ tone' \in Timers \cup {INVALID} /\ avail' \subseteq Timers
    BY <2>1 DEF IInv, TypeInv
  <2>3. PoolInv'
    BY <2>1, SameTaken DEF IInv, PoolInv, tables, ir
  <2> QED
    BY <2>1, <2>2, <2>3, OutsideStep
<1> QED
  BY <1>1, <1>2, <1>3, <1>4, <1>5 DEF Next

\* The inductive invariant holds always.
THEOREM Invariant ==
  ASSUME Considerate
  PROVE  Spec => []IInv
<1>1. IInv /\ [Next]_vars => IInv'
  BY NextInv
<1> QED
  BY <1>1, InitInv, PTL DEF Spec

\* Whatever runs between the sections with interrupts disabled, the duty cycle
\* is set, and the instance closed, of the instance that drives the pin.
THEOREM DutyArrives ==
  ASSUME Considerate
  PROVE  Spec => []DutyReachesPin
<1>1. IInv => DutyReachesPin
  <2> SUFFICES ASSUME IInv, NEW t \in Tasks, pc[t] \in {"duty", "close"}
               PROVE  cur[t].idx \in Indices /\ open[cur[t].idx] = cur[t].pin
    BY DEF DutyReachesPin
  <2>1. /\ cur[t].pin \in Pins /\ Owner[cur[t].pin] = t /\ Holding(cur[t].pin)
        /\ cur[t].idx = index[cur[t].pin] /\ cur[t].idx \in Indices
    BY CallPin
  <2>2. ~At(cur[t].pin, {"free"})
    BY <2>1 DEF At
  <2> QED
    BY <2>1, <2>2 DEF IInv, HoldInv
<1> QED
  BY <1>1, Invariant, PTL

\* Between calls a pin is driven by one PWM instance when it is an analog
\* output, and by none otherwise.
THEOREM PinsAreDriven ==
  ASSUME Considerate
  PROVE  Spec => []PinsDriven
<1>1. IInv => PinsDriven
  <2> SUFFICES ASSUME IInv, NEW p \in Pins, pc[Owner[p]] = "idle"
               PROVE  Cardinality(Drives(p)) = (IF function[p] = "analog" THEN 1 ELSE 0)
    BY DEF PinsDriven
  <2>1. CASE function[p] # "analog"
    <3>1. Drives(p) = {}
      BY <2>1, NotDriven DEF Drives
    <3> QED
      BY <2>1, <3>1, FS_EmptySet
  <2>2. CASE function[p] = "analog"
    <3>1. ~At(p, {"mode"}) /\ ~At(p, {"free"})
      BY DEF At
    <3>2. PICK i \in Indices : open[i] = p
      <4>1. CASE p \in irPins
        BY <4>1 DEF IInv, IRInv
      <4>2. CASE p \notin irPins
        <5>1. Holding(p)
          BY <2>2, <3>1, <4>2 DEF Holding
        <5>2. index[p] \in Indices /\ open[index[p]] = p
          BY <3>1, <5>1 DEF IInv, HoldInv
        <5> QED
          BY <5>2
      <4> QED
        BY <4>1, <4>2
    <3>3. p # NOT_IN_USE
      OBVIOUS
    <3>4. Drives(p) = {i}
      BY <3>2, <3>3 DEF IInv, OpenInv, Drives
    <3> QED
      BY <2>2, <3>4, FS_Singleton
  <2> QED
    BY <2>1, <2>2
<1> QED
  BY <1>1, Invariant, PTL

\* No timer serves two of analogWrite(), the IR senders and tone().
THEOREM TimersAreExclusive ==
  ASSUME Considerate
  PROVE  Spec => []TimersExclusive
<1>1. IInv => TimersExclusive
  <2> SUFFICES ASSUME IInv, NEW tm \in Timers, NEW i \in Opened(tm)
               PROVE  tm # tone /\ (tm = timerIndex => open[i] \in irPins)
    BY DEF TimersExclusive
  <2>1. i \in Indices /\ TimerOf(i) = tm /\ open[i] # NOT_IN_USE
    BY DEF Opened, On
  <2>2. CASE Holding(open[i]) /\ index[open[i]] = i
    <3>1. open[i] \in Pins
      BY <2>1 DEF IInv, TypeInv
    <3>2. i \in Taken(tm)
      BY <2>1, <2>2, <3>1 DEF Taken, On
    <3>3. IsFiniteSet(Taken(tm))
      BY TimerOfIndex, FS_Subset DEF Taken, On
    <3>4. ccrs[tm] # 0
      BY <3>2, <3>3, FS_EmptySet DEF IInv, PoolInv
    <3> QED
      BY <3>4 DEF IInv, PoolInv
  <2>3. CASE open[i] \in irPins /\ TimerOf(i) = timerIndex
    BY <2>1, <2>3 DEF IInv, PoolInv
  <2> QED
    BY <2>1, <2>2, <2>3 DEF IInv, OpenInv
<1> QED
  BY <1>1, Invariant, PTL

\* Between calls the pool holds exactly the timers that nobody uses.
THEOREM TimersComeBack ==
  ASSUME Considerate
  PROVE  Spec => []TimersReturned
<1>1. IInv => TimersReturned
  <2> SUFFICES ASSUME IInv, \A t \in Tasks : pc[t] = "idle", NEW tm \in Timers
               PROVE  tm \in avail <=> tm # tone /\ Opened(tm) = {}
    BY DEF TimersReturned
  <2>0. /\ ccrs[tm] = Cardinality(Taken(tm)) /\ IsFiniteSet(Taken(tm))
        /\ tm \in avail <=> ccrs[tm] = 0 /\ tm # tone /\ tm # timerIndex
    BY TimerOfIndex, FS_Subset DEF Taken, On, IInv, PoolInv
  <2>1. ccrs[tm] = 0 <=> Taken(tm) = {}
    BY <2>0, FS_EmptySet
  <2>2. \A i \in Opened(tm) : i \in Taken(tm) \/ tm = timerIndex
    <3>1. ASSUME NEW i \in Opened(tm)
          PROVE  i \in Taken(tm) \/ tm = timerIndex
      <4>1. i \in Indices /\ TimerOf(i) = tm /\ open[i] # NOT_IN_USE /\ open[i] \in Pins
        BY DEF Opened, On, IInv, TypeInv
      <4> QED
        BY <4>1 DEF IInv, OpenInv, Taken, On
    <3> QED
      BY <3>1
  <2>3. \A i \in Taken(tm) : i \in Opened(tm)
    <3>1. ASSUME NEW i \in Taken(tm)
          PROVE  i \in Opened(tm)
      <4>1. PICK p \in Pins : Holding(p) /\ index[p] = i
        BY DEF Taken
      <4>2. ~At(p, {"free"})
        <5>1. Owner[p] \in Tasks
          OBVIOUS
        <5> QED
          BY <5>1 DEF At
      <4>3. open[i] = p /\ p # NOT_IN_USE
        BY <4>1, <4>2 DEF IInv, HoldInv
      <4> QED
        BY <4>3 DEF Taken, Opened
    <3> QED
      BY <3>1
  <2>4. tm = timerIndex => Opened(tm) # {}
    <3>1. ASSUME tm = timerIndex
          PROVE  Opened(tm) # {}
      <4>1. PICK p \in irPins : TRUE
        BY <3>1 DEF IInv, IRInv
      <4>2. PICK i \in Indices : open[i] = p
        BY DEF IInv, IRInv
      <4>3. p \in Pins /\ p # NOT_IN_USE /\ ~Holding(p)
        BY DEF IInv, TypeInv, Holding
      <4>4. TimerOf(i) = tm
        BY <3>1, <4>2, <4>3 DEF IInv, OpenInv
      <4> QED
        BY <4>2, <4>3, <4>4 DEF Opened, On
    <3> QED
      BY <3>1
  <2> QED
    BY <2>0, <2>1, <2>2, <2>3, <2>4
<1> QED
  BY <1>1, Invariant, PTL

\* A timer has no more indexes than CCRs.
LEMMA OnTimer ==
  ASSUME NEW tm \in Timers
  PROVE  IsFiniteSet(On(tm)) /\ Cardinality(On(tm)) <= CCRs
<1> DEFINE first == CCRs * tm
           last == first + (CCRs - 1)
<1>1. first \in Nat /\ last \in Nat
  BY DEF Timers
<1>2. On(tm) \subseteq first .. last
  <2> SUFFICES ASSUME NEW i \in On(tm)
               PROVE  i \in first .. last
    OBVIOUS
  <2>1. PICK q \in 0 .. 2, k \in 0 .. CCRs - 1 : i = CCRs * q + k
    BY IndexSplits DEF On
  <2>2. q = tm
    BY <2>1, Quotient DEF On
  <2>3. i = first + k /\ k \in Nat /\ k <= CCRs - 1
    BY <2>1, <2>2
  <2> HIDE DEF first
  <2>4. first <= first + k /\ first + k <= first + (CCRs - 1)
    BY <1>1, <2>3
  <2> QED
    BY <1>1, <2>3, <2>4
<1>3. IsFiniteSet(first .. last) /\ Cardinality(first .. last) = CCRs
  <2> HIDE DEF first
  <2>1. IsFiniteSet(first .. last)
        /\ Cardinality(first .. last) = IF first > last THEN 0 ELSE last - first + 1
    BY <1>1, FS_Interval
  <2>2. ~(first > last) /\ last - first + 1 = CCRs
    BY <1>1
  <2> QED
    BY <2>1, <2>2
<1> HIDE DEF first, last
<1> QED
  BY <1>2, <1>3, FS_Subset

\* Every variable keeps its type (TypeOK): the tables name pins and indexes that
\* exist, and no timer is counted more often than it has CCRs.
THEOREM PinsTyped ==
  ASSUME Considerate
  PROVE  Spec => []TypeOK
<1>1. IInv => TypeOK
  <2> SUFFICES ASSUME IInv
               PROVE  TypeOK
    OBVIOUS
  <2>1. ASSUME NEW tm \in Timers
        PROVE  ccrs[tm] \in 0 .. CCRs
    <3>1. Taken(tm) \subseteq On(tm) /\ ccrs[tm] = Cardinality(Taken(tm)) /\ ccrs[tm] \in Nat
      BY DEF Taken, IInv, PoolInv, TypeInv
    <3>2. Cardinality(Taken(tm)) <= Cardinality(On(tm))
      BY <3>1, OnTimer, FS_Subset
    <3>3. Cardinality(On(tm)) \in Nat
      BY OnTimer, FS_CardinalityType
    <3>4. Cardinality(On(tm)) <= CCRs
      BY OnTimer
    <3> QED
      BY <3>1, <3>2, <3>3, <3>4
  <2>2. ccrs \in [Timers -> 0 .. CCRs]
    BY <2>1 DEF IInv, TypeInv
  <2>3. others \subseteq Timers
    BY DEF IInv, TypeInv
  <2>4. open \in [Indices -> Pins \cup {Nowhere, NOT_IN_USE}]
    BY DEF IInv, TypeInv
  <2> QED
    BY <2>2, <2>3, <2>4 DEF IInv, TypeInv, TypeOK
<1> QED
  BY <1>1, Invariant, PTL
=============================================================================
