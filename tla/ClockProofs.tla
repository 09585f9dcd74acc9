---------------------------- MODULE ClockProofs ----------------------------
(***************************************************************************)
(* Proofs about the two tick sources of the Clock.                         *)
(*                                                                         *)
(* DelayClock, for every set of tasks, period and argument.  The types     *)
(* hold for all priorities.  That one timer drives the Clock and that its  *)
(* power constraint is held needs tasks of one priority, so that no task   *)
(* runs while another is inside a switch; the run delay_preempt shows that *)
(* it fails without.  How long a delay lasts needs besides that no task    *)
(* changes the resolution while another sleeps (Lone).                     *)
(*                                                                         *)
(* TickP4111 keeps time for ever: the error never grows, and every round   *)
(* of 125 interrupts but the first takes 4096 counts.                      *)
(***************************************************************************)
EXTENDS DelayClock, TickP4111, TLAPS

\* The sketches' tasks share one priority.
Cooperative == \A t, u \in Tasks : Prio[t] = Prio[u]

(***************************************************************************)
(* Types.                                                                  *)
(***************************************************************************)
\* A tick count stays below the modulus.
LEMMA TickMod_ == \A i \in Nat : i % TickMod \in 0 .. TickMod - 1
  BY DelayAssumption

\* Types of what the calls work on.
CallTypes ==
  /\ delayMode \in 0 .. 2
  /\ timerA \in BOOLEAN /\ wdt \in BOOLEAN
  /\ held \in [0 .. 1 -> Nat]
  /\ pc \in [Tasks -> Waiting \cup Running]
  /\ call \in [Tasks -> Calls]
  /\ lapsed \in [Tasks -> BOOLEAN]

\* Types of what time and the interrupts work on.
TimeTypes ==
  /\ wdtCount \in 0 .. Period - 1
  /\ ifgA \in BOOLEAN /\ ifgW \in BOOLEAN
  /\ ticks \in 0 .. TickMod - 1
  /\ swiCount \in Nat
  /\ due \in [Tasks -> 0 .. TickMod - 1]
  /\ elapsed \in [Tasks -> Nat]

\* The steps of a call keep the types.
LEMMA StepTypes ==
  ASSUME TypeOK, NEW t \in Tasks, Step(t)
  PROVE  CallTypes'
<1> USE DEF TypeOK, CallTypes, Goto, At, Waiting, Running
<1>1. CASE SetMode(t)
  <2>1. call' \in [Tasks -> Calls]
    BY <1>1 DEF SetMode, NoCall, Calls
  <2>2. pc' \in [Tasks -> Waiting \cup Running] /\ lapsed' \in [Tasks -> BOOLEAN]
    BY <1>1 DEF SetMode, Entry
  <2> QED BY <1>1, <2>1, <2>2 DEF SetMode, timers
<1>2. CASE StopTimerA(t) BY <1>2 DEF StopTimerA
<1>3. CASE HoldWatchdog(t) BY <1>3 DEF HoldWatchdog
<1>4. CASE Release(t)
  <2>1. held' \in [0 .. 1 -> Nat]
    BY <1>4 DEF Release, ConstraintOf
  <2> QED BY <1>4, <2>1 DEF Release, timers
<1>5. CASE Set(t)
  <2>1. held' \in [0 .. 1 -> Nat]
    BY <1>5 DEF Set, ConstraintOf
  <2> QED BY <1>5, <2>1 DEF Set, timers
<1>6. CASE Start(t)
  BY <1>6 DEF Start
<1>7. CASE Sleep(t)
  BY <1>7 DEF Sleep, timers
<1>8. CASE YieldReturns(t)
  BY <1>8 DEF YieldReturns, timers
<1> QED BY <1>1, <1>2, <1>3, <1>4, <1>5, <1>6, <1>7, <1>8 DEF Step

\* The start of a call keeps the types.
LEMMA CallKeepsTypes ==
  ASSUME TypeOK, NEW t \in Tasks, Call(t)
  PROVE  CallTypes'
<1> USE DEF TypeOK, CallTypes, Goto, At, Waiting, Running, timers
<1>1. CASE Yield(t)
  BY <1>1 DEF Yield
<1>2. ASSUME NEW ms \in Delays, Delay(t, ms)
      PROVE  CallTypes'
  <2>1. ms \in Nat
    BY DelayAssumption
  <2>2. DelayTarget(ms) \in {"wdt", "timerA", "none"}
    BY DEF DelayTarget
  <2>3. call' \in [Tasks -> Calls]
    BY <1>2, <2>1, <2>2 DEF Delay, Calls
  <2> QED BY <1>2, <2>3 DEF Delay
<1>3. ASSUME NEW ms \in Resolutions, SetResolution(t, ms)
      PROVE  CallTypes'
  <2>1. call' \in [Tasks -> Calls]
    BY <1>3 DEF SetResolution, Calls
  <2> QED BY <1>3, <2>1 DEF SetResolution, Entry
<1> QED BY <1>1, <1>2, <1>3 DEF Call

\* The tasks' own steps leave time alone, but for the timeout of Task_sleep().
LEMMA TasksKeepTimeTypes ==
  ASSUME TypeOK, NEW t \in Tasks, Step(t) \/ Call(t)
  PROVE  TimeTypes'
<1> USE DEF TypeOK, TimeTypes, clock, flags, timers, sleepers
<1>1. CASE Step(t)
  <2>1. CASE HoldWatchdog(t)
    BY <2>1, DelayAssumption DEF HoldWatchdog
  <2>2. CASE Start(t)
    BY <2>2, DelayAssumption DEF Start
  <2>3. CASE Sleep(t)
    <3>1. ticks + call[t].ms \in Nat
      BY DEF Calls
    <3>2. (ticks + call[t].ms) % TickMod \in 0 .. TickMod - 1
      BY <3>1, TickMod_
    <3>3. due' \in [Tasks -> 0 .. TickMod - 1]
      BY <2>3, <3>2 DEF Sleep
    <3> QED BY <2>3, <3>3 DEF Sleep
  <2>4. CASE SetMode(t) BY <2>4 DEF SetMode
  <2>5. CASE StopTimerA(t) BY <2>5 DEF StopTimerA
  <2>6. CASE Release(t) BY <2>6 DEF Release
  <2>7. CASE Set(t) BY <2>7 DEF Set
  <2>8. CASE YieldReturns(t) BY <2>8 DEF YieldReturns
  <2> QED BY <1>1, <2>1, <2>2, <2>3, <2>4, <2>5, <2>6, <2>7, <2>8 DEF Step
<1>2. CASE Call(t)
  BY <1>2 DEF Call, Yield, Delay, SetResolution
<1> QED BY <1>1, <1>2

\* A millisecond and the interrupts keep the types.
LEMMA TimeKeepsTypes ==
  ASSUME TypeOK, Time \/ Interrupt
  PROVE  CallTypes' /\ TimeTypes'
<1> USE DEF TypeOK, CallTypes, TimeTypes, clock, flags, timers, sleepers
<1>1. ASSUME NEW deep \in BOOLEAN, Elapse(deep)
      PROVE  CallTypes' /\ TimeTypes'
  <2>1. ifgA' \in BOOLEAN /\ ifgW' \in BOOLEAN
    BY <1>1 DEF Elapse, Counting
  <2>2. wdtCount' \in 0 .. Period - 1
    <3>1. (wdtCount + 1) % Period \in 0 .. Period - 1
      BY DelayAssumption
    <3> QED BY <1>1, <3>1 DEF Elapse
  <2>3. lapsed' \in [Tasks -> BOOLEAN]
    BY <1>1 DEF Elapse
  <2>4. elapsed' \in [Tasks -> Nat]
    BY <1>1 DEF Elapse
  <2> QED BY <1>1, <2>1, <2>2, <2>3, <2>4 DEF Elapse
<1>2. ASSUME TimerAHwi \/ WatchdogHwi
      PROVE  CallTypes' /\ TimeTypes'
  <2>1. ticks + Bump + 1 \in Nat
    BY DelayAssumption DEF Bump
  <2>2. ticks' \in 0 .. TickMod - 1
    BY <1>2, <2>1, TickMod_ DEF TimerAHwi, WatchdogHwi, ClockTick
  <2>3. swiCount' \in Nat
    BY <1>2 DEF TimerAHwi, WatchdogHwi, ClockTick
  <2>4. ifgA' \in BOOLEAN /\ ifgW' \in BOOLEAN
    BY <1>2 DEF TimerAHwi, WatchdogHwi
  <2>5. UNCHANGED <<delayMode, timers, held, pc, call, sleepers, lapsed>>
    BY <1>2 DEF TimerAHwi, WatchdogHwi
  <2> QED BY <2>2, <2>3, <2>4, <2>5
<1>3. CASE ClockSwi
  <2>1. pc' \in [Tasks -> Waiting \cup Running]
    BY <1>3 DEF ClockSwi, Waiting
  <2>2. call' \in [Tasks -> Calls]
    BY <1>3 DEF ClockSwi, NoCall, Calls
  <2>3. due' \in [Tasks -> 0 .. TickMod - 1] /\ elapsed' \in [Tasks -> Nat]
    BY <1>3, DelayAssumption DEF ClockSwi
  <2> QED BY <1>3, <2>1, <2>2, <2>3 DEF ClockSwi
<1> QED BY <1>1, <1>2, <1>3 DEF Time, Interrupt

LEMMA InitTypes == Init => TypeOK
<1> SUFFICES ASSUME Init PROVE TypeOK
  OBVIOUS
<1>1. NoCall \in Calls
  BY DEF NoCall, Calls
<1>2. call \in [Tasks -> Calls] /\ lapsed \in [Tasks -> BOOLEAN]
  BY <1>1 DEF Init
<1>3. due \in [Tasks -> 0 .. TickMod - 1] /\ elapsed \in [Tasks -> Nat]
  BY DelayAssumption DEF Init
<1>4. pc \in [Tasks -> Waiting \cup Running] /\ held \in [0 .. 1 -> Nat]
  BY DEF Init, Waiting
<1>5. ticks \in 0 .. TickMod - 1 /\ wdtCount \in 0 .. Period - 1
  BY DelayAssumption DEF Init
<1>6. delayMode \in 0 .. 2 /\ swiCount \in Nat
  BY DEF Init
<1>7. timerA \in BOOLEAN /\ wdt \in BOOLEAN /\ ifgA \in BOOLEAN /\ ifgW \in BOOLEAN
  BY DEF Init
<1> QED BY <1>2, <1>3, <1>4, <1>5, <1>6, <1>7 DEF TypeOK

LEMMA TypesInductive == TypeOK /\ [Next]_vars => TypeOK'
<1> SUFFICES ASSUME TypeOK, [Next]_vars PROVE CallTypes' /\ TimeTypes'
  BY DEF TypeOK, CallTypes, TimeTypes
<1>1. CASE Interrupt \/ Time
  BY <1>1, TimeKeepsTypes
<1>2. ASSUME NEW t \in Tasks, Step(t) \/ Call(t)
      PROVE  CallTypes' /\ TimeTypes'
  BY <1>2, StepTypes, CallKeepsTypes, TasksKeepTimeTypes
<1>3. CASE UNCHANGED vars
  BY <1>3 DEF TypeOK, CallTypes, TimeTypes, vars, timers, flags, clock, sleepers
<1> QED BY <1>1, <1>2, <1>3 DEF Next

\* Every variable of the clock, of the timers and of the calls keeps its type,
\* for every set of tasks and all priorities.
THEOREM ClockTypes == Spec => []TypeOK
  BY InitTypes, TypesInductive, PTL DEF Spec

(***************************************************************************)
(* One timer, and its constraint.                                          *)
(***************************************************************************)
\* What holds when no call is at work: delayMode names the running timer, and
\* the constraint held is the running timer's, none before the first delay.
Settled ==
  /\ timerA <=> delayMode # 1
  /\ wdt <=> delayMode = 1
  /\ held[0] = (IF delayMode = 2 THEN 1 ELSE 0)
  /\ held[1] = (IF delayMode = 1 THEN 1 ELSE 0)

\* What the running timers and constraints are once a switch to a timer is over.
Arrived(to) ==
  /\ timerA <=> to = "timerA"
  /\ wdt <=> to = "wdt"
  /\ held[0] = (IF to = "timerA" THEN 1 ELSE 0)
  /\ held[1] = (IF to = "wdt" THEN 1 ELSE 0)

\* delayMode, while a switch is under way: set before it by delay(), after it
\* by setDelayResolution().
Named(t) ==
  /\ call[t].op = "delay" => delayMode = (IF call[t].to = "wdt" THEN 1 ELSE 2)
  /\ call[t].to \in {"wdt", "timerA"}

\* What holds where a call is in a switch to the watchdog.
ToWatchdog(l) ==
  /\ l = "stopA" => timerA /\ ~wdt /\ held[0] \in 0 .. 1 /\ held[1] = 0
  /\ l = "holdW" => ~timerA /\ ~wdt /\ held[0] \in 0 .. 1 /\ held[1] = 0
  /\ l = "release" => ~timerA /\ ~wdt /\ held[0] \in 0 .. 1 /\ held[1] = 0
  /\ l = "set" => ~timerA /\ ~wdt /\ held[0] = 0 /\ held[1] = 0
  /\ l = "start" => ~timerA /\ ~wdt /\ held[0] = 0 /\ held[1] = 1

\* What holds where a call is in a switch to Timer_A.
ToTimerA(l) ==
  /\ l # "stopA"
  /\ l = "holdW" => held[0] = 0 /\ held[1] \in 0 .. 1
  /\ l = "release" => ~wdt /\ held[0] = 0 /\ held[1] \in 0 .. 1
  /\ l = "set" => ~wdt /\ held[0] = 0 /\ held[1] = 0
  /\ l = "start" => ~wdt /\ held[0] = 1 /\ held[1] = 0

\* What holds of the clock when task t is where it is.
Where(t) ==
  /\ pc[t] = "asleep" => delayMode # 0
  /\ pc[t] = "sleep" => Settled /\ delayMode # 0
  /\ pc[t] = "mode" /\ call[t].op = "delay" =>
       /\ Settled
       /\ call[t].to = "wdt" => delayMode = 0
       /\ call[t].to = "timerA" => delayMode \in {0, 1}
       /\ call[t].to \in {"wdt", "timerA"}
  /\ pc[t] = "mode" /\ call[t].op = "resolution" =>
       Arrived(call[t].to) /\ call[t].to \in {"wdt", "timerA"}
  /\ InSwitch(t) =>
       /\ Named(t)
       /\ call[t].to = "wdt" => ToWatchdog(pc[t])
       /\ call[t].to = "timerA" => ToTimerA(pc[t])

\* Tasks of one priority do not interleave inside a call.
Exclusive ==
  \A t, u \in Tasks : pc[t] \in Running /\ pc[u] \in Running => t = u

Quiet == \A t \in Tasks : pc[t] \notin Running

SourceInv ==
  /\ Exclusive
  /\ Quiet => Settled
  /\ \A t \in Tasks : Where(t)

\* What a step of task t owes to the invariant.
Owes(t) ==
  /\ Where(t)'
  /\ pc'[t] \notin Running => Settled'
  /\ delayMode # 0 => delayMode' # 0
  /\ \A u \in Tasks \ {t} : pc'[u] = pc[u] /\ call'[u] = call[u]

\* While a task runs, every other one waits.
LEMMA Alone ==
  ASSUME Cooperative, TypeOK, NEW t \in Tasks, CanRun(t), NEW u \in Tasks, u # t
  PROVE  pc[u] \notin Running
  BY DelayAssumption DEF Cooperative, CanRun

\* A step that pays what it owes preserves the invariant.
LEMMA StepSuffices ==
  ASSUME Cooperative, TypeOK, SourceInv, NEW t \in Tasks, CanRun(t), Owes(t)
  PROVE  SourceInv'
<1>1. \A u \in Tasks \ {t} : pc'[u] \notin Running
  BY Alone DEF Owes
<1>2. Exclusive'
  BY <1>1 DEF Exclusive
<1>3. (Quiet => Settled)'
  BY DEF Quiet, Owes
<1>4. \A u \in Tasks : Where(u)'
  <2>1. ASSUME NEW u \in Tasks \ {t}
        PROVE  Where(u)'
    <3>1. pc'[u] \notin Running
      BY <1>1
    <3>2. pc'[u] = "asleep" => delayMode' # 0
      BY DEF Owes, SourceInv, Where
    <3> QED BY <3>1, <3>2 DEF Where, Running, InSwitch
  <2> QED BY <2>1 DEF Owes
<1> QED BY <1>2, <1>3, <1>4 DEF SourceInv

\* The steps of a call pay it.
LEMMA StepPays ==
  ASSUME TypeOK, NEW t \in Tasks, Where(t), Step(t), pc[t] \in Running
  PROVE  Owes(t)
<1> USE DEF At, Goto, TypeOK, timers
<1> call[t] \in Calls /\ call[t].op \in {"delay", "resolution"}
  BY DEF Calls
<1>1. CASE SetMode(t)
  <2>1. CASE call[t].op = "delay"
    <3>1. pc'[t] = Entry(call[t].to) /\ call'[t] = call[t] /\ Settled
      BY <1>1, <2>1 DEF SetMode, Where
    <3>2. delayMode' = (IF call[t].to = "wdt" THEN 1 ELSE 2) /\ UNCHANGED <<timerA, wdt, held>>
      BY <1>1 DEF SetMode
    <3>3. /\ call[t].to \in {"wdt", "timerA"}
          /\ call[t].to = "wdt" => delayMode = 0
          /\ call[t].to = "timerA" => delayMode \in {0, 1}
      BY <1>1, <2>1 DEF SetMode, Where
    <3>4. CASE call[t].to = "wdt"
      BY <3>1, <3>2, <3>3, <3>4, <1>1
      DEF SetMode, Owes, Where, Settled, Entry, InSwitch, Named, ToWatchdog, Running
    <3>5. CASE call[t].to = "timerA"
      BY <3>1, <3>2, <3>3, <3>5, <1>1
      DEF SetMode, Owes, Where, Settled, Entry, InSwitch, Named, ToTimerA, Running
    <3> QED BY <3>3, <3>4, <3>5
  <2>2. CASE call[t].op = "resolution"
    BY <1>1, <2>2
    DEF SetMode, Owes, Where, Settled, Arrived, InSwitch, Running
  <2> QED BY <2>1, <2>2
<1>2. CASE StopTimerA(t)
  BY <1>2 DEF StopTimerA, Owes, Where, InSwitch, Named, ToWatchdog, ToTimerA, Running
<1>3. CASE HoldWatchdog(t)
  BY <1>3 DEF HoldWatchdog, Owes, Where, InSwitch, Named, ToWatchdog, ToTimerA, Running
<1>4. CASE Release(t)
  <2>1. pc[t] = "release" /\ pc'[t] = "set" /\ InSwitch(t) /\ call[t].to \in {"wdt", "timerA"}
    BY <1>4 DEF Release, InSwitch, Where, Named
  <2>2. UNCHANGED <<delayMode, timerA, wdt, call>>
    BY <1>4 DEF Release
  <2>3. CASE call[t].to = "wdt"
    <3>1. held'[0] = 0 /\ held'[1] = 0 /\ ~timerA /\ ~wdt
      BY <1>4, <2>1, <2>3 DEF Release, ConstraintOf, Where, ToWatchdog
    <3> QED BY <1>4, <2>1, <2>2, <2>3, <3>1
      DEF Release, Owes, Where, InSwitch, Named, ToWatchdog, Running
  <2>4. CASE call[t].to = "timerA"
    <3>1. held'[0] = 0 /\ held'[1] = 0 /\ ~wdt
      BY <1>4, <2>1, <2>4 DEF Release, ConstraintOf, Where, ToTimerA
    <3> QED BY <1>4, <2>1, <2>2, <2>4, <3>1
      DEF Release, Owes, Where, InSwitch, Named, ToTimerA, Running
  <2> QED BY <2>1, <2>3, <2>4
<1>5. CASE Set(t)
  <2>1. pc[t] = "set" /\ pc'[t] = "start" /\ InSwitch(t) /\ call[t].to \in {"wdt", "timerA"}
    BY <1>5 DEF Set, InSwitch, Where, Named
  <2>2. UNCHANGED <<delayMode, timerA, wdt, call>>
    BY <1>5 DEF Set
  <2>3. CASE call[t].to = "wdt"
    <3>1. held'[0] = 0 /\ held'[1] = 1 /\ ~timerA /\ ~wdt
      BY <1>5, <2>1, <2>3 DEF Set, ConstraintOf, Where, ToWatchdog
    <3> QED BY <1>5, <2>1, <2>2, <2>3, <3>1
      DEF Set, Owes, Where, InSwitch, Named, ToWatchdog, Running
  <2>4. CASE call[t].to = "timerA"
    <3>1. held'[0] = 1 /\ held'[1] = 0 /\ ~wdt
      BY <1>5, <2>1, <2>4 DEF Set, ConstraintOf, Where, ToTimerA
    <3> QED BY <1>5, <2>1, <2>2, <2>4, <3>1
      DEF Set, Owes, Where, InSwitch, Named, ToTimerA, Running
  <2> QED BY <2>1, <2>3, <2>4
<1>6. CASE Start(t)
  <2>1. pc[t] = "start" /\ InSwitch(t) /\ call[t].to \in {"wdt", "timerA"}
    BY <1>6 DEF Start, InSwitch, Where, Named
  <2>2. UNCHANGED <<delayMode, held, call>>
    BY <1>6 DEF Start
  <2>3. Arrived(call[t].to)'
    BY <1>6, <2>1, <2>2 DEF Start, Where, ToWatchdog, ToTimerA, Arrived
  <2>4. CASE call[t].op = "delay"
    <3>1. pc'[t] = "sleep" /\ delayMode = (IF call[t].to = "wdt" THEN 1 ELSE 2)
      BY <1>6, <2>1, <2>4 DEF Start, Where, Named
    <3>2. Settled' /\ delayMode' # 0
      BY <2>1, <2>2, <2>3, <3>1 DEF Settled, Arrived
    <3> QED BY <1>6, <3>1, <3>2, <2>2 DEF Start, Owes, Where, InSwitch, Running
  <2>5. CASE call[t].op = "resolution"
    <3>1. pc'[t] = "mode"
      BY <1>6, <2>5 DEF Start
    <3> QED BY <1>6, <3>1, <2>1, <2>2, <2>3, <2>5 DEF Start, Owes, Where, InSwitch, Running
  <2> QED BY <2>4, <2>5
<1>7. CASE Sleep(t)
  <2>1. pc[t] = "sleep" /\ pc'[t] = "asleep" /\ UNCHANGED <<delayMode, timerA, wdt, held, call>>
    BY <1>7 DEF Sleep
  <2> QED BY <1>7, <2>1 DEF Sleep, Owes, Where, Settled, InSwitch, Running
<1>8. CASE YieldReturns(t)
  BY <1>8 DEF YieldReturns, Running
<1> QED BY <1>1, <1>2, <1>3, <1>4, <1>5, <1>6, <1>7, <1>8 DEF Step

\* So does the start of a call, which nobody makes while another is at work.
LEMMA CallPays ==
  ASSUME TypeOK, NEW t \in Tasks, Settled, Call(t)
  PROVE  Owes(t)
<1> USE DEF At, Goto, TypeOK, timers
<1>1. CASE Yield(t)
  BY <1>1 DEF Yield, Owes, Where, Settled, InSwitch
<1>2. ASSUME NEW ms \in Delays, Delay(t, ms)
      PROVE  Owes(t)
  <2>1. /\ UNCHANGED <<delayMode, timerA, wdt, held>>
        /\ Settled'
        /\ pc'[t] = (IF DelayTarget(ms) = "none" THEN "sleep" ELSE "mode")
        /\ call'[t] = [op |-> "delay", to |-> DelayTarget(ms), ms |-> ms]
    BY <1>2 DEF Delay, Settled
  <2>2. \A u \in Tasks \ {t} : pc'[u] = pc[u] /\ call'[u] = call[u]
    BY <1>2 DEF Delay
  <2>3. CASE DelayTarget(ms) = "none"
    <3>1. delayMode # 0
      BY <2>3 DEF DelayTarget
    <3> QED BY <2>1, <2>2, <2>3, <3>1 DEF Owes, Where, InSwitch, Running
  <2>4. CASE DelayTarget(ms) # "none"
    <3>1. /\ DelayTarget(ms) \in {"wdt", "timerA"}
          /\ DelayTarget(ms) = "wdt" => delayMode = 0
          /\ DelayTarget(ms) = "timerA" => delayMode \in {0, 1}
      BY <2>4 DEF DelayTarget
    <3>2. call'[t].op = "delay" /\ call'[t].to = DelayTarget(ms) /\ pc'[t] = "mode"
      BY <2>1, <2>4
    <3> QED BY <2>1, <2>2, <3>1, <3>2 DEF Owes, Where, InSwitch, Running
  <2> QED BY <2>3, <2>4
<1>3. ASSUME NEW ms \in Resolutions, SetResolution(t, ms)
      PROVE  Owes(t)
  <2>1. /\ UNCHANGED <<delayMode, timerA, wdt, held>>
        /\ call'[t].op = "resolution"
        /\ call'[t].to = (IF ms = Period THEN "wdt" ELSE "timerA")
        /\ pc'[t] = Entry(call'[t].to)
    BY <1>3 DEF SetResolution
  <2>2. \A u \in Tasks \ {t} : pc'[u] = pc[u] /\ call'[u] = call[u]
    BY <1>3 DEF SetResolution
  <2>3. (ms = Period) # (delayMode = 1)
    BY <1>3 DEF SetResolution
  <2>4. CASE ms = Period
    <3>1. delayMode # 1 /\ pc'[t] = "stopA" /\ call'[t].to = "wdt"
      BY <2>1, <2>3, <2>4 DEF Entry
    <3> QED BY <2>1, <2>2, <3>1 DEF Owes, Where, Settled, InSwitch, Named, ToWatchdog, Running
  <2>5. CASE ms # Period
    <3>1. delayMode = 1 /\ pc'[t] = "holdW" /\ call'[t].to = "timerA"
      BY <2>1, <2>3, <2>5 DEF Entry
    <3> QED BY <2>1, <2>2, <3>1 DEF Owes, Where, Settled, InSwitch, Named, ToTimerA, Running
  <2> QED BY <2>4, <2>5
<1> QED BY <1>1, <1>2, <1>3 DEF Call

\* Time and interrupts leave the timers, the constraints and the calls alone:
\* at most they wake a task.
LEMMA TimeKeepsSource ==
  ASSUME TypeOK, SourceInv, Time \/ Interrupt
  PROVE  SourceInv'
<1>1. UNCHANGED <<delayMode, timerA, wdt, held>>
  BY DEF Time, Interrupt, Elapse, TimerAHwi, WatchdogHwi, ClockSwi, timers
<1>2. \A u \in Tasks : \/ pc'[u] = pc[u] /\ call'[u] = call[u]
                       \/ pc[u] = "asleep" /\ pc'[u] = "idle"
  <2>1. CASE ClockSwi
    BY <2>1 DEF ClockSwi, Wakes, TypeOK
  <2>2. CASE Time \/ TimerAHwi \/ WatchdogHwi
    BY <2>2 DEF Time, Elapse, TimerAHwi, WatchdogHwi
  <2> QED BY <2>1, <2>2 DEF Interrupt
<1>3. \A u \in Tasks : pc'[u] \in Running <=> pc[u] \in Running
  BY <1>2 DEF Running
<1>4. Exclusive' /\ (Quiet => Settled)'
  BY <1>1, <1>3 DEF SourceInv, Exclusive, Quiet, Settled
<1>5. ASSUME NEW u \in Tasks
      PROVE  Where(u)'
  <2>1. CASE pc[u] = "asleep" /\ pc'[u] = "idle"
    BY <2>1 DEF Where, InSwitch
  <2>2. CASE pc'[u] = pc[u] /\ call'[u] = call[u]
    <3>1. Where(u)
      BY DEF SourceInv
    <3> QED BY <1>1, <2>2, <3>1
      DEF Where, Settled, Arrived, InSwitch, Named, ToWatchdog, ToTimerA
  <2> QED BY <1>2, <2>1, <2>2
<1> QED BY <1>4, <1>5 DEF SourceInv

LEMMA SourceInductive ==
  ASSUME Cooperative
  PROVE  TypeOK /\ SourceInv /\ [Next]_vars => SourceInv'
<1> SUFFICES ASSUME TypeOK, SourceInv, [Next]_vars PROVE SourceInv'
  OBVIOUS
<1>1. CASE Interrupt \/ Time
  BY <1>1, TimeKeepsSource
<1>2. ASSUME NEW t \in Tasks, Step(t), pc[t] \in Running
      PROVE  SourceInv'
  <2>1. CanRun(t)
    BY <1>2 DEF Step, SetMode, StopTimerA, HoldWatchdog, Release, Set, Start, Sleep,
                YieldReturns, At
  <2>2. Owes(t)
    BY <1>2, StepPays DEF SourceInv
  <2> QED BY <2>1, <2>2, StepSuffices
<1>3. ASSUME NEW t \in Tasks, Step(t), pc[t] \notin Running
      PROVE  SourceInv'
  <2>1. YieldReturns(t)
    BY <1>3 DEF Step, SetMode, StopTimerA, HoldWatchdog, Release, Set, Start, Sleep,
                At, Running
  <2>2. CanRun(t) /\ Settled
    <3>1. CanRun(t)
      BY <2>1 DEF YieldReturns, At
    <3>2. Quiet
      BY <1>3, <3>1, Alone DEF Quiet
    <3> QED BY <3>1, <3>2 DEF SourceInv
  <2>3. Owes(t)
    BY <2>1, <2>2 DEF YieldReturns, Owes, Where, Settled, InSwitch, At, Goto, TypeOK, timers
  <2> QED BY <2>2, <2>3, StepSuffices
<1>4. ASSUME NEW t \in Tasks, Call(t)
      PROVE  SourceInv'
  <2>1. CanRun(t) /\ pc[t] = "idle"
    BY <1>4 DEF Call, Yield, Delay, SetResolution, At
  <2>2. Quiet
    BY <2>1, Alone DEF Quiet, Running
  <2>3. Owes(t)
    BY <1>4, <2>2, CallPays DEF SourceInv
  <2> QED BY <2>1, <2>3, StepSuffices
<1>5. CASE UNCHANGED vars
  BY <1>5
  DEF vars, timers, SourceInv, Exclusive, Quiet, Where, Settled, Arrived, InSwitch,
      Named, ToWatchdog, ToTimerA
<1> QED BY <1>1, <1>2, <1>3, <1>4, <1>5 DEF Next

LEMMA InitSource == Init => SourceInv
<1> SUFFICES ASSUME Init PROVE SourceInv
  OBVIOUS
<1>1. Settled
  BY DEF Init, Settled
<1>2. \A t \in Tasks : pc[t] = "idle"
  BY DEF Init
<1> QED BY <1>1, <1>2 DEF SourceInv, Exclusive, Quiet, Where, InSwitch, Running

(***************************************************************************)
(* The theorems.                                                           *)
(***************************************************************************)
\* Tasks of one priority may call delay() and setDelayResolution() in any
\* order: outside the calls exactly one timer drives the Clock, the one
\* delayMode names.
THEOREM OneTimerDrives ==
  ASSUME Cooperative
  PROVE  Spec => []OneSource
<1>1. TypeOK /\ SourceInv => OneSource
  BY DEF SourceInv, Quiet, Settled, OneSource, TypeOK
<1> QED BY <1>1, InitTypes, TypesInductive, InitSource, SourceInductive, PTL DEF Spec

\* And no sleep state the idle task's policy picks stops that timer while a
\* task sleeps in delay().
THEOREM SleepersWake ==
  ASSUME Cooperative
  PROVE  Spec => []ClockSurvives
<1>1. TypeOK /\ SourceInv => ClockSurvives
  <2> SUFFICES ASSUME TypeOK, SourceInv, AllWait, \E t \in Tasks : pc[t] = "asleep"
               PROVE  (timerA => Policy = 2) /\ (wdt => Policy # 1)
    BY DEF ClockSurvives
  <2>1. Settled
    BY DEF AllWait, SourceInv, Quiet, Running
  <2>2. delayMode # 0
    BY DEF SourceInv, Where
  <2> QED BY <2>1, <2>2 DEF Settled, Policy, TypeOK
<1> QED BY <1>1, InitTypes, TypesInductive, InitSource, SourceInductive, PTL DEF Spec

\* And the power constraints do not accumulate.
THEOREM OneConstraintHeld ==
  ASSUME Cooperative
  PROVE  Spec => []OneConstraint
<1>1. TypeOK /\ SourceInv => OneConstraint
  <2> SUFFICES ASSUME TypeOK, SourceInv, Quiet
               PROVE  /\ held[0] + held[1] <= 1
                      /\ delayMode # 0 => held[ConstraintOf(IF wdt THEN "wdt" ELSE "timerA")] = 1
    BY DEF OneConstraint, Quiet
  <2> QED BY DEF SourceInv, Settled, ConstraintOf, TypeOK
<1> QED BY <1>1, InitTypes, TypesInductive, InitSource, SourceInductive, PTL DEF Spec

(***************************************************************************)
(* How long a delay lasts.                                                 *)
(*                                                                         *)
(* A delay counts down the ticks to its timeout.  While the watchdog makes *)
(* them each stands for a whole period; Timer_A may take over in the       *)
(* middle of one, once, and what passed of it is then never counted.       *)
(***************************************************************************)
\* The ticks from a to d, counted modulo TickMod.
Span(a, d) == IF a <= d THEN d - a ELSE d + TickMod - a

\* The ticks that are left until the timeout of a sleeping task.
Rem(t) == Span(ticks, due[t])

\* The argument of delay() and the timeout of a Clock object are both 32 bits.
ShortDelays == \A ms \in Delays : ms < TickMod

\* What a call under way asks for: a multiple of the watchdog's period when
\* the watchdog is to wake it.
Asks(t) ==
  /\ pc[t] # "asleep" => elapsed[t] = 0
  /\ pc[t] \in Running /\ call[t].op = "delay" =>
       /\ call[t].ms \in 1 .. TickMod - 1
       /\ call[t].to = "wdt" => call[t].ms % Period = 0
  /\ pc[t] = "sleep" =>
       /\ call[t].op = "delay"
       /\ delayMode = 1 => call[t].ms % Period = 0

Sleeper == \E t \in Tasks : pc[t] = "asleep"

\* While a task sleeps the Clock is only ever handed from the watchdog to
\* Timer_A, and a millisecond at most passes meanwhile.
Handover(u) ==
  /\ pc[u] \in Running => call[u].op = "delay" /\ call[u].to # "wdt"
  /\ InSwitch(u) => ~timerA
  /\ InSwitch(u) /\ (ifgA \/ ifgW) => lapsed[u]

\* A tick is served before the next is made.
OneTick ==
  /\ ~(ifgA /\ ifgW)
  /\ swiCount <= 1
  /\ swiCount = 1 => ~ifgA /\ ~ifgW
  /\ ifgA => delayMode # 1
  /\ ifgW => wdtCount = 0

\* The milliseconds that have passed and no tick has counted yet.
Uncounted ==
  IF delayMode = 1 THEN (IF ifgW THEN Period ELSE wdtCount)
                   ELSE (IF ifgA \/ ifgW THEN 1 ELSE 0)

Handing == \E u \in Tasks : InSwitch(u) /\ ~lapsed[u]

\* The most milliseconds that no tick will ever count: those of the watchdog's period
\* when Timer_A took over, and one that passed in the switch.
Uncountable ==
  IF delayMode = 1 THEN 0 ELSE IF Handing THEN Period - 1 ELSE Period

OnTime(t) ==
  /\ swiCount = 0 => Rem(t) > 0
  /\ delayMode = 1 => Rem(t) % Period = 0
  /\ elapsed[t] <= call[t].ms - Rem(t) + Uncounted + Uncountable
  /\ elapsed[t] >= call[t].ms - Rem(t) + Uncounted - (Period - 1)

SleepInv ==
  /\ \A t \in Tasks : Asks(t)
  /\ Sleeper => OneTick /\ \A u \in Tasks : Handover(u)
  /\ \A t \in Tasks : pc[t] = "asleep" => OnTime(t)

\* A tick count less than two rounds ahead, modulo TickMod.
LEMMA Wrap ==
  ASSUME NEW x \in Nat, x < 2 * TickMod
  PROVE  x % TickMod = IF x < TickMod THEN x ELSE x - TickMod
<1> TickMod \in Nat /\ TickMod > 1
  BY DelayAssumption
<1>1. x < TickMod => (x % TickMod) = x
  OBVIOUS
<1>2. x >= TickMod => (x % TickMod) = x - TickMod
  OBVIOUS
<1> QED BY <1>1, <1>2

\* k ticks shorten the span to a timeout by k.
LEMMA SpanTicks ==
  ASSUME NEW a \in 0 .. TickMod - 1, NEW d \in 0 .. TickMod - 1,
         NEW k \in Nat, k <= Span(a, d)
  PROVE  Span((a + k) % TickMod, d) = Span(a, d) - k
<1> TickMod \in Nat /\ TickMod > 1
  BY DelayAssumption
<1>1. a + k < 2 * TickMod
  BY DEF Span
<1>2. (a + k) % TickMod = IF a + k < TickMod THEN a + k ELSE a + k - TickMod
  BY <1>1, Wrap
<1> DEFINE x == (a + k) % TickMod
<1>3. x = IF a + k < TickMod THEN a + k ELSE a + k - TickMod
  BY <1>2
<1> HIDE DEF x
<1>4. Span(x, d) = Span(a, d) - k
  BY <1>3 DEF Span
<1> QED BY <1>4 DEF x

\* A timeout k ticks ahead is k ticks away.
LEMMA SpanAhead ==
  ASSUME NEW a \in 0 .. TickMod - 1, NEW k \in 1 .. TickMod - 1
  PROVE  Span(a, (a + k) % TickMod) = k
<1> TickMod \in Nat /\ TickMod > 1
  BY DelayAssumption
<1>1. (a + k) % TickMod = IF a + k < TickMod THEN a + k ELSE a + k - TickMod
  BY Wrap
<1> DEFINE x == (a + k) % TickMod
<1>2. x = IF a + k < TickMod THEN a + k ELSE a + k - TickMod
  BY <1>1
<1> HIDE DEF x
<1>3. Span(a, x) = k
  BY <1>2 DEF Span
<1> QED BY <1>3 DEF x

\* A span is a number of ticks, 0 when the timeout is the tick itself.
LEMMA SpanRange ==
  ASSUME NEW a \in 0 .. TickMod - 1, NEW d \in 0 .. TickMod - 1
  PROVE  Span(a, d) \in 0 .. TickMod - 1 /\ (Span(a, d) = 0 <=> a = d)
  BY DelayAssumption DEF Span

\* Below the watchdog's period the only multiple of it is 0.
LEMMA OnlyMultiple ==
  ASSUME NEW m \in 0 .. Period - 1, NEW k \in Int, m = Period * k
  PROVE  m = 0
<1> Period \in Nat /\ Period > 1
  BY DelayAssumption
<1>1. CASE k >= 1
  <2>1. Period * k >= Period * 1
    BY <1>1
  <2> QED BY <2>1
<1>2. CASE k <= 0 - 1
  <2>1. Period * k <= Period * (0 - 1)
    BY <1>2
  <2> QED BY <2>1
<1>3. CASE k = 0
  BY <1>3
<1> QED BY <1>1, <1>2, <1>3

\* A multiple of the watchdog's period, and the one before it.
LEMMA PeriodBefore ==
  ASSUME NEW r \in Nat, r > 0, r % Period = 0
  PROVE  r >= Period /\ (r - Period) % Period = 0
<1> Period \in Nat /\ Period > 1
  BY DelayAssumption
<1> DEFINE q == r \div Period
           s == r - Period
           p == s \div Period
           m == s % Period
<1>1. r >= Period
  OBVIOUS
<1>2. r = Period * q /\ q \in Int
  OBVIOUS
<1>3. s = Period * p + m /\ p \in Int /\ m \in 0 .. Period - 1
  BY <1>1
<1> HIDE DEF q, p, m
<1>4. s = Period * q - Period
  BY <1>2
<1>5. Period * (q - 1 - p) = Period * q - Period - Period * p
  BY <1>2, <1>3
<1>6. m = Period * (q - 1 - p)
  BY <1>2, <1>3, <1>4, <1>5
<1>7. m = 0
  BY <1>2, <1>3, <1>6, OnlyMultiple
<1> QED BY <1>1, <1>7 DEF m

\* The steps of a call leave the other tasks, the tick count and the flags alone.
Undisturbed(t) ==
  /\ UNCHANGED <<ticks, swiCount, ifgA, ifgW, elapsed>>
  /\ \A u \in Tasks \ {t} : pc'[u] = pc[u] /\ call'[u] = call[u] /\ due'[u] = due[u]

\* No step of a call loses time that a sleeping task waits for.
KeepsTime ==
  /\ delayMode' = 1 => delayMode = 1
  /\ Uncounted' <= Uncounted
  /\ Uncounted + Uncountable <= Uncounted' + Uncountable'

\* The times that OnTime relates are numbers.
LEMMA TimesTyped ==
  ASSUME TypeOK
  PROVE  /\ Uncounted \in 0 .. Period /\ Uncountable \in 0 .. Period
         /\ \A t \in Tasks : Rem(t) \in 0 .. TickMod - 1 /\ elapsed[t] \in Nat /\ call[t].ms \in Nat
<1> Period \in Nat /\ Period > 1
  BY DelayAssumption
<1>1. Uncounted \in 0 .. Period
  BY DEF Uncounted, TypeOK
<1>2. Uncountable \in 0 .. Period
  BY DEF Uncountable
<1>3. ASSUME NEW t \in Tasks
      PROVE  Rem(t) \in 0 .. TickMod - 1 /\ elapsed[t] \in Nat /\ call[t].ms \in Nat
  <2>1. ticks \in 0 .. TickMod - 1 /\ due[t] \in 0 .. TickMod - 1
    BY DEF TypeOK
  <2>2. Rem(t) \in 0 .. TickMod - 1
    BY <2>1, SpanRange DEF Rem
  <2> QED BY <2>2 DEF TypeOK, Calls
<1> QED BY <1>1, <1>2, <1>3

LEMMA TimesTypedNext ==
  ASSUME TypeOK'
  PROVE  Uncounted' \in 0 .. Period /\ Uncountable' \in 0 .. Period
<1> Period \in Nat /\ Period > 1
  BY DelayAssumption
<1>1. Uncounted' \in 0 .. Period
  BY DEF Uncounted, TypeOK
<1> QED BY <1>1 DEF Uncountable

\* What a step of a call owes to the invariant of the delays.
LEMMA CallStepSuffices ==
  ASSUME Cooperative, TypeOK, TypeOK', SleepInv, NEW t \in Tasks, CanRun(t), Undisturbed(t),
         Asks(t)', Sleeper' => Handover(t)', pc[t] # "asleep",
         pc'[t] = "asleep" => OnTime(t)',
         Sleeper => KeepsTime
  PROVE  SleepInv'
<1>1. ~ifgA /\ ~ifgW /\ swiCount = 0
  BY DEF CanRun, Interrupted, TypeOK
<1>2. \A u \in Tasks \ {t} : pc[u] \notin Running
  BY Alone
<1>3. \A u \in Tasks : Asks(u)'
  <2>1. ASSUME NEW u \in Tasks \ {t}
        PROVE  Asks(u)'
    <3>1. Asks(u) /\ pc'[u] = pc[u] /\ elapsed' = elapsed /\ pc[u] \notin Running
      BY <1>2 DEF SleepInv, Undisturbed
    <3>2. "sleep" \in Running
      BY DEF Running
    <3> QED BY <3>1, <3>2 DEF Asks
  <2> QED BY <2>1
<1>4. OneTick'
  BY <1>1 DEF OneTick, Undisturbed
<1>5. ASSUME Sleeper', NEW u \in Tasks
      PROVE  Handover(u)'
  <2>1. CASE u = t
    BY <1>5, <2>1
  <2>2. CASE u # t
    BY <1>2, <2>2 DEF Undisturbed, Handover, InSwitch, Running
  <2> QED BY <2>1, <2>2
<1>6. ASSUME NEW u \in Tasks, pc'[u] = "asleep"
      PROVE  OnTime(u)'
  <2>1. CASE u = t
    BY <1>6, <2>1
  <2>2. CASE u # t
    <3>1. pc[u] = "asleep" /\ Rem(u)' = Rem(u) /\ elapsed'[u] = elapsed[u] /\ call'[u] = call[u]
      BY <1>6, <2>2 DEF Undisturbed, Rem
    <3>2. OnTime(u) /\ KeepsTime
      BY <3>1 DEF SleepInv, Sleeper
    <3>3. /\ Uncounted \in 0 .. Period /\ Uncountable \in 0 .. Period
          /\ Uncounted' \in 0 .. Period /\ Uncountable' \in 0 .. Period
          /\ Rem(u) \in 0 .. TickMod - 1 /\ elapsed[u] \in Nat /\ call[u].ms \in Nat
      BY TimesTyped, TimesTypedNext
    <3>4. (swiCount' = 0 => Rem(u)' > 0) /\ (delayMode' = 1 => Rem(u)' % Period = 0)
      BY <3>1, <3>2 DEF OnTime, KeepsTime, Undisturbed
    <3>5. /\ elapsed[u] <= call[u].ms - Rem(u) + Uncounted + Uncountable
          /\ elapsed[u] >= call[u].ms - Rem(u) + Uncounted - (Period - 1)
          /\ Uncounted' <= Uncounted
          /\ Uncounted + Uncountable <= Uncounted' + Uncountable'
      BY <3>2 DEF OnTime, KeepsTime
    <3>6. /\ elapsed[u] <= call[u].ms - Rem(u) + Uncounted' + Uncountable'
          /\ elapsed[u] >= call[u].ms - Rem(u) + Uncounted' - (Period - 1)
      BY <3>3, <3>5, DelayAssumption
    <3> QED BY <3>1, <3>4, <3>6 DEF OnTime
  <2> QED BY <2>1, <2>2
<1> QED BY <1>3, <1>4, <1>5, <1>6 DEF SleepInv

\* A step outside a switch that leaves the mode alone keeps the time.
LEMMA SameMode ==
  ASSUME TypeOK, NEW t \in Tasks, Undisturbed(t), UNCHANGED <<delayMode, wdtCount, lapsed>>,
         InSwitch(t)' <=> InSwitch(t)
  PROVE  KeepsTime
<1> Period \in Nat /\ Period > 1
  BY DelayAssumption
<1>1. Uncounted' = Uncounted
  BY DEF Uncounted, Undisturbed
<1>2. \A u \in Tasks : InSwitch(u)' <=> InSwitch(u)
  BY DEF Undisturbed, InSwitch
<1>3. Handing' <=> Handing
  BY <1>2 DEF Handing
<1>4. Uncountable' = Uncountable
  BY <1>3 DEF Uncountable
<1> QED BY <1>1, <1>4, TimesTyped DEF KeepsTime

\* A call begins: a delay asks for a time that fits, and nobody sleeps when the
\* resolution is set.
LEMMA CallKeepsDelays ==
  ASSUME Cooperative, ShortDelays, Lone, TypeOK, TypeOK', SourceInv, SleepInv,
         NEW t \in Tasks, Call(t)
  PROVE  SleepInv'
<1> USE DEF At, Goto, TypeOK, timers, flags, clock, sleepers
<1>1. /\ CanRun(t) /\ Undisturbed(t) /\ pc[t] = "idle" /\ elapsed'[t] = 0
      /\ UNCHANGED <<delayMode, wdtCount, lapsed, timerA>>
  <2>1. /\ CanRun(t) /\ Undisturbed(t) /\ pc[t] = "idle"
        /\ UNCHANGED <<delayMode, wdtCount, lapsed, timerA, elapsed>>
    BY DEF Call, Yield, Delay, SetResolution, Undisturbed
  <2> QED BY <2>1 DEF SleepInv, Asks
<1>2. CASE Yield(t)
  <2>1. pc'[t] = "yielded"
    BY <1>2 DEF Yield
  <2>2. KeepsTime
    BY <1>1, <2>1, SameMode DEF InSwitch
  <2> QED BY <1>1, <2>1, <2>2, CallStepSuffices DEF Asks, Handover, InSwitch, Running
<1>3. ASSUME NEW ms \in Delays, Delay(t, ms)
      PROVE  SleepInv'
  <2>1. /\ call'[t].op = "delay" /\ call'[t].ms = ms /\ call'[t].to = DelayTarget(ms)
        /\ pc'[t] = (IF DelayTarget(ms) = "none" THEN "sleep" ELSE "mode")
    BY <1>3 DEF Delay
  <2>2. ms \in 1 .. TickMod - 1
    BY <1>3, DelayAssumption DEF Delay, ShortDelays
  <2>3. DelayTarget(ms) = "wdt" => Multiple(ms) /\ delayMode = 0
    BY DEF DelayTarget
  <2>4. DelayTarget(ms) = "none" /\ delayMode = 1 => Multiple(ms)
    BY DEF DelayTarget
  <2>5. Asks(t)'
    BY <1>1, <2>1, <2>2, <2>3, <2>4 DEF Asks, Multiple, Running
  <2>6. Sleeper' => delayMode # 0
    <3>1. Sleeper' => Sleeper
      BY <1>1, <2>1 DEF Sleeper, Undisturbed
    <3> QED BY <3>1 DEF Sleeper, SourceInv, Where
  <2>7. Sleeper' => Handover(t)'
    BY <2>1, <2>3, <2>6 DEF Handover, InSwitch, Running
  <2>8. KeepsTime
    BY <1>1, <2>1, SameMode DEF InSwitch
  <2> QED BY <1>1, <2>1, <2>5, <2>7, <2>8, CallStepSuffices
<1>4. ASSUME NEW ms \in Resolutions, SetResolution(t, ms)
      PROVE  SleepInv'
  <2>1. ~Sleeper
    BY <1>4 DEF SetResolution, Sleeper
  <2>2. pc'[t] \in {"stopA", "holdW"} /\ call'[t].op = "resolution"
    BY <1>4 DEF SetResolution, Entry
  <2>3. ~Sleeper'
    BY <1>1, <2>1, <2>2 DEF Sleeper, Undisturbed
  <2>4. Asks(t)'
    BY <1>1, <2>2 DEF Asks
  <2> QED BY <1>1, <2>1, <2>2, <2>3, <2>4, CallStepSuffices
<1> QED BY <1>2, <1>3, <1>4 DEF Call

\* While a task sleeps, a switch under way is to Timer_A and has left mode 1.
LEMMA SwitchWhileAsleep ==
  ASSUME TypeOK, SourceInv, SleepInv, Sleeper, NEW t \in Tasks, InSwitch(t)
  PROVE  /\ call[t].op = "delay" /\ call[t].to = "timerA" /\ delayMode = 2
         /\ pc[t] # "stopA" /\ ~timerA
<1>1. Handover(t) /\ Where(t)
  BY DEF SleepInv, SourceInv
<1>2. call[t].op = "delay" /\ call[t].to # "wdt" /\ ~timerA
  BY <1>1 DEF Handover, InSwitch, Running
<1> QED BY <1>1, <1>2 DEF Where, Named, ToTimerA

\* A task that is in a switch is the only one that can be.
LEMMA OneHands ==
  ASSUME Cooperative, TypeOK, NEW t \in Tasks, CanRun(t)
  PROVE  Handing <=> InSwitch(t) /\ ~lapsed[t]
  BY Alone DEF Handing, InSwitch, Running

\* The steps of a switch lose no time that a sleeping task waits for.
LEMMA SwitchKeepsTime ==
  ASSUME Cooperative, TypeOK, TypeOK', SourceInv, SleepInv, Sleeper, NEW t \in Tasks,
         SetMode(t) \/ HoldWatchdog(t) \/ Release(t) \/ Set(t) \/ Start(t)
  PROVE  KeepsTime /\ Handover(t)' /\ call[t].op = "delay"
<1> Period \in Nat /\ Period > 1
  BY DelayAssumption
<1> USE DEF At, Goto, TypeOK, timers, flags, clock, sleepers
<1>1. CanRun(t) /\ pc[t] \in Running /\ ~ifgA /\ ~ifgW /\ Undisturbed(t)
  BY DEF SetMode, HoldWatchdog, Release, Set, Start, Running, CanRun, Interrupted, Undisturbed
<1>2. Handing <=> InSwitch(t) /\ ~lapsed[t]
  BY <1>1, OneHands
<1>3. CASE SetMode(t)
  <2>1. pc[t] = "mode" /\ call[t].op = "delay" /\ call[t].to # "wdt"
    BY <1>1, <1>3 DEF SleepInv, Handover, SetMode
  <2>2. delayMode # 0
    BY DEF Sleeper, SourceInv, Where
  <2>3. call[t].to = "timerA" /\ delayMode = 1 /\ ~timerA
    BY <2>1, <2>2 DEF SourceInv, Where, Settled
  <2>4. /\ delayMode' = 2 /\ pc'[t] = "holdW" /\ call' = call /\ lapsed' = lapsed
        /\ UNCHANGED <<wdtCount, timerA, ifgA, ifgW>>
    BY <1>3, <2>1, <2>3 DEF SetMode, Entry
  <2>5. Uncounted = wdtCount /\ Uncountable = 0
    BY <1>1, <2>3 DEF Uncounted, Uncountable
  <2>6. Uncounted' = 0
    BY <1>1, <2>4 DEF Uncounted
  <2>7. Uncountable' = Period - 1 \/ Uncountable' = Period
    BY <2>4 DEF Uncountable
  <2>8. wdtCount \in 0 .. Period - 1
    OBVIOUS
  <2>9. Uncounted' <= Uncounted /\ Uncounted + Uncountable <= Uncounted' + Uncountable'
    <3>1. Uncounted' <= Uncounted
      BY <2>5, <2>6, <2>8
    <3>2. Uncounted + Uncountable <= Uncounted' + Uncountable'
      BY <2>5, <2>6, <2>7, <2>8
    <3> QED BY <3>1, <3>2
  <2>10. KeepsTime
    BY <2>3, <2>9 DEF KeepsTime
  <2> QED BY <1>1, <2>1, <2>3, <2>4, <2>10 DEF Handover, InSwitch, Running
<1>4. CASE HoldWatchdog(t) \/ Release(t) \/ Set(t)
  <2>1. InSwitch(t) /\ InSwitch(t)' /\ pc'[t] \in Running
    BY <1>4 DEF InSwitch, HoldWatchdog, Release, Set, Running
  <2>2. call[t].op = "delay" /\ call[t].to = "timerA" /\ delayMode = 2 /\ ~timerA
    BY <2>1, SwitchWhileAsleep
  <2>3. UNCHANGED <<delayMode, timerA, call, lapsed, ifgA, ifgW>>
    BY <1>4 DEF HoldWatchdog, Release, Set
  <2>4. Uncounted = 0 /\ Uncounted' = 0
    BY <1>1, <2>2, <2>3 DEF Uncounted
  <2>5. \A u \in Tasks : InSwitch(u)' <=> InSwitch(u)
    BY <1>1, <2>1 DEF Undisturbed, InSwitch
  <2>6. Handing' <=> Handing
    BY <2>3, <2>5 DEF Handing
  <2>7. Uncountable' = Uncountable /\ Uncountable \in 0 .. Period
    BY <2>2, <2>3, <2>6 DEF Uncountable
  <2>8. KeepsTime
    BY <2>2, <2>3, <2>4, <2>7 DEF KeepsTime
  <2> QED BY <1>1, <2>1, <2>2, <2>3, <2>8 DEF Handover
<1>5. CASE Start(t)
  <2>1. InSwitch(t)
    BY <1>5 DEF InSwitch, Start
  <2>2. call[t].op = "delay" /\ call[t].to = "timerA" /\ delayMode = 2
    BY <2>1, SwitchWhileAsleep
  <2>3. pc'[t] = "sleep" /\ UNCHANGED <<delayMode, call, lapsed, ifgA, ifgW>>
    BY <1>5, <2>2 DEF Start
  <2>4. Uncounted = 0 /\ Uncounted' = 0
    BY <1>1, <2>2, <2>3 DEF Uncounted
  <2>5. \A u \in Tasks : ~InSwitch(u)'
    BY <1>1, <2>3, Alone DEF Undisturbed, InSwitch, Running
  <2>6. Uncountable' = Period /\ Uncountable <= Period
    BY <2>2, <2>3, <2>5 DEF Uncountable, Handing
  <2>7. Uncountable \in 0 .. Period
    BY DEF Uncountable
  <2>8. KeepsTime
    BY <2>2, <2>3, <2>4, <2>6, <2>7 DEF KeepsTime
  <2> QED BY <1>1, <2>2, <2>3, <2>8 DEF Handover, InSwitch
<1> QED BY <1>3, <1>4, <1>5

\* A task falls asleep: all the milliseconds it asked for are ahead of it.
LEMMA SleepBegins ==
  ASSUME Cooperative, TypeOK, TypeOK', SleepInv, NEW t \in Tasks, Sleep(t)
  PROVE  SleepInv'
<1> Period \in Nat /\ Period > 1 /\ TickMod \in Nat
  BY DelayAssumption
<1> USE DEF At, Goto, TypeOK, timers, flags, clock, sleepers
<1>1. CanRun(t) /\ pc[t] = "sleep" /\ pc'[t] = "asleep" /\ Undisturbed(t)
  BY DEF Sleep, Undisturbed
<1>2. /\ UNCHANGED <<delayMode, wdtCount, ifgA, ifgW, swiCount, ticks, call, elapsed>>
      /\ due'[t] = (ticks + call[t].ms) % TickMod
      /\ \A u \in Tasks : ~InSwitch(u) /\ ~InSwitch(u)'
  BY <1>1, Alone DEF Sleep, InSwitch, Running
<1>3. /\ ~ifgA /\ ~ifgW
      /\ call[t].ms \in 1 .. TickMod - 1 /\ elapsed[t] = 0
      /\ delayMode = 1 => call[t].ms % Period = 0
  BY <1>1 DEF CanRun, Interrupted, SleepInv, Asks, Running
<1>4. Asks(t)' /\ Handover(t)'
  BY <1>1 DEF Asks, Handover, InSwitch, Running
<1>5. KeepsTime
  <2>1. ~Handing /\ ~Handing'
    BY <1>2 DEF Handing
  <2>2. Uncounted' = Uncounted /\ Uncountable' = Uncountable
    BY <1>2, <2>1 DEF Uncounted, Uncountable
  <2> QED BY <1>2, <2>2, TimesTyped DEF KeepsTime
<1>6. OnTime(t)'
  <2>1. Rem(t)' = call[t].ms
    BY <1>2, <1>3, SpanAhead DEF Rem
  <2>2. delayMode # 1 => Uncounted' = 0 /\ Uncountable' = Period
    BY <1>2, <1>3 DEF Uncounted, Uncountable, Handing
  <2>3. delayMode = 1 => Uncounted' = wdtCount /\ Uncountable' = 0
    BY <1>2, <1>3 DEF Uncounted, Uncountable
  <2>4. wdtCount \in 0 .. Period - 1 /\ call[t].ms \in Nat
    BY <1>3
  <2>5. call'[t].ms = call[t].ms /\ elapsed'[t] = 0 /\ delayMode' = delayMode
    BY <1>2, <1>3
  <2>6. /\ 0 <= call[t].ms - call[t].ms + Uncounted' + Uncountable'
        /\ 0 >= call[t].ms - call[t].ms + Uncounted' - (Period - 1)
    BY <2>2, <2>3, <2>4
  <2> QED BY <1>3, <2>1, <2>4, <2>5, <2>6 DEF OnTime
<1> QED BY <1>1, <1>4, <1>5, <1>6, CallStepSuffices

LEMMA StepKeepsDelays ==
  ASSUME Cooperative, TypeOK, TypeOK', SourceInv, SleepInv, NEW t \in Tasks, Step(t)
  PROVE  SleepInv'
<1> USE DEF At, Goto, TypeOK, timers, flags, clock, sleepers
<1>1. CASE SetMode(t) \/ HoldWatchdog(t) \/ Release(t) \/ Set(t) \/ Start(t)
  <2>1. /\ CanRun(t) /\ Undisturbed(t) /\ pc[t] \in Running /\ pc[t] \notin {"sleep", "asleep"}
        /\ pc'[t] \in (Running \ {"mode"}) \cup {"mode", "idle"} /\ elapsed' = elapsed
    BY <1>1 DEF SetMode, HoldWatchdog, Release, Set, Start, Undisturbed, Running, Entry
  <2>2. elapsed[t] = 0 /\ Asks(t)
    BY <2>1 DEF SleepInv, Asks, Running
  <2>3. pc'[t] \in Running => call' = call
    BY <1>1 DEF SetMode, HoldWatchdog, Release, Set, Start, Running
  <2>4. ASSUME pc'[t] = "sleep"
        PROVE  call[t].op = "delay" /\ (delayMode' = 1 => call[t].ms % Period = 0)
    <3>1. Start(t) /\ call[t].op = "delay" /\ delayMode' = delayMode
      BY <1>1, <2>4 DEF SetMode, HoldWatchdog, Release, Set, Start, Entry
    <3>2. delayMode = 1 => call[t].to = "wdt"
      BY <3>1 DEF SourceInv, Where, InSwitch, Named, Start
    <3> QED BY <2>1, <2>2, <3>1, <3>2 DEF Asks
  <2>5. Asks(t)'
    BY <2>1, <2>2, <2>3, <2>4 DEF Asks, Running
  <2>6. Sleeper' => Sleeper
    BY <2>1 DEF Sleeper, Undisturbed, Running
  <2>7. Sleeper => KeepsTime /\ Handover(t)'
    BY <1>1, SwitchKeepsTime
  <2> QED BY <2>1, <2>5, <2>6, <2>7, CallStepSuffices DEF Running
<1>2. CASE StopTimerA(t)
  <2>1. /\ CanRun(t) /\ Undisturbed(t) /\ pc[t] = "stopA" /\ InSwitch(t)
        /\ pc'[t] = "holdW" /\ call' = call /\ elapsed' = elapsed
    BY <1>2 DEF StopTimerA, Undisturbed, InSwitch
  <2>2. ~Sleeper
    BY <2>1, SwitchWhileAsleep
  <2>3. ~Sleeper'
    BY <2>1, <2>2 DEF Sleeper, Undisturbed
  <2>4. Asks(t)'
    BY <2>1 DEF SleepInv, Asks, Running
  <2> QED BY <2>1, <2>2, <2>3, <2>4, CallStepSuffices
<1>3. CASE Sleep(t)
  BY <1>3, SleepBegins
<1>4. CASE YieldReturns(t)
  <2>1. /\ CanRun(t) /\ Undisturbed(t) /\ pc[t] = "yielded" /\ pc'[t] = "idle" /\ elapsed' = elapsed
        /\ UNCHANGED <<delayMode, wdtCount, lapsed>>
    BY <1>4 DEF YieldReturns, Undisturbed
  <2>2. KeepsTime
    BY <2>1, SameMode DEF InSwitch
  <2>3. Asks(t)' /\ Handover(t)'
    BY <2>1 DEF SleepInv, Asks, Handover, InSwitch, Running
  <2> QED BY <2>1, <2>2, <2>3, CallStepSuffices
<1> QED BY <1>1, <1>2, <1>3, <1>4 DEF Step

\* A millisecond passes: the timer that counts makes a tick, or its count moves.
\* What is counted and what can still go uncounted take it up.
Passes ==
  /\ UNCHANGED <<delayMode, ticks, swiCount, pc, call, due>>
  /\ Uncounted' + Uncountable' >= Uncounted + Uncountable + 1
  /\ Uncounted' <= Uncounted + 1

LEMMA MillisecondPasses ==
  ASSUME Cooperative, TypeOK, TypeOK', SourceInv, SleepInv, Sleeper, NEW deep \in BOOLEAN,
         Elapse(deep)
  PROVE  Passes /\ OneTick' /\ \A u \in Tasks : Handover(u)'
<1> Period \in Nat /\ Period > 1
  BY DelayAssumption
<1> USE DEF TypeOK, timers, flags, clock, sleepers
<1>1. /\ ~ifgA /\ ~ifgW /\ swiCount = 0 /\ delayMode \in {1, 2}
      /\ UNCHANGED <<delayMode, timerA, wdt, ticks, swiCount, pc, call, due>>
  <2>1. delayMode # 0
    BY DEF SourceInv, Where, Sleeper
  <2> QED BY <2>1 DEF Elapse, Interrupted
<1>2. ASSUME NEW u \in Tasks, pc[u] \in Running
      PROVE  /\ CanRun(u) /\ ~lapsed[u] /\ lapsed'[u] /\ ~deep
             /\ call[u].op = "delay" /\ call[u].to # "wdt"
  <2>1. CanRun(u)
    BY <1>1, <1>2, DelayAssumption DEF CanRun, Interrupted, SourceInv, Exclusive
  <2>2. ~deep
    BY <1>2 DEF Elapse, AllWait, Running
  <2> QED BY <1>2, <2>1, <2>2 DEF Elapse, SleepInv, Handover
<1>3. ASSUME \A u \in Tasks : ~InSwitch(u)
      PROVE  Settled
  <2>1. CASE Quiet
    BY <2>1 DEF SourceInv
  <2>2. CASE ~Quiet
    <3>1. PICK u \in Tasks : pc[u] \in Running
      BY <2>2 DEF Quiet
    <3>2. pc[u] \in {"mode", "sleep"} /\ call[u].op = "delay"
      BY <1>2, <1>3, <3>1 DEF InSwitch, Running
    <3> QED BY <3>1, <3>2 DEF SourceInv, Where
  <2> QED BY <2>1, <2>2
<1>4. ASSUME deep
      PROVE  (timerA => Policy = 2) /\ (wdt => Policy # 1)
  <2>1. Quiet /\ Settled
    BY <1>4 DEF Elapse, AllWait, SourceInv, Quiet, Running
  <2> QED BY <1>1, <2>1 DEF Settled, Policy
<1>5. /\ ifgA' = timerA
      /\ ifgW' = (wdt /\ wdtCount = Period - 1)
      /\ wdtCount' = IF wdt THEN (wdtCount + 1) % Period ELSE wdtCount
  BY <1>4 DEF Elapse, Counting
<1>6. (wdtCount + 1) % Period = IF wdtCount = Period - 1 THEN 0 ELSE wdtCount + 1
  <2>1. wdtCount \in 0 .. Period - 1
    OBVIOUS
  <2>2. wdtCount = Period - 1 => (wdtCount + 1) % Period = 0
    <3>1. Period % Period = 0
      OBVIOUS
    <3> QED BY <3>1
  <2>3. wdtCount # Period - 1 => (wdtCount + 1) % Period = wdtCount + 1
    BY <2>1
  <2> QED BY <2>2, <2>3
<1>7. CASE delayMode = 1
  <2>1. \A u \in Tasks : ~InSwitch(u)
    BY <1>7, SwitchWhileAsleep
  <2>2. wdt /\ ~timerA
    BY <1>3, <1>7, <2>1 DEF Settled
  <2>3. /\ ~ifgA' /\ ifgW' = (wdtCount = Period - 1)
        /\ wdtCount' = IF wdtCount = Period - 1 THEN 0 ELSE wdtCount + 1
    BY <1>5, <1>6, <2>2
  <2>4. Uncounted = wdtCount /\ Uncountable = 0 /\ Uncountable' = 0
    BY <1>1, <1>7 DEF Uncounted, Uncountable
  <2>5. Uncounted' = wdtCount + 1
    <3>1. Uncounted' = IF ifgW' THEN Period ELSE wdtCount'
      BY <1>1, <1>7 DEF Uncounted
    <3>2. CASE wdtCount = Period - 1
      <4>1. ifgW'
        BY <2>3, <3>2
      <4>2. Uncounted' = Period
        BY <3>1, <4>1
      <4> QED BY <3>2, <4>2
    <3>3. CASE wdtCount # Period - 1
      <4>1. ~ifgW' /\ wdtCount' = wdtCount + 1
        BY <2>3, <3>3
      <4> QED BY <3>1, <4>1
    <3> QED BY <3>2, <3>3
  <2>6. Passes
    BY <1>1, <2>4, <2>5 DEF Passes
  <2>7. OneTick'
    BY <1>1, <2>3 DEF OneTick
  <2>8. \A u \in Tasks : Handover(u)'
    BY <1>1, <1>2, <2>1 DEF Handover, InSwitch
  <2> QED BY <2>6, <2>7, <2>8
<1>8. CASE delayMode = 2 /\ \E u \in Tasks : InSwitch(u)
  <2>1. PICK u \in Tasks : InSwitch(u)
    BY <1>8
  <2>2. ~timerA /\ ~lapsed[u] /\ pc[u] \in Running
    BY <1>2, <2>1, SwitchWhileAsleep DEF InSwitch, Running
  <2>3. Handing /\ ~Handing'
    BY <1>1, <1>2, <2>1, <2>2 DEF Handing, InSwitch, Running
  <2>4. Uncounted = 0 /\ Uncountable = Period - 1
    BY <1>1, <1>8, <2>3 DEF Uncounted, Uncountable
  <2>5. (Uncounted' = 0 \/ Uncounted' = 1) /\ Uncountable' = Period
    BY <1>1, <1>8, <2>3 DEF Uncounted, Uncountable
  <2>6. Passes
    BY <1>1, <2>4, <2>5 DEF Passes
  <2>7. OneTick'
    BY <1>1, <1>5, <1>6, <2>2 DEF OneTick
  <2>8. \A v \in Tasks : Handover(v)'
    BY <1>1, <1>2, <2>2, SwitchWhileAsleep DEF Handover, InSwitch, Running
  <2> QED BY <2>6, <2>7, <2>8
<1>9. CASE delayMode = 2 /\ \A u \in Tasks : ~InSwitch(u)
  <2>1. timerA /\ ~wdt
    BY <1>3, <1>9 DEF Settled
  <2>2. ifgA' /\ ~ifgW'
    BY <1>5, <2>1
  <2>3. ~Handing /\ ~Handing'
    BY <1>1, <1>9 DEF Handing, InSwitch
  <2>4. Uncounted = 0 /\ Uncountable = Period /\ Uncounted' = 1 /\ Uncountable' = Period
    BY <1>1, <1>9, <2>2, <2>3 DEF Uncounted, Uncountable
  <2>5. Passes
    BY <1>1, <2>4 DEF Passes
  <2>6. OneTick'
    BY <1>1, <1>9, <2>2 DEF OneTick
  <2>7. \A v \in Tasks : Handover(v)'
    BY <1>1, <1>2, <1>9 DEF Handover, InSwitch
  <2> QED BY <2>5, <2>6, <2>7
<1> QED BY <1>1, <1>7, <1>8, <1>9

LEMMA ElapseKeepsDelays ==
  ASSUME Cooperative, TypeOK, TypeOK', SourceInv, SleepInv, NEW deep \in BOOLEAN, Elapse(deep)
  PROVE  SleepInv'
<1> Period \in Nat /\ Period > 1
  BY DelayAssumption
<1>1. UNCHANGED <<delayMode, pc, call, due, ticks, swiCount>> /\ swiCount = 0
  BY DEF Elapse, Interrupted, TypeOK, clock
<1>2. \A t \in Tasks : elapsed'[t] = IF pc[t] = "asleep" /\ elapsed[t] <= call[t].ms + Period
                                     THEN elapsed[t] + 1 ELSE elapsed[t]
  BY DEF Elapse
<1>3. \A t \in Tasks : Asks(t)'
  BY <1>1, <1>2 DEF SleepInv, Asks
<1>4. Sleeper' <=> Sleeper
  BY <1>1 DEF Sleeper
<1>5. Sleeper => Passes /\ OneTick' /\ \A u \in Tasks : Handover(u)'
  BY MillisecondPasses
<1>6. ASSUME NEW t \in Tasks, pc'[t] = "asleep"
      PROVE  OnTime(t)'
  <2>1. pc[t] = "asleep" /\ OnTime(t) /\ Passes
    BY <1>1, <1>5, <1>6 DEF Sleeper, SleepInv
  <2>2. Rem(t)' = Rem(t) /\ Rem(t) > 0 /\ call'[t].ms = call[t].ms
    BY <1>1, <2>1 DEF Rem, OnTime
  <2>3. /\ Uncounted \in 0 .. Period /\ Uncountable \in 0 .. Period
        /\ Rem(t) \in Nat /\ elapsed[t] \in Nat /\ call[t].ms \in Nat
        /\ Uncounted' \in 0 .. Period /\ Uncountable' \in 0 .. Period
    BY TimesTyped, TimesTypedNext
  <2>4. Uncounted + Uncountable <= Period
    <3>1. wdtCount \in 0 .. Period - 1 /\ ~ifgA /\ ~ifgW
      BY DEF Elapse, Interrupted, TypeOK
    <3> QED BY <3>1 DEF Uncounted, Uncountable
  <2>5. /\ elapsed[t] <= call[t].ms - Rem(t) + Uncounted + Uncountable
        /\ elapsed[t] >= call[t].ms - Rem(t) + Uncounted - (Period - 1)
        /\ Uncounted' + Uncountable' >= Uncounted + Uncountable + 1
        /\ Uncounted' <= Uncounted + 1
    BY <2>1 DEF OnTime, Passes
  <2>6. elapsed[t] <= call[t].ms + Period
    BY <2>2, <2>3, <2>4, <2>5
  <2>7. elapsed'[t] = elapsed[t] + 1
    BY <1>2, <2>1, <2>6
  <2>8. /\ elapsed'[t] <= call[t].ms - Rem(t) + Uncounted' + Uncountable'
        /\ elapsed'[t] >= call[t].ms - Rem(t) + Uncounted' - (Period - 1)
    <3>1. elapsed'[t] <= call[t].ms - Rem(t) + Uncounted' + Uncountable'
      <4> DEFINE left == call[t].ms - Rem(t)
                 was == Uncounted + Uncountable
                 is == Uncounted' + Uncountable'
      <4>1. left \in Int /\ was \in Int /\ is \in Int
        BY <2>3
      <4>2. elapsed[t] <= left + was
        BY <2>3, <2>5
      <4>3. is >= was + 1
        BY <2>3, <2>5
      <4> HIDE DEF left, was, is
      <4>4. elapsed'[t] <= left + is
        BY <2>3, <2>7, <4>1, <4>2, <4>3
      <4> QED BY <2>3, <4>4 DEF left, is
    <3>2. elapsed'[t] >= call[t].ms - Rem(t) + Uncounted' - (Period - 1)
      BY <2>3, <2>5, <2>7
    <3> QED BY <3>1, <3>2
  <2>9. delayMode' = 1 => Rem(t)' % Period = 0
    BY <1>1, <2>1, <2>2 DEF OnTime
  <2> QED BY <2>2, <2>8, <2>9 DEF OnTime
<1> QED BY <1>3, <1>4, <1>5, <1>6 DEF SleepInv

\* A tick counts the milliseconds it stands for off every delay.
LEMMA TickKeepsDelays ==
  ASSUME TypeOK, TypeOK', SourceInv, SleepInv, TimerAHwi \/ WatchdogHwi
  PROVE  SleepInv'
<1> Period \in Nat /\ Period > 1 /\ TickMod \in Nat
  BY DelayAssumption
<1> DEFINE k == IF delayMode = 1 THEN Period ELSE 1
<1>1. /\ UNCHANGED <<delayMode, wdtCount, timerA, pc, call, due, elapsed, lapsed>>
      /\ ticks' = (ticks + Bump + 1) % TickMod /\ swiCount' = swiCount + 1
      /\ ifgA \/ ifgW
  BY DEF TimerAHwi, WatchdogHwi, ClockTick, timers, sleepers
<1>2. \A t \in Tasks : Asks(t)'
  BY <1>1 DEF SleepInv, Asks
<1>3. CASE ~Sleeper
  BY <1>1, <1>2, <1>3 DEF SleepInv, Sleeper
<1>4. CASE Sleeper
  <2>1. OneTick /\ (\A u \in Tasks : Handover(u)) /\ delayMode \in {1, 2}
    BY <1>4 DEF SleepInv, SourceInv, Where, Sleeper, TypeOK
  <2>2. swiCount = 0 /\ ~(ifgA /\ ifgW) /\ (delayMode = 1 => ifgW /\ wdtCount = 0)
    BY <1>1, <2>1 DEF OneTick, TypeOK
  <2>3. ~ifgA' /\ ~ifgW' /\ swiCount' = 1
    BY <2>2 DEF TimerAHwi, WatchdogHwi, ClockTick
  <2>4. OneTick'
    BY <2>3 DEF OneTick
  <2>5. \A u \in Tasks : Handover(u)'
    BY <1>1, <2>1, <2>3 DEF Handover, InSwitch
  <2>6. Uncounted = k /\ Uncounted' = 0
    BY <1>1, <2>1, <2>2, <2>3 DEF Uncounted
  <2>7. Uncountable' = Uncountable
    <3>1. Handing' <=> Handing
      BY <1>1 DEF Handing, InSwitch
    <3> QED BY <1>1, <3>1 DEF Uncountable
  <2>8. ticks' = (ticks + k) % TickMod /\ ticks \in 0 .. TickMod - 1
    <3>1. ticks \in 0 .. TickMod - 1
      BY DEF TypeOK
    <3>2. ticks + Bump + 1 = ticks + k
      BY <3>1 DEF Bump
    <3> QED BY <1>1, <3>1, <3>2
  <2>9. ASSUME NEW t \in Tasks, pc'[t] = "asleep"
        PROVE  OnTime(t)'
    <3>1. OnTime(t) /\ due[t] \in 0 .. TickMod - 1 /\ due' = due
      BY <1>1, <2>9 DEF SleepInv, TypeOK
    <3>2. /\ Uncounted \in 0 .. Period /\ Uncountable \in 0 .. Period
          /\ Rem(t) \in Nat /\ elapsed[t] \in Nat /\ call[t].ms \in Nat
      BY TimesTyped
    <3>3. Rem(t) > 0 /\ (delayMode = 1 => Rem(t) % Period = 0)
      BY <2>2, <3>1 DEF OnTime
    <3>4. k \in Nat /\ k <= Rem(t) /\ (delayMode = 1 => (Rem(t) - k) % Period = 0)
      BY <3>2, <3>3, PeriodBefore
    <3>5. Rem(t)' = Rem(t) - k
      <4> HIDE DEF k
      <4>1. Span((ticks + k) % TickMod, due[t]) = Span(ticks, due[t]) - k
        BY <2>8, <3>1, <3>4, SpanTicks DEF Rem
      <4> QED BY <2>8, <3>1, <4>1 DEF Rem
    <3> HIDE DEF k
    <3>6. /\ elapsed[t] <= call[t].ms - Rem(t) + Uncounted + Uncountable
          /\ elapsed[t] >= call[t].ms - Rem(t) + Uncounted - (Period - 1)
      BY <3>1 DEF OnTime
    <3>7. elapsed[t] <= call[t].ms - (Rem(t) - k) + 0 + Uncountable
      BY <2>6, <3>2, <3>4, <3>6
    <3>8. elapsed[t] >= call[t].ms - (Rem(t) - k) + 0 - (Period - 1)
      BY <2>6, <3>2, <3>4, <3>6
    <3> QED BY <1>1, <2>3, <2>6, <2>7, <3>4, <3>5, <3>7, <3>8 DEF OnTime
  <2> QED BY <1>2, <2>4, <2>5, <2>9 DEF SleepInv
<1> QED BY <1>3, <1>4

\* The task that the Clock Swi wakes is the one whose delay is over.
LEMMA SwiWakes ==
  ASSUME TypeOK, SleepInv, ClockSwi, NEW t \in Tasks, pc[t] = "asleep"
  PROVE  /\ ~ifgA /\ ~ifgW /\ OnTime(t)
         /\ Wakes(t) <=> Rem(t) = 0
<1>1. OneTick /\ OnTime(t)
  BY DEF SleepInv, Sleeper
<1>2. swiCount = 1 /\ ~ifgA /\ ~ifgW
  BY <1>1 DEF ClockSwi, OneTick, TypeOK
<1>3. ticks \in 0 .. TickMod - 1 /\ due[t] \in 0 .. TickMod - 1
  BY DEF TypeOK
<1>4. (ticks - 0) % TickMod = ticks
  BY <1>3, DelayAssumption
<1>5. Processed = {ticks}
  <2>1. 0 .. swiCount - 1 = {0}
    BY <1>2
  <2>2. Processed = {(ticks - i) % TickMod : i \in {0}}
    BY <2>1 DEF Processed
  <2> QED BY <1>4, <2>2
<1> QED BY <1>1, <1>2, <1>3, <1>5, SpanRange DEF Wakes, Rem

LEMMA SwiKeepsDelays ==
  ASSUME TypeOK, TypeOK', SleepInv, ClockSwi
  PROVE  SleepInv'
<1>1. /\ UNCHANGED <<delayMode, timerA, ifgA, ifgW, wdtCount, ticks, lapsed>>
      /\ swiCount' = 0
      /\ pc' = [t \in Tasks |-> IF Wakes(t) THEN "idle" ELSE pc[t]]
      /\ call' = [t \in Tasks |-> IF Wakes(t) THEN NoCall ELSE call[t]]
      /\ due' = [t \in Tasks |-> IF Wakes(t) THEN 0 ELSE due[t]]
      /\ elapsed' = [t \in Tasks |-> IF Wakes(t) THEN 0 ELSE elapsed[t]]
  BY DEF ClockSwi, timers, flags
<1>2. ASSUME NEW t \in Tasks
      PROVE  \/ pc[t] = "asleep" /\ pc'[t] = "idle" /\ elapsed'[t] = 0
             \/ /\ ~Wakes(t) /\ pc'[t] = pc[t] /\ call'[t] = call[t] /\ due'[t] = due[t]
                /\ elapsed'[t] = elapsed[t]
  BY <1>1 DEF Wakes
<1>3. \A t \in Tasks : InSwitch(t)' <=> InSwitch(t)
  BY <1>2 DEF InSwitch
<1>4. ASSUME NEW t \in Tasks
      PROVE  Asks(t)' /\ (Handover(t) => Handover(t)')
  BY <1>1, <1>2, <1>3 DEF SleepInv, Asks, Handover, Running
<1>5. Sleeper' => Sleeper
  BY <1>2 DEF Sleeper
<1>6. OneTick => OneTick'
  BY <1>1 DEF OneTick
<1>7. ASSUME NEW t \in Tasks, pc'[t] = "asleep"
      PROVE  OnTime(t)'
  <2>1. /\ pc[t] = "asleep" /\ ~Wakes(t) /\ call'[t] = call[t] /\ due'[t] = due[t]
        /\ elapsed'[t] = elapsed[t]
    BY <1>2, <1>7
  <2>2. OnTime(t) /\ Rem(t) # 0 /\ Rem(t) \in Nat
    BY <2>1, SwiWakes, TimesTyped
  <2>3. Rem(t)' = Rem(t) /\ Uncounted' = Uncounted
    BY <1>1, <2>1 DEF Rem, Uncounted
  <2>4. Handing' <=> Handing
    BY <1>1, <1>3 DEF Handing
  <2>5. Uncountable' = Uncountable
    BY <1>1, <2>4 DEF Uncountable
  <2> QED BY <1>1, <2>1, <2>2, <2>3, <2>5 DEF OnTime
<1> QED BY <1>4, <1>5, <1>6, <1>7 DEF SleepInv

LEMMA InitSleep == Init => SleepInv
<1> SUFFICES ASSUME Init PROVE SleepInv
  OBVIOUS
<1>1. \A t \in Tasks : pc[t] = "idle" /\ elapsed[t] = 0
  BY DEF Init
<1> QED BY <1>1 DEF SleepInv, Sleeper, Asks, Running

LEMMA SleepInductive ==
  ASSUME Cooperative, ShortDelays, Lone
  PROVE  TypeOK /\ SourceInv /\ SleepInv /\ [Next]_vars => SleepInv'
<1> SUFFICES ASSUME TypeOK, SourceInv, SleepInv, [Next]_vars PROVE SleepInv'
  OBVIOUS
<1>1. TypeOK'
  BY TypesInductive
<1>2. CASE Interrupt
  BY <1>1, <1>2, TickKeepsDelays, SwiKeepsDelays DEF Interrupt
<1>3. CASE Time
  BY <1>1, <1>3, ElapseKeepsDelays DEF Time
<1>4. CASE \E t \in Tasks : Step(t) \/ Call(t)
  BY <1>1, <1>4, StepKeepsDelays, CallKeepsDelays
<1>5. CASE UNCHANGED vars
  <2>1. /\ UNCHANGED <<delayMode, timerA, wdtCount, ifgA, ifgW, ticks, swiCount>>
        /\ UNCHANGED <<pc, call, due, elapsed, lapsed>>
    BY <1>5 DEF vars, timers, flags, clock, sleepers
  <2> QED BY <2>1
    DEF SleepInv, Sleeper, Asks, OneTick, Handover, OnTime, Rem, Uncounted, Uncountable,
        Handing, InSwitch
<1> QED BY <1>2, <1>3, <1>4, <1>5 DEF Next

\* What holds of a sleeping task bounds how long it has slept.
LEMMA NoneOversleeps ==
  ASSUME TypeOK, SleepInv, NEW t \in Tasks, pc[t] = "asleep"
  PROVE  elapsed[t] <= call[t].ms + Period
<1> Period \in Nat /\ Period > 1
  BY DelayAssumption
<1>1. OnTime(t) /\ OneTick
  BY DEF SleepInv, Sleeper
<1>2. /\ Uncounted \in 0 .. Period /\ Uncountable \in 0 .. Period
      /\ Rem(t) \in Nat /\ elapsed[t] \in Nat /\ call[t].ms \in Nat
  BY TimesTyped
<1>3. elapsed[t] <= call[t].ms - Rem(t) + Uncounted + Uncountable
  BY <1>1 DEF OnTime
<1>4. CASE delayMode = 1
  <2>1. Uncountable = 0
    BY <1>4 DEF Uncountable
  <2> QED BY <1>2, <1>3, <2>1
<1>5. CASE delayMode # 1 /\ (ifgA \/ ifgW)
  <2>1. swiCount = 0 /\ Uncounted = 1
    BY <1>1, <1>5 DEF OneTick, Uncounted, TypeOK
  <2>2. Rem(t) > 0
    BY <1>1, <2>1 DEF OnTime
  <2> QED BY <1>2, <1>3, <2>1, <2>2
<1>6. CASE delayMode # 1 /\ ~(ifgA \/ ifgW)
  <2>1. Uncounted = 0
    BY <1>6 DEF Uncounted
  <2> QED BY <1>2, <1>3, <2>1
<1> QED BY <1>4, <1>5, <1>6

\* Tasks of one priority whose delays fit a timeout, and no change of the
\* resolution while one sleeps: no delay lasts longer than asked by more than a
\* watchdog period, whatever the others' delays switch the Clock to meanwhile.
THEOREM DelaysNotLate ==
  ASSUME Cooperative, ShortDelays, Lone
  PROVE  Spec => []NoOversleep
<1>1. TypeOK /\ SleepInv => NoOversleep
  BY NoneOversleeps DEF NoOversleep
<1> QED BY <1>1, InitTypes, TypesInductive, InitSource, SourceInductive, InitSleep,
           SleepInductive, PTL DEF Spec

\* Only the Clock Swi wakes a sleeping task.
LEMMA OnlySwiWakes ==
  ASSUME TypeOK, [Next]_vars, NEW t \in Tasks, pc[t] = "asleep", pc'[t] = "idle"
  PROVE  ClockSwi /\ Wakes(t)
<1>1. ASSUME NEW u \in Tasks, Step(u) \/ Call(u)
      PROVE  pc'[t] = "asleep"
  <2>1. CASE u = t
    BY <1>1, <2>1
    DEF Step, Call, SetMode, StopTimerA, HoldWatchdog, Release, Set, Start, Sleep,
        YieldReturns, Yield, Delay, SetResolution, At
  <2>2. CASE u # t
    BY <1>1, <2>2
    DEF TypeOK, Step, Call, SetMode, StopTimerA, HoldWatchdog, Release, Set, Start, Sleep,
        YieldReturns, Yield, Delay, SetResolution, Goto
  <2> QED BY <2>1, <2>2
<1>2. CASE ClockSwi
  BY <1>2 DEF ClockSwi
<1> QED BY <1>1, <1>2 DEF Next, Interrupt, TimerAHwi, WatchdogHwi, Time, Elapse, vars

\* And no delay ends early by a watchdog period or more.
THEOREM DelaysNotEarly ==
  ASSUME Cooperative, ShortDelays, Lone
  PROVE  Spec => NoEarlyWake
<1>1. ASSUME TypeOK, SleepInv, [Next]_vars,
             NEW t \in Tasks, pc[t] = "asleep", pc'[t] = "idle"
      PROVE  elapsed[t] > call[t].ms - Period
  <2>1. Rem(t) = 0 /\ OnTime(t)
    BY <1>1, OnlySwiWakes, SwiWakes
  <2>2. Uncounted \in 0 .. Period /\ elapsed[t] \in Nat /\ call[t].ms \in Nat
    BY <1>1, TimesTyped
  <2>3. elapsed[t] >= call[t].ms - Rem(t) + Uncounted - (Period - 1)
    BY <2>1 DEF OnTime
  <2> QED BY <2>1, <2>2, <2>3, DelayAssumption
<1>2. TypeOK /\ SleepInv /\ [Next]_vars =>
        [\A t \in Tasks : pc[t] = "asleep" /\ pc'[t] = "idle" =>
           elapsed[t] > call[t].ms - Period]_vars
  BY <1>1
<1> QED BY <1>2, InitTypes, TypesInductive, InitSource, SourceInductive, InitSleep,
           SleepInductive, PTL DEF Spec, NoEarlyWake

(***************************************************************************)
(* The tick of the MSP432P4111.                                            *)
(***************************************************************************)

\* The counts elapsed and already programmed are the exact time of the interrupts,
\* less the error carried, plus the two periods the reset values stand for.
Balance == 125 * (aclk + next + period - 64) = 4096 * interrupts - error

BalanceInv == TickTypeOK /\ Balance

LEMMA InitBalance == TickInit => BalanceInv
  BY DEF TickInit, BalanceInv, TickTypeOK, Balance

LEMMA TickTypes ==
  ASSUME TickTypeOK, Tick
  PROVE  TickTypeOK'
<1>1. error' \in 0 .. 124 /\ period' \in {32, 33}
  BY DEF TickTypeOK, Tick, Carry
<1>2. aclk' \in Nat /\ interrupts' \in Nat /\ next' \in {32, 33}
  BY DEF TickTypeOK, Tick
<1>3. mark' \in Nat
  BY <1>2 DEF TickTypeOK, Tick
<1> QED BY <1>1, <1>2, <1>3 DEF TickTypeOK

LEMMA BalanceInductive == BalanceInv /\ [Tick]_tickVars => BalanceInv'
<1> SUFFICES ASSUME BalanceInv, [Tick]_tickVars PROVE BalanceInv'
  OBVIOUS
<1>1. CASE Tick
  <2>1. TickTypeOK'
    BY <1>1, TickTypes DEF BalanceInv
  <2>2. 125 * (period' - 32) - 96 = error - error'
    BY <1>1 DEF BalanceInv, TickTypeOK, Tick, Carry
  <2>3. aclk' = aclk + next /\ next' = period /\ interrupts' = interrupts + 1
    BY <1>1 DEF Tick
  <2>4. Balance'
    BY <2>1, <2>2, <2>3 DEF BalanceInv, TickTypeOK, Balance
  <2> QED BY <2>1, <2>4 DEF BalanceInv
<1>2. CASE UNCHANGED tickVars
  BY <1>2 DEF tickVars, BalanceInv, TickTypeOK, Balance
<1> QED BY <1>1, <1>2

\* However long the board runs, the tick count stays within three counts of
\* the crystal.
THEOREM TickAccurate == TickSpec => []Accurate
<1>1. BalanceInv => Accurate
  BY DEF BalanceInv, TickTypeOK, Balance, Accurate
<1> QED BY <1>1, InitBalance, BalanceInductive, PTL DEF TickSpec

(***************************************************************************)
(* Rounds of 125 interrupts.                                               *)
(***************************************************************************)
\* The error is a function of the number of the interrupt; so are the last
\* two periods, by the errors they were chosen with.
ErrorAt(n) == (96 * n) % 125
PeriodAt(n) == IF n > 0 /\ ErrorAt(n) < 96 THEN 33 ELSE 32

Phase ==
  /\ error = ErrorAt(interrupts)
  /\ period = PeriodAt(interrupts)
  /\ interrupts > 0 => next = PeriodAt(interrupts - 1)

RoundInv ==
  /\ BalanceInv
  /\ Phase
  /\ interrupts >= 125 => 125 * mark + 250 = 4096 * (interrupts - (interrupts % 125))

\* One more interrupt adds 96 to the error, modulo 125.
LEMMA ErrorNext ==
  ASSUME NEW n \in Nat
  PROVE  /\ ErrorAt(n) \in 0 .. 124
         /\ ErrorAt(n + 1) = (IF ErrorAt(n) + 96 >= 125 THEN ErrorAt(n) + 96 - 125
                                                       ELSE ErrorAt(n) + 96)
  BY DEF ErrorAt

LEMMA PhaseInductive ==
  ASSUME BalanceInv, Phase, Tick
  PROVE  Phase'
<1>1. error' = ErrorAt(interrupts + 1) /\ interrupts' = interrupts + 1 /\ interrupts \in Nat
  BY ErrorNext DEF BalanceInv, TickTypeOK, Phase, Tick, Carry
<1>2. period' = PeriodAt(interrupts + 1)
  BY <1>1, ErrorNext DEF BalanceInv, TickTypeOK, Phase, Tick, Carry, PeriodAt
<1>3. next' = PeriodAt(interrupts)
  BY DEF Phase, Tick
<1> QED BY <1>1, <1>2, <1>3 DEF Phase

\* At the end of a round no error is left, and both periods programmed are 33.
LEMMA RoundEnd ==
  ASSUME NEW n \in Nat, n > 0, n % 125 = 0
  PROVE  ErrorAt(n) = 0 /\ PeriodAt(n) = 33 /\ PeriodAt(n - 1) = 33
<1>1. n >= 125
  OBVIOUS
<1>2. ErrorAt(n) = 0
  BY DEF ErrorAt
<1>3. ErrorAt(n - 1) = 29
  BY <1>1 DEF ErrorAt
<1> QED BY <1>1, <1>2, <1>3 DEF PeriodAt

\* The counts elapsed when a round ends.
LEMMA RoundCounts ==
  ASSUME BalanceInv, Phase, Tick, interrupts' % 125 = 0
  PROVE  125 * aclk' + 250 = 4096 * interrupts'
<1>1. BalanceInv' /\ Phase'
  BY BalanceInductive, PhaseInductive
<1>2. interrupts' \in Nat /\ interrupts' > 0
  BY DEF BalanceInv, TickTypeOK, Tick
<1>3. error' = 0 /\ period' = 33 /\ next' = 33
  BY <1>1, <1>2, RoundEnd DEF Phase
<1>4. Balance' /\ aclk' \in Nat
  BY <1>1 DEF BalanceInv, TickTypeOK
<1> QED BY <1>2, <1>3, <1>4 DEF Balance

LEMMA RoundInductive == RoundInv /\ [Tick]_tickVars => RoundInv'
<1> SUFFICES ASSUME RoundInv, [Tick]_tickVars PROVE RoundInv'
  OBVIOUS
<1>1. CASE Tick
  <2>1. BalanceInv' /\ Phase'
    BY <1>1, BalanceInductive, PhaseInductive DEF RoundInv
  <2>2. interrupts' = interrupts + 1 /\ interrupts \in Nat /\ mark \in Nat
    BY <1>1 DEF RoundInv, BalanceInv, TickTypeOK, Tick
  <2>3. CASE interrupts' % 125 = 0
    <3>1. mark' = aclk'
      BY <1>1, <2>3 DEF Tick
    <3>2. 125 * aclk' + 250 = 4096 * interrupts'
      BY <1>1, <2>3, RoundCounts DEF RoundInv
    <3> QED BY <2>1, <2>2, <2>3, <3>1, <3>2 DEF RoundInv
  <2>4. CASE interrupts' % 125 # 0
    <3>1. mark' = mark
      BY <1>1, <2>4 DEF Tick
    <3>2. interrupts' >= 125 => interrupts >= 125
      BY <2>2, <2>4
    <3>3. interrupts' - (interrupts' % 125) = interrupts - (interrupts % 125)
      BY <2>2, <2>4
    <3> QED BY <2>1, <3>1, <3>2, <3>3 DEF RoundInv
  <2> QED BY <2>3, <2>4
<1>2. CASE UNCHANGED tickVars
  BY <1>2 DEF tickVars, RoundInv, BalanceInv, TickTypeOK, Balance, Phase
<1> QED BY <1>1, <1>2

LEMMA InitRound == TickInit => RoundInv
  BY InitBalance DEF TickInit, RoundInv, Phase, ErrorAt, PeriodAt

\* One interrupt before a round ends, the counts that are missing.
LEMMA LastOfRound ==
  ASSUME RoundInv, interrupts > 125, interrupts % 125 = 124
  PROVE  next = 33 /\ aclk + 33 - mark = 4096
<1>1. interrupts \in Nat /\ aclk \in Nat /\ mark \in Nat
  BY DEF RoundInv, BalanceInv, TickTypeOK
<1>2. ErrorAt(interrupts) = 29 /\ ErrorAt(interrupts - 1) = 58
  BY <1>1 DEF ErrorAt
<1>3. error = 29 /\ period = 33 /\ next = 33
  BY <1>1, <1>2 DEF RoundInv, Phase, PeriodAt
<1>4. 125 * (aclk + 2) = 4096 * interrupts - 29
  BY <1>1, <1>3 DEF RoundInv, BalanceInv, Balance
<1>5. 125 * mark + 250 = 4096 * (interrupts - 124)
  BY <1>1 DEF RoundInv
<1> QED BY <1>1, <1>3, <1>4, <1>5

\* Every 125 interrupts take exactly 125 ms by the crystal, after the first.
THEOREM RoundsExact == TickSpec => RoundIsExact
<1>1. ASSUME RoundInv, Tick, interrupts' % 125 = 0, interrupts > 125
      PROVE  aclk' - mark = 4096
  <2>1. interrupts % 125 = 124
    BY <1>1 DEF RoundInv, BalanceInv, TickTypeOK, Tick
  <2>2. next = 33 /\ aclk + 33 - mark = 4096
    BY <1>1, <2>1, LastOfRound
  <2>3. aclk' = aclk + 33
    BY <1>1, <2>2 DEF Tick
  <2>4. aclk \in Nat /\ mark \in Nat
    BY <1>1 DEF RoundInv, BalanceInv, TickTypeOK
  <2> QED BY <2>2, <2>3, <2>4
<1>2. RoundInv /\ [Tick]_tickVars =>
        [interrupts' % 125 = 0 /\ interrupts > 125 => aclk' - mark = 4096]_tickVars
  BY <1>1
<1> QED BY <1>2, InitRound, RoundInductive, PTL DEF TickSpec, RoundIsExact
=============================================================================
