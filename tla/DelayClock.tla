----------------------------- MODULE DelayClock -----------------------------
(***************************************************************************)
(* delay() and setDelayResolution() on the MSP432P401R.  The kernel's      *)
(* Clock is driven either by Timer_A every millisecond or by the watchdog  *)
(* timer every Period milliseconds; delay401R() picks one and moves a      *)
(* power constraint with it, so that the idle task's power policy does not *)
(* stop the timer that is to wake a sleeping task.                         *)
(*                                                                         *)
(* A task runs until it blocks unless one of higher priority preempts it.  *)
(* "idle" is a task outside delay() and setDelayResolution(): it runs      *)
(* other code or waits for an event, and may call either at any time.      *)
(* The interrupts preempt every task, and the Clock Swi runs before any    *)
(* task does.  Time advances one millisecond at a time.                    *)
(***************************************************************************)
EXTENDS Integers

CONSTANTS
  Tasks,
  Prio,        \* their priorities
  Period,      \* the watchdog's period in milliseconds: 250
  TickMod,     \* Clock ticks are counted modulo 2^32
  Delays,      \* bound: the arguments of delay()
  Resolutions, \* bound: the arguments of setDelayResolution()
  Lone         \* TRUE: setDelayResolution() is called only while no task sleeps

ASSUME DelayAssumption ==
  /\ Prio \in [Tasks -> Nat]
  /\ Period \in Nat \ {0, 1}
  /\ TickMod \in Nat \ {0, 1}
  /\ Delays \subseteq Nat
  /\ Resolutions \subseteq Nat
  /\ Lone \in BOOLEAN

VARIABLES
  delayMode,    \* 0: Timer_A since reset, 1: watchdog, 2: Timer_A
  timerA, wdt,  \* the timer is running
  wdtCount,     \* milliseconds since the watchdog timer was started, 0 if held
  ifgA, ifgW,   \* their interrupts are pending
  ticks,        \* Clock_module->ticks
  swiCount,     \* Clock ticks the Clock Swi has not processed
  held,         \* the counts of DISALLOW_DEEPSLEEP_0 and DISALLOW_DEEPSLEEP_1
  pc,           \* where each task is
  call,         \* what each task's call does: [op, to, ms]
  due,          \* currTimeout of each sleeping task's Clock object
  elapsed,      \* ghost: milliseconds since the task fell asleep (saturating)
  lapsed        \* ghost: a millisecond has passed during the task's call

timers == <<timerA, wdt, wdtCount>>
flags == <<ifgA, ifgW>>
clock == <<ticks, swiCount>>
sleepers == <<due, elapsed>>
vars == <<delayMode, timers, flags, clock, held, pc, call, sleepers, lapsed>>

Calls == [op : {"delay", "resolution"}, to : {"wdt", "timerA", "none"}, ms : Nat]

NoCall == [op |-> "delay", to |-> "none", ms |-> 0]

\* The labels of a task that waits and of one that executes a call.
Waiting == {"idle", "yielded", "asleep"}
Running == {"mode", "stopA", "holdW", "release", "set", "start", "sleep"}

TypeOK ==
  /\ delayMode \in 0 .. 2
  /\ timerA \in BOOLEAN /\ wdt \in BOOLEAN
  /\ wdtCount \in 0 .. Period - 1
  /\ ifgA \in BOOLEAN /\ ifgW \in BOOLEAN
  /\ ticks \in 0 .. TickMod - 1
  /\ swiCount \in Nat
  /\ held \in [0 .. 1 -> Nat]
  /\ pc \in [Tasks -> Waiting \cup Running]
  /\ call \in [Tasks -> Calls]
  /\ due \in [Tasks -> 0 .. TickMod - 1]
  /\ elapsed \in [Tasks -> Nat]
  /\ lapsed \in [Tasks -> BOOLEAN]

\* Timer_A is started by the static configuration; Board_initPower() of this
\* board sets no constraint.
Init ==
  /\ delayMode = 0
  /\ timerA = TRUE /\ wdt = FALSE
  /\ wdtCount = 0
  /\ ifgA = FALSE /\ ifgW = FALSE
  /\ ticks = 0
  /\ swiCount = 0
  /\ held = [c \in 0 .. 1 |-> 0]
  /\ pc = [t \in Tasks |-> "idle"]
  /\ call = [t \in Tasks |-> NoCall]
  /\ due = [t \in Tasks |-> 0]
  /\ elapsed = [t \in Tasks |-> 0]
  /\ lapsed = [t \in Tasks |-> FALSE]

(***************************************************************************)
(* Scheduling.                                                             *)
(***************************************************************************)
Interrupted == ifgA \/ ifgW \/ swiCount > 0

CanRun(t) ==
  /\ ~Interrupted
  /\ \A u \in Tasks \ {t} : pc[u] \in Running => Prio[u] < Prio[t]

At(t, l) == pc[t] = l /\ CanRun(t)

Goto(t, l) == pc' = [pc EXCEPT ![t] = l]

(***************************************************************************)
(* delay() and setDelayResolution().                                       *)
(***************************************************************************)
Multiple(ms) == ms >= Period /\ ms % Period = 0

\* delay(0): Task_yield() and nothing else.
Yield(t) ==
  /\ At(t, "idle")
  /\ 0 \in Delays
  /\ Goto(t, "yielded")
  /\ UNCHANGED <<delayMode, timers, flags, clock, held, call, sleepers, lapsed>>

YieldReturns(t) ==
  /\ At(t, "yielded")
  /\ Goto(t, "idle")
  /\ UNCHANGED <<delayMode, timers, flags, clock, held, call, sleepers, lapsed>>

\* mutant: the watchdog goes on driving the Clock for every later delay
DelayTarget_Stays(ms) ==
  IF delayMode = 0 THEN (IF Multiple(ms) THEN "wdt" ELSE "timerA") ELSE "none"

\* Which timer a delay of ms milliseconds switches to: the switch statement
\* of delay401R().
DelayTarget(ms) ==
  CASE delayMode = 0 -> IF Multiple(ms) THEN "wdt" ELSE "timerA"
    [] delayMode = 1 -> IF Multiple(ms) THEN "none" ELSE "timerA"
    [] delayMode = 2 -> "none"

Delay(t, ms) ==
  /\ At(t, "idle")
  /\ ms > 0
  /\ call' = [call EXCEPT ![t] = [op |-> "delay", to |-> DelayTarget(ms), ms |-> ms]]
  /\ Goto(t, IF DelayTarget(ms) = "none" THEN "sleep" ELSE "mode")
  /\ UNCHANGED <<delayMode, timers, flags, clock, held, sleepers, lapsed>>

\* The first step of switchToWatchdogTimer() and of switchToTimerA().
Entry(to) == IF to = "wdt" THEN "stopA" ELSE "holdW"

\* setDelayResolution(ms) switches first and sets delayMode afterwards.
SetResolution(t, ms) ==
  /\ At(t, "idle")
  /\ (ms = Period) # (delayMode = 1)
  /\ Lone => \A u \in Tasks : pc[u] # "asleep"
  /\ LET to == IF ms = Period THEN "wdt" ELSE "timerA"
     IN  /\ call' = [call EXCEPT ![t] = [op |-> "resolution", to |-> to, ms |-> 0]]
         /\ Goto(t, Entry(to))
  /\ UNCHANGED <<delayMode, timers, flags, clock, held, sleepers, lapsed>>

\* delay401R() sets delayMode before it switches.
SetMode(t) ==
  /\ At(t, "mode")
  /\ delayMode' = IF call[t].to = "wdt" THEN 1 ELSE 2
  /\ IF call[t].op = "delay"
     THEN Goto(t, Entry(call[t].to)) /\ UNCHANGED <<call, lapsed>>
     ELSE /\ Goto(t, "idle")
          /\ call' = [call EXCEPT ![t] = NoCall]
          /\ lapsed' = [lapsed EXCEPT ![t] = FALSE]
  /\ UNCHANGED <<timers, flags, clock, held, sleepers>>

(***************************************************************************)
(* switchToWatchdogTimer() and switchToTimerA(), call by call.             *)
(***************************************************************************)
StopTimerA(t) ==
  /\ At(t, "stopA")
  /\ timerA' = FALSE
  /\ Goto(t, "holdW")
  /\ UNCHANGED <<delayMode, wdt, wdtCount, flags, clock, held, call, sleepers, lapsed>>

\* The count is held, and cleared before the timer is started again.  Creating
\* the watchdog's Hwi the first time changes nothing modelled here.
HoldWatchdog(t) ==
  /\ At(t, "holdW")
  /\ wdt' = FALSE /\ wdtCount' = 0
  /\ Goto(t, "release")
  /\ UNCHANGED <<delayMode, timerA, flags, clock, held, call, sleepers, lapsed>>

\* The constraint that belongs to a timer.
ConstraintOf(timer) == IF timer = "timerA" THEN 0 ELSE 1

\* mutant: the constraint of the timer just stopped is kept
Release_Keeps(t) ==
  /\ At(t, "release")
  /\ Goto(t, "set")
  /\ UNCHANGED <<delayMode, timers, flags, clock, held, call, sleepers, lapsed>>

\* Power_releaseConstraint() of the other timer's constraint: an error, which
\* is ignored, when it is not held.
Release(t) ==
  /\ At(t, "release")
  /\ held' = [held EXCEPT ![1 - ConstraintOf(call[t].to)] = IF @ = 0 THEN 0 ELSE @ - 1]
  /\ Goto(t, "set")
  /\ UNCHANGED <<delayMode, timers, flags, clock, call, sleepers, lapsed>>

\* mutant: no constraint is set for the timer about to start
Set_Skips(t) ==
  /\ At(t, "set")
  /\ Goto(t, "start")
  /\ UNCHANGED <<delayMode, timers, flags, clock, held, call, sleepers, lapsed>>

Set(t) ==
  /\ At(t, "set")
  /\ held' = [held EXCEPT ![ConstraintOf(call[t].to)] = @ + 1]
  /\ Goto(t, "start")
  /\ UNCHANGED <<delayMode, timers, flags, clock, call, sleepers, lapsed>>

\* Timer_start() and MAP_WDT_A_clearTimer() clear the count.
Start(t) ==
  /\ At(t, "start")
  /\ IF call[t].to = "wdt"
     THEN wdt' = TRUE /\ wdtCount' = 0 /\ UNCHANGED timerA
     ELSE timerA' = TRUE /\ UNCHANGED <<wdt, wdtCount>>
  /\ Goto(t, IF call[t].op = "delay" THEN "sleep" ELSE "mode")
  /\ UNCHANGED <<delayMode, flags, clock, held, call, sleepers, lapsed>>

\* Task_sleep(): the timeout is a tick count, computed when the task blocks.
Sleep(t) ==
  /\ At(t, "sleep")
  /\ due' = [due EXCEPT ![t] = (ticks + call[t].ms) % TickMod]
  /\ lapsed' = [lapsed EXCEPT ![t] = FALSE]
  /\ Goto(t, "asleep")
  /\ UNCHANGED <<delayMode, timers, flags, clock, held, call, elapsed>>

(***************************************************************************)
(* Time and the interrupts.                                                *)
(***************************************************************************)
\* The sleep state the idle task's power policy chooses: 0 and 1 for
\* DEEPSLEEP_0 and DEEPSLEEP_1, 2 when only SLEEP is allowed.
Policy == IF held[0] > 0 THEN 2 ELSE IF held[1] > 0 THEN 0 ELSE 1

AllWait == \A t \in Tasks : pc[t] \in {"idle", "asleep"}

\* In deep sleep Timer_A has no clock; the watchdog timer has one in
\* DEEPSLEEP_0, and none in DEEPSLEEP_1.
Counting(deep) ==
  [a |-> timerA /\ (deep => Policy = 2), w |-> wdt /\ (deep => Policy # 1)]

\* A millisecond passes.  A call takes less than that, so no more than one
\* passes while the running task is in it.  When every task waits the CPU
\* sleeps (deep), unless one that is "idle" is executing other code.
Elapse(deep) ==
  /\ ~Interrupted
  /\ deep => AllWait
  /\ ~deep => \E t \in Tasks : pc[t] # "asleep"
  /\ \A t \in Tasks : pc[t] \in Running /\ CanRun(t) => ~lapsed[t]
  /\ lapsed' = [t \in Tasks |-> lapsed[t] \/ (pc[t] \in Running /\ CanRun(t))]
  /\ ifgA' = Counting(deep).a
  /\ ifgW' = (Counting(deep).w /\ wdtCount = Period - 1)
  /\ wdtCount' = IF Counting(deep).w THEN (wdtCount + 1) % Period ELSE wdtCount
  /\ elapsed' = [t \in Tasks |->
       IF pc[t] = "asleep" /\ elapsed[t] <= call[t].ms + Period
       THEN elapsed[t] + 1 ELSE elapsed[t]]
  /\ UNCHANGED <<delayMode, timerA, wdt, clock, held, pc, call, due>>

\* mutant: every tick is taken for the watchdog's
Bump_Always == Period - 1

\* What energiaClockTickFxnP401R() adds to the tick count before Clock_tick().
Bump == IF delayMode = 1 THEN Period - 1 ELSE 0

\* mutant: the tick count does not wrap
ClockTick_NoWrap ==
  /\ ticks' = ticks + Bump + 1
  /\ swiCount' = swiCount + 1

\* energiaClockTickFxnP401R() and the Clock_tick() it ends with.
ClockTick ==
  /\ ticks' = (ticks + Bump + 1) % TickMod
  /\ swiCount' = swiCount + 1

TimerAHwi ==
  /\ ifgA
  /\ ifgA' = FALSE
  /\ ClockTick
  /\ UNCHANGED <<delayMode, timers, ifgW, held, pc, call, sleepers, lapsed>>

WatchdogHwi ==
  /\ ifgW
  /\ ifgW' = FALSE
  /\ ClockTick
  /\ UNCHANGED <<delayMode, timers, ifgA, held, pc, call, sleepers, lapsed>>

\* The ticks Clock_workFunc() compares timeouts with: the last swiCount ones,
\* one for each Clock_tick(), whatever was added to the count besides.
Processed == {(ticks - i) % TickMod : i \in 0 .. swiCount - 1}

Wakes(t) == pc[t] = "asleep" /\ due[t] \in Processed

\* The Clock Swi wakes the tasks whose timeout equals a processed tick; their
\* Clock objects leave the queue.
ClockSwi ==
  /\ ~ifgA /\ ~ifgW
  /\ swiCount > 0
  /\ swiCount' = 0
  /\ pc' = [t \in Tasks |-> IF Wakes(t) THEN "idle" ELSE pc[t]]
  /\ call' = [t \in Tasks |-> IF Wakes(t) THEN NoCall ELSE call[t]]
  /\ due' = [t \in Tasks |-> IF Wakes(t) THEN 0 ELSE due[t]]
  /\ elapsed' = [t \in Tasks |-> IF Wakes(t) THEN 0 ELSE elapsed[t]]
  /\ UNCHANGED <<delayMode, timers, flags, ticks, held, lapsed>>

(***************************************************************************)
(* The specification.                                                      *)
(***************************************************************************)
Step(t) ==
  \/ SetMode(t) \/ StopTimerA(t) \/ HoldWatchdog(t)
  \/ Release(t) \/ Set(t) \/ Start(t) \/ Sleep(t) \/ YieldReturns(t)

Call(t) ==
  \/ Yield(t)
  \/ \E ms \in Delays : Delay(t, ms)
  \/ \E ms \in Resolutions : SetResolution(t, ms)

Interrupt == TimerAHwi \/ WatchdogHwi \/ ClockSwi

Time == \E deep \in BOOLEAN : Elapse(deep)

Next == Interrupt \/ Time \/ \E t \in Tasks : Step(t) \/ Call(t)

Spec == Init /\ [][Next]_vars

\* Interrupts are served, time passes, and a task that can run does.
Fairness == WF_vars(Interrupt) /\ WF_vars(Time) /\ \A t \in Tasks : WF_vars(Step(t))

FairSpec == Spec /\ Fairness

(***************************************************************************)
(* Properties.                                                             *)
(***************************************************************************)
InSwitch(t) == pc[t] \in {"stopA", "holdW", "release", "set", "start"}

\* Exactly one of the two timers runs whenever no task is in the middle of
\* switchToWatchdogTimer() or switchToTimerA(), and delayMode names it once
\* the call that switches is over: "which tick source is driving Clock_tick".
OneSource ==
  (\A t \in Tasks : pc[t] \notin Running) =>
    /\ timerA # wdt
    /\ wdt <=> delayMode = 1

\* While a task sleeps in delay() and no other runs, the policy of the idle
\* task never chooses a sleep state in which the running timer stops.
ClockSurvives ==
  (AllWait /\ \E t \in Tasks : pc[t] = "asleep") =>
    /\ timerA => Policy = 2
    /\ wdt => Policy # 1

\* switchToTimerA() and switchToWatchdogTimer() hand one constraint over: none
\* accumulates, so the deepest sleep the watchdog allows is reached again.
OneConstraint ==
  (\A t \in Tasks : pc[t] \notin Running) =>
    /\ held[0] + held[1] <= 1
    /\ delayMode # 0 => held[ConstraintOf(IF wdt THEN "wdt" ELSE "timerA")] = 1

\* A delay never lasts longer than asked by more than one watchdog period,
\* whatever the other tasks switch the Clock to meanwhile.
NoOversleep ==
  \A t \in Tasks : pc[t] = "asleep" => elapsed[t] <= call[t].ms + Period

\* A delay never ends early by a watchdog period or more.
NoEarlyWake ==
  [][\A t \in Tasks : pc[t] = "asleep" /\ pc'[t] = "idle" =>
       elapsed[t] > call[t].ms - Period]_vars

\* Every delay ends.
DelaysEnd == \A t \in Tasks : (pc[t] = "asleep") ~> (pc[t] = "idle")

\* A tick stands for the period of the timer that made it.
TickIsPeriod ==
  [][ /\ ifgA /\ ~ifgA' => ticks' = (ticks + 1) % TickMod
      /\ ifgW /\ ~ifgW' => ticks' = (ticks + Period) % TickMod ]_vars
=============================================================================
