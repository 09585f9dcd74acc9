------------------------------ MODULE PwmPins ------------------------------
(***************************************************************************)
(* Who drives which pin: analogWrite(), pinMode() and the IR sender share  *)
(* the capture/compare registers (CCRs) of the Timer_As, among themselves  *)
(* and with tone() and whoever opens a timer with the drivers.  Three      *)
(* tables must agree: each pin's function and PWM index, the pin of each   *)
(* PWM index, and the CCRs in use of each timer; and two pools of timers,  *)
(* the kernel's availMask and the drivers' bitMask.                        *)
(*                                                                         *)
(* The sections with interrupts disabled are one step; between them any    *)
(* task may run.                                                           *)
(***************************************************************************)
EXTENDS Integers, FiniteSetsExt

CONSTANTS
  Tasks,
  Mappable,   \* the pins that can be mapped to any CCR of timers 0 and 1
  Home,       \* the PWM index of each of the other pins, all on FixedTimer
  Owner,      \* the task that uses a pin
  CCRs,       \* CCRs per timer: 4
  OtherTimers,   \* the timers that sketches open with the drivers themselves
  Nowhere, FixedMark, NOT_IN_USE, IN_USE, INVALID   \* values that are no pin

Pins == Mappable \cup DOMAIN Home
Timers == 0 .. 2
FixedTimer == 2                             \* TIMER2_INDEX
Indices == 0 .. 3 * CCRs - 1                \* PWM_AVAILABLE_PWMS of them
MAPPABLE == 3 * CCRs                        \* PWM_MAPPABLE: no index
TimerOf(i) == i \div CCRs
Fixed(i) == TimerOf(i) = FixedTimer
On(tm) == {i \in Indices : TimerOf(i) = tm}

ASSUME PinAssumption ==
  /\ CCRs \in Nat \ {0}
  /\ Mappable \cap DOMAIN Home = {}
  /\ Home \in [DOMAIN Home -> {i \in Indices : Fixed(i)}]
  /\ \A p, q \in DOMAIN Home : Home[p] = Home[q] => p = q
  /\ Owner \in [Pins -> Tasks]
  /\ OtherTimers \subseteq Timers
  /\ {Nowhere, FixedMark, NOT_IN_USE, IN_USE} \cap Pins = {}
  /\ NOT_IN_USE \notin {Nowhere, FixedMark, IN_USE} /\ FixedMark # IN_USE
  /\ INVALID \notin Timers

VARIABLES
  function,  \* digital_pin_to_pin_function
  index,     \* digital_pin_to_pwm_index
  used,      \* used_pwm_port_pins
  ccrs,      \* timer_ccrs_in_use
  avail,     \* the kernel's pool: the timers in availMask
  open,      \* what each PWM instance that is open drives; NOT_IN_USE if none
  others,    \* the timers somebody else has opened with the drivers
  tone,      \* the timer of tone(), INVALID before
  timerIndex, irPins,  \* the IR senders' timer and their pins
  pc, cur    \* where each task is, and its call's [pin, idx]

tables == <<function, index, used, ccrs>>
ir == <<timerIndex, irPins>>
calls == <<pc, cur>>
vars == <<tables, avail, open, others, tone, ir, calls>>

TypeOK ==
  /\ function \in [Pins -> {"unused", "digital", "analog"}]
  /\ index \in [Pins -> 0 .. MAPPABLE]
  /\ used \in [Indices -> Mappable \cup {FixedMark, NOT_IN_USE, IN_USE}]
  /\ ccrs \in [Timers -> 0 .. CCRs]
  /\ avail \subseteq Timers
  /\ open \in [Indices -> Pins \cup {Nowhere, NOT_IN_USE}]
  /\ others \subseteq Timers
  /\ tone \in Timers \cup {INVALID}
  /\ timerIndex \in Timers \cup {INVALID}
  /\ irPins \subseteq Pins
  /\ pc \in [Tasks -> {"idle", "duty", "close", "free", "mode"}]
  /\ cur \in [Tasks -> [pin : Pins \cup {Nowhere}, idx : 0 .. MAPPABLE]]

NoCall == [pin |-> Nowhere, idx |-> MAPPABLE]

Init ==
  /\ function = [p \in Pins |-> "unused"]
  /\ index = [p \in Pins |-> IF p \in Mappable THEN MAPPABLE ELSE Home[p]]
  /\ used = [i \in Indices |-> NOT_IN_USE]
  /\ ccrs = [tm \in Timers |-> 0]
  /\ avail = Timers
  /\ open = [i \in Indices |-> NOT_IN_USE]
  /\ others = {}
  /\ tone = INVALID
  /\ timerIndex = INVALID /\ irPins = {}
  /\ pc = [t \in Tasks |-> "idle"]
  /\ cur = [t \in Tasks |-> NoCall]

Goto(t, l, c) == pc' = [pc EXCEPT ![t] = l] /\ cur' = [cur EXCEPT ![t] = c]

\* Calls on a pin: by its task, and not on a pin given to an IR sender.
MayUse(t, p) == pc[t] = "idle" /\ Owner[p] = t /\ p \notin irPins

(***************************************************************************)
(* The PWM driver.                                                         *)
(***************************************************************************)
Opened(tm) == {i \in On(tm) : open[i] # NOT_IN_USE}

\* PWM_open() allocates the timer for its first CCR, which fails when others
\* have it or it runs, and refuses a CCR that is open or another period.
PwmOpens(i, period) ==
  /\ TimerOf(i) \notin others
  /\ TimerOf(i) # tone
  /\ open[i] = NOT_IN_USE
  /\ \A j \in Opened(TimerOf(i)) : (open[j] \in irPins) = (period = "ir")

\* The pin that PWM instance i drives when pwmPin is made for pin p: the
\* encoding of a fixed pin is looked up by the index.
Wired(p, i, fixed) ==
  IF ~fixed THEN p
  ELSE IF \E q \in DOMAIN Home : Home[q] = i
       THEN CHOOSE q \in DOMAIN Home : Home[q] = i ELSE Nowhere

(***************************************************************************)
(* analogWrite().                                                          *)
(***************************************************************************)
\* A timer is free, or already claimed by analogWrite() itself.
Usable(tm) == tm \in avail \/ ccrs[tm] > 0

\* The mappable PWM indexes analogWrite() may take.
Unused == {i \in Indices : ~Fixed(i) /\ Usable(TimerOf(i)) /\ used[i] = NOT_IN_USE}

\* An index of its own: what analogWrite() takes for a fixed mapping.
HasIndex(p) == index[p] \in Indices

\* The pin is PWM already: only the duty cycle is set.
AnalogWriteAgain(t, p) ==
  /\ MayUse(t, p)
  /\ function[p] = "analog"
  /\ Goto(t, "duty", [pin |-> p, idx |-> index[p]])
  /\ UNCHANGED <<tables, avail, open, others, tone, ir>>

\* mutant: the timer stays in the kernel's pool
Claimed_StaysAvailable(tm) == avail

\* What remains of the pool when a CCR of timer tm is put to use.
Claimed(tm) == avail \ {tm}

\* The rest of analogWrite() once index i is chosen for pin p.
OpenPwm(t, p, i, fixed) ==
  LET tm == TimerOf(i)
      marked == [used EXCEPT ![i] = IF fixed THEN FixedMark ELSE p]
  IN  /\ index' = [index EXCEPT ![p] = i]
      /\ \/ /\ PwmOpens(i, "analog")
            /\ open' = [open EXCEPT ![i] = Wired(p, i, fixed)]
            /\ used' = marked
            /\ ccrs' = [ccrs EXCEPT ![tm] = @ + 1]
            /\ avail' = IF ccrs[tm] = 0 THEN Claimed(tm) ELSE avail
            /\ function' = [function EXCEPT ![p] = "analog"]
            /\ Goto(t, "duty", [pin |-> p, idx |-> i])
         \/ /\ ~PwmOpens(i, "analog")
            /\ used' = [j \in Indices |-> IF j \in On(tm) THEN IN_USE ELSE used[j]]
            /\ UNCHANGED <<open, ccrs, avail, function, calls>>

AnalogWriteFixed(t, p) ==
  /\ MayUse(t, p)
  /\ function[p] # "analog"
  /\ HasIndex(p)
  /\ Usable(FixedTimer)
  /\ used[index[p]] = NOT_IN_USE
  /\ OpenPwm(t, p, index[p], TRUE)
  /\ UNCHANGED <<others, tone, ir>>

AnalogWriteMapped(t, p) ==
  /\ MayUse(t, p)
  /\ function[p] # "analog"
  /\ ~HasIndex(p)
  /\ Unused # {}
  /\ OpenPwm(t, p, Min(Unused), FALSE)
  /\ UNCHANGED <<others, tone, ir>>

\* PWM_setDuty(), with interrupts enabled.
SetDuty(t) ==
  /\ pc[t] = "duty"
  /\ Goto(t, "idle", NoCall)
  /\ UNCHANGED <<tables, avail, open, others, tone, ir>>

(***************************************************************************)
(* pinMode(), also called by digitalWrite() and digitalRead().             *)
(***************************************************************************)
\* mutant: a PWM pin is not stopped
PinMode_NoStop(t, p) ==
  /\ MayUse(t, p)
  /\ function' = [function EXCEPT ![p] = "digital"]
  /\ UNCHANGED <<index, used, ccrs, avail, open, others, tone, ir, calls>>

PinMode(t, p) ==
  /\ MayUse(t, p)
  /\ \/ /\ function[p] = "analog"
        /\ Goto(t, "close", [pin |-> p, idx |-> index[p]])
        /\ UNCHANGED function
     \/ /\ function[p] # "analog"
        /\ function' = [function EXCEPT ![p] = "digital"]
        /\ UNCHANGED calls
  /\ UNCHANGED <<index, used, ccrs, avail, open, others, tone, ir>>

\* stopAnalogWriteFxn() closes the PWM instance before it disables interrupts.
ClosePwm(t) ==
  /\ pc[t] = "close"
  /\ open' = [open EXCEPT ![cur[t].idx] = NOT_IN_USE]
  /\ Goto(t, "free", cur[t])
  /\ UNCHANGED <<tables, avail, others, tone, ir>>

\* mutant: the pin keeps the index
FreePwm_KeepsIndex(t) ==
  LET c == cur[t]
      tm == TimerOf(c.idx)
  IN  /\ pc[t] = "free"
      /\ used' = [used EXCEPT ![c.idx] = NOT_IN_USE]
      /\ ccrs' = [ccrs EXCEPT ![tm] = IF @ > 0 THEN @ - 1 ELSE 0]
      /\ avail' = IF ccrs[tm] = 1 THEN avail \cup {tm} ELSE avail
      /\ Goto(t, "mode", c)
      /\ UNCHANGED <<function, index, open, others, tone, ir>>

\* mutant: the count of a timer's CCRs is not decremented
FreePwm_KeepsCount(t) ==
  LET c == cur[t]
  IN  /\ pc[t] = "free"
      /\ index' = IF used[c.idx] = FixedMark THEN index
                  ELSE [index EXCEPT ![c.pin] = MAPPABLE]
      /\ used' = [used EXCEPT ![c.idx] = NOT_IN_USE]
      /\ Goto(t, "mode", c)
      /\ UNCHANGED <<function, ccrs, avail, open, others, tone, ir>>

\* The rest of it: a mapped pin becomes mappable again, and a timer without
\* CCRs in use returns to the pool.  (Of an index that a failed PWM_open() has
\* marked IN_USE the code also undoes a port mapping, at an offset it reads
\* past the end of pxmap; of that only what becomes of the tables is modelled.)
FreePwm(t) ==
  LET c == cur[t]
      tm == TimerOf(c.idx)
  IN  /\ pc[t] = "free"
      /\ index' = IF used[c.idx] = FixedMark THEN index
                  ELSE [index EXCEPT ![c.pin] = MAPPABLE]
      /\ used' = [used EXCEPT ![c.idx] = NOT_IN_USE]
      /\ ccrs' = [ccrs EXCEPT ![tm] = IF @ > 0 THEN @ - 1 ELSE 0]
      /\ avail' = IF ccrs[tm] = 1 THEN avail \cup {tm} ELSE avail
      /\ Goto(t, "mode", c)
      /\ UNCHANGED <<function, open, others, tone, ir>>

SetFunction(t) ==
  /\ pc[t] = "mode"
  /\ function' = [function EXCEPT ![cur[t].pin] = "digital"]
  /\ Goto(t, "idle", NoCall)
  /\ UNCHANGED <<index, used, ccrs, avail, open, others, tone, ir>>

(***************************************************************************)
(* The other users of timers.                                              *)
(***************************************************************************)
\* The timer of all IR senders: fixed by the first, for a fixed pin FixedTimer,
\* else the first mappable timer in the pool.
IRTimer(p) ==
  LET free == {tm \in avail : (tm = FixedTimer) = HasIndex(p)}
  IN  IF timerIndex # INVALID THEN timerIndex
      ELSE IF free = {} THEN INVALID ELSE Min(free)

\* IRsender::initIRSender() on a pin that analogWrite() was never given.
InitIRSender(t, p) ==
  LET tm == IRTimer(p)
      i == IF HasIndex(p) THEN index[p] ELSE CCRs * tm + Cardinality(irPins)
  IN  /\ MayUse(t, p)
      /\ function[p] # "analog"
      /\ HasIndex(p) => p \in DOMAIN Home
      /\ Cardinality(irPins) < CCRs
      /\ tm # INVALID
      /\ HasIndex(p) <=> tm = FixedTimer
      /\ PwmOpens(i, "ir")
      /\ timerIndex' = tm
      /\ irPins' = irPins \cup {p}
      /\ open' = [open EXCEPT ![i] = Wired(p, i, HasIndex(p))]
      /\ avail' = IF irPins = {} THEN avail \ {tm} ELSE avail
      /\ function' = [function EXCEPT ![p] = "analog"]
      /\ UNCHANGED <<index, used, ccrs, others, tone, calls>>

\* The first tone() creates a kernel timer, the first in the pool, and keeps it.
Tone ==
  /\ tone = INVALID
  /\ avail # {}
  /\ tone' = Min(avail)
  /\ avail' = avail \ {Min(avail)}
  /\ UNCHANGED <<tables, open, others, ir, calls>>

\* A sketch opens and closes a Timer_A with the drivers.
OtherOpens(tm) ==
  /\ tm \in OtherTimers \ others /\ Opened(tm) = {} /\ tm # tone
  /\ others' = others \cup {tm}
  /\ UNCHANGED <<tables, avail, open, tone, ir, calls>>

OtherCloses(tm) ==
  /\ tm \in others
  /\ others' = others \ {tm}
  /\ UNCHANGED <<tables, avail, open, tone, ir, calls>>

(***************************************************************************)
(* The specification.                                                      *)
(***************************************************************************)
Call(t, p) ==
  \/ AnalogWriteAgain(t, p) \/ AnalogWriteFixed(t, p) \/ AnalogWriteMapped(t, p)
  \/ PinMode(t, p) \/ InitIRSender(t, p)

Step(t) == SetDuty(t) \/ ClosePwm(t) \/ FreePwm(t) \/ SetFunction(t)

Next ==
  \/ \E t \in Tasks : Step(t) \/ \E p \in Pins : Call(t, p)
  \/ Tone
  \/ \E tm \in Timers : OtherOpens(tm) \/ OtherCloses(tm)

Spec == Init /\ [][Next]_vars

(***************************************************************************)
(* Properties.                                                             *)
(***************************************************************************)
\* PWM_setDuty() is given the instance that drives the pin, although
\* interrupts are enabled again when it is called; and so is PWM_close().
DutyReachesPin ==
  \A t \in Tasks : pc[t] \in {"duty", "close"} =>
    cur[t].idx \in Indices /\ open[cur[t].idx] = cur[t].pin

\* A pin is driven by a PWM instance exactly when its function says so, and
\* by one only.
Drives(p) == {i \in Indices : open[i] = p}

PinsDriven ==
  \A p \in Pins : pc[Owner[p]] = "idle" =>
    Cardinality(Drives(p)) = (IF function[p] = "analog" THEN 1 ELSE 0)

\* A timer serves one of: analogWrite(), the IR senders, tone().
TimersExclusive ==
  \A tm \in Timers :
    LET analog == Opened(tm) # {} /\ tm # timerIndex
        infrared == Opened(tm) # {} /\ tm = timerIndex
    IN  /\ ~(analog /\ tm = tone) /\ ~(infrared /\ tm = tone)
        /\ infrared => \A i \in Opened(tm) : open[i] \in irPins

\* Outside the calls a timer is in the pool exactly when nobody has it: none
\* is lost and none is given away while it drives a pin.
TimersReturned ==
  (\A t \in Tasks : pc[t] = "idle") =>
    \A tm \in Timers : tm \in avail <=> tm # tone /\ Opened(tm) = {}

\* "The pwmIndex fetched from the pin_to_pwm_index[] table is either an actual
\* index into the PWM instance table if the pin has already been mapped to a
\* PWM resource, or a mappable port/pin ID": no pin keeps an index it lost.
IndexMeansMapped ==
  \A p \in Mappable : pc[Owner[p]] = "idle" /\ HasIndex(p) => function[p] = "analog"

\* "encode port/pin to inform stopAnalogWrite() that this is a fixed mapped
\* pin": what stopAnalogWriteFxn() finds is what analogWrite() left for the pin.
MarkTellsStop ==
  \A t \in Tasks : pc[t] = "free" =>
    used[cur[t].idx] = IF cur[t].pin \in DOMAIN Home THEN FixedMark ELSE cur[t].pin
=============================================================================
