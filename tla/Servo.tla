------------------------------- MODULE Servo -------------------------------
(***************************************************************************)
(* The Servo library: up to SERVOS_PER_TIMER slots share one one-shot      *)
(* Timer32.  Its interrupt, ServoIntHandler(), ends the pulse of one slot, *)
(* starts that of the next and reloads the timer with the next width; one  *)
(* more interval, the remainder, fills the frame.                          *)
(*                                                                         *)
(* The sketch's calls run in one task, statement by statement where the    *)
(* interrupt can tell the order; the interrupt comes between any two.      *)
(* Widths are in units of which DefaultWidth, Widths and Refresh stand for *)
(* 1500, 510 .. 2490 and 20000 microseconds.                               *)
(***************************************************************************)
EXTENDS Integers, FiniteSetsExt, Functions

CONSTANTS
  Objects,       \* the Servo objects of the program
  Pins,
  SlotCount,     \* SERVOS_PER_TIMER
  DefaultWidth, Widths, Refresh,
  LateNew,       \* TRUE: an object may be constructed after the first attach()
  Reattach,      \* TRUE: attach() may be called on an attached object
  NoPin          \* no pin

ASSUME ServoAssumption ==
  /\ IsFiniteSet(Objects)
  /\ SlotCount \in Nat \ {0}
  /\ DefaultWidth \in Nat \ {0} /\ Widths \subseteq Nat /\ Refresh \in Nat
  /\ LateNew \in BOOLEAN /\ Reattach \in BOOLEAN
  /\ NoPin \notin Pins

VARIABLES
  index,             \* each object's index; Unmade before its constructor
  servoAssignedMask, \* the set of slots whose bit is set
  servos,            \* the slots: [pin, width, enabled]
  remainder,         \* remainderPulseWidth
  servosAttached,
  currentServo,
  servoInitialized,  \* and timerHandle # NULL
  high,              \* the pins driven HIGH
  pc, self, arg,     \* the call being executed: where, on which object, with what
  wanted,            \* ghost: the objects whose last successful call was attach()
  frame, clean       \* ghosts: the time of the frame so far; nothing was
                     \* written or detached since it began

slots == <<index, servoAssignedMask, servos, remainder>>
module == <<servosAttached, servoInitialized>>
running == <<pc, self, arg>>
ghosts == <<wanted, frame, clean>>
vars == <<slots, module, currentServo, high, running, ghosts>>

Slots == 0 .. SlotCount - 1
Unmade == SlotCount
INVALID_SERVO == SlotCount + 1

Labels == {"idle", "init", "pin", "low", "enable",
           "disable", "width", "remainder", "off", "count"}

TypeOK ==
  /\ index \in [Objects -> 0 .. INVALID_SERVO]
  /\ servoAssignedMask \subseteq Slots
  /\ servos \in [Slots -> [pin : Pins \cup {NoPin}, width : Nat,
                           enabled : BOOLEAN]]
  /\ remainder \in Nat
  /\ servosAttached \in Nat
  /\ currentServo \in 0 .. SlotCount
  /\ servoInitialized \in BOOLEAN
  /\ high \subseteq Pins
  /\ pc \in Labels
  /\ self \in Objects
  /\ arg \in [pin : Pins \cup {NoPin}, width : Nat, op : {"none", "attach", "detach", "write"}]
  /\ wanted \subseteq Objects
  /\ frame \in Nat /\ clean \in BOOLEAN

NoArg == [pin |-> NoPin, width |-> 0, op |-> "none"]

\* The state before the constructors of the program's global objects run.
Init ==
  /\ index = [o \in Objects |-> Unmade]
  /\ servoAssignedMask = {}
  /\ servos = [s \in Slots |-> [pin |-> NoPin, width |-> 0, enabled |-> FALSE]]
  /\ remainder = 0
  /\ servosAttached = 0
  /\ currentServo = 0
  /\ servoInitialized = FALSE
  /\ high = {}
  /\ pc = "idle" /\ self \in Objects /\ arg = NoArg
  /\ wanted = {}
  /\ frame = 0 /\ clean = FALSE

\* The module has never been initialized: the slots are still zero.
NeverInitialized == \A s \in Slots : servos[s].width = 0

\* Servo::Servo() takes the first slot whose bit is clear.
New(o) ==
  /\ pc = "idle"
  /\ index[o] = Unmade
  /\ LateNew \/ NeverInitialized
  /\ LET free == Slots \ servoAssignedMask
     IN  IF free = {}
         THEN /\ index' = [index EXCEPT ![o] = INVALID_SERVO]
              /\ UNCHANGED servoAssignedMask
         ELSE /\ index' = [index EXCEPT ![o] = Min(free)]
              /\ servoAssignedMask' = servoAssignedMask \cup {Min(free)}
  /\ UNCHANGED <<servos, remainder, module, currentServo, high, running, ghosts>>

\* Servo::attached(), for objects that share a slot as well.
Attached(o) == index[o] \in Slots /\ servos[index[o]].enabled

Goto(l) == pc' = l /\ UNCHANGED <<self, arg>>

Enter(o, l, a) == pc' = l /\ self' = o /\ arg' = a

Return == pc' = "idle" /\ arg' = NoArg /\ UNCHANGED self

Slot == index[self]

(***************************************************************************)
(* attach().                                                               *)
(***************************************************************************)
Attach(o, p) ==
  /\ pc = "idle"
  /\ index[o] \in Slots
  /\ Reattach \/ ~Attached(o)
  /\ Enter(o, IF servoInitialized THEN "pin" ELSE "init",
           [pin |-> p, width |-> 0, op |-> "attach"])
  /\ UNCHANGED <<slots, module, currentServo, high, ghosts>>

\* mutant: only the slots in use count
Remainder_Enabled(w) ==
  Refresh - SumFunctionOnSet(w, {s \in Slots : servos[s].enabled})

\* calculatePeriodRemainder(), for slots of widths w.
Remainder(w) ==
  IF SumFunction(w) < Refresh THEN Refresh - SumFunction(w) ELSE DefaultWidth

WidthsNow == [s \in Slots |-> servos[s].width]

\* initServo() when a Timer32 is free, and the first Timer_start().
InitServo ==
  /\ pc = "init"
  /\ servoInitialized' = TRUE
  /\ servoAssignedMask' = {}
  /\ currentServo' = 0
  /\ servosAttached' = 0
  /\ servos' = [s \in Slots |-> [pin |-> NoPin, width |-> DefaultWidth, enabled |-> FALSE]]
  /\ remainder' = Remainder([s \in Slots |-> DefaultWidth])
  /\ clean' = FALSE
  /\ Goto("pin")
  /\ UNCHANGED <<index, high, wanted, frame>>

\* Both timers are in use by others: attach() returns INVALID_SERVO.
InitFails ==
  /\ pc = "init"
  /\ Return
  /\ UNCHANGED <<slots, module, currentServo, high, ghosts>>

SetPin ==
  /\ pc = "pin"
  /\ servos' = [servos EXCEPT ![Slot].pin = arg.pin]
  /\ Goto("low")
  /\ UNCHANGED <<index, servoAssignedMask, remainder, module, currentServo, high, ghosts>>

PinLow ==
  /\ pc = "low"
  /\ high' = high \ {arg.pin}
  /\ Goto("enable")
  /\ UNCHANGED <<slots, module, currentServo, ghosts>>

\* mutant: the servo is not counted
Enable_Uncounted ==
  /\ pc = "enable"
  /\ servos' = [servos EXCEPT ![Slot].enabled = TRUE]
  /\ servosAttached' = IF servosAttached = 0 THEN 1 ELSE servosAttached
  /\ wanted' = wanted \cup {self}
  /\ Return
  /\ UNCHANGED <<index, servoAssignedMask, remainder, servoInitialized, currentServo,
                 high, frame, clean>>

Enable ==
  /\ pc = "enable"
  /\ servos' = [servos EXCEPT ![Slot].enabled = TRUE]
  /\ servosAttached' = servosAttached + 1
  /\ wanted' = wanted \cup {self}
  /\ Return
  /\ UNCHANGED <<index, servoAssignedMask, remainder, servoInitialized, currentServo,
                 high, frame, clean>>

(***************************************************************************)
(* writeMicroseconds(), which write() ends with, and detach().  Both set   *)
(* the slot's width and recalculate the remainder.                         *)
(***************************************************************************)
Write(o, w) ==
  /\ pc = "idle"
  /\ Attached(o)
  /\ Enter(o, "width", [pin |-> NoPin, width |-> w, op |-> "write"])
  /\ clean' = FALSE
  /\ UNCHANGED <<slots, module, currentServo, high, wanted, frame>>

Detach(o) ==
  /\ pc = "idle"
  /\ Attached(o)
  /\ Enter(o, "disable", [pin |-> NoPin, width |-> DefaultWidth, op |-> "detach"])
  /\ clean' = FALSE
  /\ wanted' = wanted \ {o}
  /\ UNCHANGED <<slots, module, currentServo, high, frame>>

\* mutant: the slot goes on being served
Disable_Not ==
  /\ pc = "disable"
  /\ Goto("width")
  /\ UNCHANGED <<slots, module, currentServo, high, ghosts>>

Disable ==
  /\ pc = "disable"
  /\ servos' = [servos EXCEPT ![Slot].enabled = FALSE]
  /\ Goto("width")
  /\ UNCHANGED <<index, servoAssignedMask, remainder, module, currentServo, high, ghosts>>

SetWidth ==
  /\ pc = "width"
  /\ servos' = [servos EXCEPT ![Slot].width = arg.width]
  /\ Goto("remainder")
  /\ UNCHANGED <<index, servoAssignedMask, remainder, module, currentServo, high, ghosts>>

SetRemainder ==
  /\ pc = "remainder"
  /\ remainder' = Remainder(WidthsNow)
  /\ IF arg.op = "detach" THEN Goto("off") ELSE Return
  /\ UNCHANGED <<index, servoAssignedMask, servos, module, currentServo, high, ghosts>>

\* mutant: the pin is left as it is
SwitchOff_Not ==
  /\ pc = "off"
  /\ servoAssignedMask' = servoAssignedMask \ {Slot}
  /\ Goto("count")
  /\ UNCHANGED <<index, servos, remainder, module, currentServo, high, ghosts>>

\* The slot's bit is cleared and its pin driven LOW; the object keeps its index.
SwitchOff ==
  /\ pc = "off"
  /\ servoAssignedMask' = servoAssignedMask \ {Slot}
  /\ high' = high \ {servos[Slot].pin}
  /\ Goto("count")
  /\ UNCHANGED <<index, servos, remainder, module, currentServo, ghosts>>

\* The last servo detached releases the timer.
Count ==
  /\ pc = "count"
  /\ servosAttached' = servosAttached - 1
  /\ servoInitialized' = (servosAttached # 1)
  /\ Return
  /\ UNCHANGED <<slots, currentServo, high, ghosts>>

(***************************************************************************)
(* ServoIntHandler().                                                      *)
(***************************************************************************)
\* The pins driven LOW and HIGH by the handler.
Ended ==
  {servos[s].pin : s \in {s \in Slots : s = currentServo - 1 /\ servos[s].enabled}}

Begun ==
  {servos[s].pin : s \in {s \in Slots : s = currentServo /\ servos[s].enabled}}

\* What the handler reloads the timer with.
Reload == IF currentServo < SlotCount THEN servos[currentServo].width ELSE remainder

\* mutant: the handler starts over too early
NextServo_Early == IF currentServo < SlotCount - 1 THEN currentServo + 1 ELSE 0

NextServo == IF currentServo < SlotCount THEN currentServo + 1 ELSE 0

ServoIntHandler ==
  /\ servoInitialized
  /\ pc # "init"
  /\ high' = (high \ Ended) \cup Begun
  /\ currentServo' = NextServo
  /\ IF currentServo = 0
     THEN frame' = Reload /\ clean' = (arg.op \notin {"write", "detach"})
     ELSE frame' = frame + Reload /\ UNCHANGED clean
  /\ UNCHANGED <<slots, module, running, wanted>>

(***************************************************************************)
(* The specification.                                                      *)
(***************************************************************************)
Call(o) ==
  \/ New(o) \/ Detach(o)
  \/ \E p \in Pins : Attach(o, p)
  \/ \E w \in Widths : Write(o, w)

Step ==
  \/ InitServo \/ InitFails \/ SetPin \/ PinLow \/ Enable
  \/ Disable \/ SetWidth \/ SetRemainder \/ SwitchOff \/ Count

Next == ServoIntHandler \/ Step \/ \E o \in Objects : Call(o)

Spec == Init /\ [][Next]_vars

\* The timer's interrupt keeps coming, and a call runs to its end.
FairSpec == Spec /\ WF_vars(ServoIntHandler) /\ WF_vars(Step)

(***************************************************************************)
(* Properties.                                                             *)
(***************************************************************************)
\* A pin is HIGH only while the handler is in the interval of an attached
\* servo on it, so a detached servo gets no signal and one pulse is sent at a
\* time; detach() has the time until its digitalWrite().
OnePulse ==
  \A p \in high :
    \/ \E s \in Slots : s = currentServo - 1 /\ servos[s].enabled /\ servos[s].pin = p
    \/ pc \in {"width", "remainder", "off"} /\ arg.op = "detach" /\ servos[Slot].pin = p

\* A frame in which no width was changed lasts REFRESH_INTERVAL.
FrameIsRefresh == servoInitialized /\ currentServo = 0 /\ clean => frame = Refresh

\* The objects do not disturb each other: one is attached exactly when the
\* last call of attach() and detach() on it was an attach().
ObjectsIndependent ==
  pc = "idle" => \A o \in Objects : Attached(o) <=> o \in wanted

\* No two Servo objects share a slot.
SlotsDistinct ==
  \A o, q \in Objects : o # q /\ index[o] \in Slots => index[o] # index[q]

\* "Release Timer32 resources when all servos detached", and not before.
ReleasedWhenDetached ==
  pc = "idle" => (servoInitialized <=> \E s \in Slots : servos[s].enabled)

\* An attached servo gets another pulse, or is detached.
Pulsed(o) ==
  Attached(o) /\ pc = "idle" ~>
    (~Attached(o) \/ (index[o] = currentServo - 1 /\ servos[index[o]].pin \in high))

EveryServoPulsed == \A o \in Objects : Pulsed(o)
=============================================================================
