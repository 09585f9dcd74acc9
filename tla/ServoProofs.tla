---------------------------- MODULE ServoProofs ----------------------------
(***************************************************************************)
(* Proofs about Servo for every number of objects, pins and slots.         *)
(***************************************************************************)
EXTENDS Servo, FiniteSetTheorems, WellFoundedInduction, TLAPS

\* The programs for which the properties hold: every object is constructed
\* before the first attach() and no pulse has the width 0; for those of the
\* timer and the pins, no object is attached twice in a row either.
Early == LateNew = FALSE /\ 0 \notin Widths
Careful == Early /\ Reattach = FALSE

-----------------------------------------------------------------------------
(* The inductive invariant.                                                *)

\* The slots in use.
Used == {s \in Slots : servos[s].enabled}

Detaching == arg.op = "detach" /\ pc \in {"width", "remainder", "off", "count"}

\* The objects are constructed before the slots get widths.
SlotsInv ==
  /\ SlotsDistinct
  /\ NeverInitialized =>
       /\ \A o \in Objects : index[o] \in Slots => index[o] \in servoAssignedMask
       /\ pc \in {"idle", "init"} /\ ~servoInitialized
  /\ NeverInitialized \/ \A s \in Slots : servos[s].width > 0

\* Where a call is and what it has still to do.
CallInv ==
  /\ pc # "idle" => Slot \in Slots
  /\ pc \notin {"idle", "init"} => servoInitialized
  /\ pc = "init" => ~servoInitialized
  /\ pc \in {"init", "pin", "low", "enable"} => arg.op = "attach"
  /\ Reattach = FALSE /\ pc \in {"init", "pin", "low", "enable"} => ~servos[Slot].enabled
  /\ pc = "disable" => arg.op = "detach" /\ servos[Slot].enabled /\ self \notin wanted
  /\ pc \in {"width", "remainder"} => arg.op \in {"write", "detach"}
  /\ pc \in {"disable", "width"} => arg.width > 0
  /\ pc \in {"off", "count"} => arg.op = "detach"
  /\ Detaching => ~servos[Slot].enabled

\* An object is attached when it was asked to be; a detach() that has not yet
\* disabled its slot has already been called.
WantedInv ==
  \A o \in Objects : Attached(o) <=> o \in wanted \/ (o = self /\ pc = "disable")

\* servosAttached counts the slots in use, those attached again more than once,
\* and the timer is held for them.
InUse == Cardinality(Used) + (IF Detaching THEN 1 ELSE 0)

CountInv ==
  /\ servosAttached >= InUse
  /\ Reattach = FALSE => servosAttached = InUse
  /\ servoInitialized <=> servosAttached > 0 \/ pc \in {"pin", "low", "enable"}

Arg == [pin : Pins \cup {NoPin}, width : Nat, op : {"none", "attach", "detach", "write"}]

\* TypeOK without the two sums of widths.
TypeInv ==
  /\ index \in [Objects -> 0 .. INVALID_SERVO]
  /\ servoAssignedMask \subseteq Slots
  /\ servos \in [Slots -> [pin : Pins \cup {NoPin}, width : Nat, enabled : BOOLEAN]]
  /\ servosAttached \in Nat
  /\ currentServo \in 0 .. SlotCount
  /\ servoInitialized \in BOOLEAN
  /\ pc \in Labels
  /\ self \in Objects
  /\ arg \in Arg
  /\ wanted \subseteq Objects

PulseInv == Reattach = FALSE => OnePulse

IInv == TypeInv /\ SlotsInv /\ CallInv /\ WantedInv /\ CountInv /\ PulseInv

-----------------------------------------------------------------------------
USE ServoAssumption

\* A finite set of integers that is not empty has a least element.
LEMMA MinElement ==
  ASSUME NEW T, IsFiniteSet(T), T \subseteq Int, T # {}
  PROVE  Min(T) \in T
<1> DEFINE Below(x) == {y \in T : y < x}
           All == {Below(x) : x \in T}
           R == StrictSubsetOrdering(T)
<1>1. IsWellFoundedOn(R, FiniteSubsetsOf(T))
  BY FS_StrictSubsetOrderingWellFounded
<1>2. FiniteSubsetsOf(T) = SUBSET T
  BY FS_FiniteSubsetsOfFinite
<1>3. All \subseteq SUBSET T /\ All # {}
  OBVIOUS
<1>4. PICK A \in All : \A C \in All : <<C, A>> \notin R
  <2> HIDE DEF R, All
  <2>1. IsWellFoundedOn(R, SUBSET T)
    BY <1>1, <1>2
  <2> QED
    BY <1>3, <2>1, WFMin
<1>5. PICK x \in T : A = Below(x)
  BY <1>4
<1>6. ASSUME NEW y \in T, y < x
      PROVE  FALSE
  <2>1. y \in Below(x) /\ y \notin Below(y) /\ Below(y) \subseteq Below(x)
    <3>1. T \subseteq Int /\ x \in Int /\ y \in Int
      OBVIOUS
    <3>2. \A z \in T : z < y => z < x
      BY <1>6, <3>1
    <3>3. ~(y < y)
      BY <3>1
    <3> QED
      BY <1>6, <3>2, <3>3
  <2>2. <<Below(y), Below(x)>> \in R
    BY <2>1 DEF StrictSubsetOrdering
  <2> QED
    BY <1>4, <1>5, <2>2
<1>7. \A y \in T : x <= y
  BY <1>6
<1> QED
  BY <1>5, <1>7 DEF Min

LEMMA SlotsFinite == IsFiniteSet(Slots) /\ \A S \in SUBSET Slots : IsFiniteSet(S)
<1>1. IsFiniteSet(Slots)
  BY FS_Interval DEF Slots
<1> QED
  BY <1>1, FS_Subset

\* A step that takes nothing from the slots in use and adds nothing to them.
LEMMA SameUsed ==
  ASSUME \A s \in Slots : servos'[s].enabled = servos[s].enabled
  PROVE  Used' = Used
  BY DEF Used

LEMMA NewStep ==
  ASSUME IInv, Early, NEW o \in Objects, New(o)
  PROVE  IInv'
<1>1. /\ TypeInv /\ SlotsInv /\ pc = "idle" /\ index[o] = Unmade /\ NeverInitialized
      /\ servos' = servos /\ servosAttached' = servosAttached /\ servoInitialized' = servoInitialized
      /\ currentServo' = currentServo /\ high' = high /\ pc' = pc /\ self' = self /\ arg' = arg
      /\ wanted' = wanted
  BY DEF IInv, Early, New, module, running, ghosts
<1>2. /\ index' \in [Objects -> 0 .. INVALID_SERVO] /\ servoAssignedMask' \subseteq Slots
      /\ \A q \in Objects : q # o => index'[q] = index[q]
      /\ \/ index'[o] = INVALID_SERVO /\ servoAssignedMask' = servoAssignedMask
         \/ /\ index'[o] \in Slots \ servoAssignedMask
            /\ servoAssignedMask' = servoAssignedMask \cup {index'[o]}
  <2>1. CASE Slots \ servoAssignedMask = {}
    BY <1>1, <2>1 DEF TypeInv, New, INVALID_SERVO
  <2>2. CASE Slots \ servoAssignedMask # {}
    <3>1. Min(Slots \ servoAssignedMask) \in Slots \ servoAssignedMask
      <4>1. IsFiniteSet(Slots \ servoAssignedMask)
        BY SlotsFinite
      <4>2. Slots \ servoAssignedMask \subseteq Int
        BY DEF Slots
      <4> QED
        BY <2>2, <4>1, <4>2, MinElement
    <3>2. /\ index' = [index EXCEPT ![o] = Min(Slots \ servoAssignedMask)]
          /\ servoAssignedMask' = servoAssignedMask \cup {Min(Slots \ servoAssignedMask)}
      BY <2>2 DEF New
    <3>3. Slots \subseteq 0 .. INVALID_SERVO
      BY DEF Slots, INVALID_SERVO
    <3> QED
      BY <1>1, <3>1, <3>2, <3>3 DEF TypeInv
  <2> QED
    BY <2>1, <2>2
<1>3. INVALID_SERVO \notin Slots /\ Unmade \notin Slots
  BY DEF INVALID_SERVO, Unmade, Slots
<1>4. TypeInv'
  BY <1>1, <1>2 DEF TypeInv
<1>5. SlotsInv'
  <2>1. SlotsDistinct'
    BY <1>1, <1>2, <1>3 DEF SlotsInv, SlotsDistinct
  <2>2. \A q \in Objects : index'[q] \in Slots => index'[q] \in servoAssignedMask'
    BY <1>1, <1>2, <1>3 DEF SlotsInv
  <2> QED
    BY <1>1, <2>1, <2>2 DEF SlotsInv, NeverInitialized
<1>6. CallInv'
  BY <1>1 DEF IInv, CallInv, Detaching
<1>7. WantedInv'
  <2>1. \A s \in Slots : ~servos[s].enabled
    <3>1. CountInv /\ ~servoInitialized /\ servosAttached = 0
      BY <1>1 DEF IInv, SlotsInv, CountInv, TypeInv
    <3>2. Cardinality(Used) = 0
      <4>1. Cardinality(Used) \in Nat
        BY SlotsFinite, FS_CardinalityType DEF Used
      <4> QED
        BY <1>1, <3>1, <4>1 DEF CountInv, InUse, Detaching
    <3>3. Used = {}
      BY <3>2, SlotsFinite, FS_EmptySet DEF Used
    <3> QED
      BY <3>3 DEF Used
  <2> QED
    BY <1>1, <1>2, <1>3, <2>1 DEF IInv, WantedInv, Attached
<1>8. CountInv'
  BY <1>1, SameUsed DEF IInv, CountInv, InUse, Detaching
<1>9. PulseInv'
  BY <1>1 DEF IInv, PulseInv, OnePulse
<1> QED
  BY <1>4, <1>5, <1>6, <1>7, <1>8, <1>9 DEF IInv

LEMMA UsedFinite ==
  IsFiniteSet(Used) /\ Cardinality(Used) \in Nat
  BY SlotsFinite, FS_CardinalityType DEF Used

\* Without the timer no slot is in use and no pin is HIGH.
LEMMA NoneUsed ==
  ASSUME IInv, ~servoInitialized
  PROVE  /\ servosAttached = 0 /\ Used = {} /\ (\A s \in Slots : ~servos[s].enabled)
         /\ wanted = {} /\ (Reattach = FALSE => high = {})
<1>1. pc \in {"idle", "init"} /\ ~Detaching /\ servosAttached = 0
  BY DEF IInv, CallInv, CountInv, InUse, Detaching, TypeInv
<1>2. Used = {}
  <2>1. Cardinality(Used) = 0
    BY <1>1, UsedFinite DEF IInv, CountInv, InUse
  <2> QED
    BY <2>1, UsedFinite, FS_EmptySet
<1>3. \A s \in Slots : ~servos[s].enabled
  BY <1>2 DEF Used
<1>4. wanted = {}
  BY <1>1, <1>3 DEF IInv, WantedInv, Attached, TypeInv
<1>5. Reattach = FALSE => high = {}
  BY <1>1, <1>3 DEF IInv, PulseInv, OnePulse
<1> QED
  BY <1>1, <1>2, <1>3, <1>4, <1>5

LEMMA AttachStep ==
  ASSUME IInv, Early, NEW o \in Objects, NEW p \in Pins, Attach(o, p)
  PROVE  IInv'
<1>1. /\ TypeInv /\ SlotsInv /\ pc = "idle" /\ index[o] \in Slots
      /\ Reattach = FALSE => ~servos[index[o]].enabled
      /\ index' = index /\ servoAssignedMask' = servoAssignedMask /\ servos' = servos
      /\ servosAttached' = servosAttached /\ servoInitialized' = servoInitialized
      /\ currentServo' = currentServo /\ high' = high /\ wanted' = wanted
  BY DEF IInv, Early, Attach, Attached, slots, module, ghosts
<1>2. /\ pc' = IF servoInitialized THEN "pin" ELSE "init"
      /\ self' = o /\ arg' = [pin |-> p, width |-> 0, op |-> "attach"] /\ arg'.op = "attach"
  BY DEF Attach, Enter
<1>3. TypeInv'
  BY <1>1, <1>2 DEF TypeInv, Arg, Labels
<1>4. SlotsInv'
  BY <1>1, <1>2 DEF SlotsInv, SlotsDistinct, NeverInitialized
<1>5. CallInv'
  BY <1>1, <1>2 DEF CallInv, Detaching, Slot, TypeInv
<1>6. WantedInv'
  BY <1>1, <1>2 DEF IInv, WantedInv, Attached
<1>7. CountInv'
  BY <1>1, <1>2, SameUsed, UsedFinite DEF IInv, CountInv, InUse, Detaching, TypeInv
<1>8. PulseInv'
  BY <1>1 DEF IInv, PulseInv, OnePulse
<1> QED
  BY <1>3, <1>4, <1>5, <1>6, <1>7, <1>8 DEF IInv

LEMMA InitServoStep ==
  ASSUME IInv, InitServo
  PROVE  IInv'
<1>1. /\ TypeInv /\ SlotsInv /\ CallInv /\ pc = "init" /\ ~servoInitialized
      /\ index' = index /\ servoAssignedMask' = {} /\ servosAttached' = 0 /\ servoInitialized' = TRUE
      /\ currentServo' = 0 /\ high' = high /\ wanted' = wanted
      /\ pc' = "pin" /\ self' = self /\ arg' = arg
  BY DEF IInv, CallInv, InitServo, Goto
<1>2. /\ servos' \in [Slots -> [pin : Pins \cup {NoPin}, width : Nat, enabled : BOOLEAN]]
      /\ \A s \in Slots : servos'[s].width > 0 /\ ~servos'[s].enabled
  BY DEF InitServo
<1>3. wanted = {} /\ (Reattach = FALSE => high = {}) /\ \A s \in Slots : ~servos[s].enabled
  BY <1>1, NoneUsed
<1>4. TypeInv'
  BY <1>1, <1>2 DEF TypeInv, Labels
<1>5. SlotsInv'
  <2>1. SlotsDistinct'
    BY <1>1 DEF SlotsInv, SlotsDistinct
  <2>2. ~NeverInitialized'
    <3>1. 0 \in Slots
      BY DEF Slots
    <3>2. servos'[0].width > 0
      BY <1>2, <3>1
    <3> QED
      BY <3>1, <3>2 DEF NeverInitialized
  <2> QED
    BY <1>2, <2>1, <2>2 DEF SlotsInv
<1>6. CallInv'
  BY <1>1, <1>2 DEF CallInv, Detaching, Slot
<1>7. WantedInv'
  BY <1>1, <1>2, <1>3 DEF WantedInv, Attached
<1>8. CountInv'
  <2>1. Used' = {}
    BY <1>2 DEF Used
  <2>2. Cardinality(Used') = 0
    BY <2>1, FS_EmptySet
  <2> QED
    BY <1>1, <2>2 DEF CountInv, InUse, Detaching
<1>9. PulseInv'
  BY <1>1, <1>3 DEF PulseInv, OnePulse
<1> QED
  BY <1>4, <1>5, <1>6, <1>7, <1>8, <1>9 DEF IInv

\* A step inside a call that leaves the slots in use, their pins and widths,
\* and goes on or returns.
LEMMA StepInCall ==
  ASSUME IInv, TypeInv', CallInv',
         index' = index, servos' = servos, servoInitialized' = servoInitialized,
         servosAttached' = servosAttached, wanted' = wanted, self' = self,
         NeverInitialized => servoAssignedMask' = servoAssignedMask,
         Detaching' = Detaching, pc # "disable", pc' # "disable",
         ~servoInitialized => pc' \in {"idle", "init"},
         pc' \in {"pin", "low", "enable"} <=> pc \in {"pin", "low", "enable"},
         PulseInv'
  PROVE  IInv'
<1>1. SlotsInv'
  <2>1. NeverInitialized => pc' \in {"idle", "init"}
    BY DEF IInv, SlotsInv
  <2> QED
    BY <2>1 DEF IInv, SlotsInv, SlotsDistinct, NeverInitialized
<1>2. WantedInv'
  BY DEF IInv, WantedInv, Attached
<1>3. CountInv'
  BY SameUsed DEF IInv, CountInv, InUse
<1> QED
  BY <1>1, <1>2, <1>3 DEF IInv

LEMMA InitFailsStep ==
  ASSUME IInv, InitFails
  PROVE  IInv'
<1>1. /\ TypeInv /\ pc = "init" /\ UNCHANGED <<slots, module, currentServo, high, wanted, self>>
      /\ pc' = "idle" /\ arg' = NoArg
  BY DEF IInv, InitFails, Return, ghosts
<1>2. TypeInv'
  BY <1>1 DEF TypeInv, NoArg, Arg, Labels, slots, module
<1>3. CallInv' /\ Detaching' = Detaching
  BY <1>1 DEF CallInv, Detaching
<1>4. PulseInv'
  BY <1>1 DEF IInv, PulseInv, OnePulse, slots
<1> QED
  BY <1>1, <1>2, <1>3, <1>4, StepInCall DEF slots, module

LEMMA PinLowStep ==
  ASSUME IInv, PinLow
  PROVE  IInv'
<1>1. /\ TypeInv /\ CallInv /\ pc = "low" /\ UNCHANGED <<slots, module, currentServo, wanted, self, arg>>
      /\ pc' = "enable" /\ high' \subseteq high
  BY DEF IInv, PinLow, Goto, ghosts
<1>2. TypeInv'
  BY <1>1 DEF TypeInv, Labels, slots, module
<1>3. CallInv' /\ Detaching' = Detaching
  BY <1>1 DEF CallInv, Detaching, Slot, slots, module
<1>4. PulseInv'
  BY <1>1 DEF IInv, PulseInv, OnePulse, slots
<1> QED
  BY <1>1, <1>2, <1>3, <1>4, StepInCall DEF slots, module, CallInv

LEMMA SwitchOffStep ==
  ASSUME IInv, SwitchOff
  PROVE  IInv'
<1>1. /\ TypeInv /\ CallInv /\ pc = "off" /\ UNCHANGED <<index, servos, module, currentServo, wanted, self, arg>>
      /\ servoAssignedMask' \subseteq servoAssignedMask
      /\ pc' = "count" /\ high' = high \ {servos[Slot].pin}
  BY DEF IInv, SwitchOff, Goto, ghosts
<1>2. TypeInv'
  BY <1>1 DEF TypeInv, Labels, module
<1>3. CallInv' /\ Detaching' = Detaching
  BY <1>1 DEF CallInv, Detaching, Slot, module
<1>4. PulseInv'
  BY <1>1 DEF IInv, PulseInv, OnePulse, Slot
<1>5. ~NeverInitialized
  BY <1>1 DEF IInv, SlotsInv
<1> QED
  BY <1>1, <1>2, <1>3, <1>4, <1>5, StepInCall DEF module, CallInv

LEMMA SetRemainderStep ==
  ASSUME IInv, SetRemainder
  PROVE  IInv'
<1>1. /\ TypeInv /\ CallInv /\ pc = "remainder"
      /\ UNCHANGED <<index, servos, servoAssignedMask, module, currentServo, high, wanted, self>>
      /\ IF arg.op = "detach" THEN pc' = "off" /\ arg' = arg ELSE pc' = "idle" /\ arg' = NoArg
  BY DEF IInv, SetRemainder, Goto, Return, ghosts
<1>2. TypeInv'
  BY <1>1 DEF TypeInv, Labels, NoArg, Arg, module
<1>3. CallInv' /\ Detaching' = Detaching
  BY <1>1 DEF CallInv, Detaching, Slot, NoArg, module
<1>4. PulseInv'
  BY <1>1 DEF IInv, PulseInv, OnePulse, Slot
<1> QED
  BY <1>1, <1>2, <1>3, <1>4, StepInCall DEF module, CallInv

LEMMA WriteStep ==
  ASSUME IInv, Early, NEW o \in Objects, NEW w \in Widths, Write(o, w)
  PROVE  IInv'
<1>1. /\ TypeInv /\ SlotsInv /\ pc = "idle" /\ Attached(o)
      /\ UNCHANGED <<index, servoAssignedMask, servos, module, currentServo, high, wanted>>
      /\ pc' = "width" /\ self' = o /\ arg' = [pin |-> NoPin, width |-> w, op |-> "write"]
  BY DEF IInv, Write, Enter, slots
<1>2. arg'.op = "write" /\ arg'.width = w /\ w \in Nat /\ w > 0
  BY <1>1 DEF Early
<1>3. servoInitialized = TRUE
  BY <1>1, NoneUsed DEF Attached, TypeInv
<1>4. TypeInv'
  BY <1>1, <1>2 DEF TypeInv, Labels, Arg, module
<1>5. SlotsInv'
  BY <1>1, <1>3 DEF SlotsInv, SlotsDistinct, NeverInitialized, module
<1>6. CallInv'
  BY <1>1, <1>2, <1>3 DEF CallInv, Detaching, Slot, Attached, module
<1>7. WantedInv'
  BY <1>1 DEF IInv, WantedInv, Attached
<1>8. CountInv'
  BY <1>1, <1>2, SameUsed DEF IInv, CountInv, InUse, Detaching, module
<1>9. PulseInv'
  BY <1>1 DEF IInv, PulseInv, OnePulse
<1> QED
  BY <1>4, <1>5, <1>6, <1>7, <1>8, <1>9 DEF IInv

LEMMA DetachStep ==
  ASSUME IInv, NEW o \in Objects, Detach(o)
  PROVE  IInv'
<1>1. /\ TypeInv /\ SlotsInv /\ pc = "idle" /\ Attached(o)
      /\ UNCHANGED <<index, servoAssignedMask, servos, module, currentServo, high>>
      /\ wanted' = wanted \ {o}
      /\ pc' = "disable" /\ self' = o
      /\ arg' = [pin |-> NoPin, width |-> DefaultWidth, op |-> "detach"]
  BY DEF IInv, Detach, Enter, slots
<1>2. arg'.op = "detach" /\ arg'.width = DefaultWidth /\ DefaultWidth > 0
  BY <1>1
<1>3. servoInitialized = TRUE
  BY <1>1, NoneUsed DEF Attached, TypeInv
<1>4. TypeInv'
  BY <1>1, <1>2 DEF TypeInv, Labels, Arg, module
<1>5. SlotsInv'
  BY <1>1, <1>3 DEF SlotsInv, SlotsDistinct, NeverInitialized, module
<1>6. CallInv'
  BY <1>1, <1>2, <1>3 DEF CallInv, Detaching, Slot, Attached, module
<1>7. WantedInv'
  BY <1>1 DEF IInv, WantedInv, Attached
<1>8. CountInv'
  BY <1>1, <1>2, SameUsed DEF IInv, CountInv, InUse, Detaching, module
<1>9. PulseInv'
  BY <1>1 DEF IInv, PulseInv, OnePulse
<1> QED
  BY <1>4, <1>5, <1>6, <1>7, <1>8, <1>9 DEF IInv

LEMMA SetPinStep ==
  ASSUME IInv, SetPin
  PROVE  IInv'
<1>1. /\ TypeInv /\ SlotsInv /\ CallInv /\ pc = "pin" /\ Slot \in Slots
      /\ UNCHANGED <<index, servoAssignedMask, module, currentServo, high, wanted, self, arg>>
      /\ pc' = "low" /\ arg.op = "attach" /\ servoInitialized
      /\ Reattach = FALSE => ~servos[Slot].enabled
  BY DEF IInv, CallInv, SetPin, Goto, ghosts
<1>2. /\ servos' \in [Slots -> [pin : Pins \cup {NoPin}, width : Nat, enabled : BOOLEAN]]
      /\ \A s \in Slots : /\ servos'[s].width = servos[s].width
                          /\ servos'[s].enabled = servos[s].enabled
                          /\ s # Slot => servos'[s].pin = servos[s].pin
  <2>1. arg.pin \in Pins \cup {NoPin}
    BY <1>1 DEF TypeInv, Arg
  <2>2. servos' = [servos EXCEPT ![Slot].pin = arg.pin]
    BY DEF SetPin
  <2> QED
    BY <1>1, <2>1, <2>2 DEF TypeInv
<1>3. TypeInv'
  BY <1>1, <1>2 DEF TypeInv, Labels, module
<1>4. SlotsInv'
  BY <1>1, <1>2 DEF SlotsInv, SlotsDistinct, NeverInitialized, module
<1>5. CallInv'
  BY <1>1, <1>2 DEF CallInv, Detaching, Slot, module
<1>6. WantedInv'
  BY <1>1, <1>2 DEF IInv, WantedInv, Attached
<1>7. CountInv'
  BY <1>1, <1>2, SameUsed DEF IInv, CountInv, InUse, Detaching, module
<1>8. PulseInv'
  BY <1>1, <1>2 DEF IInv, PulseInv, OnePulse
<1> QED
  BY <1>3, <1>4, <1>5, <1>6, <1>7, <1>8 DEF IInv

LEMMA SetWidthStep ==
  ASSUME IInv, SetWidth
  PROVE  IInv'
<1>1. /\ TypeInv /\ SlotsInv /\ CallInv /\ pc = "width" /\ Slot \in Slots
      /\ UNCHANGED <<index, servoAssignedMask, module, currentServo, high, wanted, self, arg>>
      /\ pc' = "remainder" /\ servoInitialized /\ arg.width > 0
  BY DEF IInv, CallInv, SetWidth, Goto, ghosts
<1>2. /\ servos' \in [Slots -> [pin : Pins \cup {NoPin}, width : Nat, enabled : BOOLEAN]]
      /\ \A s \in Slots : /\ servos'[s].pin = servos[s].pin
                          /\ servos'[s].enabled = servos[s].enabled
                          /\ s # Slot => servos'[s].width = servos[s].width
      /\ servos'[Slot].width = arg.width
  <2>1. arg.width \in Nat
    BY <1>1 DEF TypeInv, Arg
  <2>2. servos' = [servos EXCEPT ![Slot].width = arg.width]
    BY DEF SetWidth
  <2> QED
    BY <1>1, <2>1, <2>2 DEF TypeInv
<1>3. TypeInv'
  BY <1>1, <1>2 DEF TypeInv, Labels, module
<1>4. SlotsInv'
  <2>1. ~NeverInitialized /\ \A s \in Slots : servos[s].width > 0
    BY <1>1 DEF SlotsInv
  <2>2. \A s \in Slots : servos'[s].width > 0
    BY <1>1, <1>2, <2>1
  <2>3. ~NeverInitialized'
    BY <1>1, <1>2 DEF NeverInitialized
  <2> QED
    BY <1>1, <2>2, <2>3 DEF SlotsInv, SlotsDistinct
<1>5. CallInv'
  BY <1>1, <1>2 DEF CallInv, Detaching, Slot, module
<1>6. WantedInv'
  BY <1>1, <1>2 DEF IInv, WantedInv, Attached
<1>7. CountInv'
  BY <1>1, <1>2, SameUsed DEF IInv, CountInv, InUse, Detaching, module
<1>8. PulseInv'
  BY <1>1, <1>2 DEF IInv, PulseInv, OnePulse, Slot
<1> QED
  BY <1>3, <1>4, <1>5, <1>6, <1>7, <1>8 DEF IInv

LEMMA EnableStep ==
  ASSUME IInv, Enable
  PROVE  IInv'
<1>1. /\ TypeInv /\ SlotsInv /\ CallInv /\ pc = "enable" /\ Slot \in Slots
      /\ UNCHANGED <<index, servoAssignedMask, servoInitialized, currentServo, high, self>>
      /\ servosAttached' = servosAttached + 1 /\ wanted' = wanted \cup {self}
      /\ pc' = "idle" /\ arg' = NoArg /\ servoInitialized
      /\ Reattach = FALSE => ~servos[Slot].enabled
      /\ arg.op = "attach"
  BY DEF IInv, CallInv, Enable, Return
<1>2. /\ servos' \in [Slots -> [pin : Pins \cup {NoPin}, width : Nat, enabled : BOOLEAN]]
      /\ \A s \in Slots : /\ servos'[s].pin = servos[s].pin
                          /\ servos'[s].width = servos[s].width
                          /\ s # Slot => servos'[s].enabled = servos[s].enabled
      /\ servos'[Slot].enabled
  <2>1. servos' = [servos EXCEPT ![Slot].enabled = TRUE]
    BY DEF Enable
  <2> QED
    BY <1>1, <2>1 DEF TypeInv
<1>3. TypeInv'
  BY <1>1, <1>2 DEF TypeInv, Labels, NoArg, Arg
<1>4. SlotsInv'
  BY <1>1, <1>2 DEF SlotsInv, SlotsDistinct, NeverInitialized
<1>5. CallInv'
  BY <1>1 DEF CallInv, Detaching
<1>6. WantedInv'
  <2>1. \A o \in Objects : o # self => index[o] # Slot
    BY <1>1 DEF SlotsInv, SlotsDistinct, Slot, TypeInv
  <2> QED
    BY <1>1, <1>2, <2>1 DEF IInv, WantedInv, Attached, Slot
<1>7. CountInv'
  <2>1. Used' = Used \cup {Slot} /\ (Reattach = FALSE => Slot \notin Used)
    BY <1>1, <1>2 DEF Used
  <2>2. /\ Cardinality(Used') \in Nat /\ Cardinality(Used') <= Cardinality(Used) + 1
        /\ Reattach = FALSE => Cardinality(Used') = Cardinality(Used) + 1
    <3>1. Cardinality(Used \cup {Slot}) = IF Slot \in Used THEN Cardinality(Used)
                                          ELSE Cardinality(Used) + 1
      BY UsedFinite, FS_AddElement
    <3>2. Cardinality(Used') = Cardinality(Used \cup {Slot})
      BY <2>1
    <3> QED
      BY <2>1, <3>1, <3>2, UsedFinite
  <2>3. InUse = Cardinality(Used) /\ InUse' = Cardinality(Used')
    BY <1>1, UsedFinite, <2>2 DEF InUse, Detaching
  <2>4. servosAttached >= InUse /\ (Reattach = FALSE => servosAttached = InUse)
    BY DEF IInv, CountInv
  <2>5. servosAttached \in Nat
    BY <1>1 DEF TypeInv
  <2>6. servosAttached' >= InUse' /\ (Reattach = FALSE => servosAttached' = InUse')
    BY <1>1, <2>2, <2>3, <2>4, <2>5, UsedFinite
  <2>7. servoInitialized' /\ servosAttached' > 0
    BY <1>1, <2>5
  <2> QED
    BY <2>6, <2>7 DEF CountInv
<1>8. PulseInv'
  <2>1. \A s \in Slots : servos[s].enabled => servos'[s].enabled
    BY <1>2
  <2>2. pc \notin {"width", "remainder", "off"}
    BY <1>1
  <2> QED
    BY <1>1, <1>2, <2>1, <2>2 DEF IInv, PulseInv, OnePulse
<1> QED
  BY <1>3, <1>4, <1>5, <1>6, <1>7, <1>8 DEF IInv

LEMMA DisableStep ==
  ASSUME IInv, Disable
  PROVE  IInv'
<1>1. /\ TypeInv /\ SlotsInv /\ CallInv /\ pc = "disable" /\ Slot \in Slots
      /\ UNCHANGED <<index, servoAssignedMask, module, currentServo, high, wanted, self, arg>>
      /\ pc' = "width" /\ servos[Slot].enabled /\ servoInitialized
      /\ arg.op = "detach" /\ self \notin wanted
  BY DEF IInv, CallInv, Disable, Goto, ghosts
<1>2. /\ servos' \in [Slots -> [pin : Pins \cup {NoPin}, width : Nat, enabled : BOOLEAN]]
      /\ \A s \in Slots : /\ servos'[s].pin = servos[s].pin
                          /\ servos'[s].width = servos[s].width
                          /\ s # Slot => servos'[s].enabled = servos[s].enabled
      /\ ~servos'[Slot].enabled
  <2>1. servos' = [servos EXCEPT ![Slot].enabled = FALSE]
    BY DEF Disable
  <2> QED
    BY <1>1, <2>1 DEF TypeInv
<1>3. TypeInv'
  BY <1>1, <1>2 DEF TypeInv, Labels, module
<1>4. SlotsInv'
  BY <1>1, <1>2 DEF SlotsInv, SlotsDistinct, NeverInitialized
<1>5. CallInv'
  BY <1>1, <1>2 DEF CallInv, Detaching, Slot, module
<1>6. WantedInv'
  <2>1. \A o \in Objects : o # self => index[o] # Slot
    BY <1>1 DEF SlotsInv, SlotsDistinct, Slot, TypeInv
  <2> QED
    BY <1>1, <1>2, <2>1 DEF IInv, WantedInv, Attached, Slot
<1>7. CountInv'
  <2>1. Used' = Used \ {Slot} /\ Slot \in Used
    BY <1>1, <1>2 DEF Used
  <2>2. Cardinality(Used') = Cardinality(Used) - 1
    BY <2>1, UsedFinite, FS_RemoveElement
  <2>3. InUse' = InUse
    BY <1>1, <2>2, UsedFinite DEF InUse, Detaching
  <2>4. servosAttached > 0
    BY <1>1 DEF IInv, CountInv
  <2> QED
    BY <1>1, <2>3, <2>4 DEF IInv, CountInv, module
<1>8. PulseInv'
  <2> SUFFICES ASSUME Reattach = FALSE
               PROVE  OnePulse'
    BY DEF PulseInv
  <2>1. ASSUME NEW p \in high
        PROVE  \/ \E s \in Slots : s = currentServo - 1 /\ servos'[s].enabled /\ servos'[s].pin = p
               \/ servos'[Slot].pin = p
    <3>1. PICK s \in Slots : s = currentServo - 1 /\ servos[s].enabled /\ servos[s].pin = p
      BY <1>1 DEF IInv, PulseInv, OnePulse
    <3> QED
      BY <1>2, <3>1
  <2>2. Slot' = Slot
    BY <1>1 DEF Slot
  <2> QED
    BY <1>1, <2>1, <2>2 DEF OnePulse
<1> QED
  BY <1>3, <1>4, <1>5, <1>6, <1>7, <1>8 DEF IInv

LEMMA CountStep ==
  ASSUME IInv, Count
  PROVE  IInv'
<1>1. /\ TypeInv /\ SlotsInv /\ CallInv /\ pc = "count"
      /\ UNCHANGED <<index, servoAssignedMask, servos, currentServo, high, wanted, self>>
      /\ pc' = "idle" /\ arg' = NoArg /\ arg.op = "detach"
      /\ servosAttached' = servosAttached - 1 /\ servoInitialized' = (servosAttached # 1)
  BY DEF IInv, CallInv, Count, Return, slots, ghosts
<1>2. /\ servosAttached >= Cardinality(Used) + 1 /\ servosAttached \in Nat
      /\ Reattach = FALSE => servosAttached = Cardinality(Used) + 1
  BY <1>1, UsedFinite DEF IInv, CountInv, InUse, Detaching, TypeInv
<1>3. TypeInv'
  BY <1>1, <1>2, UsedFinite DEF TypeInv, Labels, NoArg, Arg
<1>4. SlotsInv'
  BY <1>1 DEF SlotsInv, SlotsDistinct, NeverInitialized
<1>5. CallInv'
  BY <1>1 DEF CallInv, Detaching
<1>6. WantedInv'
  BY <1>1 DEF IInv, WantedInv, Attached
<1>7. CountInv'
  <2>1. Used' = Used
    BY <1>1, SameUsed
  <2>2. /\ servosAttached' \in Nat /\ servosAttached' >= Cardinality(Used')
        /\ Reattach = FALSE => servosAttached' = Cardinality(Used')
        /\ Cardinality(Used) \in Nat /\ Cardinality(Used') \in Nat
    BY <1>1, <1>2, <2>1, UsedFinite
  <2>3. servoInitialized' <=> servosAttached' > 0
    <3>1. servosAttached # 1 <=> servosAttached - 1 > 0
      BY <1>2, <2>2
    <3>2. servoInitialized' <=> servosAttached # 1
      BY <1>1
    <3> QED
      BY <1>1, <3>1, <3>2
  <2>4. ~Detaching' /\ pc' \notin {"pin", "low", "enable"}
    BY <1>1 DEF Detaching
  <2>5. InUse' = Cardinality(Used')
    BY <2>2, <2>4 DEF InUse
  <2> QED
    BY <2>2, <2>3, <2>4, <2>5 DEF CountInv
<1>8. PulseInv'
  BY <1>1 DEF IInv, PulseInv, OnePulse
<1> QED
  BY <1>3, <1>4, <1>5, <1>6, <1>7, <1>8 DEF IInv

LEMMA HandlerStep ==
  ASSUME IInv, ServoIntHandler
  PROVE  IInv'
<1>1. /\ TypeInv /\ SlotsInv /\ CallInv
      /\ UNCHANGED <<index, servoAssignedMask, servos, module, wanted, pc, self, arg>>
      /\ high' = (high \ Ended) \cup Begun /\ currentServo' = NextServo
  BY DEF IInv, ServoIntHandler, slots, running
<1>2. TypeInv'
  BY <1>1 DEF TypeInv, NextServo, module
<1>3. SlotsInv'
  BY <1>1 DEF SlotsInv, SlotsDistinct, NeverInitialized, module
<1>4. CallInv'
  BY <1>1 DEF CallInv, Detaching, Slot, module
<1>5. WantedInv'
  BY <1>1 DEF IInv, WantedInv, Attached
<1>6. CountInv'
  BY <1>1, SameUsed DEF IInv, CountInv, InUse, Detaching, module
<1>7. PulseInv'
  <2> SUFFICES ASSUME Reattach = FALSE
               PROVE  OnePulse'
    BY DEF PulseInv
  <2>1. ASSUME NEW p \in Begun
        PROVE  \E s \in Slots : s = currentServo' - 1 /\ servos[s].enabled /\ servos[s].pin = p
    <3>1. PICK s \in Slots : s = currentServo /\ servos[s].enabled /\ servos[s].pin = p
      BY DEF Begun
    <3>2. currentServo' - 1 = currentServo
      BY <1>1, <3>1 DEF NextServo, Slots
    <3> QED
      BY <3>1, <3>2
  <2>2. ASSUME NEW p \in high \ Ended
        PROVE  pc \in {"width", "remainder", "off"} /\ arg.op = "detach" /\ servos[Slot].pin = p
    BY DEF IInv, PulseInv, OnePulse, Ended
  <2> QED
    BY <1>1, <2>1, <2>2 DEF PulseInv, OnePulse, Slot
<1> QED
  BY <1>2, <1>3, <1>4, <1>5, <1>6, <1>7 DEF IInv

-----------------------------------------------------------------------------
(* The invariant and what follows from it.                                 *)

LEMMA InitInv == Init => IInv
<1> SUFFICES ASSUME Init
             PROVE  IInv
  OBVIOUS
<1>1. \A s \in Slots : servos[s].width = 0 /\ ~servos[s].enabled
  BY DEF Init
<1>2. TypeInv
  <2>1. servos \in [Slots -> [pin : Pins \cup {NoPin}, width : Nat, enabled : BOOLEAN]]
    BY DEF Init
  <2>2. index \in [Objects -> 0 .. INVALID_SERVO] /\ currentServo \in 0 .. SlotCount
    BY DEF Init, Unmade, INVALID_SERVO
  <2>3. arg \in Arg
    BY DEF Init, NoArg, Arg
  <2> QED
    BY <2>1, <2>2, <2>3 DEF Init, TypeInv, Labels
<1>3. \A o \in Objects : index[o] \notin Slots
  BY DEF Init, Unmade, Slots
<1>4. SlotsInv
  BY <1>1, <1>3 DEF Init, SlotsInv, SlotsDistinct, NeverInitialized
<1>5. CallInv
  BY DEF Init, CallInv, Detaching
<1>6. WantedInv
  BY <1>3 DEF Init, WantedInv, Attached
<1>7. CountInv
  <2>1. Used = {}
    BY <1>1 DEF Used
  <2> QED
    BY <2>1, FS_EmptySet DEF Init, CountInv, InUse, Detaching
<1>8. PulseInv
  BY DEF Init, PulseInv, OnePulse
<1> QED
  BY <1>2, <1>4, <1>5, <1>6, <1>7, <1>8 DEF IInv

LEMMA NextInv ==
  ASSUME Early, IInv, [Next]_vars
  PROVE  IInv'
<1>1. ASSUME NEW o \in Objects, Call(o)
      PROVE  IInv'
  BY <1>1, NewStep, DetachStep, AttachStep, WriteStep DEF Call
<1>2. CASE Step
  BY <1>2, InitServoStep, InitFailsStep, SetPinStep, PinLowStep, EnableStep, DisableStep,
     SetWidthStep, SetRemainderStep, SwitchOffStep, CountStep DEF Step
<1>3. CASE ServoIntHandler
  BY <1>3, HandlerStep
<1>4. CASE UNCHANGED vars
  <2>1. /\ UNCHANGED <<index, servoAssignedMask, servos, servosAttached, servoInitialized>>
        /\ UNCHANGED <<currentServo, high, pc, self, arg, wanted>>
    BY <1>4 DEF vars, slots, module, running, ghosts
  <2> QED
    BY <2>1 DEF IInv, TypeInv, SlotsInv, SlotsDistinct, NeverInitialized, CallInv, Slot, Detaching,
                WantedInv, Attached, CountInv, InUse, Used, PulseInv, OnePulse
<1> QED
  BY <1>1, <1>2, <1>3, <1>4 DEF Next

\* The slots, the objects and the timer agree in every reachable state.
THEOREM Invariant ==
  ASSUME Early
  PROVE  Spec => []IInv
<1>1. Init => IInv
  BY InitInv
<1>2. IInv /\ [Next]_vars => IInv'
  BY NextInv
<1> QED
  BY <1>1, <1>2, PTL DEF Spec

\* One servo gets its pulse at a time, and a detached one gets none (OnePulse).
THEOREM PulsesAlternate ==
  ASSUME Careful
  PROVE  Spec => []OnePulse
<1>1. IInv => OnePulse
  BY DEF IInv, PulseInv, Careful
<1>2. Early
  BY DEF Careful
<1> QED
  BY <1>1, <1>2, Invariant, PTL

\* A call on one object attaches or detaches no other (ObjectsIndependent).
THEOREM ObjectsApart ==
  ASSUME Early
  PROVE  Spec => []ObjectsIndependent
<1>1. IInv => ObjectsIndependent
  BY DEF IInv, WantedInv, ObjectsIndependent
<1> QED
  BY <1>1, Invariant, PTL

\* The Timer32 is held between calls exactly while a servo is attached
\* (ReleasedWhenDetached).
THEOREM TimerReleased ==
  ASSUME Careful
  PROVE  Spec => []ReleasedWhenDetached
<1>1. IInv => ReleasedWhenDetached
  <2> SUFFICES ASSUME IInv, pc = "idle"
               PROVE  servoInitialized <=> \E s \in Slots : servos[s].enabled
    BY DEF ReleasedWhenDetached
  <2>1. servosAttached = InUse /\ (servoInitialized <=> servosAttached > 0)
    BY DEF IInv, CountInv, Careful
  <2>2. InUse > 0 <=> Used # {}
    BY UsedFinite, FS_EmptySet DEF InUse, Detaching
  <2>3. Used # {} <=> \E s \in Slots : servos[s].enabled
    BY DEF Used
  <2> QED
    BY <2>1, <2>2, <2>3
<1>2. Early
  BY DEF Careful
<1> QED
  BY <1>1, <1>2, Invariant, PTL

\* The half of ReleasedWhenDetached that attaching twice does not break.
HeldWhileAttached ==
  (\E s \in Slots : servos[s].enabled) => servoInitialized

\* No call releases the Timer32 while a servo is attached, however often the
\* objects are attached.
THEOREM TimerHeld ==
  ASSUME Early
  PROVE  Spec => []HeldWhileAttached
<1>1. IInv => HeldWhileAttached
  <2> SUFFICES ASSUME IInv, ~servoInitialized
               PROVE  \A s \in Slots : ~servos[s].enabled
    BY DEF HeldWhileAttached
  <2> QED
    BY NoneUsed
<1> QED
  BY <1>1, Invariant, PTL

-----------------------------------------------------------------------------
(* Sums over finite sets.  SumFunctionOnSet takes the elements one by one, *)
(* each time the one that CHOOSE yields; the recursion it is defined by is *)
(* unfolded here, by looking at a least set for which the claim fails.     *)

\* A set of subsets of a finite set has one that contains no other.
LEMMA LeastSubset ==
  ASSUME NEW S, IsFiniteSet(S), NEW All, All \subseteq SUBSET S, All # {}
  PROVE  \E A \in All : \A B \in All : B \subseteq A => B = A
<1> DEFINE R == StrictSubsetOrdering(S)
<1>1. IsWellFoundedOn(R, FiniteSubsetsOf(S))
  BY FS_StrictSubsetOrderingWellFounded
<1>2. FiniteSubsetsOf(S) = SUBSET S
  BY FS_FiniteSubsetsOfFinite
<1>3. PICK A \in All : \A B \in All : <<B, A>> \notin R
  <2> HIDE DEF R
  <2>1. IsWellFoundedOn(R, SUBSET S)
    BY <1>1, <1>2
  <2> QED
    BY <2>1, WFMin
<1>4. ASSUME NEW B \in All, B \subseteq A
      PROVE  B = A
  <2>1. A \in SUBSET S /\ B \in SUBSET S
    OBVIOUS
  <2> QED
    BY <1>3, <1>4, <2>1 DEF StrictSubsetOrdering
<1> QED
  BY <1>4

\* The element that is taken from T.
First(T) == CHOOSE x \in T : TRUE

\* g maps every subset of S to the sum of w over it.
IsSum(g, w, S) ==
  g = [T \in SUBSET S |-> IF T = {} THEN 0 ELSE w[First(T)] + g[T \ {First(T)}]]

TheSum(w, S) == CHOOSE g : IsSum(g, w, S)

LEMMA FirstIn ==
  ASSUME NEW T, T # {}
  PROVE  First(T) \in T
  BY DEF First

\* What the community modules define the sum to be.
LEMMA SumIsTheSum ==
  ASSUME NEW w, NEW S
  PROVE  SumFunctionOnSet(w, S) = TheSum(w, S)[S]
  BY DEF SumFunctionOnSet, FoldFunctionOnSet, MapThenFoldSet, TheSum, IsSum, First

\* Such a function unfolds on every subset.
LEMMA IsSumAt ==
  \A g, w, S : IsSum(g, w, S) =>
    \A T \in SUBSET S : g[T] = IF T = {} THEN 0 ELSE w[First(T)] + g[T \ {First(T)}]
<1> SUFFICES ASSUME NEW g, NEW w, NEW S, IsSum(g, w, S)
             PROVE  \A T \in SUBSET S :
                      g[T] = IF T = {} THEN 0 ELSE w[First(T)] + g[T \ {First(T)}]
  OBVIOUS
<1> DEFINE F == [T \in SUBSET S |-> IF T = {} THEN 0 ELSE w[First(T)] + g[T \ {First(T)}]]
<1>1. g = F
  BY DEF IsSum
<1>2. \A T \in SUBSET S : F[T] = IF T = {} THEN 0 ELSE w[First(T)] + g[T \ {First(T)}]
  OBVIOUS
<1> QED
  BY <1>1, <1>2

\* Two such functions agree wherever both are defined.
LEMMA SumsAgree ==
  ASSUME NEW w, NEW S, NEW U, IsFiniteSet(S), NEW g, NEW h, IsSum(g, w, S), IsSum(h, w, U)
  PROVE  \A T \in SUBSET S : T \subseteq U => g[T] = h[T]
<1> DEFINE Bad == {T \in SUBSET S : T \subseteq U /\ g[T] # h[T]}
<1> SUFFICES ASSUME Bad # {}
             PROVE  FALSE
  OBVIOUS
<1>1. PICK A \in Bad : \A B \in Bad : B \subseteq A => B = A
  <2>1. Bad \subseteq SUBSET S
    OBVIOUS
  <2> HIDE DEF Bad
  <2> QED
    BY <2>1, LeastSubset
<1>2. A \in SUBSET S /\ A \in SUBSET U /\ g[A] # h[A]
  OBVIOUS
<1>3. \A B \in SUBSET S : B \subseteq A /\ B # A => g[B] = h[B]
  BY <1>1, <1>2
<1> HIDE DEF Bad
<1>4. g[A] = IF A = {} THEN 0 ELSE w[First(A)] + g[A \ {First(A)}]
  BY <1>2, IsSumAt
<1>5. h[A] = IF A = {} THEN 0 ELSE w[First(A)] + h[A \ {First(A)}]
  BY <1>2, IsSumAt
<1>6. A # {}
  BY <1>2, <1>4, <1>5
<1>7. First(A) \in A
  BY <1>6, FirstIn
<1>8. g[A \ {First(A)}] = h[A \ {First(A)}]
  BY <1>3, <1>2, <1>7
<1> QED
  BY <1>2, <1>4, <1>5, <1>8

\* The recursive definition defines a function.
LEMMA SumExists ==
  ASSUME NEW w, NEW S, IsFiniteSet(S)
  PROVE  IsSum(TheSum(w, S), w, S)
<1> DEFINE Bad == {U \in SUBSET S : ~IsSum(TheSum(w, U), w, U)}
<1> SUFFICES ASSUME Bad # {}
             PROVE  FALSE
  OBVIOUS
<1>1. PICK U \in Bad : \A B \in Bad : B \subseteq U => B = U
  <2>1. Bad \subseteq SUBSET S
    OBVIOUS
  <2> HIDE DEF Bad
  <2> QED
    BY <2>1, LeastSubset
<1>2. U \in SUBSET S /\ ~IsSum(TheSum(w, U), w, U)
  OBVIOUS
<1>3. \A V \in SUBSET U : V # U => IsSum(TheSum(w, V), w, V) /\ IsFiniteSet(V)
  BY <1>1, <1>2, FS_Subset
<1> HIDE DEF Bad
<1> DEFINE Val(T) == TheSum(w, T)[T]
           G(g) == [T \in SUBSET U |-> IF T = {} THEN 0 ELSE w[First(T)] + g[T \ {First(T)}]]
           g0 == [T \in SUBSET U |-> IF T = {} THEN 0 ELSE w[First(T)] + Val(T \ {First(T)})]
<1>4. ASSUME NEW V \in SUBSET U, V # U
      PROVE  Val(V) = g0[V]
  <2>1. IsSum(TheSum(w, V), w, V)
    BY <1>3, <1>4
  <2>2. Val(V) = IF V = {} THEN 0 ELSE w[First(V)] + TheSum(w, V)[V \ {First(V)}]
    BY <2>1, IsSumAt
  <2>3. ASSUME V # {}
        PROVE  TheSum(w, V)[V \ {First(V)}] = Val(V \ {First(V)})
    <3>1. First(V) \in V
      BY <2>3, FirstIn
    <3> DEFINE W == V \ {First(V)}
    <3>2. W \in SUBSET V /\ W \in SUBSET U /\ W # U /\ W \in SUBSET W
      BY <3>1
    <3>3. IsSum(TheSum(w, W), w, W) /\ IsFiniteSet(W) /\ IsFiniteSet(V)
      BY <1>3, <1>4, <3>2
    <3> HIDE DEF W
    <3>4. TheSum(w, V)[W] = TheSum(w, W)[W]
      BY <2>1, <3>2, <3>3, SumsAgree
    <3> QED
      BY <3>4 DEF W
  <2>4. g0[V] = IF V = {} THEN 0 ELSE w[First(V)] + Val(V \ {First(V)})
    OBVIOUS
  <2> HIDE DEF g0, Val
  <2> QED
    BY <2>2, <2>3, <2>4
<1>5. ASSUME NEW T \in SUBSET U, T # {}
      PROVE  Val(T \ {First(T)}) = g0[T \ {First(T)}]
  <2>1. First(T) \in T
    BY <1>5, FirstIn
  <2>2. T \ {First(T)} \in SUBSET U /\ T \ {First(T)} # U
    BY <2>1
  <2> HIDE DEF g0, Val
  <2> QED
    BY <1>4, <2>2
<1>6. g0 = G(g0)
  <2>1. \A T \in SUBSET U : (IF T = {} THEN 0 ELSE w[First(T)] + Val(T \ {First(T)}))
                            = IF T = {} THEN 0 ELSE w[First(T)] + g0[T \ {First(T)}]
    <3> HIDE DEF g0, Val
    <3> QED
      BY <1>5
  <2>2. g0 = [T \in SUBSET U |-> IF T = {} THEN 0 ELSE w[First(T)] + Val(T \ {First(T)})]
    OBVIOUS
  <2> HIDE DEF g0, Val
  <2>3. G(g0) = [T \in SUBSET U |-> IF T = {} THEN 0 ELSE w[First(T)] + g0[T \ {First(T)}]]
    OBVIOUS
  <2> HIDE DEF G
  <2> QED
    BY <2>1, <2>2, <2>3
<1>7. IsSum(g0, w, U)
  <2> HIDE DEF g0
  <2> QED
    BY <1>6 DEF IsSum
<1> HIDE DEF g0
<1> QED
  BY <1>2, <1>7 DEF TheSum

\* The recursion, of sums on their own.
LEMMA SumUnfolds ==
  ASSUME NEW w, NEW S, IsFiniteSet(S)
  PROVE  SumFunctionOnSet(w, S)
         = IF S = {} THEN 0 ELSE w[First(S)] + SumFunctionOnSet(w, S \ {First(S)})
<1>1. IsSum(TheSum(w, S), w, S)
  BY SumExists
<1>2. TheSum(w, S)[S] = IF S = {} THEN 0 ELSE w[First(S)] + TheSum(w, S)[S \ {First(S)}]
  BY <1>1, IsSumAt
<1>3. ASSUME S # {}
      PROVE  TheSum(w, S)[S \ {First(S)}] = SumFunctionOnSet(w, S \ {First(S)})
  <2> DEFINE T == S \ {First(S)}
  <2>1. T \in SUBSET S /\ T \in SUBSET T
    OBVIOUS
  <2> HIDE DEF T
  <2>2. IsFiniteSet(T)
    BY <2>1, FS_Subset
  <2>3. IsSum(TheSum(w, T), w, T)
    BY <2>2, SumExists
  <2>4. TheSum(w, S)[T] = TheSum(w, T)[T]
    BY <1>1, <2>1, <2>3, SumsAgree
  <2> QED
    BY <2>4, SumIsTheSum DEF T
<1> QED
  BY <1>2, <1>3, SumIsTheSum

\* The sum of natural numbers is one.
LEMMA SumNat ==
  ASSUME NEW w, NEW S, IsFiniteSet(S), \A x \in S : w[x] \in Nat
  PROVE  SumFunctionOnSet(w, S) \in Nat
<1> DEFINE Bad == {T \in SUBSET S : SumFunctionOnSet(w, T) \notin Nat}
<1> SUFFICES ASSUME Bad # {}
             PROVE  FALSE
  OBVIOUS
<1>1. PICK T \in Bad : \A B \in Bad : B \subseteq T => B = T
  <2>1. Bad \subseteq SUBSET S
    OBVIOUS
  <2> HIDE DEF Bad
  <2> QED
    BY <2>1, LeastSubset
<1>2. T \in SUBSET S /\ SumFunctionOnSet(w, T) \notin Nat
  OBVIOUS
<1>3. \A B \in SUBSET S : B \subseteq T /\ B # T => SumFunctionOnSet(w, B) \in Nat
  BY <1>1
<1> HIDE DEF Bad
<1>4. IsFiniteSet(T)
  BY <1>2, FS_Subset
<1>5. SumFunctionOnSet(w, T)
      = IF T = {} THEN 0 ELSE w[First(T)] + SumFunctionOnSet(w, T \ {First(T)})
  BY <1>4, SumUnfolds
<1>6. T # {}
  BY <1>2, <1>5
<1>7. First(T) \in T
  BY <1>6, FirstIn
<1>8. SumFunctionOnSet(w, T \ {First(T)}) \in Nat /\ w[First(T)] \in Nat
  BY <1>2, <1>3, <1>7
<1> QED
  BY <1>2, <1>5, <1>6, <1>8

\* Any element may be taken out first.
LEMMA SumTakes ==
  ASSUME NEW w, NEW S, IsFiniteSet(S), \A x \in S : w[x] \in Nat
  PROVE  \A x \in S : SumFunctionOnSet(w, S) = w[x] + SumFunctionOnSet(w, S \ {x})
<1> DEFINE Takes(T) == \A x \in T : SumFunctionOnSet(w, T) = w[x] + SumFunctionOnSet(w, T \ {x})
           Bad == {T \in SUBSET S : ~Takes(T)}
<1> SUFFICES ASSUME Bad # {}
             PROVE  FALSE
  OBVIOUS
<1>1. PICK T \in Bad : \A B \in Bad : B \subseteq T => B = T
  <2>1. Bad \subseteq SUBSET S
    OBVIOUS
  <2> HIDE DEF Bad
  <2> QED
    BY <2>1, LeastSubset
<1>2. T \in SUBSET S
  OBVIOUS
<1>3. PICK x \in T : SumFunctionOnSet(w, T) # w[x] + SumFunctionOnSet(w, T \ {x})
  OBVIOUS
<1>4. \A B \in SUBSET S : B \subseteq T /\ B # T => Takes(B)
  BY <1>1
<1> HIDE DEF Bad
<1> DEFINE p == First(T)
           A == T \ {p}
           B == T \ {x}
           C == A \ {x}
<1>5. p \in T
  BY FirstIn
<1>6. SumFunctionOnSet(w, T) = w[p] + SumFunctionOnSet(w, A)
  <2>1. IsFiniteSet(T) /\ T # {}
    BY <1>2, FS_Subset
  <2> QED
    BY <2>1, SumUnfolds
<1>7. p # x
  BY <1>3, <1>6
<1>8. SumFunctionOnSet(w, A) = w[x] + SumFunctionOnSet(w, C)
  BY <1>2, <1>4, <1>5, <1>7
<1>9. SumFunctionOnSet(w, B) = w[p] + SumFunctionOnSet(w, C)
  <2>1. B \in SUBSET S /\ B # T /\ p \in B /\ B \ {p} = C
    BY <1>2, <1>5, <1>7
  <2> HIDE DEF p, B, C
  <2>2. Takes(B) /\ B \subseteq T
    BY <1>4, <2>1 DEF B
  <2> QED
    BY <2>1, <2>2
<1>10. w[p] \in Nat /\ w[x] \in Nat /\ SumFunctionOnSet(w, C) \in Nat
  <2>1. C \in SUBSET S
    BY <1>2
  <2>2. IsFiniteSet(C)
    BY <2>1, FS_Subset
  <2> QED
    BY <1>2, <1>5, <2>1, <2>2, SumNat
<1> HIDE DEF p, A, B, C, Takes
<1>11. SumFunctionOnSet(w, T) = w[x] + SumFunctionOnSet(w, B)
  BY <1>6, <1>8, <1>9, <1>10
<1> QED
  BY <1>3, <1>11 DEF B

LEMMA SumEmpty ==
  ASSUME NEW w
  PROVE  SumFunctionOnSet(w, {}) = 0
  BY SumUnfolds, FS_EmptySet

\* A sum is no more than as many times the largest of its terms.
LEMMA SumBound ==
  ASSUME NEW w, NEW S, IsFiniteSet(S), NEW top \in Nat, \A x \in S : w[x] \in 0 .. top
  PROVE  SumFunctionOnSet(w, S) <= Cardinality(S) * top
<1> DEFINE Bounded(T) == SumFunctionOnSet(w, T) <= Cardinality(T) * top
           Bad == {T \in SUBSET S : ~Bounded(T)}
<1> SUFFICES ASSUME Bad # {}
             PROVE  FALSE
  OBVIOUS
<1>1. PICK T \in Bad : \A B \in Bad : B \subseteq T => B = T
  <2>1. Bad \subseteq SUBSET S
    OBVIOUS
  <2> HIDE DEF Bad
  <2> QED
    BY <2>1, LeastSubset
<1>2. T \in SUBSET S /\ ~Bounded(T) /\ IsFiniteSet(T)
  BY FS_Subset
<1>3. \A B \in SUBSET S : B \subseteq T /\ B # T => Bounded(B)
  BY <1>1
<1> HIDE DEF Bad
<1>4. T # {}
  BY <1>2, SumEmpty, FS_EmptySet
<1> HIDE DEF Bounded
<1>5. PICK x \in T : TRUE
  BY <1>4
<1> DEFINE U == T \ {x}
<1>6. U \in SUBSET S /\ U \subseteq T /\ U # T
  BY <1>2
<1>7. IsFiniteSet(U) /\ Cardinality(T) = Cardinality(U) + 1 /\ Cardinality(U) \in Nat
  <2>1. IsFiniteSet(U) /\ Cardinality(U) = Cardinality(T) - 1
    BY <1>2, FS_RemoveElement
  <2>2. Cardinality(T) \in Nat /\ Cardinality(U) \in Nat
    BY <1>2, <2>1, FS_CardinalityType
  <2> QED
    BY <2>1, <2>2
<1>8. SumFunctionOnSet(w, U) <= Cardinality(U) * top
  BY <1>3, <1>6 DEF Bounded
<1>9. SumFunctionOnSet(w, T) = w[x] + SumFunctionOnSet(w, U)
  <2>1. \A y \in T : w[y] \in Nat
    BY <1>2
  <2> QED
    BY <1>2, <2>1, SumTakes
<1>10. SumFunctionOnSet(w, U) \in Nat
  <2>1. \A y \in U : w[y] \in Nat
    BY <1>6
  <2> QED
    BY <1>7, <2>1, SumNat
<1>11. w[x] \in Nat /\ w[x] <= top
  BY <1>2
<1> DEFINE c == Cardinality(U)
           m == c * top
<1>12. (c + 1) * top = m + top /\ m \in Nat
  BY <1>7
<1> HIDE DEF U, c, m
<1>13. SumFunctionOnSet(w, T) <= m + top
  BY <1>8, <1>9, <1>10, <1>11, <1>12 DEF c, m
<1>14. Bounded(T)
  BY <1>7, <1>12, <1>13 DEF Bounded, c
<1> QED
  BY <1>2, <1>14

-----------------------------------------------------------------------------
(* How long a frame lasts.                                                 *)

\* The pulses of all slots fit into the interval, whatever widths are written
\* (in the code 8 times at most 2490 of 20000 microseconds).
Fits == \E longest \in Nat :
          /\ \A w \in Widths \cup {DefaultWidth} : w <= longest
          /\ SlotCount * longest < Refresh

\* The widths a slot can get.
Allowed == Widths \cup {DefaultWidth}

\* The slots have widths: the timer is held, a call came past initServo(), or a
\* slot is enabled.
Configured ==
  servoInitialized \/ pc \notin {"idle", "init"} \/ \E s \in Slots : servos[s].enabled

\* The types this rests on, whatever the sketch does.
FrameTypes ==
  /\ servos \in [Slots -> [pin : Pins \cup {NoPin}, width : Nat, enabled : BOOLEAN]]
  /\ arg \in Arg
  /\ currentServo \in 0 .. SlotCount

\* Only write() and detach() change a width, and while they run no frame is clean.
ChangeInv ==
  /\ arg.op \in {"write", "detach"} => ~clean
  /\ pc \in {"disable", "width", "remainder", "off", "count"} => arg.op \in {"write", "detach"}
  /\ pc \in {"disable", "width"} => arg.width \in Allowed

\* Except between the two assignments of such a call the remainder is what
\* the widths leave of the interval.
WidthsInv ==
  Configured =>
    /\ \A s \in Slots : servos[s].width \in Allowed
    /\ pc = "remainder" \/ remainder = Remainder(WidthsNow)

\* A clean frame has lasted as long as the slots served.
Elapsed == IF currentServo = 0 THEN Refresh
           ELSE SumFunctionOnSet(WidthsNow, 0 .. currentServo - 1)

ElapsedInv == clean => Configured /\ frame = Elapsed

\* A call was made on an object that has a slot.
SlotInv == pc # "idle" => Slot \in Slots

FrameInv == FrameTypes /\ ChangeInv /\ WidthsInv /\ ElapsedInv

\* The pulses of all slots fit into the interval.
LEMMA PulsesFit ==
  ASSUME Fits, FrameTypes, \A s \in Slots : servos[s].width \in Allowed
  PROVE  /\ Remainder(WidthsNow) = Refresh - SumFunctionOnSet(WidthsNow, Slots)
         /\ SumFunctionOnSet(WidthsNow, Slots) \in Nat
<1>1. PICK longest \in Nat : /\ \A w \in Allowed : w <= longest
                             /\ SlotCount * longest < Refresh
  BY DEF Fits, Allowed
<1>2. \A s \in Slots : WidthsNow[s] \in Nat /\ WidthsNow[s] \in 0 .. longest
  <2>1. Allowed \subseteq Nat
    BY DEF Allowed
  <2>2. \A s \in Slots : WidthsNow[s] \in Allowed
    BY DEF WidthsNow
  <2>3. \A x \in Allowed : x \in Nat /\ x \in 0 .. longest
    BY <1>1, <2>1
  <2> QED
    BY <2>2, <2>3
<1>3. DOMAIN WidthsNow = Slots
  BY DEF WidthsNow
<1>4. SumFunctionOnSet(WidthsNow, Slots) \in Nat
  BY <1>2, SlotsFinite, SumNat
<1>5. Cardinality(Slots) = SlotCount
  BY FS_Interval DEF Slots
<1>6. SumFunctionOnSet(WidthsNow, Slots) <= SlotCount * longest
  BY <1>2, <1>5, SlotsFinite, SumBound
<1>7. SumFunctionOnSet(WidthsNow, Slots) < Refresh
  <2> DEFINE m == SlotCount * longest
  <2>1. m \in Nat /\ m < Refresh
    BY <1>1
  <2> HIDE DEF m
  <2> QED
    BY <1>4, <1>6, <2>1 DEF m
<1> QED
  BY <1>3, <1>4, <1>7 DEF Remainder, SumFunction

\* The interval of one more slot.
LEMMA NextSlot ==
  ASSUME FrameTypes, currentServo < SlotCount
  PROVE  SumFunctionOnSet(WidthsNow, 0 .. currentServo)
         = SumFunctionOnSet(WidthsNow, 0 .. currentServo - 1) + servos[currentServo].width
<1>1. currentServo \in Slots /\ 0 .. currentServo \subseteq Slots
  BY DEF FrameTypes, Slots
<1>2. \A s \in Slots : WidthsNow[s] = servos[s].width /\ WidthsNow[s] \in Nat
  BY DEF FrameTypes, WidthsNow
<1>3. IsFiniteSet(0 .. currentServo) /\ \A s \in 0 .. currentServo : WidthsNow[s] \in Nat
  BY <1>1, <1>2, SlotsFinite
<1>4. (0 .. currentServo) \ {currentServo} = 0 .. currentServo - 1
  BY DEF FrameTypes
<1>5. SumFunctionOnSet(WidthsNow, 0 .. currentServo)
      = WidthsNow[currentServo] + SumFunctionOnSet(WidthsNow, (0 .. currentServo) \ {currentServo})
  <2>1. currentServo \in 0 .. currentServo
    BY DEF FrameTypes
  <2> QED
    BY <1>3, <2>1, SumTakes
<1>6. 0 .. currentServo - 1 \subseteq Slots
  BY <1>1, <1>4
<1>7. SumFunctionOnSet(WidthsNow, 0 .. currentServo - 1) \in Nat
  <2>1. IsFiniteSet(0 .. currentServo - 1) /\ \A s \in 0 .. currentServo - 1 : WidthsNow[s] \in Nat
    BY <1>2, <1>6, SlotsFinite
  <2> QED
    BY <2>1, SumNat
<1> DEFINE sum == SumFunctionOnSet(WidthsNow, 0 .. currentServo - 1)
           width == servos[currentServo].width
<1>8. SumFunctionOnSet(WidthsNow, 0 .. currentServo) = width + sum /\ width \in Nat
  BY <1>1, <1>2, <1>4, <1>5
<1> HIDE DEF sum, width
<1>9. sum \in Nat
  BY <1>7 DEF sum
<1>10. width + sum = sum + width
  BY <1>8, <1>9
<1> QED
  BY <1>8, <1>10 DEF sum, width

\* A step that leaves the widths, the remainder and the frame.
LEMMA FrameKept ==
  ASSUME FrameInv, FrameTypes', ChangeInv',
         \A s \in Slots : servos'[s].width = servos[s].width,
         remainder' = remainder, currentServo' = currentServo, frame' = frame,
         pc # "remainder", Configured' => Configured, clean' => clean /\ Configured'
  PROVE  FrameInv'
<1>1. WidthsNow' = WidthsNow
  BY DEF WidthsNow
<1>2. Remainder(WidthsNow)' = Remainder(WidthsNow)
  BY <1>1 DEF Remainder
<1>3. Elapsed' = Elapsed
  BY <1>1 DEF Elapsed
<1>4. WidthsInv'
  BY <1>2 DEF FrameInv, WidthsInv
<1>5. ElapsedInv'
  BY <1>3 DEF FrameInv, ElapsedInv
<1> QED
  BY <1>4, <1>5 DEF FrameInv

\* The sketch calls a method.
LEMMA FrameCall ==
  ASSUME FrameInv, NEW o \in Objects, Call(o)
  PROVE  FrameInv'
<1>1. UNCHANGED <<servos, remainder, servoInitialized, currentServo, frame>> /\ pc = "idle"
  BY DEF Call, New, Attach, Write, Detach, slots, module, ghosts
<1>2. CASE New(o)
  <2>1. UNCHANGED <<pc, self, arg, clean>>
    BY <1>2 DEF New, running, ghosts
  <2> QED
    BY <1>1, <2>1, FrameKept DEF FrameInv, FrameTypes, ChangeInv, ElapsedInv, Configured
<1>3. ASSUME NEW p \in Pins, Attach(o, p)
      PROVE  FrameInv'
  <2>1. /\ pc' \in {"pin", "init"} /\ (pc' = "pin" => servoInitialized)
        /\ arg' = [pin |-> p, width |-> 0, op |-> "attach"] /\ clean' = clean
    BY <1>3 DEF Attach, Enter, ghosts
  <2>2. FrameTypes'
    BY <1>1, <2>1 DEF FrameInv, FrameTypes, Arg
  <2>3. ChangeInv'
    BY <2>1 DEF ChangeInv
  <2>4. (Configured' => Configured) /\ (clean' => clean /\ Configured')
    BY <1>1, <2>1 DEF FrameInv, ElapsedInv, Configured
  <2> QED
    BY <1>1, <2>2, <2>3, <2>4, FrameKept
<1>4. ASSUME NEW w \in Widths, Write(o, w)
      PROVE  FrameInv'
  <2>1. /\ pc' = "width" /\ arg' = [pin |-> NoPin, width |-> w, op |-> "write"] /\ clean' = FALSE
        /\ Attached(o)
    BY <1>4 DEF Write, Enter
  <2>2. FrameTypes'
    BY <1>1, <2>1 DEF FrameInv, FrameTypes, Arg
  <2>3. ChangeInv'
    BY <2>1 DEF ChangeInv, Allowed
  <2>4. Configured
    BY <2>1 DEF Attached, Configured
  <2> QED
    BY <1>1, <2>1, <2>2, <2>3, <2>4, FrameKept
<1>5. CASE Detach(o)
  <2>1. /\ pc' = "disable" /\ arg' = [pin |-> NoPin, width |-> DefaultWidth, op |-> "detach"]
        /\ clean' = FALSE /\ Attached(o)
    BY <1>5 DEF Detach, Enter
  <2>2. FrameTypes'
    BY <1>1, <2>1 DEF FrameInv, FrameTypes, Arg
  <2>3. ChangeInv'
    BY <2>1 DEF ChangeInv, Allowed
  <2>4. Configured
    BY <2>1 DEF Attached, Configured
  <2> QED
    BY <1>1, <2>1, <2>2, <2>3, <2>4, FrameKept
<1> QED
  BY <1>2, <1>3, <1>4, <1>5 DEF Call

\* The three statements that set widths or the remainder.
LEMMA FrameInit ==
  ASSUME FrameInv, InitServo
  PROVE  FrameInv'
<1>1. /\ servos' = [s \in Slots |-> [pin |-> NoPin, width |-> DefaultWidth, enabled |-> FALSE]]
      /\ remainder' = Remainder([s \in Slots |-> DefaultWidth])
      /\ currentServo' = 0 /\ clean' = FALSE /\ pc' = "pin" /\ arg' = arg
  BY DEF InitServo, Goto
<1>2. WidthsNow' = [s \in Slots |-> DefaultWidth]
  <2>1. \A s \in Slots : servos'[s].width = DefaultWidth
    BY <1>1
  <2> QED
    BY <2>1 DEF WidthsNow
<1>3. FrameTypes'
  <2>1. servos' \in [Slots -> [pin : Pins \cup {NoPin}, width : Nat, enabled : BOOLEAN]]
    BY <1>1
  <2> QED
    BY <1>1, <2>1 DEF FrameInv, FrameTypes
<1>4. ChangeInv'
  BY <1>1 DEF ChangeInv
<1>5. WidthsInv'
  <2>1. Remainder(WidthsNow)' = Remainder([s \in Slots |-> DefaultWidth])
    BY <1>2 DEF Remainder
  <2>2. \A s \in Slots : servos'[s].width \in Allowed
    BY <1>1 DEF Allowed
  <2> QED
    BY <1>1, <2>1, <2>2 DEF WidthsInv
<1>6. ElapsedInv'
  BY <1>1 DEF ElapsedInv
<1> QED
  BY <1>3, <1>4, <1>5, <1>6 DEF FrameInv

LEMMA FrameWidth ==
  ASSUME FrameInv, SetWidth
  PROVE  FrameInv'
<1>1. /\ pc = "width" /\ pc' = "remainder" /\ arg' = arg /\ currentServo' = currentServo /\ clean' = clean
      /\ servos' = [servos EXCEPT ![Slot].width = arg.width]
      /\ arg.width \in Allowed /\ arg.width \in Nat /\ arg.op \in {"write", "detach"} /\ ~clean
  BY DEF FrameInv, ChangeInv, FrameTypes, Arg, SetWidth, Goto, ghosts
<1>2. /\ servos' \in [Slots -> [pin : Pins \cup {NoPin}, width : Nat, enabled : BOOLEAN]]
      /\ \A s \in Slots : servos'[s].width \in {servos[s].width, arg.width}
  BY <1>1 DEF FrameInv, FrameTypes
<1>3. FrameTypes'
  BY <1>1, <1>2 DEF FrameInv, FrameTypes
<1>4. ChangeInv'
  BY <1>1 DEF ChangeInv
<1>5. WidthsInv'
  BY <1>1, <1>2 DEF FrameInv, WidthsInv, Configured
<1>6. ElapsedInv'
  BY <1>1 DEF ElapsedInv
<1> QED
  BY <1>3, <1>4, <1>5, <1>6 DEF FrameInv

LEMMA FrameRemainder ==
  ASSUME FrameInv, SetRemainder
  PROVE  FrameInv'
<1>1. /\ pc = "remainder" /\ remainder' = Remainder(WidthsNow)
      /\ UNCHANGED <<servos, currentServo, clean>> /\ ~clean
      /\ \/ pc' = "off" /\ arg' = arg /\ arg.op = "detach"
         \/ pc' = "idle" /\ arg' = NoArg
  BY DEF FrameInv, ChangeInv, SetRemainder, Goto, Return, ghosts
<1>2. FrameTypes'
  BY <1>1 DEF FrameInv, FrameTypes, NoArg, Arg
<1>3. ChangeInv'
  BY <1>1 DEF FrameInv, ChangeInv, NoArg
<1>4. WidthsInv'
  <2>1. Remainder(WidthsNow)' = Remainder(WidthsNow)
    BY <1>1 DEF Remainder, WidthsNow
  <2>2. Configured
    BY <1>1 DEF Configured
  <2> QED
    BY <1>1, <2>1, <2>2 DEF FrameInv, WidthsInv
<1>5. ElapsedInv'
  BY <1>1 DEF ElapsedInv
<1> QED
  BY <1>2, <1>3, <1>4, <1>5 DEF FrameInv

\* The object of a call keeps its slot while the call runs.
LEMMA SlotKept ==
  ASSUME SlotInv, [Next]_vars
  PROVE  SlotInv'
<1>1. ASSUME NEW o \in Objects, Call(o)
      PROVE  SlotInv'
  <2>1. CASE New(o)
    BY <2>1 DEF New, SlotInv, running
  <2>2. ASSUME NEW p \in Pins, Attach(o, p)
        PROVE  SlotInv'
    BY <2>2 DEF Attach, Enter, slots, SlotInv, Slot
  <2>3. ASSUME Attached(o), index' = index, self' = o
        PROVE  SlotInv'
    BY <2>3 DEF Attached, SlotInv, Slot
  <2>4. CASE Detach(o)
    BY <2>3, <2>4 DEF Detach, Enter, slots
  <2>5. ASSUME NEW w \in Widths, Write(o, w)
        PROVE  SlotInv'
    BY <2>3, <2>5 DEF Write, Enter, slots
  <2> QED
    BY <1>1, <2>1, <2>2, <2>4, <2>5 DEF Call
<1>2. CASE Step
  <2>1. pc # "idle" /\ UNCHANGED <<index, self>>
    BY <1>2 DEF Step, InitServo, InitFails, SetPin, PinLow, Enable, Disable, SetWidth, SetRemainder,
                SwitchOff, Count, Goto, Return, slots
  <2> QED
    BY <2>1 DEF SlotInv, Slot
<1>3. CASE ServoIntHandler \/ UNCHANGED vars
  BY <1>3 DEF ServoIntHandler, vars, slots, running, SlotInv, Slot
<1> QED
  BY <1>1, <1>2, <1>3 DEF Next

\* The other statements of the calls.
LEMMA FrameStep ==
  ASSUME FrameInv, SlotInv, InitFails \/ SetPin \/ PinLow \/ Enable \/ Disable \/ SwitchOff \/ Count
  PROVE  FrameInv'
<1>1. UNCHANGED <<remainder, currentServo, frame, clean>> /\ pc # "remainder"
  BY DEF InitFails, SetPin, PinLow, Enable, Disable, SwitchOff, Count, slots, ghosts
<1>2. /\ servos' \in [Slots -> [pin : Pins \cup {NoPin}, width : Nat, enabled : BOOLEAN]]
      /\ \A s \in Slots : servos'[s].width = servos[s].width
  <2>1. CASE servos' = servos
    BY <2>1 DEF FrameInv, FrameTypes
  <2>2. CASE servos' = [servos EXCEPT ![Slot].pin = arg.pin]
    BY <2>2 DEF FrameInv, FrameTypes, Arg
  <2>3. CASE servos' = [servos EXCEPT ![Slot].enabled = TRUE]
    BY <2>3 DEF FrameInv, FrameTypes
  <2>4. CASE servos' = [servos EXCEPT ![Slot].enabled = FALSE]
    BY <2>4 DEF FrameInv, FrameTypes
  <2> QED
    BY <2>1, <2>2, <2>3, <2>4
    DEF InitFails, SetPin, PinLow, Enable, Disable, SwitchOff, Count, slots
<1>3. /\ arg' = arg \/ arg' = NoArg
      /\ pc' \in {"disable", "width", "remainder", "off", "count"} =>
           pc \in {"disable", "off"} /\ pc' \in {"width", "count"} /\ arg' = arg
      /\ pc' = "width" => pc = "disable"
      /\ pc \in {"disable", "off", "count"} => arg.op \in {"write", "detach"}
  BY DEF InitFails, SetPin, PinLow, Enable, Disable, SwitchOff, Count, Goto, Return, FrameInv, ChangeInv
<1>4. FrameTypes'
  BY <1>1, <1>2, <1>3 DEF FrameInv, FrameTypes, NoArg, Arg
<1>5. ChangeInv'
  BY <1>1, <1>3 DEF FrameInv, ChangeInv, NoArg
<1>6. Configured' => Configured
  <2>1. CASE pc = "init"
    <3>1. InitFails
      BY <2>1 DEF SetPin, PinLow, Enable, Disable, SwitchOff, Count
    <3> QED
      BY <3>1 DEF InitFails, Return, slots, module, Configured
  <2>2. CASE pc # "init"
    <3>1. pc # "idle"
      BY DEF InitFails, SetPin, PinLow, Enable, Disable, SwitchOff, Count
    <3> QED
      BY <2>2, <3>1 DEF Configured
  <2> QED
    BY <2>1, <2>2
<1>7. clean' => clean /\ Configured'
  <2> SUFFICES ASSUME clean
               PROVE  Configured'
    BY <1>1
  <2>1. pc \notin {"disable", "off", "count"} /\ Configured
    BY <1>3 DEF FrameInv, ChangeInv, ElapsedInv
  <2>2. CASE InitFails
    BY <2>1, <2>2 DEF InitFails, Return, slots, module, Configured
  <2>3. CASE SetPin \/ PinLow
    BY <2>3 DEF SetPin, PinLow, Goto, Configured
  <2>4. CASE Enable
    <3>1. Slot \in Slots /\ servos' = [servos EXCEPT ![Slot].enabled = TRUE]
      BY <2>4 DEF Enable, SlotInv
    <3>2. servos'[Slot].enabled
      BY <3>1 DEF FrameInv, FrameTypes
    <3> QED
      BY <3>1, <3>2 DEF Configured
  <2> QED
    BY <2>1, <2>2, <2>3, <2>4 DEF Disable, SwitchOff, Count
<1> QED
  BY <1>1, <1>2, <1>4, <1>5, <1>6, <1>7, FrameKept

\* The interrupt adds the interval it starts.
LEMMA FrameHandler ==
  ASSUME FrameInv, Fits, ServoIntHandler
  PROVE  FrameInv'
<1>1. /\ servoInitialized /\ UNCHANGED <<servos, remainder, servoInitialized, pc, self, arg>>
      /\ currentServo' = NextServo
      /\ IF currentServo = 0
         THEN frame' = Reload /\ clean' = (arg.op \notin {"write", "detach"})
         ELSE frame' = frame + Reload /\ clean' = clean
  BY DEF ServoIntHandler, slots, module, running
<1>2. FrameTypes'
  BY <1>1 DEF FrameInv, FrameTypes, NextServo
<1>3. ChangeInv'
  BY <1>1 DEF FrameInv, ChangeInv
<1>4. WidthsNow' = WidthsNow /\ Configured /\ Configured'
  BY <1>1 DEF WidthsNow, Configured
<1>5. WidthsInv'
  BY <1>1, <1>4 DEF FrameInv, WidthsInv, Remainder
<1>6. ASSUME clean'
      PROVE  frame' = Elapsed'
  <2>1. clean' => arg.op \notin {"write", "detach"}
    BY <1>1 DEF FrameInv, ChangeInv
  <2>2. pc # "remainder" /\ remainder = Remainder(WidthsNow) /\ \A s \in Slots : servos[s].width \in Allowed
    BY <1>4, <1>6, <2>1 DEF FrameInv, ChangeInv, WidthsInv
  <2>3. CASE currentServo = 0
    <3>1. 0 \in Slots /\ currentServo < SlotCount
      BY <2>3 DEF Slots
    <3>2. frame' = servos[0].width /\ currentServo' = 1
      BY <1>1, <2>3, <3>1 DEF Reload, NextServo
    <3>3. SumFunctionOnSet(WidthsNow, 0 .. 0) = SumFunctionOnSet(WidthsNow, 0 .. 0 - 1) + servos[0].width
      BY <2>3, <3>1, NextSlot DEF FrameInv
    <3>4. SumFunctionOnSet(WidthsNow, 0 .. 0 - 1) = 0
      <4>1. 0 .. 0 - 1 = {}
        OBVIOUS
      <4> QED
        BY <4>1, SumEmpty
    <3>5. servos[0].width \in Nat
      BY <3>1 DEF FrameInv, FrameTypes
    <3>6. SumFunctionOnSet(WidthsNow, 0 .. 0) = servos[0].width
      BY <3>3, <3>4, <3>5
    <3>7. Elapsed' = SumFunctionOnSet(WidthsNow, 0 .. 1 - 1)
      BY <1>4, <3>2 DEF Elapsed
    <3>8. 1 - 1 = 0
      OBVIOUS
    <3> QED
      BY <3>2, <3>6, <3>7, <3>8
  <2>4. CASE currentServo # 0
    <3>1. clean /\ frame = SumFunctionOnSet(WidthsNow, 0 .. currentServo - 1) /\ frame' = frame + Reload
      BY <1>1, <1>6, <2>4 DEF FrameInv, ElapsedInv, Elapsed
    <3>2. CASE currentServo < SlotCount
      <4>1. currentServo' = currentServo + 1 /\ currentServo' # 0 /\ currentServo' - 1 = currentServo
        BY <1>1, <3>2 DEF NextServo, FrameInv, FrameTypes
      <4>2. Elapsed' = SumFunctionOnSet(WidthsNow, 0 .. currentServo)
        BY <1>4, <4>1 DEF Elapsed
      <4>3. Reload = servos[currentServo].width
        BY <3>2 DEF Reload
      <4> QED
        BY <3>1, <3>2, <4>2, <4>3, NextSlot DEF FrameInv
    <3>3. CASE ~(currentServo < SlotCount)
      <4>1. currentServo = SlotCount /\ currentServo' = 0 /\ 0 .. currentServo - 1 = Slots
        BY <1>1, <3>3 DEF NextServo, FrameInv, FrameTypes, Slots
      <4>2. Elapsed' = Refresh
        BY <4>1 DEF Elapsed
      <4>3. Reload = remainder
        BY <3>3 DEF Reload
      <4>4. /\ remainder = Refresh - SumFunctionOnSet(WidthsNow, Slots)
            /\ SumFunctionOnSet(WidthsNow, Slots) \in Nat
        BY <2>2, PulsesFit DEF FrameInv
      <4> QED
        BY <3>1, <4>1, <4>2, <4>3, <4>4
    <3> QED
      BY <3>2, <3>3
  <2> QED
    BY <2>3, <2>4
<1>7. ElapsedInv'
  BY <1>4, <1>6 DEF ElapsedInv
<1> QED
  BY <1>2, <1>3, <1>5, <1>7 DEF FrameInv

\* A frame in which no width was changed lasts REFRESH_INTERVAL (FrameIsRefresh),
\* whatever the sketch constructs, attaches and writes, and when.
THEOREM FramesLast ==
  ASSUME Fits
  PROVE  Spec => []FrameIsRefresh
<1>1. Init => SlotInv /\ FrameInv
  <2> SUFFICES ASSUME Init
               PROVE  SlotInv /\ FrameInv
    OBVIOUS
  <2>1. servos \in [Slots -> [pin : Pins \cup {NoPin}, width : Nat, enabled : BOOLEAN]]
    BY DEF Init
  <2>2. ~clean /\ ~Configured
    BY DEF Init, Configured
  <2>3. FrameTypes
    BY <2>1 DEF Init, FrameTypes, NoArg, Arg
  <2>4. ChangeInv
    BY DEF Init, ChangeInv
  <2> QED
    BY <2>2, <2>3, <2>4 DEF Init, SlotInv, FrameInv, WidthsInv, ElapsedInv
<1>2. SlotInv /\ FrameInv /\ [Next]_vars => SlotInv' /\ FrameInv'
  <2> SUFFICES ASSUME SlotInv, FrameInv, [Next]_vars
               PROVE  FrameInv'
    BY SlotKept
  <2>1. ASSUME NEW o \in Objects, Call(o)
        PROVE  FrameInv'
    BY <2>1, FrameCall
  <2>2. CASE Step
    BY <2>2, FrameInit, FrameWidth, FrameRemainder, FrameStep DEF Step
  <2>3. CASE ServoIntHandler
    BY <2>3, FrameHandler
  <2>4. CASE UNCHANGED vars
    <3>1. UNCHANGED <<servos, remainder, servoInitialized, currentServo, pc, arg, frame, clean>>
      BY <2>4 DEF vars, slots, module, running, ghosts
    <3>2. WidthsNow' = WidthsNow /\ Configured' = Configured
      BY <3>1 DEF WidthsNow, Configured
    <3> QED
      BY <3>1, <3>2 DEF FrameInv, FrameTypes, ChangeInv, WidthsInv, ElapsedInv, Elapsed, Remainder
  <2> QED
    BY <2>1, <2>2, <2>3, <2>4 DEF Next
<1>3. FrameInv => FrameIsRefresh
  BY DEF FrameInv, ElapsedInv, Elapsed, FrameIsRefresh
<1> QED
  BY <1>1, <1>2, <1>3, PTL DEF Spec

-----------------------------------------------------------------------------
(* The slots of the objects, and the types.                                *)

\* No two objects share a slot when all are constructed before the first
\* attach() (SlotsDistinct); initServo(), which clears the mask of the slots
\* given away, is right only then.
THEOREM SlotsStayDistinct ==
  ASSUME Early
  PROVE  Spec => []SlotsDistinct
<1>1. IInv => SlotsDistinct
  BY DEF IInv, SlotsInv
<1> QED
  BY <1>1, Invariant, PTL

\* What TypeOK says beyond TypeInv, and what it takes: an enabled slot has a pin.
PinInv ==
  /\ \A s \in Slots : servos[s].enabled => servos[s].pin \in Pins
  /\ pc \in {"init", "pin"} => arg.pin \in Pins
  /\ pc \in {"low", "enable"} => servos[Slot].pin \in Pins
  /\ high \subseteq Pins

SumTypes == remainder \in Nat /\ frame \in Nat /\ clean \in BOOLEAN

\* calculatePeriodRemainder() never yields a negative interval.
LEMMA RemainderNat ==
  ASSUME NEW w, DOMAIN w = Slots, \A s \in Slots : w[s] \in Nat
  PROVE  Remainder(w) \in Nat
<1>1. SumFunction(w) \in Nat
  BY SlotsFinite, SumNat DEF SumFunction
<1> HIDE DEF SumFunction
<1> QED
  BY <1>1 DEF Remainder

LEMMA PinInvKept ==
  ASSUME IInv, PinInv, [Next]_vars
  PROVE  PinInv'
<1>1. TypeInv /\ CallInv
  BY DEF IInv
<1>2. ASSUME NEW o \in Objects, Call(o)
      PROVE  PinInv'
  <2>1. CASE New(o) \/ Detach(o) \/ \E w \in Widths : Write(o, w)
    BY <2>1 DEF New, Detach, Write, Enter, slots, running, PinInv
  <2>2. ASSUME NEW p \in Pins, Attach(o, p)
        PROVE  PinInv'
    BY <2>2 DEF Attach, Enter, slots, PinInv
  <2> QED
    BY <1>2, <2>1, <2>2 DEF Call
<1>3. CASE InitServo
  <2>1. /\ \A s \in Slots : ~servos'[s].enabled
        /\ pc = "init" /\ pc' = "pin" /\ arg' = arg /\ high' = high
    BY <1>3 DEF InitServo, Goto
  <2> QED
    BY <2>1 DEF PinInv
<1>4. CASE SetPin
  <2>1. /\ servos' = [servos EXCEPT ![Slot].pin = arg.pin] /\ pc = "pin" /\ pc' = "low"
        /\ high' = high /\ index' = index /\ self' = self
    BY <1>4 DEF SetPin, Goto
  <2>2. Slot \in Slots /\ Slot' = Slot /\ arg.pin \in Pins
    BY <1>1, <2>1 DEF CallInv, PinInv, Slot
  <2>3. \A s \in Slots : /\ servos'[s].enabled = servos[s].enabled
                         /\ servos'[s].pin = IF s = Slot THEN arg.pin ELSE servos[s].pin
    BY <1>1, <2>1, <2>2 DEF TypeInv
  <2> QED
    BY <2>1, <2>2, <2>3 DEF PinInv
<1>5. CASE Enable
  <2>1. /\ servos' = [servos EXCEPT ![Slot].enabled = TRUE] /\ pc = "enable" /\ pc' = "idle"
        /\ high' = high
    BY <1>5 DEF Enable, Return
  <2>2. Slot \in Slots /\ servos[Slot].pin \in Pins
    BY <1>1, <2>1 DEF CallInv, PinInv
  <2>3. \A s \in Slots : /\ s # Slot => servos'[s].enabled = servos[s].enabled
                         /\ servos'[s].pin = servos[s].pin
    BY <1>1, <2>1, <2>2 DEF TypeInv
  <2> QED
    BY <2>1, <2>2, <2>3 DEF PinInv
<1>6. CASE Disable \/ SetWidth
  <2>1. /\ pc' \in {"width", "remainder"} /\ high' = high
        /\ \/ servos' = [servos EXCEPT ![Slot].enabled = FALSE]
           \/ servos' = [servos EXCEPT ![Slot].width = arg.width]
    BY <1>6 DEF Disable, SetWidth, Goto
  <2>2. \A s \in Slots : /\ servos'[s].enabled => servos[s].enabled
                         /\ servos'[s].pin = servos[s].pin
    BY <1>1, <2>1 DEF TypeInv
  <2> QED
    BY <2>1, <2>2 DEF PinInv
<1>7. CASE PinLow
  BY <1>7 DEF PinLow, Goto, slots, PinInv, Slot
<1>8. CASE InitFails \/ SetRemainder \/ SwitchOff \/ Count
  BY <1>8 DEF InitFails, SetRemainder, SwitchOff, Count, Goto, Return, slots, PinInv
<1>9. CASE ServoIntHandler
  BY <1>9 DEF ServoIntHandler, Begun, slots, running, PinInv, Slot
<1>10. CASE UNCHANGED vars
  BY <1>10 DEF vars, slots, running, PinInv, Slot
<1> QED
  BY <1>2, <1>3, <1>4, <1>5, <1>6, <1>7, <1>8, <1>9, <1>10 DEF Next, Step

LEMMA SumTypesKept ==
  ASSUME IInv, SumTypes, [Next]_vars
  PROVE  SumTypes'
<1>1. TypeInv
  BY DEF IInv
<1>2. CASE InitServo
  <2>1. Remainder([s \in Slots |-> DefaultWidth]) \in Nat
    BY RemainderNat
  <2> QED
    BY <1>2, <2>1 DEF InitServo, SumTypes
<1>3. CASE SetRemainder
  <2>1. \A s \in Slots : WidthsNow[s] \in Nat
    BY <1>1 DEF TypeInv, WidthsNow
  <2>2. Remainder(WidthsNow) \in Nat
    BY <2>1, RemainderNat DEF WidthsNow
  <2> QED
    BY <1>3, <2>2 DEF SetRemainder, ghosts, SumTypes
<1>4. CASE ServoIntHandler
  <2>1. Reload \in Nat
    BY <1>1 DEF Reload, TypeInv, SumTypes, Slots
  <2>2. frame' \in Nat
    BY <1>4, <2>1 DEF ServoIntHandler, SumTypes
  <2>3. clean' \in BOOLEAN
    <3>1. (arg.op \notin {"write", "detach"}) \in BOOLEAN
      OBVIOUS
    <3> QED
      BY <1>4, <3>1, Zenon DEF ServoIntHandler, SumTypes
  <2> QED
    BY <1>4, <2>2, <2>3 DEF ServoIntHandler, slots, SumTypes
<1>5. ASSUME remainder' = remainder, frame' = frame, clean' \in {clean, FALSE}
      PROVE  SumTypes'
  BY <1>5 DEF SumTypes
<1>6. CASE \E o \in Objects : Call(o)
  BY <1>5, <1>6 DEF Call, New, Attach, Write, Detach, slots, ghosts
<1>7. CASE UNCHANGED vars
  BY <1>5, <1>7 DEF vars, slots, ghosts
<1>8. CASE InitFails \/ SetPin \/ PinLow \/ Enable \/ Disable \/ SetWidth \/ SwitchOff \/ Count
  BY <1>5, <1>8
  DEF InitFails, SetPin, PinLow, Enable, Disable, SetWidth, SwitchOff, Count, slots, ghosts
<1> QED
  BY <1>2, <1>3, <1>4, <1>6, <1>7, <1>8 DEF Next, Step

\* Every variable keeps its type (TypeOK): no index leaves the slots, the
\* counter does not go below zero, and only pins that were attached are driven.
THEOREM ServoTyped ==
  ASSUME Early
  PROVE  Spec => []TypeOK
<1>1. Init => PinInv /\ SumTypes
  <2> SUFFICES ASSUME Init
               PROVE  PinInv /\ SumTypes
    OBVIOUS
  <2>1. \A s \in Slots : ~servos[s].enabled
    BY DEF Init
  <2> QED
    BY <2>1 DEF Init, PinInv, SumTypes
<1>2. IInv /\ PinInv /\ SumTypes /\ [Next]_vars => PinInv' /\ SumTypes'
  BY PinInvKept, SumTypesKept
<1>3. IInv /\ PinInv /\ SumTypes => TypeOK
  BY DEF IInv, TypeInv, PinInv, SumTypes, TypeOK, Arg
<1> QED
  BY <1>1, <1>2, <1>3, Invariant, PTL DEF Spec
=============================================================================
