----------------------------- MODULE TickP4111 -----------------------------
(***************************************************************************)
(* The 1 ms tick of the MSP432P4111.  The timer counts a 32768 Hz crystal  *)
(* (ACLK), so a millisecond is 32.768 counts: energiaClockTickFxnP4111()   *)
(* gives the timer a period of 32 or 33 counts for the interrupts to come. *)
(* The timer sets its next threshold before it calls the function, so a    *)
(* period is used one interrupt after it was chosen.                       *)
(***************************************************************************)
EXTENDS Integers

CONSTANT MaxTicks  \* bound: how many interrupts are observed

ASSUME TickAssumption == MaxTicks \in Nat

VARIABLES
  error,      \* what 32 counts per tick leave out, in 1/125 of a count
  period,     \* energiaClockTimer->period, used after the next interrupt
  next,       \* the counts until the next interrupt
  interrupts, \* Clock ticks: one per interrupt of the timer
  aclk,       \* ghost: ACLK counts since reset
  mark        \* ghost: aclk at the last interrupt whose number 125 divides

tickVars == <<error, period, next, interrupts, aclk, mark>>

Carry(e) == e >= 125

TickInit ==
  /\ error = 0
  /\ period = 32 /\ next = 32
  /\ interrupts = 0
  /\ aclk = 0 /\ mark = 0

\* mutant: the carried count is not taken off the error
Tick_KeepsError ==
  /\ interrupts < MaxTicks
  /\ aclk' = aclk + next
  /\ next' = period
  /\ error' = error + 96
  /\ period' = IF Carry(error + 96) THEN 33 ELSE 32
  /\ interrupts' = interrupts + 1
  /\ mark' = IF interrupts' % 125 = 0 THEN aclk' ELSE mark

\* Timer_periodicStub(): the next threshold, then the tick function.
Tick ==
  /\ interrupts < MaxTicks
  /\ aclk' = aclk + next
  /\ next' = period
  /\ error' = IF Carry(error + 96) THEN error + 96 - 125 ELSE error + 96
  /\ period' = IF Carry(error + 96) THEN 33 ELSE 32
  /\ interrupts' = interrupts + 1
  /\ mark' = IF interrupts' % 125 = 0 THEN aclk' ELSE mark

TickSpec == TickInit /\ [][Tick]_tickVars

TickTypeOK ==
  /\ error \in 0 .. 124
  /\ period \in {32, 33} /\ next \in {32, 33}
  /\ interrupts \in Nat /\ aclk \in Nat /\ mark \in Nat

\* The tick count never strays from the crystal: it stays less than three
\* counts (0.1 ms) ahead of it and never falls behind.  A tick is 4096/125 counts.
Accurate ==
  /\ 4096 * interrupts - 125 * aclk >= 0
  /\ 4096 * interrupts - 125 * aclk < 3 * 125

\* 125 interrupts take 125 ms: 4096 counts, once the first round, which starts
\* with periods nobody chose, is over.
RoundIsExact ==
  [][interrupts' % 125 = 0 /\ interrupts > 125 => aclk' - mark = 4096]_tickVars
=============================================================================
