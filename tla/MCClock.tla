------------------------------ MODULE MCClock ------------------------------
(* The Clock of either board.  A program is built for one of them: the      *)
(* MSP432P401R, whose tasks switch the source of the tick, or the           *)
(* MSP432P4111, whose tick is made of 32 and 33 counts of the crystal.      *)
EXTENDS MCDelayClock, TickP4111

VARIABLE board

boardVars == <<board, vars, tickVars>>

BoardInit == board \in {"P401R", "P4111"} /\ Init /\ TickInit

\* the observation of the tick ends after MaxTicks
Observed == interrupts = MaxTicks /\ UNCHANGED tickVars

BoardNext ==
  \/ board = "P401R" /\ Next /\ UNCHANGED <<board, tickVars>>
  \/ board = "P4111" /\ (Tick \/ Observed) /\ UNCHANGED <<board, vars>>

BoardSpec ==
  /\ BoardInit
  /\ [][BoardNext]_boardVars
  /\ board = "P401R" => Fairness
=============================================================================
