----------------------------- MODULE MCPwmPins -----------------------------
(* Instances of PwmPins with timers of two CCRs: each task owns a pin whose *)
(* PWM instance is fixed, one also two pins of the port mapper, the other a *)
(* third.                                                                   *)
EXTENDS PwmPins, TLC

CONSTANTS loopA, loopB, m1, m2, m3, f1, f2

TwoHomes == f1 :> 4 @@ f2 :> 5

TwoOwners == m1 :> loopA @@ m2 :> loopA @@ f2 :> loopA @@ m3 :> loopB @@ f1 :> loopB
=============================================================================
