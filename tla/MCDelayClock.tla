---------------------------- MODULE MCDelayClock ----------------------------
(* Instances of DelayClock: sketches' tasks of one priority, and tasks that *)
(* preempt each other.  The watchdog's period of 250 is scaled down to 4.   *)
EXTENDS DelayClock, TLC

CONSTANTS loopA, loopB

PrioOne == loopA :> 1
PrioEqual == loopA :> 1 @@ loopB :> 1
PrioPreempt == loopA :> 1 @@ loopB :> 2
=============================================================================
