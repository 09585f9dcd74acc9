----------------------------- MODULE MCSerialTx -----------------------------
(* Instances of SerialTx: one task; tasks that preempt each other; a task   *)
(* and an interrupt handler that runs at the priority of the UART's Hwi.    *)
EXTENDS SerialTx, TLC

CONSTANTS loop, high, handler

PrioOneTask == loop :> 1
PrioPreempt == loop :> 1 @@ high :> 2 @@ handler :> 9
PrioHandler == loop :> 1 @@ handler :> 9
=============================================================================
