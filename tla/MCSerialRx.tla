----------------------------- MODULE MCSerialRx -----------------------------
(* Instances of SerialRx: two tasks that read from one port.                *)
EXTENDS SerialRx

CONSTANTS loop, task
=============================================================================
