----------------------------- MODULE MCWireBus -----------------------------
(* Instances of WireBus: two tasks that share one bus, or one task with two *)
(* buses.                                                                   *)
EXTENDS WireBus

CONSTANTS loop, task, wire, wire1, sensor, display
=============================================================================
