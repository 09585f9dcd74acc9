------------------------------ MODULE MCServo ------------------------------
(* Instances of Servo with two slots and scaled widths. *)
EXTENDS Servo

CONSTANTS a, b, c, p1, p2, p3, none
=============================================================================
