---- MODULE MCNecRx ----
(* Instances of NecRx: codes of two bits. *)
EXTENDS NecRx

\* the silence before a repeat
RepeatSpace == {48000}
\* and one whose low 16 bits are a header space
LongSilence == {48000, 65536 + NEC_HEADER_SPACE}
OnTime == {0}
\* a sender's edge delayed by one unit
Delayed == {0, NEC_UNIT}
====
