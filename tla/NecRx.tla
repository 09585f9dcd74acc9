------------------------------- MODULE NecRx -------------------------------
(***************************************************************************)
(* The NEC infrared receiver of TinyIRremote: the interrupt handler that   *)
(* decodes the edges of a pin from the time between them, decodeIR() in    *)
(* the sketch, and the pulses that IRsender (or a remote control) sends.   *)
(*                                                                         *)
(* Times are microseconds.  A pin of the MSP432 interrupts on one edge     *)
(* only: the handler flips the edge it waits for and clears the flag, so   *)
(* an edge that comes before the handler has run is not seen.              *)
(* A code is the sequence of its bits; the reduction of an 8-bit address   *)
(* to one byte is left out.                                                *)
(***************************************************************************)
EXTENDS Integers, SequencesExt

CONSTANTS
  NEC_BITS,
  Gaps,        \* the silences before a transmission
  Stretches,   \* by how much an interrupt or a task may delay a sender's edge
  MaxSent,     \* bound: transmissions
  MaxLate,     \* bound: edges that come before the handler of the last one
  MaxCuts,     \* bound: transmissions that break off
  SlowPoll     \* TRUE: a transmission may begin before the sketch has
               \* fetched the last command

ASSUME NecAssumption ==
  /\ NEC_BITS \in Nat \ {0}
  /\ Gaps \subseteq Nat /\ Gaps # {} /\ Stretches \subseteq Nat /\ 0 \in Stretches
  /\ MaxSent \in Nat /\ MaxLate \in Nat /\ MaxCuts \in Nat
  /\ SlowPoll \in BOOLEAN

NEC_UNIT == 560
NEC_HEADER_MARK == 16 * NEC_UNIT
NEC_HEADER_SPACE == 8 * NEC_UNIT
NEC_REPEAT_HEADER_SPACE == 4 * NEC_UNIT
NEC_BIT_MARK == NEC_UNIT
NEC_ONE_SPACE == 3 * NEC_UNIT
NEC_ZERO_SPACE == NEC_UNIT

\* a pulse cut off in its mark
CutMark == 200

VARIABLES
  mode,    \* what initIRReceiver() was given: repeats included, callback
  lvl,     \* the level of the pin: "high" (space) or "low" (mark)
  since,   \* time since LastChangeMicros
  ies,     \* the level after the edge that the pin interrupts on
  ifg,     \* the interrupt flag
  rx,      \* the receiver object
  air,     \* the durations the sender has still to wait, an edge after each
  cur,     \* the transmission: its code (<<>>: a repeat), ghosts: the last
           \* frame's code and what went wrong
  counts,  \* the faults and transmissions so far
  pc, tmp, \* decodeIR(): where the sketch is, what it has read
  got,     \* the last result of decodeIR() or of the callback
  codes,   \* ghost: the codes sent to their last bit
  due      \* ghost: the code that the receiver owes the sketch

sketch == <<pc, tmp>>
line == <<lvl, since, ies, ifg>>
vars == <<mode, line, rx, air, cur, counts, sketch, got, codes, due>>

-----------------------------------------------------------------------------
(* The sender. *)

Bits == [1 .. NEC_BITS -> {0, 1}]

BitSpace(b) == IF b = 1 THEN NEC_ONE_SPACE ELSE NEC_ZERO_SPACE

\* sendNECRaw(): header, a mark and a space for each bit, and the mark that ends
\* the last space
FramePulses(c) ==
  [k \in 1 .. 2 * NEC_BITS + 3 |->
     IF k = 1 THEN NEC_HEADER_MARK
     ELSE IF k = 2 THEN NEC_HEADER_SPACE
     ELSE IF k % 2 = 1 THEN NEC_BIT_MARK
     ELSE BitSpace(c[(k - 2) \div 2])]

\* sendNECRepeat()
RepeatPulses == <<NEC_HEADER_MARK, NEC_REPEAT_HEADER_SPACE, NEC_BIT_MARK>>

Idle == air = <<>>

\* A transmission begins with the silence before it, in which the handler of
\* the last edge has time to run.
Begin(c, pulses, gap) ==
  /\ Idle
  /\ ~ifg
  /\ lvl = "high"
  /\ counts.sent < MaxSent
  /\ SlowPoll \/ (~rx.newCommandAvailable /\ pc = "loop")
  /\ air' = <<gap>> \o pulses
  /\ cur' = [code |-> c, key |-> IF c = <<>> THEN cur.key ELSE c, bad |-> FALSE, late |-> FALSE, lateBefore |-> cur.late]
  /\ counts' = [counts EXCEPT !.sent = @ + 1]
  /\ UNCHANGED <<mode, line, rx, sketch, got, codes, due>>

SendFrame(c, gap) == Begin(c, FramePulses(c), gap)
SendRepeat(gap) == Begin(<<>>, RepeatPulses, gap)

Flip(l) == IF l = "high" THEN "low" ELSE "high"

\* The pin changes its level.  A whole frame, sent as it should be after one
\* that was handled in time, is owed to the sketch.
Edge(stretch) ==
  LET bad == cur.bad \/ stretch # 0
      late == cur.late \/ ifg
      ends(n) == Len(air) = n /\ cur.code # <<>> /\ ~bad
  IN /\ ~Idle
     /\ ifg => counts.late < MaxLate
     /\ lvl' = Flip(lvl)
     /\ since' = since + Head(air) + stretch
     /\ ifg' = (ifg \/ ies = lvl')
     /\ air' = Tail(air)
     /\ cur' = [cur EXCEPT !.late = late, !.bad = bad]
     /\ counts' = [counts EXCEPT !.late = IF ifg THEN @ + 1 ELSE @]
     /\ codes' = IF ends(2) THEN codes \cup {cur.code} ELSE codes
     /\ due' = IF ends(1) /\ ~late /\ ~cur.lateBefore THEN cur.code
               ELSE IF ifg THEN <<>> ELSE due
     /\ UNCHANGED <<mode, ies, rx, sketch, got>>

\* The transmission breaks off after its first edge: a mark ends early, a space never.
Cut ==
  /\ ~Idle
  /\ Head(air) \notin Gaps
  /\ counts.cuts < MaxCuts
  /\ air' = IF lvl = "low" THEN <<CutMark>> ELSE <<>>
  /\ cur' = [cur EXCEPT !.bad = TRUE]
  /\ counts' = [counts EXCEPT !.cuts = @ + 1]
  /\ UNCHANGED <<mode, line, rx, sketch, got, codes, due>>

-----------------------------------------------------------------------------
(* The receiver. *)

lowerValue25Percent(d) == d - d \div 4
upperValue25Percent(d) == d + d \div 4
lowerValue(d) == d - d \div 2
upperValue(d) == d + d \div 2

Near(t, d) == t \in lowerValue25Percent(d) .. upperValue25Percent(d)

\* the states, IR_RECEIVER_STATE_WAITING_FOR_...
States == {"START_MARK", "START_SPACE", "FIRST_DATA_MARK", "DATA_SPACE", "DATA_MARK"}

Goto(r, s) == [r EXCEPT !.state = s]

\* mutant: a long silence does not reset the receiver
StateAt_NoTimeout(r, t) == r.state

\* a silence longer than any space of a code resets the receiver
StateAt(r, t) == IF t > 2 * NEC_HEADER_MARK THEN "START_MARK" ELSE r.state

NewCode(r) == [Goto(r, "DATA_SPACE") EXCEPT !.data = <<>>, !.repeat = FALSE]

NewBit(r, b) == [Goto(r, "DATA_SPACE") EXCEPT !.data = Append(@, b)]

\* mutant: a repeat is accepted after a broken code
RepeatHeader_Any(r, t) == Near(t, NEC_REPEAT_HEADER_SPACE)

RepeatHeader(r, t) == Near(t, NEC_REPEAT_HEADER_SPACE) /\ Len(r.data) >= NEC_BITS

\* a falling edge: a space of t microseconds has ended
Mark(r, t) ==
  LET s == StateAt(r, t)
  IN CASE s = "START_MARK" -> Goto(r, "START_SPACE")
       [] s = "FIRST_DATA_MARK" /\ Near(t, NEC_HEADER_SPACE) -> NewCode(r)
       [] s = "FIRST_DATA_MARK" /\ RepeatHeader(r, t) ->
            [Goto(r, "DATA_SPACE") EXCEPT !.repeat = TRUE]
       [] s = "DATA_MARK" /\ t \in lowerValue(NEC_ZERO_SPACE) .. upperValue(NEC_ONE_SPACE) ->
            NewBit(r, IF t >= 2 * NEC_UNIT THEN 1 ELSE 0)
       [] OTHER -> Goto(r, "START_MARK")

\* a code is complete: registered for decodeIR(), unless there is a callback
Complete(r) ==
  [Goto(r, "START_MARK") EXCEPT
    !.newCommandAvailable = IF mode.callback THEN @ ELSE mode.incRepeats \/ ~r.repeat]

\* a rising edge that ends a good mark of a bit
BitEnds(r, t) ==
  /\ r.state = "DATA_SPACE"
  /\ t \in lowerValue(NEC_BIT_MARK) .. upperValue(NEC_BIT_MARK)

\* mutant: the number of bits is off by one
Completes_Early(r, t) == BitEnds(r, t) /\ (Len(r.data) >= NEC_BITS - 1 \/ r.repeat)

Completes(r, t) == BitEnds(r, t) /\ (Len(r.data) >= NEC_BITS \/ r.repeat)

\* a rising edge: a mark of t microseconds has ended
Space(r, t) ==
  CASE r.state = "START_SPACE" /\ Near(t, NEC_HEADER_MARK) -> Goto(r, "FIRST_DATA_MARK")
    [] Completes(r, t) -> Complete(r)
    [] BitEnds(r, t) /\ ~Completes(r, t) -> Goto(r, "DATA_MARK")
    [] OTHER -> Goto(r, "START_MARK")

\* IRreceiver::interruptHandler(): the time since the last run is kept in 16
\* bits, the level is read now, the edge is flipped.
Interrupt ==
  LET t == since % 65536
      tells == lvl = "high" /\ Completes(rx, t) /\ mode.callback
  IN /\ ifg
     /\ ifg' = FALSE
     /\ ies' = Flip(ies)
     /\ since' = 0
     /\ rx' = IF lvl = "low" THEN Mark(rx, t) ELSE Space(rx, t)
     /\ got' = IF tells THEN <<rx.data, rx.repeat>> ELSE got
     /\ due' = IF tells /\ rx.data = due THEN <<>> ELSE due
     /\ UNCHANGED <<mode, lvl, air, cur, counts, sketch, codes>>

\* decodeIR() of a new command: address, command and repeat flag are copied one
\* after the other, with interrupts enabled
DecodeTest ==
  /\ pc = "loop"
  /\ rx.newCommandAvailable
  /\ pc' = "address"
  /\ UNCHANGED <<mode, line, rx, air, cur, counts, tmp, got, codes, due>>

DecodeAddress ==
  /\ pc = "address"
  /\ tmp' = <<rx.data>>
  /\ pc' = "command"
  /\ UNCHANGED <<mode, line, rx, air, cur, counts, got, codes, due>>

\* The bits of the address from one reading of IRRawData and the others from a
\* second; those that have not come are 0.
Joined(a, c) ==
  [i \in 1 .. NEC_BITS |->
     LET d == IF i <= NEC_BITS \div 2 THEN a ELSE c
     IN IF i <= Len(d) THEN d[i] ELSE 0]

DecodeCommand ==
  /\ pc = "command"
  /\ tmp' = <<Joined(tmp[1], rx.data)>>
  /\ pc' = "repeat"
  /\ UNCHANGED <<mode, line, rx, air, cur, counts, got, codes, due>>

DecodeRepeat ==
  /\ pc = "repeat"
  /\ tmp' = <<tmp[1], rx.repeat>>
  /\ pc' = "clear"
  /\ UNCHANGED <<mode, line, rx, air, cur, counts, got, codes, due>>

\* newCommandAvailable = FALSE, and decodeIR() returns
DecodeClear ==
  /\ pc = "clear"
  /\ rx' = [rx EXCEPT !.newCommandAvailable = FALSE]
  /\ got' = tmp
  /\ due' = IF tmp[1] = due THEN <<>> ELSE due
  /\ pc' = "loop"
  /\ tmp' = <<>>
  /\ UNCHANGED <<mode, line, air, cur, counts, codes>>

Decode == DecodeTest \/ DecodeAddress \/ DecodeCommand \/ DecodeRepeat \/ DecodeClear

-----------------------------------------------------------------------------
Init ==
  /\ mode \in [incRepeats : BOOLEAN, callback : BOOLEAN]
  /\ lvl = "high"
  /\ since = 0
  /\ ies = "low"
  /\ ifg = FALSE
  /\ rx = [state |-> "START_MARK", data |-> <<>>, repeat |-> FALSE,
           newCommandAvailable |-> FALSE]
  /\ air = <<>>
  /\ cur = [code |-> <<>>, key |-> <<>>, bad |-> FALSE, late |-> FALSE, lateBefore |-> FALSE]
  /\ counts = [sent |-> 0, late |-> 0, cuts |-> 0]
  /\ pc = "loop"
  /\ tmp = <<>>
  /\ got = <<>>
  /\ codes = {}
  /\ due = <<>>

Next ==
  \/ \E gap \in Gaps : SendRepeat(gap) \/ \E c \in Bits : SendFrame(c, gap)
  \/ \E stretch \in Stretches : Edge(stretch)
  \/ Cut
  \/ Interrupt
  \/ Decode

Spec == Init /\ [][Next]_vars

-----------------------------------------------------------------------------
(* Properties. *)

\* Types, and: the receiver never holds more than NEC_BITS bits, and takes a
\* repeat only when it holds them all.
TypeOK ==
  /\ mode \in [incRepeats : BOOLEAN, callback : BOOLEAN]
  /\ lvl \in {"high", "low"} /\ ies \in {"high", "low"} /\ ifg \in BOOLEAN
  /\ since \in Nat
  /\ rx.state \in States
  /\ rx.data \in BoundedSeq({0, 1}, NEC_BITS)
  /\ rx.repeat => Len(rx.data) = NEC_BITS
  /\ rx.repeat \in BOOLEAN /\ rx.newCommandAvailable \in BOOLEAN
  /\ Len(air) <= 2 * NEC_BITS + 4
  /\ cur.code \in {<<>>} \cup Bits
  /\ counts \in [sent : 0 .. MaxSent, late : 0 .. MaxLate, cuts : 0 .. MaxCuts]
  /\ pc \in {"loop", "address", "command", "repeat", "clear"}
  /\ codes \subseteq Bits
  /\ due \in {<<>>} \cup Bits

\* What decodeIR() or the callback gives the sketch is the code of a frame
\* that was sent to its last bit: never a part of one, never one put together from
\* two, whatever edges are missed and whatever transmissions break off
\* (interruptHandler(), decodeIR()).
DecodedWasSent == got # <<>> => got[1] \in codes

\* What is reported as a repeat repeats the frame that was sent last
\* (IRRawDataBitCounter in interruptHandler()).
RepeatsTheLast == [][got' # got /\ got'[2] => got'[1] = cur.key]_vars

\* A frame sent whole, all its edges handled in time and those of the
\* transmission before it too, reaches the sketch: an earlier transmission
\* that broke off, or an edge missed two transmissions ago, does not keep the
\* receiver from it (the reset of the state in interruptHandler()).
FrameReceived ==
  due # <<>> /\ ~ifg =>
    /\ rx.newCommandAvailable
    /\ rx.data = due
    /\ ~rx.repeat

=============================================================================
