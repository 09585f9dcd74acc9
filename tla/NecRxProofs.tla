---------------------------- MODULE NecRxProofs ----------------------------
(***************************************************************************)
(* Proofs about NecRx for codes of every length, any number of             *)
(* transmissions and of transmissions that break off.                      *)
(*                                                                         *)
(* The receiver keeps no record of where in a transmission it is: it has   *)
(* the time since its handler ran last and the level now.  The invariant   *)
(* relates them to the edge at which the handler ran last (q) and the      *)
(* edges that have come since (up to j): the sum of the pulses between     *)
(* tells them apart, unless more than one edge comes before the handler.   *)
(***************************************************************************)
EXTENDS NecRx, SequenceTheorems, TLAPS

\* No second edge comes before the handler of the last one.
Prompt == ifg /\ lvl # ies => lvl' = lvl

\* The most silence that leaves room in 16 bits for the two pulses that may be
\* counted with it.
MaxGap == 65535 - NEC_HEADER_MARK - NEC_HEADER_SPACE

\* The sender keeps its times, the sketch polls before the next transmission, and a
\* silence is longer than the timeout in the 16 bits that are kept of it.
Clear ==
  /\ Stretches = {0}
  /\ ~SlowPoll
  /\ \A gap \in Gaps : 2 * NEC_HEADER_MARK < gap % 65536 /\ gap % 65536 <= MaxGap

(***************************************************************************)
(* The pulses.                                                             *)
(***************************************************************************)
Codes == {<<>>} \cup Bits

Pulses(c) == IF c = <<>> THEN RepeatPulses ELSE FramePulses(c)

\* The edges of a transmission: the silence before it ends with the first.
EdgesOf(c) == IF c = <<>> THEN 4 ELSE 2 * NEC_BITS + 4

LEMMA Micros ==
  /\ NEC_HEADER_MARK = 8960 /\ NEC_HEADER_SPACE = 4480 /\ NEC_REPEAT_HEADER_SPACE = 2240
  /\ NEC_BIT_MARK = 560 /\ NEC_ONE_SPACE = 1680 /\ NEC_ZERO_SPACE = 560 /\ NEC_UNIT = 560
  /\ CutMark = 200 /\ MaxGap = 52095
  BY DEF NEC_HEADER_MARK, NEC_HEADER_SPACE, NEC_REPEAT_HEADER_SPACE, NEC_BIT_MARK,
         NEC_ONE_SPACE, NEC_ZERO_SPACE, NEC_UNIT, CutMark, MaxGap

\* What the handler takes a time for.
LEMMA Ranges ==
  ASSUME NEW t \in Nat
  PROVE  /\ Near(t, NEC_HEADER_MARK) <=> t >= 6720 /\ t <= 11200
         /\ Near(t, NEC_HEADER_SPACE) <=> t >= 3360 /\ t <= 5600
         /\ Near(t, NEC_REPEAT_HEADER_SPACE) <=> t >= 1680 /\ t <= 2800
         /\ t \in lowerValue(NEC_BIT_MARK) .. upperValue(NEC_BIT_MARK) <=> t >= 280 /\ t <= 840
         /\ t \in lowerValue(NEC_ZERO_SPACE) .. upperValue(NEC_ONE_SPACE) <=> t >= 280 /\ t <= 2520
<1>1. /\ 8960 \div 4 = 2240 /\ 4480 \div 4 = 1120 /\ 2240 \div 4 = 560
      /\ 560 \div 2 = 280 /\ 1680 \div 2 = 840
  OBVIOUS
<1> QED BY <1>1, Micros DEF Near, lowerValue25Percent, upperValue25Percent, lowerValue, upperValue

LEMMA BitsAreCodes ==
  ASSUME NEW c \in Bits
  PROVE  c # <<>> /\ c \in Seq({0, 1}) /\ Len(c) = NEC_BITS
<1>1. NEC_BITS \in Nat /\ NEC_BITS >= 1
  BY NecAssumption
<1>2. c \in Seq({0, 1}) /\ Len(c) = NEC_BITS
  BY <1>1 DEF Bits
<1> QED BY <1>1, <1>2

\* A frame: header, a mark before each space of a bit, a last mark.
LEMMA FrameIs ==
  ASSUME NEW c \in Bits
  PROVE  /\ FramePulses(c) \in Seq(Nat) /\ Len(FramePulses(c)) = 2 * NEC_BITS + 3
         /\ FramePulses(c)[1] = NEC_HEADER_MARK /\ FramePulses(c)[2] = NEC_HEADER_SPACE
         /\ \A k \in 3 .. 2 * NEC_BITS + 3 :
              FramePulses(c)[k] = IF k % 2 = 1 THEN NEC_BIT_MARK ELSE BitSpace(c[(k - 2) \div 2])
<1> DEFINE n == 2 * NEC_BITS + 3
           P(k) == IF k = 1 THEN NEC_HEADER_MARK
                   ELSE IF k = 2 THEN NEC_HEADER_SPACE
                   ELSE IF k % 2 = 1 THEN NEC_BIT_MARK
                   ELSE BitSpace(c[(k - 2) \div 2])
<1>1. n \in Nat /\ n >= 5
  BY NecAssumption
<1>2. FramePulses(c) = [k \in 1 .. n |-> P(k)]
  BY DEF FramePulses
<1>3. \A k \in 1 .. n : P(k) \in Nat
  BY Micros DEF BitSpace
<1> HIDE DEF n, P
<1>4. FramePulses(c) \in [1 .. n -> Nat]
  BY <1>2, <1>3
<1>5. FramePulses(c) \in Seq(Nat) /\ Len(FramePulses(c)) = n
  BY <1>1, <1>4
<1>6. \A k \in 1 .. n : FramePulses(c)[k] = P(k)
  BY <1>2
<1>7. P(1) = NEC_HEADER_MARK /\ P(2) = NEC_HEADER_SPACE
  BY DEF P
<1>8. \A k \in 3 .. n : P(k) = IF k % 2 = 1 THEN NEC_BIT_MARK ELSE BitSpace(c[(k - 2) \div 2])
  BY DEF P
<1> QED BY <1>1, <1>5, <1>6, <1>7, <1>8 DEF n

\* The pulses of any transmission: how long they are, and which.
LEMMA PulsesAre ==
  ASSUME NEW c \in Codes
  PROVE  /\ Pulses(c) \in Seq(Nat) /\ EdgesOf(c) \in Nat /\ EdgesOf(c) >= 4
         /\ Len(Pulses(c)) = EdgesOf(c) - 1
         /\ Pulses(c)[1] = NEC_HEADER_MARK
         /\ Pulses(c)[2] = (IF c = <<>> THEN NEC_REPEAT_HEADER_SPACE ELSE NEC_HEADER_SPACE)
         /\ \A k \in 3 .. EdgesOf(c) - 1 : Pulses(c)[k] \in {NEC_BIT_MARK, NEC_ONE_SPACE}
         /\ \A k \in 3 .. EdgesOf(c) - 1 : k % 2 = 1 => Pulses(c)[k] = NEC_BIT_MARK
<1>1. CASE c = <<>>
  <2>1. RepeatPulses \in Seq(Nat) /\ Len(RepeatPulses) = 3
    BY Micros DEF RepeatPulses
  <2> QED BY <1>1, <2>1, Micros DEF Pulses, RepeatPulses, EdgesOf
<1>2. CASE c # <<>>
  <2>1. c \in Bits /\ Pulses(c) = FramePulses(c) /\ EdgesOf(c) = 2 * NEC_BITS + 4
    BY <1>2 DEF Codes, Pulses, EdgesOf
  <2>2. NEC_BITS \in Nat /\ NEC_BITS >= 1
    BY NecAssumption
  <2>3. \A k \in 3 .. 2 * NEC_BITS + 3 :
          /\ FramePulses(c)[k] \in {NEC_BIT_MARK, NEC_ONE_SPACE}
          /\ k % 2 = 1 => FramePulses(c)[k] = NEC_BIT_MARK
    BY <2>1, FrameIs, Micros DEF BitSpace
  <2> QED BY <1>2, <2>1, <2>2, <2>3, FrameIs
<1> QED BY <1>1, <1>2

\* The space of a bit tells it.
LEMMA SpaceOfBit ==
  ASSUME NEW c \in Bits, NEW i \in 1 .. NEC_BITS
  PROVE  Pulses(c)[2 * i + 2] = BitSpace(c[i])
<1>1. NEC_BITS \in Nat /\ c # <<>>
  BY NecAssumption, BitsAreCodes
<1>2. 2 * i + 2 \in 3 .. 2 * NEC_BITS + 3 /\ (2 * i + 2) % 2 = 0 /\ ((2 * i + 2) - 2) \div 2 = i
  BY <1>1
<1> QED BY <1>1, <1>2, FrameIs DEF Pulses

(***************************************************************************)
(* The invariant.                                                          *)
(***************************************************************************)
Rx == [state : States, data : Seq({0, 1}), repeat : BOOLEAN, newCommandAvailable : BOOLEAN]

Cur == [code : Codes, key : Codes, bad : BOOLEAN, late : BOOLEAN, lateBefore : BOOLEAN]

Types ==
  /\ mode \in [incRepeats : BOOLEAN, callback : BOOLEAN]
  /\ lvl \in {"high", "low"} /\ ies \in {"high", "low"} /\ ifg \in BOOLEAN
  /\ since \in Nat
  /\ rx \in Rx /\ air \in Seq(Nat) /\ cur \in Cur
  /\ counts \in [sent : 0 .. MaxSent, late : 0 .. MaxLate, cuts : 0 .. MaxCuts]
  /\ pc \in {"loop", "address", "command", "repeat", "clear"}
  /\ codes \subseteq Bits
  /\ due \in Codes

Edges == EdgesOf(cur.code)

\* j edges of the transmission have come; the last bit of its code, when the space
\* after it has ended.
Sent(j) ==
  /\ j \in 0 .. Edges - 1
  /\ lvl = (IF j % 2 = 0 THEN "high" ELSE "low")
  /\ ~cur.bad =>
       /\ Len(air) = Edges - j
       /\ \A i \in 1 .. Len(air) : i + j > 1 => air[i] = Pulses(cur.code)[i + j - 1]
       /\ j = 0 => air[1] \in Gaps
  /\ cur.bad => air = <<CutMark>> /\ lvl = "low"
  /\ cur.code # <<>> /\ j >= 2 * NEC_BITS + 3 => cur.code \in codes

\* The handler ran last at edge q (0: before the transmission), which is at most
\* one edge unseen, the one that it has to handle and one that comes too early.
Behind(q, j) ==
  /\ q \in 0 .. j /\ j <= q + 3
  /\ ifg => j >= q + 1
  /\ ~ifg => j <= q + 1
  /\ ies = lvl => j <= q + 2
  /\ ~ifg /\ ies = lvl => j = q

\* The time as the handler would take it.
Heard == since % 65536

\* It ran last before the silence: it would take it for longer than the timeout.
Stale(j) ==
  /\ j = 0 => ~ifg /\ since <= NEC_BIT_MARK
  /\ j > 0 => Heard > 2 * NEC_HEADER_MARK
  /\ j = 1 => IF ifg THEN ies = lvl /\ Heard <= MaxGap + NEC_BIT_MARK
                     ELSE ies # lvl /\ Heard <= MaxGap
  /\ j = 2 => ifg
  /\ j = 2 /\ ies = lvl => Heard <= MaxGap + NEC_HEADER_MARK
  /\ j = 3 => ifg /\ ies # lvl

\* The time since the handler ran at edge q tells which edges came after it.
Since(q, j) ==
  /\ since <= (j - q) * NEC_HEADER_MARK
  /\ q > 2 => since <= (j - q) * NEC_ONE_SPACE
  /\ j = q + 1 => since = Pulses(cur.code)[q]
  /\ q = 1 /\ j = 1 => ies # lvl
  /\ q = 1 /\ j = 2 => ifg
  /\ q = 1 /\ j > 2 /\ cur.code # <<>> => since >= NEC_HEADER_MARK + NEC_HEADER_SPACE
  /\ q = 2 /\ j > 2 /\ cur.code # <<>> => since >= NEC_HEADER_SPACE

Agrees == \A i \in 1 .. Len(rx.data) : rx.data[i] = cur.code[i]

\* The state in which edge q has left the receiver.  It has as many bits as spaces
\* have ended, or fewer when edges were missed.
Entered(q) ==
  /\ rx.state = "START_SPACE" => q # 2
  /\ rx.state = "FIRST_DATA_MARK" => q = 2
  /\ rx.state = "DATA_SPACE" /\ rx.repeat => cur.code = <<>> /\ q = 3
  /\ rx.state = "DATA_SPACE" /\ ~rx.repeat =>
       /\ cur.code # <<>> /\ 2 * Len(rx.data) + 3 <= q
       /\ 2 * Len(rx.data) + 3 = q => Agrees
  /\ rx.state = "DATA_MARK" =>
       /\ cur.code # <<>> /\ 2 * Len(rx.data) + 4 <= q
       /\ 2 * Len(rx.data) + 4 = q => Agrees

\* The handler waits for the next edge, or has the last one to handle.
InStep == IF ifg THEN ies = lvl ELSE ies # lvl

Flawless == cur.code # <<>> /\ ~cur.bad /\ ~cur.late /\ ~cur.lateBefore

\* Every edge so far was handled before the next: the state is the one for edge q.
Follows(q, j) ==
  /\ InStep
  /\ j = IF ifg THEN q + 1 ELSE q
  /\ q = 1 => rx.state = "START_SPACE"
  /\ q = 2 => rx.state = "FIRST_DATA_MARK"
  /\ q > 2 /\ q % 2 = 1 => rx.state = "DATA_SPACE" /\ ~rx.repeat /\ 2 * Len(rx.data) + 3 = q
  /\ q > 2 /\ q % 2 = 0 => rx.state = "DATA_MARK" /\ 2 * Len(rx.data) + 4 = q

OnAir(q, j) ==
  /\ Sent(j) /\ Behind(q, j)
  /\ q = 0 => Stale(j)
  /\ q > 0 => Since(q, j) /\ Entered(q)
  /\ ~cur.late /\ (j > 1 \/ ~cur.lateBefore) => InStep
  /\ Flawless => Follows(q, j)

\* Between transmissions.
Silent ==
  /\ lvl = "high"
  /\ ~ifg => since <= NEC_BIT_MARK
  /\ ~cur.late => InStep

\* A code that the sketch has not got yet is complete, or lacks the handling of
\* its last edge.
Owed ==
  IF ifg THEN /\ air = <<>> /\ since = NEC_BIT_MARK
              /\ rx.state = "DATA_SPACE" /\ ~rx.repeat /\ rx.data = due /\ Len(due) = NEC_BITS
         ELSE rx.newCommandAvailable /\ ~rx.repeat /\ rx.data = due

\* Bits that are all there are a code that was sent.
Holds ==
  /\ Len(rx.data) <= NEC_BITS
  /\ rx.repeat => Len(rx.data) = NEC_BITS
  /\ rx.state = "DATA_MARK" => ~rx.repeat /\ Len(rx.data) < NEC_BITS
  /\ Len(rx.data) = NEC_BITS => rx.data \in codes

Told ==
  /\ got # <<>> => got[1] \in codes
  /\ pc # "loop" => rx.newCommandAvailable
  /\ pc \in {"command", "repeat"} => tmp = <<rx.data>>
  /\ pc = "clear" => tmp = <<rx.data, rx.repeat>>
  /\ rx.newCommandAvailable => air = <<>> /\ ~ifg /\ Len(rx.data) = NEC_BITS
  /\ due # <<>> => Owed

\* An edge that the pin waits for sets the flag.
Clocked == ~ifg /\ ies = lvl => since = 0

IInv ==
  /\ Types /\ Clocked /\ Holds /\ Told
  /\ air = <<>> => Silent
  /\ air # <<>> => \E q, j \in Nat : OnAir(q, j)

(***************************************************************************)
(* The receiver.                                                           *)
(***************************************************************************)

LEMMA Length == NEC_BITS \in Nat /\ NEC_BITS >= 1
  BY NecAssumption

\* What the handler does with the space before a falling edge.
StartsMark(r, s, t) ==
  /\ r.state = "START_SPACE" /\ r.data = s.data /\ r.repeat = s.repeat
  /\ s.state = "START_MARK" \/ t > 17920

StartsCode(r, s, t) ==
  /\ r.state = "DATA_SPACE" /\ r.data = <<>> /\ ~r.repeat
  /\ s.state = "FIRST_DATA_MARK" /\ t >= 3360 /\ t <= 5600

StartsRepeat(r, s, t) ==
  /\ r.state = "DATA_SPACE" /\ r.data = s.data /\ r.repeat
  /\ s.state = "FIRST_DATA_MARK" /\ t >= 1680 /\ t <= 2800 /\ Len(s.data) >= NEC_BITS

TakesBit(r, s, t) ==
  /\ r.state = "DATA_SPACE" /\ r.data = Append(s.data, IF t >= 1120 THEN 1 ELSE 0)
  /\ r.repeat = s.repeat
  /\ s.state = "DATA_MARK" /\ t >= 280 /\ t <= 2520

RefusesSpace(r, s, t) ==
  /\ r.state = "START_MARK" /\ r.data = s.data /\ r.repeat = s.repeat
  /\ s.state # "START_MARK" /\ t <= 17920
  /\ ~(s.state = "FIRST_DATA_MARK" /\ t >= 3360 /\ t <= 5600)
  /\ ~(s.state = "DATA_MARK" /\ t >= 280 /\ t <= 2520)

LEMMA MarkOutcomes ==
  ASSUME NEW s \in Rx, NEW t \in Nat
  PROVE  /\ Mark(s, t) \in Rx
         /\ Mark(s, t).newCommandAvailable = s.newCommandAvailable
         /\ \/ StartsMark(Mark(s, t), s, t) \/ StartsCode(Mark(s, t), s, t)
            \/ StartsRepeat(Mark(s, t), s, t) \/ TakesBit(Mark(s, t), s, t)
            \/ RefusesSpace(Mark(s, t), s, t)
<1> DEFINE a == StateAt(s, t) = "START_MARK"
           b == StateAt(s, t) = "FIRST_DATA_MARK" /\ Near(t, NEC_HEADER_SPACE)
           c == StateAt(s, t) = "FIRST_DATA_MARK" /\ RepeatHeader(s, t)
           d == /\ StateAt(s, t) = "DATA_MARK"
                /\ t \in lowerValue(NEC_ZERO_SPACE) .. upperValue(NEC_ONE_SPACE)
           bit == IF t >= 2 * NEC_UNIT THEN 1 ELSE 0
           isRepeat == [Goto(s, "DATA_SPACE") EXCEPT !.repeat = TRUE]
           m == Mark(s, t)
<1>1. m = CASE a -> Goto(s, "START_SPACE") [] b -> NewCode(s) [] c -> isRepeat
            [] d -> NewBit(s, bit) [] OTHER -> Goto(s, "START_MARK")
  BY Zenon DEF Mark
<1>2. a <=> (s.state = "START_MARK" \/ t > 17920)
  BY Micros DEF StateAt, Rx, States
<1>3. b <=> (s.state = "FIRST_DATA_MARK" /\ t >= 3360 /\ t <= 5600)
  <2>1. t > 17920 => ~(t <= 5600)
    OBVIOUS
  <2> QED BY <2>1, Micros, Ranges DEF StateAt, Rx, States
<1>4. c <=> /\ s.state = "FIRST_DATA_MARK" /\ t >= 1680 /\ t <= 2800
            /\ Len(s.data) >= NEC_BITS
  <2>1. t > 17920 => ~(t <= 2800)
    OBVIOUS
  <2> QED BY <2>1, Micros, Ranges DEF StateAt, RepeatHeader, Rx, States
<1>5. d <=> (s.state = "DATA_MARK" /\ t >= 280 /\ t <= 2520)
  <2>1. t > 17920 => ~(t <= 2520)
    OBVIOUS
  <2> QED BY <2>1, Micros, Ranges DEF StateAt, Rx, States
<1>6. /\ a => ~b /\ ~c /\ ~d
      /\ b => ~c /\ ~d
      /\ c => ~d
  <2>1. a => ~b /\ ~c /\ ~d
    OBVIOUS
  <2>2. b => ~c /\ ~d
    BY <1>3, <1>4
  <2>3. c => ~d
    OBVIOUS
  <2> QED BY <2>1, <2>2, <2>3
<1> HIDE DEF a, b, c, d, isRepeat, m
<1>7. CASE a
  <2>1. m = Goto(s, "START_SPACE")
    BY <1>1, <1>6, <1>7, Zenon
  <2>2. m \in Rx /\ m.newCommandAvailable = s.newCommandAvailable
    BY <2>1 DEF Goto, Rx, States
  <2>3. StartsMark(m, s, t)
    BY <1>2, <1>7, <2>1 DEF Goto, Rx, StartsMark
  <2> QED BY <2>2, <2>3 DEF m
<1>8. CASE b
  <2>1. m = NewCode(s)
    BY <1>1, <1>6, <1>8, Zenon
  <2>2. m = [state |-> "DATA_SPACE", data |-> <<>>, repeat |-> FALSE,
             newCommandAvailable |-> s.newCommandAvailable]
    BY <2>1 DEF NewCode, Goto, Rx
  <2>3. <<>> \in Seq({0, 1})
    OBVIOUS
  <2>4. m \in Rx /\ m.newCommandAvailable = s.newCommandAvailable
    BY <2>2, <2>3 DEF Rx, States
  <2>5. StartsCode(m, s, t)
    BY <1>3, <1>8, <2>2 DEF StartsCode
  <2> QED BY <2>4, <2>5 DEF m
<1>9. CASE c
  <2>1. m = isRepeat
    BY <1>1, <1>6, <1>9, Zenon
  <2>2. m \in Rx /\ m.newCommandAvailable = s.newCommandAvailable
    BY <2>1 DEF isRepeat, Goto, Rx, States
  <2>3. StartsRepeat(m, s, t)
    BY <1>4, <1>9, <2>1 DEF isRepeat, Goto, Rx, StartsRepeat
  <2> QED BY <2>2, <2>3 DEF m
<1>10. CASE d
  <2>1. m = NewBit(s, bit)
    BY <1>1, <1>6, <1>10, Zenon
  <2>2. bit \in {0, 1} /\ bit = IF t >= 1120 THEN 1 ELSE 0
    BY Micros
  <2> HIDE DEF bit
  <2>3. m = [state |-> "DATA_SPACE", data |-> Append(s.data, bit), repeat |-> s.repeat,
             newCommandAvailable |-> s.newCommandAvailable]
    BY <2>1 DEF NewBit, Goto, Rx
  <2>4. s.data \in Seq({0, 1}) => Append(s.data, bit) \in Seq({0, 1})
    BY <2>2
  <2>5. m \in Rx /\ m.newCommandAvailable = s.newCommandAvailable
    BY <2>3, <2>4 DEF Rx, States
  <2>6. TakesBit(m, s, t)
    BY <1>5, <1>10, <2>2, <2>3 DEF TakesBit
  <2> QED BY <2>5, <2>6 DEF m
<1>11. CASE ~a /\ ~b /\ ~c /\ ~d
  <2>1. m = Goto(s, "START_MARK")
    BY <1>1, <1>11, Zenon
  <2>2. m \in Rx /\ m.newCommandAvailable = s.newCommandAvailable
    BY <2>1 DEF Goto, Rx, States
  <2>3. RefusesSpace(m, s, t)
    BY <1>2, <1>3, <1>5, <1>11, <2>1 DEF Goto, Rx, RefusesSpace
  <2> QED BY <2>2, <2>3 DEF m
<1> QED BY <1>7, <1>8, <1>9, <1>10, <1>11

\* What the handler does with the mark before a rising edge.
EndsHeader(r, s, t) ==
  /\ r.state = "FIRST_DATA_MARK" /\ r.newCommandAvailable = s.newCommandAvailable
  /\ s.state = "START_SPACE" /\ t >= 6720 /\ t <= 11200

EndsCode(r, s, t) ==
  /\ r.state = "START_MARK"
  /\ ~mode.callback /\ ~s.repeat => r.newCommandAvailable
  /\ s.state = "DATA_SPACE" /\ t >= 280 /\ t <= 840
  /\ Len(s.data) >= NEC_BITS \/ s.repeat

EndsBit(r, s, t) ==
  /\ r.state = "DATA_MARK" /\ r.newCommandAvailable = s.newCommandAvailable
  /\ s.state = "DATA_SPACE" /\ t >= 280 /\ t <= 840
  /\ ~(Len(s.data) >= NEC_BITS) /\ ~s.repeat

RefusesMark(r, s, t) ==
  /\ r.state = "START_MARK" /\ r.newCommandAvailable = s.newCommandAvailable
  /\ ~(s.state = "START_SPACE" /\ t >= 6720 /\ t <= 11200)
  /\ ~(s.state = "DATA_SPACE" /\ t >= 280 /\ t <= 840)

LEMMA CompletesWhen ==
  ASSUME NEW s \in Rx, NEW t \in Nat
  PROVE  /\ BitEnds(s, t) <=> s.state = "DATA_SPACE" /\ t >= 280 /\ t <= 840
         /\ Completes(s, t) <=> /\ s.state = "DATA_SPACE" /\ t >= 280 /\ t <= 840
                                /\ Len(s.data) >= NEC_BITS \/ s.repeat
  BY Ranges DEF Completes, BitEnds

LEMMA SpaceOutcomes ==
  ASSUME NEW s \in Rx, NEW t \in Nat, mode \in [incRepeats : BOOLEAN, callback : BOOLEAN]
  PROVE  /\ Space(s, t) \in Rx
         /\ Space(s, t).data = s.data /\ Space(s, t).repeat = s.repeat
         /\ \/ EndsHeader(Space(s, t), s, t) \/ EndsCode(Space(s, t), s, t)
            \/ EndsBit(Space(s, t), s, t) \/ RefusesMark(Space(s, t), s, t)
<1> DEFINE a == s.state = "START_SPACE" /\ Near(t, NEC_HEADER_MARK)
           b == Completes(s, t)
           c == BitEnds(s, t) /\ ~b
           m == Space(s, t)
<1>1. m = CASE a -> Goto(s, "FIRST_DATA_MARK") [] b -> Complete(s) [] c -> Goto(s, "DATA_MARK")
            [] OTHER -> Goto(s, "START_MARK")
  BY Zenon DEF Space
<1>2. a <=> (s.state = "START_SPACE" /\ t >= 6720 /\ t <= 11200)
  BY Ranges
<1>3. b <=> /\ s.state = "DATA_SPACE" /\ t >= 280 /\ t <= 840
            /\ Len(s.data) >= NEC_BITS \/ s.repeat
  BY CompletesWhen
<1>4. c <=> /\ s.state = "DATA_SPACE" /\ t >= 280 /\ t <= 840
            /\ ~(Len(s.data) >= NEC_BITS) /\ ~s.repeat
  BY <1>3, CompletesWhen
<1>5. (a => ~b /\ ~c) /\ (b => ~c)
  BY <1>2, <1>3, <1>4
<1> HIDE DEF a, b, c, m
<1>6. CASE a
  <2>1. m = Goto(s, "FIRST_DATA_MARK")
    BY <1>1, <1>5, <1>6, Zenon
  <2>2. m \in Rx /\ m.data = s.data /\ m.repeat = s.repeat
    BY <2>1 DEF Goto, Rx, States
  <2>3. EndsHeader(m, s, t)
    BY <1>2, <1>6, <2>1 DEF Goto, Rx, EndsHeader
  <2> QED BY <2>2, <2>3 DEF m
<1>7. CASE b
  <2>1. m = Complete(s)
    BY <1>1, <1>5, <1>7, Zenon
  <2>2. m \in Rx /\ m.data = s.data /\ m.repeat = s.repeat
    BY <2>1 DEF Complete, Goto, Rx, States
  <2>3. EndsCode(m, s, t)
    BY <1>3, <1>7, <2>1 DEF Complete, Goto, Rx, EndsCode
  <2> QED BY <2>2, <2>3 DEF m
<1>8. CASE c
  <2>1. m = Goto(s, "DATA_MARK")
    BY <1>1, <1>5, <1>8, Zenon
  <2>2. m \in Rx /\ m.data = s.data /\ m.repeat = s.repeat
    BY <2>1 DEF Goto, Rx, States
  <2>3. EndsBit(m, s, t)
    BY <1>4, <1>8, <2>1 DEF Goto, Rx, EndsBit
  <2> QED BY <2>2, <2>3 DEF m
<1>9. CASE ~a /\ ~b /\ ~c
  <2>1. m = Goto(s, "START_MARK")
    BY <1>1, <1>9, Zenon
  <2>2. m \in Rx /\ m.data = s.data /\ m.repeat = s.repeat
    BY <2>1 DEF Goto, Rx, States
  <2>3. RefusesMark(m, s, t)
    BY <1>2, <1>3, <1>4, <1>9, <2>1 DEF Goto, Rx, RefusesMark
  <2> QED BY <2>2, <2>3 DEF m
<1> QED BY <1>6, <1>7, <1>8, <1>9

(***************************************************************************)
(* The invariant holds in the initial states.                              *)
(***************************************************************************)
LEMMA InitInv == Init => IInv
<1> SUFFICES ASSUME Init PROVE IInv
  OBVIOUS
<1>1. <<>> \in Codes /\ <<>> \in Seq({0, 1}) /\ <<>> \in Seq(Nat)
  BY DEF Codes
<1>2. FALSE \in BOOLEAN /\ "START_MARK" \in States
  BY DEF States
<1>3. rx \in Rx /\ cur \in Cur
  BY <1>1, <1>2 DEF Init, Rx, Cur
<1>4. counts \in [sent : 0 .. MaxSent, late : 0 .. MaxLate, cuts : 0 .. MaxCuts]
  BY NecAssumption DEF Init
<1>5. Types
  BY <1>1, <1>2, <1>3, <1>4 DEF Init, Types
<1>6. Clocked
  BY DEF Init, Clocked
<1>7. rx.data = <<>> /\ ~rx.repeat /\ rx.state = "START_MARK" /\ ~rx.newCommandAvailable
  BY DEF Init
<1>8. Len(rx.data) = 0
  BY <1>7
<1>9. Holds
  BY <1>7, <1>8, Length DEF Holds
<1>10. Told
  BY <1>7 DEF Init, Told
<1>11. Silent
  BY Micros DEF Init, Silent, InStep
<1> QED BY <1>5, <1>6, <1>9, <1>10, <1>11 DEF Init, IInv

(***************************************************************************)
(* A transmission begins.                                                  *)
(***************************************************************************)
\* While one is on the air, the sketch has nothing to fetch and nothing is owed.
LEMMA NothingToFetch ==
  ASSUME IInv, air # <<>>
  PROVE  due = <<>> /\ ~rx.newCommandAvailable /\ pc = "loop"
<1>1. ~rx.newCommandAvailable
  BY DEF IInv, Told
<1>2. pc = "loop"
  BY <1>1 DEF IInv, Told, Types
<1>3. due = <<>>
  BY <1>1 DEF IInv, Told, Owed
<1> QED BY <1>1, <1>2, <1>3

LEMMA BeginKeeps ==
  ASSUME Clear, IInv, NEW c \in Codes, NEW gap \in Gaps, Begin(c, Pulses(c), gap)
  PROVE  IInv'
<1>1. /\ air = <<>> /\ ~ifg /\ lvl = "high" /\ ~rx.newCommandAvailable /\ pc = "loop"
      /\ UNCHANGED <<mode, lvl, since, ies, ifg, rx, pc, tmp, got, codes, due>>
  BY DEF Begin, Idle, Clear, line, sketch
<1>2. due = <<>>
  BY <1>1 DEF IInv, Told, Owed
<1>3. gap \in Nat
  BY NecAssumption
<1>4. /\ Pulses(c) \in Seq(Nat) /\ EdgesOf(c) \in Nat /\ EdgesOf(c) >= 4
      /\ Len(Pulses(c)) = EdgesOf(c) - 1
  BY PulsesAre
<1>5. air' = <<gap>> \o Pulses(c)
  BY DEF Begin
<1>6. air' \in Seq(Nat)
  BY <1>3, <1>4, <1>5
<1>7. Len(air') = EdgesOf(c)
  BY <1>3, <1>4, <1>5
<1>8. air'[1] = gap /\ \A i \in 1 .. Len(air') : i > 1 => air'[i] = Pulses(c)[i - 1]
  BY <1>3, <1>4, <1>5, <1>7
<1>9. cur' = [code |-> c, key |-> IF c = <<>> THEN cur.key ELSE c, bad |-> FALSE,
              late |-> FALSE, lateBefore |-> cur.late]
  BY DEF Begin
<1>10. cur \in Cur
  BY DEF IInv, Types
<1>11. cur' \in Cur
  BY <1>9, <1>10 DEF Cur
<1>12. cur'.code = c /\ ~cur'.bad /\ ~cur'.late /\ cur'.lateBefore = cur.late
  BY <1>9
<1>13. counts' \in [sent : 0 .. MaxSent, late : 0 .. MaxLate, cuts : 0 .. MaxCuts]
  <2>1. counts \in [sent : 0 .. MaxSent, late : 0 .. MaxLate, cuts : 0 .. MaxCuts]
    BY DEF IInv, Types
  <2>2. counts' = [counts EXCEPT !.sent = counts.sent + 1] /\ counts.sent < MaxSent
    BY DEF Begin
  <2>3. MaxSent \in Nat
    BY NecAssumption
  <2>4. counts.sent + 1 \in 0 .. MaxSent
    BY <2>1, <2>2, <2>3
  <2> QED BY <2>1, <2>2, <2>4
<1>14. Types'
  BY <1>1, <1>6, <1>11, <1>13 DEF IInv, Types
<1>15. Clocked' /\ Holds'
  BY <1>1 DEF IInv, Clocked, Holds
<1>16. Told'
  BY <1>1, <1>2 DEF IInv, Told
<1>17. Silent
  BY <1>1 DEF IInv
<1>18. OnAir(0, 0)'
  <2>1. Edges' = EdgesOf(c)
    BY <1>12 DEF Edges
  <2>2. Sent(0)'
    <3>1. 0 \in 0 .. Edges' - 1
      BY <1>4, <2>1
    <3>2. Len(air') = Edges' - 0
      BY <1>4, <1>7, <2>1
    <3>3. \A i \in 1 .. Len(air') : i + 0 > 1 => air'[i] = Pulses(cur'.code)[i + 0 - 1]
      BY <1>8, <1>12
    <3>4. ~(0 >= 2 * NEC_BITS + 3)
      BY Length
    <3>5. lvl' = IF 0 % 2 = 0 THEN "high" ELSE "low"
      BY <1>1
    <3> QED BY <3>1, <3>2, <3>3, <3>4, <3>5, <1>8, <1>12 DEF Sent
  <2>3. Behind(0, 0)'
    BY <1>1 DEF Behind
  <2>4. Stale(0)'
    BY <1>1, <1>17 DEF Stale, Silent
  <2>5. ~cur'.lateBefore => InStep'
    BY <1>1, <1>12, <1>17 DEF Silent, InStep
  <2>6. Flawless' => Follows(0, 0)'
    BY <1>1, <2>5 DEF Flawless, Follows
  <2>7. ~(0 > 0) /\ ~(0 > 1)
    OBVIOUS
  <2> QED BY <2>2, <2>3, <2>4, <2>5, <2>6, <2>7, Zenon DEF OnAir
<1>19. air' # <<>>
  BY <1>4, <1>6, <1>7
<1> QED BY <1>14, <1>15, <1>16, <1>18, <1>19 DEF IInv

(***************************************************************************)
(* The sketch fetches a command.                                           *)
(***************************************************************************)
\* Two readings of the same whole code are that code.
LEMMA JoinedIs ==
  ASSUME NEW d \in Seq({0, 1}), Len(d) = NEC_BITS
  PROVE  Joined(d, d) = d
<1>1. d = [i \in 1 .. NEC_BITS |-> d[i]]
  OBVIOUS
<1>2. Joined(d, d) = [i \in 1 .. NEC_BITS |-> IF i <= Len(d) THEN d[i] ELSE 0]
  BY DEF Joined
<1>3. NEC_BITS \in Nat
  BY NecAssumption
<1> QED BY <1>1, <1>2, <1>3

\* The steps that copy disturb nothing but the copy.
LEMMA CopyKeeps ==
  ASSUME IInv, rx.newCommandAvailable,
         UNCHANGED <<mode, lvl, since, ies, ifg, rx, air, cur, counts, got, codes, due>>,
         pc' \in {"address", "command", "repeat", "clear"},
         pc' \in {"command", "repeat"} => tmp' = <<rx.data>>,
         pc' = "clear" => tmp' = <<rx.data, rx.repeat>>
  PROVE  IInv'
<1>2. air = <<>>
  BY DEF IInv, Told
<1>3. Types'
  BY DEF IInv, Types
<1>4. Clocked' /\ Holds' /\ Silent'
  BY <1>2 DEF IInv, Clocked, Holds, Silent, InStep
<1>5. Told'
  BY DEF IInv, Told, Owed
<1> QED BY <1>2, <1>3, <1>4, <1>5 DEF IInv

LEMMA DecodeReadKeeps ==
  ASSUME IInv, DecodeTest \/ DecodeAddress \/ DecodeCommand \/ DecodeRepeat
  PROVE  IInv'
<1>1. CASE DecodeTest
  BY <1>1, CopyKeeps DEF DecodeTest, line
<1>2. CASE DecodeAddress
  <2>1. rx.newCommandAvailable
    BY <1>2 DEF DecodeAddress, IInv, Told
  <2> QED BY <1>2, <2>1, CopyKeeps DEF DecodeAddress, line
<1>3. CASE DecodeCommand
  <2>1. rx.newCommandAvailable /\ tmp = <<rx.data>> /\ Len(rx.data) = NEC_BITS
    BY <1>3 DEF DecodeCommand, IInv, Told
  <2>2. rx.data \in Seq({0, 1})
    BY DEF IInv, Types, Rx
  <2>3. tmp' = <<rx.data>>
    BY <1>3, <2>1, <2>2, JoinedIs DEF DecodeCommand
  <2> QED BY <1>3, <2>1, <2>3, CopyKeeps DEF DecodeCommand, line
<1>4. CASE DecodeRepeat
  <2>1. rx.newCommandAvailable /\ tmp = <<rx.data>>
    BY <1>4 DEF DecodeRepeat, IInv, Told
  <2>2. tmp' = <<rx.data, rx.repeat>>
    BY <1>4, <2>1 DEF DecodeRepeat
  <2> QED BY <1>4, <2>1, <2>2, CopyKeeps DEF DecodeRepeat, line
<1> QED BY <1>1, <1>2, <1>3, <1>4

LEMMA DecodeClearKeeps ==
  ASSUME IInv, DecodeClear
  PROVE  IInv'
<1>1. /\ pc = "clear" /\ pc' = "loop" /\ got' = tmp
      /\ rx' = [rx EXCEPT !.newCommandAvailable = FALSE]
      /\ due' = IF tmp[1] = due THEN <<>> ELSE due
      /\ UNCHANGED <<mode, lvl, since, ies, ifg, air, cur, counts, codes>>
  BY DEF DecodeClear, line
<1>2. rx.newCommandAvailable /\ tmp = <<rx.data, rx.repeat>>
  BY <1>1 DEF IInv, Told
<1>3. air = <<>> /\ ~ifg /\ Len(rx.data) = NEC_BITS /\ (due # <<>> => rx.data = due)
  BY <1>2 DEF IInv, Told, Owed
<1>4. rx \in Rx /\ due \in Codes
  BY DEF IInv, Types
<1>5. /\ rx' \in Rx /\ ~rx'.newCommandAvailable
      /\ rx'.state = rx.state /\ rx'.data = rx.data /\ rx'.repeat = rx.repeat
  BY <1>1, <1>4 DEF Rx
<1>6. tmp[1] = rx.data
  BY <1>2
<1>7. due' = <<>>
  BY <1>1, <1>3, <1>6
<1>8. Types'
  BY <1>1, <1>5, <1>7 DEF IInv, Types, Codes
<1>9. Clocked' /\ Silent'
  BY <1>1, <1>3 DEF IInv, Clocked, Silent, InStep
<1>10. Holds'
  BY <1>1, <1>5 DEF IInv, Holds
<1>11. rx.data \in codes
  BY <1>3 DEF IInv, Holds
<1>12. Told'
  BY <1>1, <1>5, <1>6, <1>7, <1>11 DEF Told
<1> QED BY <1>1, <1>3, <1>8, <1>9, <1>10, <1>12 DEF IInv

(***************************************************************************)
(* A transmission breaks off.                                              *)
(***************************************************************************)
LEMMA CutKeeps ==
  ASSUME IInv, Cut
  PROVE  IInv'
<1>1. /\ air # <<>> /\ Head(air) \notin Gaps
      /\ air' = IF lvl = "low" THEN <<CutMark>> ELSE <<>>
      /\ cur' = [cur EXCEPT !.bad = TRUE]
      /\ UNCHANGED <<mode, lvl, since, ies, ifg, rx, pc, tmp, got, codes, due>>
  BY DEF Cut, Idle, line, sketch
<1>2. due = <<>> /\ ~rx.newCommandAvailable /\ pc = "loop"
  BY <1>1, NothingToFetch
<1>3. cur \in Cur /\ lvl \in {"high", "low"} /\ air \in Seq(Nat) /\ since \in Nat
  BY DEF IInv, Types
<1>4. /\ cur' \in Cur /\ cur'.bad /\ cur'.code = cur.code /\ cur'.late = cur.late
      /\ cur'.lateBefore = cur.lateBefore
  BY <1>1, <1>3 DEF Cur
<1>5. air' \in Seq(Nat)
  <2>1. <<CutMark>> \in Seq(Nat) /\ <<>> \in Seq(Nat)
    BY Micros
  <2> QED BY <1>1, <2>1
<1>6. counts' \in [sent : 0 .. MaxSent, late : 0 .. MaxLate, cuts : 0 .. MaxCuts]
  BY NecAssumption DEF Cut, IInv, Types
<1>7. Types'
  BY <1>1, <1>4, <1>5, <1>6 DEF IInv, Types
<1>8. Clocked' /\ Holds'
  BY <1>1 DEF IInv, Clocked, Holds
<1>9. Told'
  BY <1>1, <1>2 DEF IInv, Told
<1>10. PICK q \in Nat, j \in Nat : OnAir(q, j)
  BY <1>1 DEF IInv
<1>11. Sent(j) /\ Behind(q, j)
  BY <1>10 DEF OnAir
<1>12. j \in Nat /\ q \in 0 .. j /\ j >= 1
  <2>1. j # 0
    <3> SUFFICES ASSUME j = 0 PROVE FALSE
      OBVIOUS
    <3>1. lvl = "high"
      BY <1>11 DEF Sent
    <3>2. ~cur.bad
      BY <1>11, <3>1 DEF Sent
    <3>3. air[1] \in Gaps
      BY <1>11, <3>2 DEF Sent
    <3>4. Head(air) = air[1]
      BY <1>1, <1>3
    <3> QED BY <1>1, <3>3, <3>4
  <2> QED BY <1>11, <2>1 DEF Behind
<1>13. CASE lvl = "low"
  <2>1. air' = <<CutMark>>
    BY <1>1, <1>13
  <2>2. Sent(j)'
    <3>1. j \in 0 .. Edges' - 1 /\ lvl' = (IF j % 2 = 0 THEN "high" ELSE "low")
      BY <1>1, <1>4, <1>11 DEF Sent, Edges
    <3>2. cur'.code # <<>> /\ j >= 2 * NEC_BITS + 3 => cur'.code \in codes'
      BY <1>1, <1>4, <1>11 DEF Sent
    <3>3. cur'.bad /\ air' = <<CutMark>> /\ lvl' = "low"
      BY <1>1, <1>4, <1>13, <2>1
    <3> QED BY <3>1, <3>2, <3>3, Zenon DEF Sent
  <2>3. Behind(q, j)' /\ (q = 0 => Stale(j)')
    <3>1. Behind(q, j)'
      BY <1>1, <1>11 DEF Behind
    <3>2. q = 0 => Stale(j)
      BY <1>10 DEF OnAir
    <3>3. q = 0 => Stale(j)'
      BY <1>1, <3>2 DEF Stale, Heard
    <3> QED BY <3>1, <3>3
  <2>4. q > 0 => Since(q, j)' /\ Entered(q)'
    BY <1>1, <1>4, <1>10, Zenon DEF OnAir, Since, Entered, Agrees
  <2>5. ~cur'.late /\ (j > 1 \/ ~cur'.lateBefore) => InStep'
    BY <1>1, <1>4, <1>10, Zenon DEF OnAir, InStep
  <2>6. ~Flawless'
    BY <1>4 DEF Flawless
  <2>7. OnAir(q, j)'
    BY <2>2, <2>3, <2>4, <2>5, <2>6, Zenon DEF OnAir
  <2>8. air' # <<>>
    BY <2>1
  <2> QED BY <1>7, <1>8, <1>9, <2>7, <2>8 DEF IInv
<1>14. CASE lvl = "high"
  <2>1. air' = <<>>
    BY <1>1, <1>14
  <2>2. j % 2 = 0 /\ j >= 2
    BY <1>11, <1>12, <1>14 DEF Sent
  <2>3. ~ifg => since <= NEC_BIT_MARK
    <3> SUFFICES ASSUME ~ifg PROVE since <= NEC_BIT_MARK
      OBVIOUS
    <3>1. j <= q + 1
      BY <1>11 DEF Behind
    <3>2. q >= 1
      BY <1>12, <2>2, <3>1
    <3>3. Since(q, j)
      BY <1>10, <1>12, <3>2 DEF OnAir
    <3>4. CASE j = q
      <4>1. since <= (j - q) * NEC_HEADER_MARK
        BY <3>3 DEF Since
      <4>2. (j - q) * NEC_HEADER_MARK = 0
        BY <1>12, <3>4, Micros
      <4> QED BY <1>3, <4>1, <4>2, Micros
    <3>5. CASE j = q + 1
      <4>1. since = Pulses(cur.code)[q]
        BY <3>3, <3>5 DEF Since
      <4>2. q # 1
        BY <3>3, <3>5 DEF Since
      <4>3. q % 2 = 1 /\ q >= 3
        BY <1>12, <2>2, <3>2, <3>5, <4>2
      <4>4. cur.code \in Codes
        BY <1>3 DEF Cur
      <4>5. EdgesOf(cur.code) \in Nat
        BY <4>4, PulsesAre
      <4>6. q \in 3 .. EdgesOf(cur.code) - 1
        BY <1>11, <1>12, <3>5, <4>3, <4>5 DEF Sent, Edges
      <4>7. since = NEC_BIT_MARK
        BY <4>1, <4>3, <4>4, <4>6, PulsesAre
      <4> QED BY <4>7, Micros
    <3> QED BY <1>12, <3>1, <3>4, <3>5
  <2>4. ~cur.late => InStep
    BY <1>10, <1>12, <2>2 DEF OnAir
  <2>5. Silent'
    BY <1>1, <1>4, <1>14, <2>3, <2>4 DEF Silent, InStep
  <2> QED BY <1>7, <1>8, <1>9, <2>1, <2>5 DEF IInv
<1> QED BY <1>3, <1>13, <1>14

(***************************************************************************)
(* The handler runs.                                                       *)
(***************************************************************************)
LEMMA InterruptFields ==
  ASSUME IInv, Interrupt
  PROVE  /\ ifg /\ ~ifg' /\ since' = 0
         /\ ies = lvl => ies' # lvl'
         /\ UNCHANGED <<mode, lvl, air, cur, counts, pc, tmp, codes>>
         /\ ~rx.newCommandAvailable /\ pc = "loop"
         /\ rx' = IF lvl = "low" THEN Mark(rx, Heard) ELSE Space(rx, Heard)
         /\ rx \in Rx /\ rx' \in Rx /\ since \in Nat /\ Heard \in Nat
         /\ LET tells == lvl = "high" /\ Completes(rx, Heard) /\ mode.callback
            IN /\ got' = IF tells THEN <<rx.data, rx.repeat>> ELSE got
               /\ due' = IF tells /\ rx.data = due THEN <<>> ELSE due
         /\ Types'
<1>1. /\ since \in Nat /\ rx \in Rx
      /\ lvl \in {"high", "low"} /\ ies \in {"high", "low"}
  BY DEF IInv, Types
<1>2. since % 65536 = Heard /\ Heard \in Nat
  BY <1>1 DEF Heard
<1>3. /\ ifg /\ ifg' = FALSE /\ since' = 0 /\ ies' = Flip(ies)
      /\ UNCHANGED <<mode, lvl, air, cur, counts, pc, tmp, codes>>
      /\ rx' = IF lvl = "low" THEN Mark(rx, Heard) ELSE Space(rx, Heard)
  BY <1>2 DEF Interrupt, sketch
<1>4. LET tells == lvl = "high" /\ Completes(rx, Heard) /\ mode.callback
      IN /\ got' = IF tells THEN <<rx.data, rx.repeat>> ELSE got
         /\ due' = IF tells /\ rx.data = due THEN <<>> ELSE due
  <2>1. got' = IF lvl = "high" /\ Completes(rx, since % 65536) /\ mode.callback
                THEN <<rx.data, rx.repeat>> ELSE got
    BY DEF Interrupt
  <2>2. due' = IF (lvl = "high" /\ Completes(rx, since % 65536) /\ mode.callback) /\ rx.data = due
                THEN <<>> ELSE due
    BY DEF Interrupt
  <2> QED BY <1>2, <2>1, <2>2
<1>5. ~rx.newCommandAvailable /\ pc = "loop"
  BY <1>3 DEF IInv, Told, Types
<1>6. rx' \in Rx
  <2>1. mode \in [incRepeats : BOOLEAN, callback : BOOLEAN]
    BY DEF IInv, Types
  <2> QED BY <1>1, <1>2, <1>3, <2>1, MarkOutcomes, SpaceOutcomes
<1>7. ies' \in {"high", "low"} /\ (ies = lvl => ies' # lvl')
  BY <1>1, <1>3 DEF Flip
<1>8. due' \in Codes
  BY <1>4 DEF IInv, Types, Codes
<1>9. Types'
  BY <1>3, <1>6, <1>7, <1>8 DEF IInv, Types
<1> QED BY <1>1, <1>2, <1>3, <1>4, <1>5, <1>6, <1>7, <1>9

\* Where the handler and the transmission are when an edge is handled.
LEMMA Handled ==
  ASSUME IInv, Interrupt, NEW q \in Nat, NEW j \in Nat, OnAir(q, j)
  PROVE  /\ cur.code \in Codes /\ Edges \in Nat /\ Edges = EdgesOf(cur.code)
         /\ q < j /\ j <= q + 3 /\ j <= Edges - 1
         /\ lvl = "low" <=> j % 2 = 1
         /\ lvl = "high" <=> j % 2 = 0
         /\ q = 0 => Heard > 17920
         /\ q > 0 => Since(q, j) /\ Entered(q) /\ Heard = since
<1>1. cur.code \in Codes
  BY DEF IInv, Types, Cur
<1>2. Edges \in Nat /\ Edges = EdgesOf(cur.code)
  BY <1>1, PulsesAre DEF Edges
<1>3. Sent(j) /\ Behind(q, j) /\ ifg
  BY InterruptFields DEF OnAir
<1>4. q < j /\ j <= q + 3
  BY <1>3 DEF Behind
<1>5. j <= Edges - 1
  BY <1>2, <1>3 DEF Sent
<1>6. (lvl = "low" <=> j % 2 = 1) /\ (lvl = "high" <=> j % 2 = 0)
  BY <1>3 DEF Sent
<1>7. q = 0 => Heard > 17920
  BY <1>4, Micros DEF OnAir, Stale
<1>8. q > 0 => Since(q, j) /\ Entered(q) /\ Heard = since
  <2> SUFFICES ASSUME q > 0 PROVE Since(q, j) /\ Entered(q) /\ Heard = since
    OBVIOUS
  <2>1. Since(q, j) /\ Entered(q)
    BY DEF OnAir
  <2>2. since \in Nat /\ since <= (j - q) * 8960 /\ j - q <= 3
    BY <1>4, <2>1, Micros, InterruptFields DEF Since
  <2>3. since <= 26880
    BY <1>4, <2>2
  <2> QED BY <2>1, <2>2, <2>3 DEF Heard
<1> QED BY <1>1, <1>2, <1>4, <1>5, <1>6, <1>7, <1>8

\* The mark that ends the silence is the header, and its space tells a frame from
\* a repeat.
LEMMA HeaderSpace ==
  ASSUME IInv, Interrupt, NEW q \in Nat, NEW j \in Nat, OnAir(q, j), lvl = "low",
         rx.state = "FIRST_DATA_MARK", Heard <= 5600
  PROVE  /\ q = 2 /\ j >= 3
         /\ cur.code = <<>> => j = 3 /\ Heard = 2240
         /\ cur.code # <<>> => Heard >= 4480
<1>1. q > 0 /\ q < j /\ j % 2 = 1 /\ j <= Edges - 1 /\ Edges = EdgesOf(cur.code)
      /\ Since(q, j) /\ Entered(q) /\ Heard = since /\ cur.code \in Codes
  <2>1. q # 0
    BY Handled, InterruptFields
  <2> QED BY <2>1, Handled
<1>2. q = 2
  BY <1>1 DEF Entered
<1>3. j >= 3
  BY <1>1, <1>2
<1>4. cur.code = <<>> => j = 3
  BY <1>1, <1>3 DEF EdgesOf
<1>5. cur.code = <<>> => Heard = 2240
  <2> SUFFICES ASSUME cur.code = <<>> PROVE Heard = 2240
    OBVIOUS
  <2>1. Heard = Pulses(cur.code)[2]
    BY <1>1, <1>2, <1>4 DEF Since
  <2> QED BY <1>1, <2>1, PulsesAre, Micros
<1>6. cur.code # <<>> => Heard >= 4480
  BY <1>1, <1>2, <1>3, Micros DEF Since
<1> QED BY <1>2, <1>3, <1>4, <1>5, <1>6

\* A bit is the next one of the code when no edge has been missed.
LEMMA BitTaken ==
  ASSUME IInv, Interrupt, NEW q \in Nat, NEW j \in Nat, OnAir(q, j),
         TakesBit(rx', rx, Heard)
  PROVE  /\ cur.code # <<>> /\ ~rx'.repeat
         /\ Len(rx'.data) = Len(rx.data) + 1 /\ Len(rx'.data) <= NEC_BITS
         /\ 2 * Len(rx'.data) + 3 <= j
         /\ 2 * Len(rx'.data) + 3 = j => Agrees'
<1>1. rx.state = "DATA_MARK" /\ Heard <= 2520 /\ ~rx'.repeat /\ Len(rx.data) < NEC_BITS
  BY DEF TakesBit, IInv, Holds
<1>2. rx.data \in Seq({0, 1}) /\ Heard \in Nat
  BY InterruptFields DEF Rx
<1> DEFINE bit == IF Heard >= 1120 THEN 1 ELSE 0
           k == Len(rx.data)
<1>3. rx'.data = Append(rx.data, bit) /\ bit \in {0, 1}
  BY DEF TakesBit
<1>4. k \in Nat /\ Len(rx'.data) = k + 1
  BY <1>2, <1>3
<1>5. /\ rx'.data[k + 1] = bit
      /\ \A i \in 1 .. k : rx'.data[i] = rx.data[i]
  BY <1>2, <1>3, <1>4
<1>6. /\ q > 0 /\ q < j /\ j <= Edges - 1 /\ Edges = EdgesOf(cur.code)
      /\ Since(q, j) /\ Entered(q) /\ Heard = since /\ cur.code \in Codes
  BY <1>1, <1>2, Handled
<1>7. cur.code # <<>> /\ 2 * k + 4 <= q /\ (2 * k + 4 = q => Agrees)
  BY <1>1, <1>6 DEF Entered
<1>8. cur.code \in Bits
  BY <1>6, <1>7 DEF Codes
<1>9. UNCHANGED cur
  BY InterruptFields
<1>10. ASSUME 2 * (k + 1) + 3 = j PROVE Agrees'
  <2>1. 2 * k + 4 = q /\ j = q + 1
    BY <1>4, <1>6, <1>7, <1>10
  <2>2. Heard = Pulses(cur.code)[q]
    BY <1>6, <2>1 DEF Since
  <2>3. k + 1 \in 1 .. NEC_BITS /\ q = 2 * (k + 1) + 2
    BY <1>1, <1>4, <2>1, Length
  <2>4. Heard = BitSpace(cur.code[k + 1])
    BY <1>8, <2>2, <2>3, SpaceOfBit
  <2>5. cur.code[k + 1] \in {0, 1}
    BY <1>8, <2>3 DEF Bits
  <2>6. bit = cur.code[k + 1]
    BY <2>4, <2>5, Micros DEF BitSpace
  <2>7. \A i \in 1 .. k : rx.data[i] = cur.code[i]
    BY <1>7, <2>1 DEF Agrees
  <2> HIDE DEF bit
  <2>8. \A i \in 1 .. k + 1 : rx'.data[i] = cur.code[i]
    <3> SUFFICES ASSUME NEW i \in 1 .. k + 1 PROVE rx'.data[i] = cur.code[i]
      OBVIOUS
    <3>1. i \in 1 .. k \/ i = k + 1
      BY <1>4
    <3> QED BY <1>5, <2>6, <2>7, <3>1
  <2> QED BY <1>4, <1>9, <2>8 DEF Agrees
<1> HIDE DEF k, bit
<1>11. 2 * (k + 1) + 3 <= j
  BY <1>4, <1>6, <1>7
<1>12. k + 1 <= NEC_BITS
  BY <1>1, <1>4, Length DEF k
<1> QED BY <1>1, <1>4, <1>7, <1>10, <1>11, <1>12 DEF k

\* All the bits of a code, and no edge missed: the code.
LEMMA AllAgree ==
  ASSUME NEW d \in Seq({0, 1}), NEW c \in Bits, Len(d) = NEC_BITS,
         \A i \in 1 .. Len(d) : d[i] = c[i]
  PROVE  d = c
<1>1. c \in Seq({0, 1}) /\ Len(c) = NEC_BITS /\ NEC_BITS \in Nat
  BY BitsAreCodes, Length
<1>2. DOMAIN d = 1 .. NEC_BITS /\ DOMAIN c = 1 .. NEC_BITS
  BY <1>1
<1>3. d = [i \in 1 .. NEC_BITS |-> d[i]] /\ c = [i \in 1 .. NEC_BITS |-> c[i]]
  BY <1>1, <1>2 DEF Bits
<1> QED BY <1>1, <1>3

LEMMA MarkEnters ==
  ASSUME IInv, Interrupt, NEW q \in Nat, NEW j \in Nat, OnAir(q, j), lvl = "low"
  PROVE  Entered(j)' /\ Holds'
<1>1. /\ rx \in Rx /\ rx' \in Rx /\ Heard \in Nat /\ UNCHANGED <<cur, codes>>
      /\ rx' = Mark(rx, Heard)
  BY InterruptFields
<1>2. /\ cur.code \in Codes /\ q < j /\ j % 2 = 1 /\ j <= Edges - 1
      /\ Edges = EdgesOf(cur.code)
  BY Handled
<1>3. Holds
  BY DEF IInv
<1>4. /\ rx'.data \in Seq({0, 1})
      /\ cur'.code = cur.code /\ codes' = codes
  BY <1>1 DEF Rx
<1>5. CASE StartsMark(rx', rx, Heard) \/ RefusesSpace(rx', rx, Heard)
  <2>1. /\ rx'.state \in {"START_SPACE", "START_MARK"}
        /\ rx'.data = rx.data /\ rx'.repeat = rx.repeat
    BY <1>5 DEF StartsMark, RefusesSpace
  <2>2. j # 2
    BY <1>2
  <2>3. Entered(j)'
    BY <2>1, <2>2 DEF Entered
  <2>4. Holds'
    BY <1>3, <1>4, <2>1 DEF Holds
  <2> QED BY <2>3, <2>4
<1>6. CASE StartsCode(rx', rx, Heard)
  <2>1. /\ rx'.state = "DATA_SPACE" /\ rx'.data = <<>> /\ ~rx'.repeat
        /\ rx.state = "FIRST_DATA_MARK" /\ Heard <= 5600 /\ Heard >= 3360
    BY <1>6 DEF StartsCode
  <2>2. j >= 3 /\ cur.code # <<>>
    BY <1>1, <2>1, HeaderSpace
  <2>3. Len(rx'.data) = 0
    BY <2>1
  <2>4. Agrees'
    BY <2>3 DEF Agrees
  <2>5. Entered(j)'
    BY <1>4, <2>1, <2>2, <2>3, <2>4 DEF Entered
  <2>6. Holds'
    BY <2>1, <2>3, Length DEF Holds
  <2> QED BY <2>5, <2>6
<1>7. CASE StartsRepeat(rx', rx, Heard)
  <2>1. /\ rx'.state = "DATA_SPACE" /\ rx'.data = rx.data /\ rx'.repeat
        /\ rx.state = "FIRST_DATA_MARK" /\ Heard <= 2800 /\ Len(rx.data) >= NEC_BITS
    BY <1>7 DEF StartsRepeat
  <2>2. Heard <= 5600 /\ ~(Heard >= 4480)
    BY <1>1, <2>1
  <2>3. cur.code = <<>> /\ j = 3
    BY <2>1, <2>2, HeaderSpace
  <2>4. Entered(j)'
    BY <1>4, <2>1, <2>3 DEF Entered
  <2>5. Len(rx.data) = NEC_BITS
    BY <1>1, <1>3, <2>1, Length DEF Holds, Rx
  <2>6. Holds'
    BY <1>3, <1>4, <2>1, <2>5, Length DEF Holds
  <2> QED BY <2>4, <2>6
<1>8. CASE TakesBit(rx', rx, Heard)
  <2>1. rx'.state = "DATA_SPACE"
    BY <1>8 DEF TakesBit
  <2>2. /\ cur.code # <<>> /\ ~rx'.repeat /\ Len(rx'.data) <= NEC_BITS
        /\ 2 * Len(rx'.data) + 3 <= j
        /\ 2 * Len(rx'.data) + 3 = j => Agrees'
    BY <1>8, BitTaken
  <2>3. Entered(j)'
    BY <1>4, <2>1, <2>2 DEF Entered
  <2>4. ASSUME Len(rx'.data) = NEC_BITS PROVE rx'.data \in codes'
    <3>1. cur.code \in Bits /\ Edges = 2 * NEC_BITS + 4
      BY <1>2, <2>2 DEF Codes, EdgesOf
    <3>2. j = 2 * NEC_BITS + 3
      BY <1>2, <2>2, <2>4, <3>1, Length
    <3>3. Agrees'
      BY <2>2, <2>4, <3>2
    <3>4. rx'.data = cur.code
      BY <1>4, <2>4, <3>1, <3>3, AllAgree DEF Agrees
    <3>5. cur.code \in codes
      BY <2>2, <3>2, Length DEF OnAir, Sent
    <3> QED BY <1>4, <3>4, <3>5
  <2>5. Holds'
    BY <2>1, <2>2, <2>4 DEF Holds
  <2> QED BY <2>3, <2>5
<1> QED BY <1>1, <1>5, <1>6, <1>7, <1>8, MarkOutcomes

LEMMA SpaceEnters ==
  ASSUME IInv, Interrupt, NEW q \in Nat, NEW j \in Nat, OnAir(q, j), lvl = "high"
  PROVE  /\ Entered(j)' /\ Holds'
         /\ ~Completes(rx, Heard) /\ ~rx'.newCommandAvailable
<1>1. /\ rx \in Rx /\ rx' \in Rx /\ Heard \in Nat /\ UNCHANGED <<cur, codes>>
      /\ rx' = Space(rx, Heard) /\ ~rx.newCommandAvailable
  BY InterruptFields
<1>2. /\ cur.code \in Codes /\ q < j /\ j <= q + 3 /\ j % 2 = 0 /\ j <= Edges - 1
      /\ Edges = EdgesOf(cur.code) /\ (q = 0 => Heard > 17920)
      /\ q > 0 => Since(q, j) /\ Entered(q) /\ Heard = since
  BY Handled
<1>3. Holds /\ mode \in [incRepeats : BOOLEAN, callback : BOOLEAN]
  BY DEF IInv, Types
<1>4. /\ rx'.data = rx.data /\ rx'.repeat = rx.repeat
      /\ cur'.code = cur.code /\ codes' = codes
  BY <1>1, <1>3, SpaceOutcomes
<1>5. Holds' <=> (rx'.state = "DATA_MARK" => ~rx.repeat /\ Len(rx.data) < NEC_BITS)
  BY <1>3, <1>4 DEF Holds
<1>6. ~Completes(rx, Heard)
  <2> SUFFICES ASSUME rx.state = "DATA_SPACE", Heard <= 840,
                      Len(rx.data) >= NEC_BITS \/ rx.repeat
               PROVE  FALSE
    BY <1>1, CompletesWhen
  <2>1. q > 0 /\ Entered(q)
    BY <1>1, <1>2
  <2>2. CASE rx.repeat
    <3>1. cur.code = <<>> /\ q = 3
      BY <2>1, <2>2 DEF Entered
    <3> QED BY <1>2, <3>1 DEF EdgesOf
  <2>3. CASE ~rx.repeat
    <3>1. cur.code # <<>> /\ 2 * Len(rx.data) + 3 <= q
      BY <2>1, <2>3 DEF Entered
    <3>2. Len(rx.data) \in Nat
      BY <1>1 DEF Rx
    <3> QED BY <1>2, <2>3, <3>1, <3>2, Length DEF EdgesOf
  <2> QED BY <2>2, <2>3
<1>7. CASE EndsHeader(rx', rx, Heard)
  <2>1. /\ rx'.state = "FIRST_DATA_MARK" /\ ~rx'.newCommandAvailable
        /\ rx.state = "START_SPACE" /\ Heard >= 6720 /\ Heard <= 11200
    BY <1>1, <1>7 DEF EndsHeader
  <2>2. q > 0 /\ Since(q, j) /\ q # 2
    BY <1>1, <1>2, <2>1 DEF Entered
  <2>3. q <= 2
    <3> SUFFICES ASSUME q > 2 PROVE FALSE
      BY <1>2
    <3>1. Heard <= (j - q) * 1680 /\ j - q <= 3
      BY <1>2, <2>2, Micros DEF Since
    <3> QED BY <1>1, <1>2, <2>1, <3>1
  <2>4. q = 1 /\ j \in {2, 4}
    BY <1>2, <2>2, <2>3
  <2>5. j = 2
    <3>1. CASE cur.code = <<>>
      BY <1>2, <2>4, <3>1 DEF EdgesOf
    <3>2. CASE cur.code # <<>>
      <4>1. j > 2 => Heard >= 13440
        BY <1>2, <2>2, <2>4, <3>2, Micros DEF Since
      <4> QED BY <1>1, <2>1, <2>4, <4>1
    <3> QED BY <3>1, <3>2
  <2>6. Entered(j)'
    BY <2>1, <2>5 DEF Entered
  <2> QED BY <1>5, <1>6, <2>1, <2>6
<1>8. CASE EndsBit(rx', rx, Heard)
  <2>1. /\ rx'.state = "DATA_MARK" /\ ~rx'.newCommandAvailable
        /\ rx.state = "DATA_SPACE" /\ Heard <= 840 /\ Len(rx.data) < NEC_BITS /\ ~rx.repeat
    BY <1>1, <1>8, Length DEF EndsBit, Rx
  <2>2. q > 0 /\ Entered(q)
    BY <1>1, <1>2, <2>1
  <2>3. /\ cur.code # <<>> /\ 2 * Len(rx.data) + 3 <= q
        /\ 2 * Len(rx.data) + 3 = q => Agrees
    BY <2>1, <2>2 DEF Entered
  <2>4. Len(rx.data) \in Nat
    BY <1>1 DEF Rx
  <2>5. /\ 2 * Len(rx.data) + 4 <= j
        /\ 2 * Len(rx.data) + 4 = j => Agrees
    BY <1>2, <2>3, <2>4
  <2>6. Agrees => Agrees'
    BY <1>4 DEF Agrees
  <2>7. Entered(j)'
    BY <1>4, <2>1, <2>3, <2>5, <2>6 DEF Entered
  <2> QED BY <1>5, <1>6, <2>1, <2>7
<1>9. CASE RefusesMark(rx', rx, Heard)
  <2>1. rx'.state = "START_MARK" /\ ~rx'.newCommandAvailable
    BY <1>1, <1>9 DEF RefusesMark
  <2>2. Entered(j)'
    BY <2>1 DEF Entered
  <2> QED BY <1>5, <1>6, <2>1, <2>2
<1>10. ~EndsCode(rx', rx, Heard)
  BY <1>1, <1>6, CompletesWhen DEF EndsCode
<1> QED BY <1>1, <1>3, <1>7, <1>8, <1>9, <1>10, SpaceOutcomes

\* A frame whose edges are all handled in time takes the receiver through its states.
LEMMA MarkFollows ==
  ASSUME IInv, Interrupt, NEW q \in Nat, NEW j \in Nat, OnAir(q, j), lvl = "low", Flawless
  PROVE  Follows(j, j)'
<1>1. /\ rx \in Rx /\ rx' \in Rx /\ Heard \in Nat /\ ifg /\ ~ifg'
      /\ rx' = Mark(rx, Heard) /\ (ies = lvl => ies' # lvl')
  BY InterruptFields
<1>2. /\ cur.code \in Codes /\ q < j /\ j % 2 = 1 /\ j <= Edges - 1
      /\ Edges = EdgesOf(cur.code) /\ (q = 0 => Heard > 17920)
      /\ q > 0 => Since(q, j) /\ Heard = since
  BY Handled
<1>3. cur.code \in Bits
  BY <1>2 DEF Flawless, Codes
<1>4. Follows(q, j)
  BY DEF OnAir
<1>5. j = q + 1 /\ ies = lvl
  BY <1>1, <1>4 DEF Follows, InStep
<1>6. InStep'
  BY <1>1, <1>5 DEF InStep
<1>7. q > 0 => Heard = Pulses(cur.code)[q]
  BY <1>2, <1>5 DEF Since
<1>8. CASE q = 0
  <2>1. StartsMark(rx', rx, Heard)
    <3>1. Heard > 17920
      BY <1>2, <1>8
    <3>2. ~StartsCode(rx', rx, Heard) /\ ~StartsRepeat(rx', rx, Heard)
      BY <1>1, <3>1 DEF StartsCode, StartsRepeat
    <3>3. ~TakesBit(rx', rx, Heard) /\ ~RefusesSpace(rx', rx, Heard)
      BY <1>1, <3>1 DEF TakesBit, RefusesSpace
    <3> QED BY <1>1, <3>2, <3>3, MarkOutcomes
  <2>2. j = 1 /\ rx'.state = "START_SPACE"
    BY <1>5, <1>8, <2>1 DEF StartsMark
  <2> QED BY <1>1, <1>6, <2>2 DEF Follows
<1>9. CASE q = 2
  <2>1. rx.state = "FIRST_DATA_MARK"
    BY <1>4, <1>9 DEF Follows
  <2>2. Heard = 4480
    BY <1>2, <1>3, <1>7, <1>9, PulsesAre, BitsAreCodes, Micros
  <2>3. StartsCode(rx', rx, Heard)
    <3>1. ~StartsMark(rx', rx, Heard)
      BY <2>1, <2>2 DEF StartsMark
    <3>2. ~StartsRepeat(rx', rx, Heard) /\ ~TakesBit(rx', rx, Heard)
      BY <2>1, <2>2 DEF StartsRepeat, TakesBit
    <3>3. ~RefusesSpace(rx', rx, Heard)
      BY <2>1, <2>2 DEF RefusesSpace
    <3> QED BY <1>1, <3>1, <3>2, <3>3, MarkOutcomes
  <2>4. rx'.state = "DATA_SPACE" /\ ~rx'.repeat /\ rx'.data = <<>>
    BY <2>3 DEF StartsCode
  <2>5. Len(rx'.data) = 0 /\ j = 3
    BY <1>5, <1>9, <2>4
  <2> QED BY <1>1, <1>6, <2>4, <2>5 DEF Follows
<1>10. CASE q > 2
  <2>1. q % 2 = 0
    BY <1>2, <1>5
  <2>2. rx.state = "DATA_MARK" /\ 2 * Len(rx.data) + 4 = q
    BY <1>4, <1>10, <2>1 DEF Follows
  <2>3. q \in 3 .. EdgesOf(cur.code) - 1
    BY <1>2, <1>5, <1>10, PulsesAre
  <2>4. Heard \in {560, 1680}
    BY <1>2, <1>7, <1>10, <2>3, PulsesAre, Micros
  <2>5. TakesBit(rx', rx, Heard)
    <3>1. ~StartsMark(rx', rx, Heard)
      BY <2>2, <2>4 DEF StartsMark
    <3>2. ~StartsCode(rx', rx, Heard) /\ ~StartsRepeat(rx', rx, Heard)
      BY <2>2 DEF StartsCode, StartsRepeat
    <3>3. ~RefusesSpace(rx', rx, Heard)
      BY <2>2, <2>4 DEF RefusesSpace
    <3> QED BY <1>1, <3>1, <3>2, <3>3, MarkOutcomes
  <2>6. rx'.state = "DATA_SPACE" /\ ~rx'.repeat /\ Len(rx'.data) = Len(rx.data) + 1
    BY <2>5, BitTaken DEF TakesBit
  <2>7. Len(rx.data) \in Nat
    BY <1>1 DEF Rx
  <2>8. 2 * Len(rx'.data) + 3 = j /\ j > 2 /\ j % 2 = 1
    BY <1>2, <1>5, <1>10, <2>2, <2>6, <2>7
  <2> QED BY <1>1, <1>6, <2>6, <2>8 DEF Follows
<1>11. q # 1
  BY <1>2, <1>5
<1> QED BY <1>8, <1>9, <1>10, <1>11

LEMMA SpaceFollows ==
  ASSUME IInv, Interrupt, NEW q \in Nat, NEW j \in Nat, OnAir(q, j), lvl = "high", Flawless
  PROVE  Follows(j, j)'
<1>1. /\ rx \in Rx /\ rx' \in Rx /\ Heard \in Nat /\ ifg /\ ~ifg'
      /\ rx' = Space(rx, Heard) /\ (ies = lvl => ies' # lvl')
      /\ mode \in [incRepeats : BOOLEAN, callback : BOOLEAN]
  BY InterruptFields DEF IInv, Types
<1>2. /\ cur.code \in Codes /\ q < j /\ j % 2 = 0 /\ j <= Edges - 1
      /\ Edges = EdgesOf(cur.code)
      /\ q > 0 => Since(q, j) /\ Heard = since
  BY Handled
<1>3. cur.code \in Bits /\ Edges = 2 * NEC_BITS + 4
  BY <1>2 DEF Flawless, Codes, EdgesOf
<1>4. Follows(q, j)
  BY DEF OnAir
<1>5. j = q + 1 /\ ies = lvl /\ q >= 1
  <2>1. j = q + 1 /\ ies = lvl
    BY <1>1, <1>4 DEF Follows, InStep
  <2> QED BY <1>2, <2>1
<1>6. InStep'
  BY <1>1, <1>5 DEF InStep
<1>7. Heard = Pulses(cur.code)[q]
  BY <1>2, <1>5 DEF Since
<1>8. CASE q = 1
  <2>1. rx.state = "START_SPACE" /\ Heard = 8960
    BY <1>2, <1>4, <1>7, <1>8, PulsesAre, Micros DEF Follows
  <2>2. EndsHeader(rx', rx, Heard)
    <3>1. ~EndsCode(rx', rx, Heard) /\ ~EndsBit(rx', rx, Heard)
      BY <2>1 DEF EndsCode, EndsBit
    <3>2. ~RefusesMark(rx', rx, Heard)
      BY <2>1 DEF RefusesMark
    <3> QED BY <1>1, <3>1, <3>2, SpaceOutcomes
  <2>3. j = 2 /\ rx'.state = "FIRST_DATA_MARK"
    BY <1>5, <1>8, <2>2 DEF EndsHeader
  <2> QED BY <1>1, <1>6, <2>3 DEF Follows
<1>9. CASE q > 1
  <2>1. q % 2 = 1 /\ q > 2
    BY <1>2, <1>5, <1>9
  <2>2. rx.state = "DATA_SPACE" /\ ~rx.repeat /\ 2 * Len(rx.data) + 3 = q
    BY <1>4, <2>1 DEF Follows
  <2>3. q \in 3 .. EdgesOf(cur.code) - 1
    BY <1>2, <1>3, <1>5, <2>1, Length
  <2>4. Heard = 560
    BY <1>2, <1>7, <2>1, <2>3, PulsesAre, Micros
  <2>5. Len(rx.data) \in Nat
    BY <1>1 DEF Rx
  <2>6. EndsBit(rx', rx, Heard)
    <3>1. ~EndsHeader(rx', rx, Heard)
      BY <2>2 DEF EndsHeader
    <3>2. ~EndsCode(rx', rx, Heard)
      BY <1>1, <2>4, SpaceEnters, CompletesWhen DEF EndsCode
    <3>3. ~RefusesMark(rx', rx, Heard)
      BY <2>2, <2>4 DEF RefusesMark
    <3> QED BY <1>1, <3>1, <3>2, <3>3, SpaceOutcomes
  <2>7. rx'.state = "DATA_MARK" /\ rx'.data = rx.data
    BY <1>1, <2>6, SpaceOutcomes DEF EndsBit
  <2>8. 2 * Len(rx'.data) + 4 = j /\ j > 2 /\ j % 2 = 0
    BY <1>2, <1>5, <2>1, <2>2, <2>5, <2>7
  <2> QED BY <1>1, <1>6, <2>7, <2>8 DEF Follows
<1> QED BY <1>5, <1>8, <1>9

LEMMA HandledOnAir ==
  ASSUME IInv, Interrupt, air # <<>>
  PROVE  IInv'
<1>1. /\ ifg /\ ~ifg' /\ since' = 0 /\ (ies = lvl => ies' # lvl')
      /\ UNCHANGED <<mode, lvl, air, cur, counts, pc, tmp, codes>>
      /\ pc = "loop" /\ ~rx.newCommandAvailable /\ rx \in Rx /\ Heard \in Nat /\ Types'
      /\ rx' = IF lvl = "low" THEN Mark(rx, Heard) ELSE Space(rx, Heard)
  BY InterruptFields
<1>2. lvl = "low" \/ lvl = "high"
  BY DEF IInv, Types
<1>3. due = <<>>
  BY NothingToFetch
<1>4. PICK q \in Nat, j \in Nat : OnAir(q, j)
  BY DEF IInv
<1>5. q < j
  BY <1>4, Handled
<1>6. Entered(j)' /\ Holds'
  BY <1>2, <1>4, MarkEnters, SpaceEnters
<1>7. ~rx'.newCommandAvailable
  <2>1. CASE lvl = "low"
    BY <1>1, <2>1, MarkOutcomes
  <2>2. CASE lvl = "high"
    BY <1>4, <2>2, SpaceEnters
  <2> QED BY <1>2, <2>1, <2>2
<1>8. got' = got /\ due' = <<>>
  <2>1. CASE lvl = "low"
    BY <1>3, <2>1, InterruptFields
  <2>2. CASE lvl = "high"
    <3>1. ~Completes(rx, Heard)
      BY <1>4, <2>2, SpaceEnters
    <3> QED BY <1>3, <3>1, InterruptFields
  <2> QED BY <1>2, <2>1, <2>2
<1>9. Told'
  BY <1>1, <1>7, <1>8 DEF IInv, Told
<1>10. Clocked'
  BY <1>1 DEF Clocked
<1>11. OnAir(j, j)'
  <2>1. Sent(j) /\ Behind(q, j) /\ (q = 0 => Stale(j))
    BY <1>4 DEF OnAir
  <2>2. Sent(j)'
    BY <1>1, <2>1 DEF Sent, Edges
  <2>3. Behind(j, j)'
    BY <1>1, <1>5 DEF Behind
  <2>4. Since(j, j)'
    <3>1. j = 1 => ies = lvl
      BY <1>1, <1>5, <2>1 DEF Stale
    <3>2. j = 1 => ies' # lvl'
      BY <1>1, <3>1
    <3>3. /\ 0 <= (j - j) * NEC_HEADER_MARK /\ 0 <= (j - j) * NEC_ONE_SPACE
          /\ j # j + 1
      BY Micros
    <3> QED BY <1>1, <3>2, <3>3 DEF Since
  <2>5. ~cur.late /\ (j > 1 \/ ~cur.lateBefore) => InStep'
    BY <1>1, <1>4 DEF OnAir, InStep
  <2>6. Flawless => Follows(j, j)'
    BY <1>2, <1>4, MarkFollows, SpaceFollows
  <2>7. Flawless' <=> Flawless
    BY <1>1 DEF Flawless
  <2>8. cur'.late = cur.late /\ cur'.lateBefore = cur.lateBefore /\ j # 0
    BY <1>1, <1>5
  <2> QED BY <1>6, <2>2, <2>3, <2>4, <2>5, <2>6, <2>7, <2>8, Zenon DEF OnAir
<1> QED BY <1>1, <1>6, <1>9, <1>10, <1>11 DEF IInv

\* The last edge of a transmission completes a code, or none.
LEMMA HandledIdle ==
  ASSUME IInv, Interrupt, air = <<>>
  PROVE  IInv'
<1>1. /\ ifg /\ ~ifg' /\ since' = 0 /\ (ies = lvl => ies' # lvl')
      /\ UNCHANGED <<mode, lvl, air, cur, counts, pc, tmp, codes>>
      /\ pc = "loop" /\ ~rx.newCommandAvailable /\ rx \in Rx /\ Heard \in Nat /\ Types'
      /\ rx' = IF lvl = "low" THEN Mark(rx, Heard) ELSE Space(rx, Heard)
  BY InterruptFields
<1>2. Silent /\ lvl = "high"
  BY DEF IInv, Silent
<1>3. mode \in [incRepeats : BOOLEAN, callback : BOOLEAN]
  BY DEF IInv, Types
<1>4. rx' = Space(rx, Heard) /\ rx'.data = rx.data /\ rx'.repeat = rx.repeat
  BY <1>1, <1>2, <1>3, SpaceOutcomes
<1>5. \/ EndsHeader(rx', rx, Heard) \/ EndsCode(rx', rx, Heard)
      \/ EndsBit(rx', rx, Heard) \/ RefusesMark(rx', rx, Heard)
  BY <1>1, <1>3, <1>4, SpaceOutcomes
<1>6. Len(rx.data) \in Nat /\ Holds
  BY <1>1 DEF IInv, Rx
<1>7. rx'.state = "DATA_MARK" => ~rx.repeat /\ Len(rx.data) < NEC_BITS
  BY <1>5, <1>6, Length DEF EndsHeader, EndsCode, EndsBit, RefusesMark
<1>8. Holds'
  BY <1>1, <1>4, <1>6, <1>7 DEF Holds
<1>9. Clocked'
  BY <1>1 DEF Clocked
<1>10. Silent'
  BY <1>1, <1>2, Micros DEF Silent, InStep
<1>11. Completes(rx, Heard) => Len(rx.data) = NEC_BITS /\ rx.data \in codes
  BY <1>1, <1>6, CompletesWhen, Length DEF Holds
<1>12. got' # <<>> => got'[1] \in codes
  <2>1. CASE got' = got
    BY <2>1 DEF IInv, Told
  <2>2. CASE got' # got
    <3>1. got' = <<rx.data, rx.repeat>> /\ Completes(rx, Heard)
      BY <2>2, InterruptFields
    <3> QED BY <1>11, <3>1
  <2> QED BY <2>1, <2>2
<1>13. rx'.newCommandAvailable => Len(rx.data) = NEC_BITS
  BY <1>1, <1>5, <1>6, <1>11, CompletesWhen DEF EndsHeader, EndsCode, EndsBit, RefusesMark
<1>14. ASSUME due' # <<>> PROVE Owed'
  <2>1. due' = due /\ due # <<>> /\ ~(Completes(rx, Heard) /\ mode.callback /\ rx.data = due)
    BY <1>2, <1>14, InterruptFields
  <2>2. /\ since = 560 /\ rx.state = "DATA_SPACE" /\ ~rx.repeat /\ rx.data = due
        /\ Len(due) = NEC_BITS
    BY <1>1, <2>1, Micros DEF IInv, Told, Owed
  <2>3. Completes(rx, Heard) /\ Heard = 560
    <3>1. Heard = 560
      BY <2>2 DEF Heard
    <3> QED BY <1>1, <2>2, <3>1, CompletesWhen, Length
  <2>4. EndsCode(rx', rx, Heard)
    BY <1>5, <2>2, <2>3, Length DEF EndsHeader, EndsBit, RefusesMark
  <2>5. rx'.newCommandAvailable
    BY <2>1, <2>2, <2>3, <2>4 DEF EndsCode
  <2> QED BY <1>1, <1>4, <2>1, <2>2, <2>5 DEF Owed
<1>15. Told'
  BY <1>1, <1>4, <1>12, <1>13, <1>14 DEF Told
<1> QED BY <1>1, <1>8, <1>9, <1>10, <1>15 DEF IInv

LEMMA InterruptKeeps ==
  ASSUME IInv, Interrupt
  PROVE  IInv'
  BY HandledOnAir, HandledIdle

(***************************************************************************)
(* An edge comes.                                                          *)
(***************************************************************************)
LEMMA EdgeFields ==
  ASSUME Clear, IInv, Prompt, NEW stretch \in Stretches, Edge(stretch)
  PROVE  /\ air # <<>> /\ air \in Seq(Nat) /\ air' = Tail(air)
         /\ ~ifg \/ ies = lvl
         /\ UNCHANGED <<mode, ies, rx, pc, tmp, got>>
         /\ lvl = "high" <=> lvl' = "low"
         /\ lvl = "low" <=> lvl' = "high"
         /\ ies = lvl' <=> ies # lvl
         /\ ifg' <=> ifg \/ ies # lvl
         /\ since \in Nat /\ since' = since + Head(air)
         /\ cur \in Cur /\ cur'.code = cur.code /\ cur'.lateBefore = cur.lateBefore
         /\ cur'.bad <=> cur.bad
         /\ cur'.late <=> cur.late \/ ifg
         /\ codes \subseteq codes'
         /\ Len(air) = 2 /\ cur.code # <<>> /\ ~cur.bad => cur.code \in codes'
         /\ \/ due' = <<>>
            \/ due' = cur.code /\ Len(air) = 1 /\ Flawless /\ ~ifg
         /\ Types'
<1>1. stretch = 0
  BY DEF Clear
<1>2. /\ air # <<>> /\ air' = Tail(air) /\ lvl' = Flip(lvl)
      /\ UNCHANGED <<mode, ies, rx, pc, tmp, got>>
      /\ since' = since + Head(air) + 0
      /\ ifg' = (ifg \/ ies = lvl')
      /\ counts' = [counts EXCEPT !.late = IF ifg THEN counts.late + 1 ELSE counts.late]
      /\ ifg => counts.late < MaxLate
  BY <1>1 DEF Edge, Idle, sketch
<1>3. /\ lvl \in {"high", "low"} /\ ies \in {"high", "low"} /\ since \in Nat
      /\ air \in Seq(Nat) /\ cur \in Cur /\ rx \in Rx /\ codes \subseteq Bits /\ due \in Codes
      /\ counts \in [sent : 0 .. MaxSent, late : 0 .. MaxLate, cuts : 0 .. MaxCuts]
  BY DEF IInv, Types
<1>4. Head(air) \in Nat /\ Tail(air) \in Seq(Nat)
  BY <1>2, <1>3
<1>5. /\ lvl' \in {"high", "low"}
      /\ lvl = "high" <=> lvl' = "low"
      /\ lvl = "low" <=> lvl' = "high"
      /\ ies = lvl' <=> ies # lvl
      /\ lvl' # lvl
  BY <1>2, <1>3 DEF Flip
<1>6. ifg' <=> ifg \/ ies # lvl
  <2>1. ifg' = (ifg \/ ies = lvl')
    BY <1>2
  <2> QED BY <1>5, <2>1, Zenon
<1>7. ~ifg \/ ies = lvl
  BY <1>5 DEF Prompt
<1>8. cur' = [cur EXCEPT !.late = (cur.late \/ ifg), !.bad = (cur.bad \/ 0 # 0)]
  BY <1>1 DEF Edge
<1>9. (cur.late \/ ifg) \in BOOLEAN /\ (cur.bad \/ 0 # 0) \in BOOLEAN
  OBVIOUS
<1>10. cur' \in Cur /\ cur'.code = cur.code /\ cur'.lateBefore = cur.lateBefore
  BY <1>3, <1>8, <1>9 DEF Cur
<1>11. cur'.late = (cur.late \/ ifg) /\ cur'.bad = (cur.bad \/ 0 # 0)
  BY <1>3, <1>8 DEF Cur
<1>12. (cur'.bad <=> cur.bad) /\ (cur'.late <=> cur.late \/ ifg)
  BY <1>11
<1>13. codes' = IF Len(air) = 2 /\ cur.code # <<>> /\ ~(cur.bad \/ 0 # 0)
                THEN codes \cup {cur.code} ELSE codes
  BY <1>1 DEF Edge
<1>14. due' = IF (Len(air) = 1 /\ cur.code # <<>> /\ ~(cur.bad \/ 0 # 0))
                 /\ ~(cur.late \/ ifg) /\ ~cur.lateBefore THEN cur.code
              ELSE IF ifg THEN <<>> ELSE due
  BY <1>1 DEF Edge
<1>15. cur.code \in Codes
  BY <1>3 DEF Cur
<1>16. /\ codes \subseteq codes' /\ codes' \subseteq Bits
       /\ Len(air) = 2 /\ cur.code # <<>> /\ ~cur.bad => cur.code \in codes'
  BY <1>3, <1>13, <1>15 DEF Codes
<1>17. due = <<>>
  BY <1>2, NothingToFetch
<1>18. \/ due' = <<>>
       \/ due' = cur.code /\ Len(air) = 1 /\ Flawless /\ ~ifg
  BY <1>14, <1>17 DEF Flawless
<1>19. due' \in Codes
  BY <1>15, <1>18 DEF Codes
<1>20. counts' \in [sent : 0 .. MaxSent, late : 0 .. MaxLate, cuts : 0 .. MaxCuts]
  <2>1. MaxLate \in Nat
    BY NecAssumption
  <2>2. (IF ifg THEN counts.late + 1 ELSE counts.late) \in 0 .. MaxLate
    BY <1>2, <1>3, <2>1
  <2> QED BY <1>2, <1>3, <2>2
<1>21. since' = since + Head(air) /\ since' \in Nat
  BY <1>2, <1>3, <1>4
<1>22. ifg' \in BOOLEAN
  BY <1>2
<1>23. Types'
  BY <1>2, <1>3, <1>4, <1>5, <1>10, <1>16, <1>19, <1>20, <1>21, <1>22 DEF IInv, Types
<1> QED BY <1>2, <1>3, <1>5, <1>6, <1>7, <1>10, <1>12, <1>16, <1>18, <1>21, <1>23

\* The pulse that ends with the edge.
LEMMA PulseEnds ==
  ASSUME Clear, IInv, NEW q \in Nat, NEW j \in Nat, OnAir(q, j), air # <<>>
  PROVE  LET d == Head(air)
         IN /\ d \in Nat /\ cur.code \in Codes /\ Edges \in Nat /\ Edges = EdgesOf(cur.code)
            /\ Edges >= 4 /\ j <= Edges - 1
            /\ cur.bad => d = 200 /\ lvl = "low" /\ Len(air) = 1
            /\ ~cur.bad => Len(air) = Edges - j
            /\ ~cur.bad /\ j = 0 => d % 65536 > 17920 /\ d % 65536 <= MaxGap
            /\ ~cur.bad /\ j > 0 => d = Pulses(cur.code)[j]
            /\ j > 0 => d <= 8960
            /\ j > 1 => d <= 4480
            /\ j > 2 => d <= 1680
            /\ j > 2 /\ j % 2 = 1 => d <= 560
            /\ j = 0 => lvl = "high"
<1> DEFINE d == Head(air)
<1>1. Sent(j) /\ cur.code \in Codes /\ air \in Seq(Nat)
  BY DEF OnAir, IInv, Types, Cur
<1>2. Edges \in Nat /\ Edges = EdgesOf(cur.code) /\ Edges >= 4
  BY <1>1, PulsesAre DEF Edges
<1>3. j <= Edges - 1 /\ (j = 0 => lvl = "high")
  BY <1>1, <1>2 DEF Sent
<1>4. Len(air) \in Nat /\ Len(air) >= 1 /\ d = air[1] /\ d \in Nat
  BY <1>1
<1>5. CASE cur.bad
  <2>1. air = <<CutMark>> /\ lvl = "low"
    BY <1>1, <1>5 DEF Sent
  <2>2. d = 200 /\ Len(air) = 1
    BY <1>4, <2>1, Micros
  <2>3. j # 0
    BY <1>3, <2>1
  <2> QED BY <1>1, <1>2, <1>3, <1>4, <1>5, <2>1, <2>2, <2>3
<1>6. CASE ~cur.bad
  <2>1. Len(air) = Edges - j
    BY <1>1, <1>6 DEF Sent
  <2>2. j = 0 => d % 65536 > 17920 /\ d % 65536 <= MaxGap
    BY <1>1, <1>4, <1>6, Micros DEF Sent, Clear
  <2>3. j > 0 => d = Pulses(cur.code)[j]
    <3> SUFFICES ASSUME j > 0 PROVE d = Pulses(cur.code)[j]
      OBVIOUS
    <3>1. 1 \in 1 .. Len(air) /\ 1 + j > 1 /\ 1 + j - 1 = j
      BY <1>4
    <3>2. air[1] = Pulses(cur.code)[1 + j - 1]
      BY <1>1, <1>6, <3>1 DEF Sent
    <3> QED BY <1>4, <3>1, <3>2
  <2>4. j = 1 => d = 8960
    BY <1>1, <2>3, PulsesAre, Micros
  <2>5. j = 2 => d \in {2240, 4480}
    BY <1>1, <2>3, PulsesAre, Micros
  <2>6. j > 2 => j \in 3 .. EdgesOf(cur.code) - 1
    BY <1>2, <1>3
  <2>7. j > 2 => d \in {560, 1680}
    BY <1>1, <2>3, <2>6, PulsesAre, Micros
  <2>8. j > 2 /\ j % 2 = 1 => d = 560
    BY <1>1, <2>3, <2>6, PulsesAre, Micros
  <2>9. j > 0 => d <= 8960
    BY <2>4, <2>5, <2>7
  <2>10. (j > 1 => d <= 4480) /\ (j > 2 => d <= 1680)
    BY <2>5, <2>7
  <2> HIDE DEF d
  <2> QED BY <1>1, <1>2, <1>3, <1>4, <1>6, <2>1, <2>2, <2>3, <2>8, <2>9, <2>10 DEF d
<1> QED BY <1>5, <1>6

\* The 16 bits that are kept of a time.
LEMMA Kept ==
  ASSUME NEW a \in Nat, NEW b \in Nat
  PROVE  /\ (a % 65536) \in Nat /\ (a % 65536) < 65536
         /\ (a % 65536) + b < 65536 => (a + b) % 65536 = (a % 65536) + b
         /\ a + (b % 65536) < 65536 => (a + b) % 65536 = a + (b % 65536)
<1>1. (a % 65536) \in Nat /\ (a % 65536) < 65536
  OBVIOUS
<1>2. ASSUME (a % 65536) + b < 65536 PROVE (a + b) % 65536 = (a % 65536) + b
  BY <1>2
<1>3. ASSUME a + (b % 65536) < 65536 PROVE (a + b) % 65536 = a + (b % 65536)
  BY <1>3
<1> QED BY <1>1, <1>2, <1>3

\* The time since the handler ran, after the edge.
LEMMA EdgeStale ==
  ASSUME Clear, IInv, Prompt, NEW stretch \in Stretches, Edge(stretch),
         NEW j \in Nat, OnAir(0, j), ~cur.bad
  PROVE  Stale(j + 1)'
<1> DEFINE d == Head(air)
<1>1. /\ air # <<>> /\ since \in Nat /\ since' = since + d /\ (~ifg \/ ies = lvl)
      /\ UNCHANGED ies
      /\ ies = lvl' <=> ies # lvl
      /\ ifg' <=> ifg \/ ies # lvl
  BY EdgeFields
<1>2. /\ d \in Nat
      /\ j = 0 => (d % 65536) > 17920 /\ (d % 65536) <= 52095
      /\ j > 0 => d <= 8960
      /\ j > 1 => d <= 4480
  BY <1>1, PulseEnds, Micros
<1>3. /\ j = 0 => ~ifg /\ since <= 560
      /\ j > 0 => Heard > 17920
      /\ j = 1 => IF ifg THEN ies = lvl /\ Heard <= 52655 ELSE ies # lvl /\ Heard <= 52095
      /\ j = 2 => ifg
      /\ j = 2 /\ ies = lvl => Heard <= 61055
      /\ j = 3 => ifg /\ ies # lvl
  BY Micros DEF OnAir, Stale
<1>4. Behind(0, j)
  BY DEF OnAir
<1>5. j <= 2
  <2>1. j <= 3
    BY <1>4 DEF Behind
  <2> QED BY <1>1, <1>3, <2>1
<1>6. ~ifg /\ ies = lvl => since = 0
  BY DEF IInv, Clocked
<1> HIDE DEF d
<1> DEFINE kept == (d % 65536)
<1>7. Heard \in Nat /\ (Heard + d < 65536 => Heard' = Heard + d)
  <2>1. (since % 65536) \in Nat
    BY <1>1
  <2>2. (since % 65536) + d < 65536 => (since + d) % 65536 = (since % 65536) + d
    BY <1>1, <1>2, Kept
  <2> QED BY <1>1, <2>1, <2>2 DEF Heard
<1>8. kept \in Nat /\ (j = 0 => kept > 17920 /\ kept <= 52095)
  BY <1>2
<1>9. ASSUME since + kept < 65536 PROVE (since + d) % 65536 = since + kept
  BY <1>1, <1>2, <1>9, Kept
<1>10. Heard' = (since + d) % 65536
  BY <1>1 DEF Heard
<1> HIDE DEF kept
<1>11. CASE j = 0
  <2>1. ~ifg /\ since <= 560 /\ kept > 17920 /\ kept <= 52095 /\ kept \in Nat
    BY <1>3, <1>8, <1>11
  <2>2. Heard' = since + kept /\ Heard' > 17920
    <3>1. since + kept < 65536 /\ since + kept > 17920
      BY <1>1, <2>1
    <3>2. Heard' = since + kept
      BY <1>9, <1>10, <3>1
    <3> QED BY <3>1, <3>2
  <2>3. IF ifg' THEN ies = lvl' /\ Heard' <= 52655 ELSE ies # lvl' /\ Heard' <= 52095
    BY <1>1, <1>6, <2>1, <2>2
  <2>4. Stale(1)'
    BY <1>1, <2>2, <2>3, Micros DEF Stale
  <2> QED BY <1>11, <2>4
<1>12. CASE j = 1
  <2>1. Heard > 17920 /\ d <= 8960
    BY <1>3, <1>2, <1>12
  <2>2. Heard <= 52655
    BY <1>3, <1>7, <1>12
  <2>3. Heard' = Heard + d /\ Heard' > 17920
    BY <1>2, <1>7, <2>1, <2>2
  <2>4. CASE ifg
    <3>1. ifg' /\ ies' # lvl'
      BY <1>1, <2>4
    <3>2. Stale(2)'
      BY <2>3, <3>1, Micros DEF Stale
    <3> QED BY <1>12, <3>2
  <2>5. CASE ~ifg
    <3>1. ies # lvl /\ Heard <= 52095
      BY <1>3, <1>12, <2>5
    <3>2. ifg' /\ ies' = lvl' /\ Heard' <= 61055
      BY <1>1, <1>2, <1>7, <2>1, <2>3, <3>1
    <3>3. Stale(2)'
      BY <2>3, <3>2, Micros DEF Stale
    <3> QED BY <1>12, <3>3
  <2> QED BY <2>4, <2>5
<1>13. CASE j = 2
  <2>1. ifg /\ ies = lvl /\ Heard > 17920 /\ Heard <= 61055 /\ d <= 4480
    BY <1>1, <1>2, <1>3, <1>13
  <2>2. Heard' = Heard + d /\ Heard' > 17920
    BY <1>2, <1>7, <2>1
  <2>3. ifg' /\ ies' # lvl'
    BY <1>1, <2>1
  <2>4. Stale(3)'
    BY <2>2, <2>3, Micros DEF Stale
  <2> QED BY <1>13, <2>4
<1> QED BY <1>5, <1>11, <1>12, <1>13

LEMMA EdgeSince ==
  ASSUME Clear, IInv, Prompt, NEW stretch \in Stretches, Edge(stretch),
         NEW q \in Nat, NEW j \in Nat, OnAir(q, j), q > 0, ~cur.bad
  PROVE  Since(q, j + 1)'
<1> DEFINE d == Head(air)
<1>1. /\ air # <<>> /\ since \in Nat /\ since' = since + d /\ (~ifg \/ ies = lvl)
      /\ ies = lvl' <=> ies # lvl
      /\ ifg' <=> ifg \/ ies # lvl
      /\ cur'.code = cur.code /\ UNCHANGED ies
  BY EdgeFields
<1>2. Behind(q, j) /\ Since(q, j)
  BY DEF OnAir
<1>3. q <= j /\ j <= q + 2
  BY <1>1, <1>2 DEF Behind
<1>4. /\ d \in Nat /\ cur.code \in Codes
      /\ d = Pulses(cur.code)[j]
      /\ d <= 8960
      /\ j > 2 => d <= 1680
  BY <1>1, <1>3, PulseEnds
<1>5. /\ since <= (j - q) * 8960
      /\ q > 2 => since <= (j - q) * 1680
      /\ j = q + 1 => since = Pulses(cur.code)[q]
      /\ q = 1 /\ j = 1 => ies # lvl
      /\ q = 1 /\ j = 2 => ifg
      /\ q = 1 /\ j > 2 /\ cur.code # <<>> => since >= 13440
      /\ q = 2 /\ j > 2 /\ cur.code # <<>> => since >= 4480
  BY <1>2, Micros DEF Since
<1> HIDE DEF d
<1>6. j - q \in {0, 1, 2}
  BY <1>3
<1>7. since' <= (j + 1 - q) * 8960
  <2>1. since <= (j - q) * 8960 /\ d <= 8960 /\ d \in Nat /\ since \in Nat /\ since' = since + d
    BY <1>1, <1>4, <1>5
  <2>2. CASE j - q = 0
    BY <2>1, <2>2
  <2>3. CASE j - q = 1
    BY <2>1, <2>3
  <2>4. CASE j - q = 2
    BY <2>1, <2>4
  <2> QED BY <1>6, <2>2, <2>3, <2>4
<1>8. q > 2 => since' <= (j + 1 - q) * 1680
  <2> SUFFICES ASSUME q > 2 PROVE since' <= (j + 1 - q) * 1680
    OBVIOUS
  <2>1. d <= 1680 /\ since <= (j - q) * 1680
    BY <1>3, <1>4, <1>5
  <2>2. CASE j - q = 0
    BY <1>1, <1>4, <2>1, <2>2
  <2>3. CASE j - q = 1
    BY <1>1, <1>4, <2>1, <2>3
  <2>4. CASE j - q = 2
    BY <1>1, <1>4, <2>1, <2>4
  <2> QED BY <1>6, <2>2, <2>3, <2>4
<1>9. j + 1 = q + 1 => since' = Pulses(cur'.code)[q]
  BY <1>1, <1>4, <1>5
<1>10. ~(q = 1 /\ j + 1 = 1)
  BY <1>3
<1>11. q = 1 /\ j + 1 = 2 => ifg'
  BY <1>1, <1>5
<1>12. ASSUME q = 1, j + 1 > 2, cur.code # <<>> PROVE since' >= 13440
  <2>1. CASE j = 2
    <3>1. Pulses(cur.code)[1] = 8960 /\ Pulses(cur.code)[2] = 4480
      BY <1>4, <1>12, PulsesAre, Micros
    <3>2. since = 8960 /\ d = 4480
      BY <1>4, <1>5, <1>12, <2>1, <3>1
    <3> QED BY <1>1, <3>2
  <2>2. CASE j > 2
    BY <1>1, <1>4, <1>5, <1>12, <2>2
  <2> QED BY <1>12, <2>1, <2>2
<1>13. ASSUME q = 2, j + 1 > 2, cur.code # <<>> PROVE since' >= 4480
  <2>1. CASE j = 2
    <3>1. Pulses(cur.code)[2] = 4480
      BY <1>4, <1>13, PulsesAre, Micros
    <3> QED BY <1>1, <1>4, <2>1, <3>1
  <2>2. CASE j > 2
    BY <1>1, <1>4, <1>5, <1>13, <2>2
  <2> QED BY <1>13, <2>1, <2>2
<1> QED BY <1>1, <1>7, <1>8, <1>9, <1>10, <1>11, <1>12, <1>13, Micros DEF Since

LEMMA EdgeSent ==
  ASSUME Clear, IInv, Prompt, NEW stretch \in Stretches, Edge(stretch),
         NEW q \in Nat, NEW j \in Nat, OnAir(q, j), ~cur.bad, air' # <<>>
  PROVE  Sent(j + 1)'
<1>1. /\ air # <<>> /\ air \in Seq(Nat) /\ air' = Tail(air)
      /\ lvl = "high" <=> lvl' = "low"
      /\ lvl = "low" <=> lvl' = "high"
      /\ cur'.code = cur.code /\ ~cur'.bad
      /\ codes \subseteq codes'
      /\ Len(air) = 2 /\ cur.code # <<>> => cur.code \in codes'
  BY EdgeFields
<1>2. Sent(j) /\ Len(air) = Edges - j
  BY DEF OnAir, Sent
<1>3. cur.code \in Codes /\ Edges \in Nat /\ Edges = EdgesOf(cur.code) /\ j <= Edges - 1
  BY <1>1, PulseEnds
<1>4. Len(air') = Edges - (j + 1) /\ Len(air') >= 1
  <2>1. Len(air') = Len(air) - 1
    BY <1>1
  <2>2. Len(air') # 0 /\ Len(air') \in Nat
    BY <1>1
  <2> QED BY <1>2, <1>3, <2>1, <2>2
<1>5. Edges' = Edges
  BY <1>1 DEF Edges
<1>6. j + 1 \in 0 .. Edges' - 1
  BY <1>3, <1>4, <1>5
<1>7. lvl' = IF (j + 1) % 2 = 0 THEN "high" ELSE "low"
  <2>1. CASE j % 2 = 0
    <3>1. (j + 1) % 2 = 1 /\ lvl = "high"
      BY <1>2, <2>1 DEF Sent
    <3> QED BY <1>1, <3>1
  <2>2. CASE j % 2 # 0
    <3>1. (j + 1) % 2 = 0 /\ lvl = "low"
      BY <1>2, <2>2 DEF Sent
    <3> QED BY <1>1, <3>1
  <2> QED BY <2>1, <2>2
<1>8. ASSUME NEW i \in 1 .. Len(air')
      PROVE  air'[i] = Pulses(cur'.code)[i + (j + 1) - 1]
  <2>1. i + 1 \in 1 .. Len(air) /\ (i + 1) + j > 1 /\ (i + 1) + j - 1 = i + (j + 1) - 1
    <3>1. i \in Nat /\ i >= 1 /\ i <= Len(air')
      BY <1>4
    <3>2. Len(air) \in Nat /\ Len(air') = Len(air) - 1
      BY <1>1
    <3> QED BY <3>1, <3>2
  <2>2. air'[i] = air[i + 1]
    BY <1>1, <1>8
  <2>3. air[i + 1] = Pulses(cur.code)[(i + 1) + j - 1]
    BY <1>2, <2>1 DEF Sent
  <2> QED BY <1>1, <2>1, <2>2, <2>3
<1>9. ASSUME cur.code # <<>>, j + 1 >= 2 * NEC_BITS + 3 PROVE cur.code \in codes'
  <2>1. Edges = 2 * NEC_BITS + 4
    BY <1>3, <1>9 DEF EdgesOf
  <2>2. CASE j >= 2 * NEC_BITS + 3
    BY <1>1, <1>2, <1>9, <2>2 DEF Sent
  <2>3. CASE j + 1 = 2 * NEC_BITS + 3
    <3>1. Len(air) = 2
      BY <1>2, <2>1, <2>3, Length
    <3> QED BY <1>1, <1>9, <3>1
  <2> QED BY <1>9, <2>2, <2>3, Length
<1>10. j + 1 # 0
  OBVIOUS
<1> QED BY <1>1, <1>4, <1>5, <1>6, <1>7, <1>8, <1>9, <1>10 DEF Sent

\* An edge sets the flag of a pin that waits for it.
LEMMA EdgeInStep ==
  ASSUME Clear, IInv, Prompt, NEW stretch \in Stretches, Edge(stretch),
         NEW q \in Nat, NEW j \in Nat, OnAir(q, j), ~cur'.late, j >= 1 \/ ~cur.lateBefore
  PROVE  InStep' /\ ifg' /\ ~ifg /\ ~cur.late
<1>1. /\ ies = lvl' <=> ies # lvl
      /\ ifg' <=> ifg \/ ies # lvl
      /\ cur'.late <=> cur.late \/ ifg
      /\ UNCHANGED ies
  BY EdgeFields
<1>2. ~ifg /\ ~cur.late
  BY <1>1
<1>3. ies # lvl
  <2>1. CASE j > 1 \/ ~cur.lateBefore
    BY <1>2, <2>1 DEF OnAir, InStep
  <2>2. CASE j = 1
    <3>1. q = 0 \/ q = 1
      BY <2>2 DEF OnAir, Behind
    <3> QED BY <1>2, <2>2, <3>1 DEF OnAir, Stale, Since
  <2> QED BY <2>1, <2>2
<1> QED BY <1>1, <1>2, <1>3 DEF InStep

LEMMA EdgeOnAir ==
  ASSUME Clear, IInv, Prompt, NEW stretch \in Stretches, Edge(stretch),
         NEW q \in Nat, NEW j \in Nat, OnAir(q, j), air' # <<>>
  PROVE  OnAir(q, j + 1)'
<1>1. /\ air # <<>> /\ air \in Seq(Nat) /\ air' = Tail(air)
      /\ ~ifg \/ ies = lvl
      /\ UNCHANGED <<ies, rx>>
      /\ ies = lvl' <=> ies # lvl
      /\ ifg' <=> ifg \/ ies # lvl
      /\ cur'.code = cur.code /\ cur'.lateBefore = cur.lateBefore
      /\ cur'.bad <=> cur.bad
      /\ cur'.late <=> cur.late \/ ifg
  BY EdgeFields
<1>2. ~cur.bad
  <2>1. cur.bad => Len(air) = 1
    BY <1>1, PulseEnds
  <2>2. Len(air) = 1 => air' = <<>>
    BY <1>1
  <2> QED BY <2>1, <2>2
<1>3. Sent(j + 1)'
  BY <1>2, EdgeSent
<1>4. Behind(q, j)
  BY DEF OnAir
<1>5. Behind(q, j + 1)'
  <2>1. q \in 0 .. j + 1 /\ j + 1 <= q + 3
    BY <1>1, <1>4 DEF Behind
  <2>2. ifg' => j + 1 >= q + 1
    BY <1>4 DEF Behind
  <2>3. ~ifg' => j + 1 <= q + 1
    BY <1>1, <1>4 DEF Behind
  <2>4. ies' = lvl' => j + 1 <= q + 2
    BY <1>1, <1>4 DEF Behind
  <2>5. ~(~ifg' /\ ies' = lvl')
    BY <1>1
  <2> QED BY <2>1, <2>2, <2>3, <2>4, <2>5 DEF Behind
<1>6. q = 0 => Stale(j + 1)'
  BY <1>2, EdgeStale
<1>7. q > 0 => Since(q, j + 1)'
  BY <1>2, EdgeSince
<1>8. q > 0 => Entered(q)'
  BY <1>1, Zenon DEF OnAir, Entered, Agrees
<1>9. ~cur'.late /\ (j + 1 > 1 \/ ~cur'.lateBefore) => InStep'
  BY <1>1, EdgeInStep
<1>10. Flawless' => Follows(q, j + 1)'
  <2> SUFFICES ASSUME Flawless' PROVE Follows(q, j + 1)'
    OBVIOUS
  <2>1. Flawless /\ ~cur'.late /\ ~cur.lateBefore
    BY <1>1 DEF Flawless
  <2>2. Follows(q, j)
    BY <2>1 DEF OnAir
  <2>3. InStep' /\ ifg' /\ ~ifg
    BY <2>1, EdgeInStep
  <2>4. j + 1 = q + 1
    BY <2>2, <2>3 DEF Follows
  <2> QED BY <1>1, <2>2, <2>3, <2>4 DEF Follows
<1> QED BY <1>3, <1>5, <1>6, <1>7, <1>8, <1>9, <1>10, Zenon DEF OnAir

LEMMA EdgeSilent ==
  ASSUME Clear, IInv, Prompt, NEW stretch \in Stretches, Edge(stretch),
         NEW q \in Nat, NEW j \in Nat, OnAir(q, j), air' = <<>>
  PROVE  Silent'
<1>1. /\ air # <<>> /\ air \in Seq(Nat) /\ air' = Tail(air)
      /\ lvl = "low" <=> lvl' = "high"
      /\ ies = lvl' <=> ies # lvl
      /\ ifg' <=> ifg \/ ies # lvl
      /\ since \in Nat /\ since' = since + Head(air)
  BY EdgeFields
<1>2. Len(air) = 1
  <2>1. Len(Tail(air)) = Len(air) - 1 /\ Len(air) \in Nat
    BY <1>1
  <2>2. Tail(air) = <<>>
    BY <1>1
  <2>3. Len(<<>>) = 0
    OBVIOUS
  <2>4. Len(Tail(air)) = 0
    BY <2>2, <2>3
  <2> QED BY <2>1, <2>4
<1>3. /\ cur.code \in Codes /\ Edges \in Nat /\ Edges = EdgesOf(cur.code) /\ Edges >= 4
      /\ Head(air) \in Nat
      /\ cur.bad => Head(air) = 200 /\ lvl = "low"
      /\ ~cur.bad => Len(air) = Edges - j
      /\ j > 2 /\ j % 2 = 1 => Head(air) <= 560
      /\ j = 0 => lvl = "high"
  BY <1>1, PulseEnds
<1>4. ~cur.bad => j = Edges - 1 /\ j % 2 = 1 /\ j > 2
  <2>1. Edges % 2 = 0
    BY <1>3, Length DEF EdgesOf
  <2> QED BY <1>2, <1>3, <2>1
<1>5. lvl = "low" /\ j >= 1
  <2>1. ~cur.bad => lvl = "low"
    BY <1>4 DEF OnAir, Sent
  <2> QED BY <1>3, <2>1
<1>6. Head(air) <= 560
  BY <1>3, <1>4
<1>7. ~ifg' => since' <= NEC_BIT_MARK
  <2>1. ~ifg /\ ies = lvl => since = 0
    BY DEF IInv, Clocked
  <2> QED BY <1>1, <1>3, <1>6, <2>1, Micros
<1>8. ~cur'.late => InStep'
  BY <1>5, EdgeInStep
<1> QED BY <1>1, <1>5, <1>7, <1>8 DEF Silent

\* A frame that has been followed from edge to edge is owed with its last edge.
LEMMA EdgeOwes ==
  ASSUME Clear, IInv, Prompt, NEW stretch \in Stretches, Edge(stretch),
         NEW q \in Nat, NEW j \in Nat, OnAir(q, j), due' # <<>>
  PROVE  Owed'
<1>1. /\ air # <<>> /\ air \in Seq(Nat) /\ air' = Tail(air)
      /\ UNCHANGED rx
      /\ since \in Nat /\ since' = since + Head(air)
      /\ due' = cur.code /\ Len(air) = 1 /\ Flawless /\ ~ifg
      /\ cur'.late <=> cur.late \/ ifg
  BY EdgeFields
<1>2. air' = <<>>
  <2>1. air' \in Seq(Nat) /\ Len(air') = 0
    BY <1>1
  <2> QED BY <2>1
<1>3. ~cur.bad /\ cur.code # <<>> /\ ~cur'.late /\ ~cur.lateBefore
  BY <1>1 DEF Flawless
<1>4. ifg'
  BY <1>3, EdgeInStep
<1>5. /\ cur.code \in Codes /\ Edges = EdgesOf(cur.code) /\ Edges \in Nat
      /\ Len(air) = Edges - j /\ (j > 0 => Head(air) = Pulses(cur.code)[j])
  BY <1>1, <1>3, PulseEnds
<1>6. cur.code \in Bits /\ Edges = 2 * NEC_BITS + 4
  BY <1>3, <1>5 DEF Codes, EdgesOf
<1>7. j = 2 * NEC_BITS + 3 /\ j > 2 /\ j % 2 = 1
  <2>1. j = 2 * NEC_BITS + 3
    BY <1>1, <1>5, <1>6, Length
  <2>2. (2 * NEC_BITS + 3) % 2 = 1 /\ 2 * NEC_BITS + 3 > 2
    BY Length
  <2> QED BY <2>1, <2>2
<1>8. Follows(q, j) /\ q = j
  BY <1>1 DEF OnAir, Follows
<1>9. rx.state = "DATA_SPACE" /\ ~rx.repeat /\ 2 * Len(rx.data) + 3 = q
  BY <1>7, <1>8 DEF Follows
<1>10. Since(q, j) /\ Entered(q)
  BY <1>7, <1>8 DEF OnAir
<1>11. Agrees
  BY <1>9, <1>10 DEF Entered
<1>12. rx.data \in Seq({0, 1}) /\ Len(rx.data) \in Nat
  BY DEF IInv, Types, Rx
<1>13. Len(rx.data) = NEC_BITS
  BY <1>7, <1>8, <1>9, <1>12, Length
<1>14. rx.data = cur.code
  BY <1>6, <1>11, <1>12, <1>13, AllAgree DEF Agrees
<1>15. since = 0
  <2>1. since <= (j - q) * 8960 /\ j - q = 0
    BY <1>8, <1>10, Micros DEF Since
  <2> QED BY <1>1, <2>1
<1>16. Head(air) = 560
  <2>1. j \in 3 .. EdgesOf(cur.code) - 1
    <3>1. EdgesOf(cur.code) = 2 * NEC_BITS + 4
      BY <1>5, <1>6
    <3> QED BY <1>7, <3>1, Length
  <2>2. Pulses(cur.code)[j] = NEC_BIT_MARK
    BY <1>5, <1>7, <2>1, PulsesAre
  <2>3. Head(air) = Pulses(cur.code)[j]
    BY <1>5, <1>7
  <2> QED BY <2>2, <2>3, Micros
<1> QED BY <1>1, <1>2, <1>4, <1>9, <1>13, <1>14, <1>15, <1>16, Micros DEF Owed

LEMMA EdgeKeeps ==
  ASSUME Clear, IInv, Prompt, NEW stretch \in Stretches, Edge(stretch)
  PROVE  IInv'
<1>1. /\ air # <<>>
      /\ UNCHANGED <<rx, pc, tmp, got>>
      /\ ies = lvl' <=> ies # lvl
      /\ ifg' <=> ifg \/ ies # lvl
      /\ UNCHANGED ies
      /\ codes \subseteq codes' /\ Types'
  BY EdgeFields
<1>2. ~rx.newCommandAvailable /\ pc = "loop"
  BY <1>1, NothingToFetch
<1>3. PICK q \in Nat, j \in Nat : OnAir(q, j)
  BY <1>1 DEF IInv
<1>4. Clocked'
  BY <1>1 DEF Clocked
<1>5. Holds'
  BY <1>1 DEF IInv, Holds
<1>6. due' # <<>> => Owed'
  BY <1>3, EdgeOwes
<1>7. Told'
  BY <1>1, <1>2, <1>6 DEF IInv, Told
<1>8. CASE air' = <<>>
  BY <1>1, <1>3, <1>4, <1>5, <1>7, <1>8, EdgeSilent DEF IInv
<1>9. CASE air' # <<>>
  <2>1. OnAir(q, j + 1)' /\ j + 1 \in Nat
    BY <1>3, <1>9, EdgeOnAir
  <2> QED BY <1>1, <1>4, <1>5, <1>7, <1>9, <2>1 DEF IInv
<1> QED BY <1>8, <1>9

(***************************************************************************)
(* The invariant is inductive.                                             *)
(***************************************************************************)
LEMMA StepKeeps ==
  ASSUME Clear, IInv, [Next]_vars, [Prompt]_vars
  PROVE  IInv'
<1>1. ASSUME NEW gap \in Gaps, SendRepeat(gap) PROVE IInv'
  <2>1. <<>> \in Codes /\ Begin(<<>>, Pulses(<<>>), gap)
    BY <1>1 DEF SendRepeat, Pulses, Codes
  <2> QED BY <2>1, BeginKeeps
<1>2. ASSUME NEW gap \in Gaps, NEW c \in Bits, SendFrame(c, gap) PROVE IInv'
  <2>1. c \in Codes /\ Begin(c, Pulses(c), gap)
    BY <1>2, BitsAreCodes DEF SendFrame, Pulses, Codes
  <2> QED BY <2>1, BeginKeeps
<1>3. ASSUME NEW stretch \in Stretches, Edge(stretch) PROVE IInv'
  <2>1. air # <<>> /\ air \in Seq(Nat) /\ air' = Tail(air)
    BY <1>3 DEF Edge, Idle, IInv, Types
  <2>2. air' # air
    <3>1. Len(air') = Len(air) - 1 /\ Len(air) \in Nat
      BY <2>1
    <3> QED BY <3>1
  <2>3. Prompt
    BY <2>2 DEF vars
  <2> QED BY <1>3, <2>3, EdgeKeeps
<1>4. CASE Cut
  BY <1>4, CutKeeps
<1>5. CASE Interrupt
  BY <1>5, InterruptKeeps
<1>6. CASE DecodeTest \/ DecodeAddress \/ DecodeCommand \/ DecodeRepeat
  BY <1>6, DecodeReadKeeps
<1>7. CASE DecodeClear
  BY <1>7, DecodeClearKeeps
<1>8. CASE UNCHANGED vars
  <2>1. UNCHANGED <<mode, lvl, since, ies, ifg, rx, air, cur, counts, pc, tmp, got, codes, due>>
    BY <1>8 DEF vars, line, sketch
  <2>2. Types' /\ Clocked' /\ Holds' /\ Told'
    BY <2>1 DEF IInv, Types, Clocked, Holds, Told, Owed
  <2>3. air' = <<>> => Silent'
    BY <2>1 DEF IInv, Silent, InStep
  <2>4. ASSUME air' # <<>> PROVE \E q, j \in Nat : OnAir(q, j)'
    <3>1. PICK q \in Nat, j \in Nat : OnAir(q, j)
      BY <2>1, <2>4 DEF IInv
    <3>2. Sent(j)' <=> Sent(j)
      BY <2>1 DEF Sent, Edges
    <3>3. (Behind(q, j)' <=> Behind(q, j)) /\ (Stale(j)' <=> Stale(j))
      BY <2>1 DEF Behind, Stale, Heard
    <3>4. (Since(q, j)' <=> Since(q, j)) /\ (Entered(q)' <=> Entered(q))
      BY <2>1 DEF Since, Entered, Agrees
    <3>5. (InStep' <=> InStep) /\ (Flawless' <=> Flawless)
      BY <2>1 DEF InStep, Flawless
    <3>6. Follows(q, j)' <=> Follows(q, j)
      BY <2>1, <3>5 DEF Follows
    <3>7. cur' = cur
      BY <2>1
    <3>8. OnAir(q, j)'
      BY <3>1, <3>2, <3>3, <3>4, <3>5, <3>6, <3>7, Zenon DEF OnAir
    <3> QED BY <3>8
  <2> QED BY <2>2, <2>3, <2>4 DEF IInv
<1> QED BY <1>1, <1>2, <1>3, <1>4, <1>5, <1>6, <1>7, <1>8 DEF Next, Decode

LEMMA Invariant == ASSUME Clear PROVE Spec /\ [][Prompt]_vars => []IInv
<1>1. Init => IInv
  BY InitInv
<1>2. IInv /\ [Next]_vars /\ [Prompt]_vars => IInv'
  BY StepKeeps
<1> QED BY <1>1, <1>2, PTL DEF Spec

LEMMA ImpliesTypeOK == ASSUME Clear, IInv PROVE TypeOK
<1>1. Types /\ Holds
  BY DEF IInv
<1>2. /\ rx.state \in States /\ rx.data \in Seq({0, 1}) /\ rx.repeat \in BOOLEAN
      /\ rx.newCommandAvailable \in BOOLEAN /\ cur.code \in Codes
  BY <1>1 DEF Types, Rx, Cur
<1>3. rx.data \in BoundedSeq({0, 1}, NEC_BITS)
  <2> DEFINE n == Len(rx.data)
  <2>1. n \in 0 .. NEC_BITS
    BY <1>1, <1>2, Length DEF Holds
  <2>2. rx.data \in [1 .. n -> {0, 1}]
    BY <1>2
  <2> HIDE DEF n
  <2>3. rx.data \in UNION {[1 .. m -> {0, 1}] : m \in 0 .. NEC_BITS}
    BY <2>1, <2>2
  <2> QED BY <2>3 DEF BoundedSeq, SeqOf
<1>4. Len(air) <= 2 * NEC_BITS + 4
  <2>1. CASE air = <<>>
    <3>1. Len(air) = 0
      BY <2>1
    <3> QED BY <3>1, Length
  <2>2. CASE air # <<>>
    <3>1. PICK q \in Nat, j \in Nat : OnAir(q, j)
      BY <2>2 DEF IInv
    <3>2. /\ cur.bad => Len(air) = 1
          /\ ~cur.bad => Len(air) = Edges - j
          /\ Edges \in Nat /\ Edges = EdgesOf(cur.code)
      BY <2>2, <3>1, PulseEnds
    <3>3. EdgesOf(cur.code) <= 2 * NEC_BITS + 4
      BY Length DEF EdgesOf
    <3>4. CASE cur.bad
      <4>1. Len(air) = 1
        BY <3>2, <3>4, Zenon
      <4> QED BY <4>1, Length
    <3>5. CASE ~cur.bad
      <4>1. Len(air) = EdgesOf(cur.code) - j /\ EdgesOf(cur.code) \in Nat
        BY <3>2, <3>5
      <4> QED BY <3>3, <4>1, Length
    <3> QED BY <3>4, <3>5
  <2> QED BY <2>1, <2>2
<1>5. rx.repeat => Len(rx.data) = NEC_BITS
  BY <1>1 DEF Holds
<1> QED BY <1>1, <1>2, <1>3, <1>4, <1>5 DEF TypeOK, Types, Codes

LEMMA ImpliesSent == ASSUME IInv PROVE DecodedWasSent
  BY DEF IInv, Told, DecodedWasSent

LEMMA ImpliesReceived == ASSUME IInv PROVE FrameReceived
  BY DEF IInv, Told, Owed, FrameReceived

(***************************************************************************)
(* The theorems.                                                           *)
(***************************************************************************)
\* The receiver never holds more bits than a code has, and takes a repeat only when
\* it holds them all (interruptHandler()).
THEOREM ReceiverTyped == ASSUME Clear PROVE Spec /\ [][Prompt]_vars => []TypeOK
<1>1. IInv => TypeOK
  BY ImpliesTypeOK
<1> QED BY <1>1, Invariant, PTL

\* What the sketch gets is a code that was sent to its last bit, for codes of any
\* length and whatever transmissions break off or edges are missed
\* (interruptHandler(), decodeIR()).
THEOREM CodesAreSent == ASSUME Clear PROVE Spec /\ [][Prompt]_vars => []DecodedWasSent
<1>1. IInv => DecodedWasSent
  BY ImpliesSent
<1> QED BY <1>1, Invariant, PTL

\* A whole frame whose edges are handled in time reaches the sketch, whatever was
\* sent before it and however that ended (interruptHandler()).
THEOREM FramesArrive == ASSUME Clear PROVE Spec /\ [][Prompt]_vars => []FrameReceived
<1>1. IInv => FrameReceived
  BY ImpliesReceived
<1> QED BY <1>1, Invariant, PTL

(***************************************************************************)
(* One edge that comes before the handler cannot break Prompt: for it the  *)
(* theorems hold without the condition.                                    *)
(***************************************************************************)
LateOnce ==
  /\ lvl \in {"high", "low"} /\ ies \in {"high", "low"}
  /\ counts \in [sent : Nat, late : Nat, cuts : Nat]
  /\ ifg /\ ies # lvl => counts.late >= 1

LEMMA LateOnceKept == LateOnce /\ [Next]_vars => LateOnce'
<1> SUFFICES ASSUME LateOnce, [Next]_vars PROVE LateOnce'
  OBVIOUS
<1> USE DEF LateOnce
<1>1. ASSUME NEW c, NEW pulses, NEW gap, Begin(c, pulses, gap) PROVE LateOnce'
  BY <1>1 DEF Begin, line
<1>2. ASSUME NEW stretch \in Stretches, Edge(stretch) PROVE LateOnce'
  <2>1. /\ lvl' = Flip(lvl) /\ UNCHANGED ies
        /\ counts' = [counts EXCEPT !.late = IF ifg THEN counts.late + 1 ELSE counts.late]
    BY <1>2 DEF Edge
  <2>2. ifg' = (ifg \/ ies = lvl')
    BY <1>2 DEF Edge
  <2>3. ~ifg /\ ies' # lvl' => ~ifg'
    BY <2>1, <2>2, Zenon
  <2>4. ifg => counts'.late >= 1
    BY <2>1
  <2>5. counts' \in [sent : Nat, late : Nat, cuts : Nat]
    BY <2>1
  <2>6. lvl' \in {"high", "low"}
    BY <2>1 DEF Flip
  <2> QED BY <2>1, <2>3, <2>4, <2>5, <2>6
<1>3. CASE Cut
  BY <1>3 DEF Cut, line
<1>4. CASE Interrupt
  BY <1>4 DEF Interrupt, Flip
<1>5. CASE DecodeTest \/ DecodeAddress \/ DecodeCommand \/ DecodeRepeat
  BY <1>5 DEF DecodeTest, DecodeAddress, DecodeCommand, DecodeRepeat, line
<1>6. CASE DecodeClear
  BY <1>6 DEF DecodeClear, line
<1>7. CASE UNCHANGED vars
  BY <1>7 DEF vars, line
<1> QED BY <1>1, <1>2, <1>3, <1>4, <1>5, <1>6, <1>7 DEF Next, Decode, SendRepeat, SendFrame

LEMMA LateOnceIsPrompt ==
  ASSUME MaxLate <= 1, LateOnce, [Next]_vars
  PROVE  [Prompt]_vars
<1> SUFFICES ASSUME ifg, lvl # ies PROVE lvl' = lvl
  BY DEF Prompt
<1>1. counts.late >= 1 /\ counts.late \in Nat /\ MaxLate \in Nat
  BY NecAssumption DEF LateOnce
<1>2. ASSUME NEW stretch \in Stretches, Edge(stretch) PROVE FALSE
  <2>1. counts.late < MaxLate
    BY <1>2 DEF Edge
  <2> QED BY <1>1, <2>1
<1>3. ASSUME NEW c, NEW pulses, NEW gap, Begin(c, pulses, gap) PROVE lvl' = lvl
  BY <1>3 DEF Begin, line
<1>4. Cut \/ Interrupt \/ Decode \/ UNCHANGED vars => lvl' = lvl
  <2>1. Cut => lvl' = lvl
    BY DEF Cut, line
  <2>2. Interrupt => lvl' = lvl
    BY DEF Interrupt
  <2>3. Decode \/ UNCHANGED vars => lvl' = lvl
    BY DEF Decode, DecodeTest, DecodeAddress, DecodeCommand, DecodeRepeat, DecodeClear,
           vars, line
  <2> QED BY <2>1, <2>2, <2>3, Zenon
<1>5. ASSUME NEW gap \in Gaps, SendRepeat(gap) \/ \E c \in Bits : SendFrame(c, gap)
      PROVE  lvl' = lvl
  BY <1>3, <1>5, Zenon DEF SendRepeat, SendFrame
<1> QED BY <1>2, <1>4, <1>5, Zenon DEF Next

\* With at most one edge missed the receiver is right whenever it comes
\* (interruptHandler(), decodeIR()).
THEOREM OneEdgeMissed ==
  ASSUME Clear, MaxLate <= 1
  PROVE  Spec => [](TypeOK /\ DecodedWasSent /\ FrameReceived)
<1>1. Init => LateOnce
  BY DEF Init, LateOnce
<1>2. LateOnce /\ [Next]_vars => LateOnce'
  BY LateOnceKept
<1>3. LateOnce /\ [Next]_vars => [Prompt]_vars
  BY LateOnceIsPrompt
<1>4. Spec => [][Prompt]_vars
  BY <1>1, <1>2, <1>3, PTL DEF Spec
<1> QED BY <1>4, ReceiverTyped, CodesAreSent, FramesArrive, PTL
=============================================================================
