---------------------------- MODULE SerialInput ----------------------------
(***************************************************************************)
(* What the receiving side of a serial port promises to a sketch.  The     *)
(* characters that arrive after the port was opened are numbered 1, 2, ... *)
(* Every character the port kept is returned by one call of read(), once   *)
(* and in order of arrival.  Characters may be lost, but only the youngest *)
(* ones: while the receiver is not served, or when Capacity are waiting.   *)
(***************************************************************************)
EXTENDS Naturals, Sequences, SequencesExt

CONSTANT Capacity

VARIABLES
  open,     \* the port is open
  arrived,  \* how many characters came in since the port was opened
  queue,    \* the characters kept and not yet returned
  got       \* the characters read() returned, in order

inputVars == <<open, arrived, queue, got>>

Init == open = TRUE /\ arrived = 0 /\ queue = <<>> /\ got = <<>>

Keep ==
  /\ open
  /\ arrived' = arrived + 1
  /\ queue' = Append(queue, arrived')
  /\ UNCHANGED <<open, got>>

\* the receiver is overrun: the new character is lost, and the one before
\* it when that had not been fetched
Overrun ==
  /\ open
  /\ arrived' = arrived + 1
  /\ queue' \in {queue} \cup {Front(q) : q \in {queue} \ {<<>>}}
  /\ UNCHANGED <<open, got>>

DropNewest ==
  /\ Len(queue) = Capacity + 1
  /\ queue' = Front(queue)
  /\ UNCHANGED <<open, arrived, got>>

Deliver ==
  /\ queue # <<>>
  /\ got' = Append(got, Head(queue))
  /\ queue' = Tail(queue)
  /\ UNCHANGED <<open, arrived>>

\* end(): what was not read is discarded
Close == open /\ open' = FALSE /\ queue' = <<>> /\ UNCHANGED <<arrived, got>>

Reopen == ~open /\ open' = TRUE /\ arrived' = 0 /\ queue' = <<>> /\ got' = <<>>

Next == Keep \/ Overrun \/ DropNewest \/ Deliver \/ Close \/ Reopen

Spec == Init /\ [][Next]_inputVars
=============================================================================
