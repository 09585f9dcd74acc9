--------------------------- MODULE SerialChannel ---------------------------
(***************************************************************************)
(* What a serial port promises to a sketch: the bytes it accepted come out *)
(* on the wire once each and in the order they were accepted.  The k-th    *)
(* byte accepted since the port was opened is written k.  The promise ends *)
(* when the port sends old bytes of its buffer, until it is opened again.  *)
(***************************************************************************)
EXTENDS Naturals, Sequences

VARIABLES
  stored,  \* how many bytes the port accepted since it was opened
  sent,    \* the bytes that left on the wire, in order
  stale    \* the port has begun to send old bytes

chanVars == <<stored, sent, stale>>

Init == stored = 0 /\ sent = <<>> /\ stale = FALSE

\* write() takes one more byte
Accept == stored' = stored + 1 /\ UNCHANGED <<sent, stale>>

\* the oldest byte not yet sent leaves
Transmit ==
  /\ Len(sent) < stored
  /\ sent' = Append(sent, Len(sent) + 1)
  /\ UNCHANGED <<stored, stale>>

\* everything accepted was sent, and the port begins to send it again
GoStale ==
  /\ Len(sent) = stored
  /\ stale' = TRUE
  /\ UNCHANGED <<stored, sent>>

\* begin() after end(): what had not left is discarded
Reopen == stored' = 0 /\ sent' = <<>> /\ stale' = FALSE

Next ==
  \/ ~stale /\ (Accept \/ Transmit \/ GoStale)
  \/ stale /\ stale'
  \/ Reopen

Spec == Init /\ [][Next]_chanVars
=============================================================================
