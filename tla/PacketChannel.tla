--------------------------- MODULE PacketChannel ---------------------------
(***************************************************************************)
(* What one direction of a connection promises: the packets handed to one  *)
(* end arrive at the other in order, each once and unchanged, until the    *)
(* connection is over; after that nothing arrives.                         *)
(***************************************************************************)
EXTENDS SequencesExt

VARIABLES sent, received, up

vars == <<sent, received, up>>

Init == sent = <<>> /\ received = <<>> /\ up = TRUE

Submit ==
  /\ IsStrictPrefix(sent, sent')
  /\ UNCHANGED <<received, up>>

\* The receiver may close the connection because of what it got.
Deliver ==
  /\ up
  /\ IsStrictPrefix(received, received') /\ IsPrefix(received', sent)
  /\ up' \in BOOLEAN
  /\ UNCHANGED sent

Fail ==
  /\ up /\ ~up'
  /\ UNCHANGED <<sent, received>>

Next == Submit \/ Deliver \/ Fail

Spec == Init /\ [][Next]_vars
============================================================================
