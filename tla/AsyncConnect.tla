---------------------------- MODULE AsyncConnect ----------------------------
(***************************************************************************)
(* What ConnectAsync() promises to its Connection: of an attempt, at most  *)
(* one outcome is reported, and none once a later attempt has replaced it  *)
(* or the Connection is gone.  This is all that module Session assumes of  *)
(* connect_task.                                                           *)
(***************************************************************************)
EXTENDS Naturals

VARIABLES
  attempt,      \* number of attempts so far
  pending,      \* the latest has no outcome yet
  reported      \* the attempt whose outcome was the last to be reported

vars == <<attempt, pending, reported>>

Init == attempt = 0 /\ pending = FALSE /\ reported = 0

\* Replaces a pending attempt.
Start == attempt' = attempt + 1 /\ pending' = TRUE /\ UNCHANGED reported

\* The outcome is reported from inside ConnectAsync().
StartAndReport == attempt' = attempt + 1 /\ pending' = FALSE /\ reported' = attempt + 1

Report == pending /\ pending' = FALSE /\ reported' = attempt /\ UNCHANGED attempt

Cancel == pending /\ pending' = FALSE /\ UNCHANGED <<attempt, reported>>

Next == Start \/ StartAndReport \/ Report \/ Cancel

Spec == Init /\ [][Next]_vars
=============================================================================
