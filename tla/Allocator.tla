----------------------------- MODULE Allocator -----------------------------
(***************************************************************************)
(* What the users of an allocator may rely on: a cell that they get is not *)
(* in use, and stays theirs until they give it back.                       *)
(***************************************************************************)
CONSTANT Cells
VARIABLE users       \* of each cell

Init == users = [c \in Cells |-> 0]
Alloc == \E c \in Cells : users[c] = 0 /\ users' = [users EXCEPT ![c] = 1]
Free == \E c \in Cells : users[c] = 1 /\ users' = [users EXCEPT ![c] = 0]

Spec == Init /\ [][Alloc \/ Free]_users
============================================================================
