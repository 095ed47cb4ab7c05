------------------------------- MODULE MCWalk -------------------------------
(***************************************************************************)
(* Instances of Walk for TLC.                                              *)
(***************************************************************************)
EXTENDS Walk

CONSTANTS s1, s2

MCLinkedServers2 == {s1, s2}
=============================================================================
