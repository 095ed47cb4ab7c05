----------------------------- MODULE MCSession -----------------------------
(***************************************************************************)
(* Instances of Session for TLC.                                           *)
(***************************************************************************)
EXTENDS Session, TLC

CONSTANTS c1, c2, l1, l2, l3, alice, bob

MCConns == {c1, c2}
MCLinkedServers2 == {l1, l2}
MCLinkedServers3 == {l1, l2, l3}
MCCreds1 == {alice}
MCCreds2 == {alice, bob}
MCIndices == {0, 1}

\* Objects are interchangeable storage, and so are the two accounts.
MCSymmetry3 == Permutations(MCConns) \cup Permutations(MCLinkedServers3)
                 \cup Permutations(MCCreds2)
=============================================================================
