------------------------------- MODULE MCLogin -------------------------------
(* Two login sessions and a search session over two names and passwords;   *)
(* the address e1 is in lower case, e2 is not.                             *)
EXTENDS Login, TLC

CONSTANTS p1, p2, q1, n1, n2, w1, w2, e1, e2, de

LowerCase == [e \in Emails |-> e1]
Symmetry == Permutations(Players) \cup Permutations(Names)
=============================================================================
