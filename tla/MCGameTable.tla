---------------------------- MODULE MCGameTable ----------------------------
(* A game that knows the key a.  B and b name one column, r is a word of   *)
(* SQL and x no name at all.                                               *)
EXTENDS GameTable, TLC

CONSTANTS s1, s2, a, b, B, r, x

Sorted == x :> 1 @@ B :> 2 @@ a :> 3 @@ b :> 4 @@ r :> 5
FoldCase == [k \in Keys |-> IF k = B THEN b ELSE k]
=============================================================================
