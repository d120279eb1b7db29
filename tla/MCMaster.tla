------------------------------ MODULE MCMaster ------------------------------
(***************************************************************************)
(* Instances of Master for TLC.  One unit of time stands for 30 seconds:   *)
(* TIMEOUT = PERIOD = 2 keeps the ratio of the code, and leaves a moment   *)
(* strictly inside a period.                                               *)
(***************************************************************************)
EXTENDS Master

CONSTANTS c1, c2, g1, g2, v1, v2

(* One server announces the one game it runs, the other names either. *)
MixedGames == [c \in Clients |-> IF c = c1 THEN {g1} ELSE Games]

(* The heartbeats of every server name either game. *)
AnyGame == [c \in Clients |-> Games]

(* The administrator edits the row that the first server also writes.      *)
FirstRow == {<<g1, c1>>}
=============================================================================
