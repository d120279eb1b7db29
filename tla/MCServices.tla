------------------------------ MODULE MCServices ------------------------------
(* One connection, of any kind and over again: sessions have nothing in    *)
(* common but the servers that accept them and the time.                   *)
EXTENDS Services

CONSTANT c1
=============================================================================
