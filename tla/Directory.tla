------------------------------ MODULE Directory ------------------------------
(***************************************************************************)
(* What the master server promises to those who read its list, without     *)
(* saying how: a listed server holds a lease.  The lease is renewed when   *)
(* the server is heard of, is never older than LIMIT, and is ended only    *)
(* when it is older than TIMEOUT or when everything is forgotten.          *)
(***************************************************************************)
EXTENDS Naturals

CONSTANTS Servers, TIMEOUT, LIMIT, None

VARIABLE lease  \* lease[s]: the age of the lease of s, None if not listed

Init == lease = [s \in Servers |-> None]

Enrol(s) ==
  /\ lease[s] = None
  /\ \E age \in 0..LIMIT : lease' = [lease EXCEPT ![s] = age]

Renew(s) ==
  /\ lease[s] # None
  /\ lease' = [lease EXCEPT ![s] = 0]

Age ==
  /\ \A s \in Servers : lease[s] # None => lease[s] < LIMIT
  /\ lease' = [s \in Servers |->
                 IF lease[s] = None THEN None ELSE lease[s] + 1]

Expire ==
  lease' = [s \in Servers |->
              IF lease[s] # None /\ lease[s] > TIMEOUT THEN None ELSE lease[s]]

Forget == lease' = [s \in Servers |-> None]

Next ==
  \/ \E s \in Servers : Enrol(s) \/ Renew(s)
  \/ Age
  \/ Expire
  \/ Forget

Spec == Init /\ [][Next]_lease
=============================================================================
