------------------------------ MODULE MCBrowser ------------------------------
(* Two scenes: one session over three servers, with a limit that cuts its  *)
(* list; and two sessions over one server, which cannot be sent to the     *)
(* first.  Who has no part in a scene stays as Init has it.                *)
EXTENDS Browser

CONSTANTS b1, b2, s1, s2, s3

AllMatch == [b \in Browsers |-> Servers]
NothingUnsendable == [b \in Browsers |-> {}]
FirstUnsendable == [b \in Browsers |-> IF b = b1 THEN {s1} ELSE {}]
TwoRows == [b \in Browsers |-> 2]

VARIABLE scene

Alone == [sessions |-> {b2}, servers |-> {s1, s2, s3}]
Together == [sessions |-> {b1, b2}, servers |-> {s1}]

SceneInit == Init /\ scene \in {Alone, Together}

SceneNext ==
  /\ \/ \E s \in scene.servers : UpdateTable(s)
     \/ \E b \in scene.sessions : Session(b)
  /\ UNCHANGED scene

SceneSpec == SceneInit /\ [][SceneNext]_<<vars, scene>> /\ Fairness
=============================================================================
