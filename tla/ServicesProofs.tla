---------------------------- MODULE ServicesProofs ----------------------------
(***************************************************************************)
(* Theorems about Services, for any number of connections, any set of      *)
(* servers, any timeouts and any number of snapshots.                      *)
(***************************************************************************)
EXTENDS Services, SequenceTheorems, TLAPS

(* A session stays with the server that accepted it.                       *)
SameKind(c, s) ==
  \/ step[c] \in Http /\ s \in Http
  \/ step[c] \in Admin /\ s \in Admin
  \/ step[c] \in Stats /\ s \in Stats

LEMMA TypeInit == Init => TypeOK
  <1> SUFFICES ASSUME Init PROVE TypeOK
    OBVIOUS
  <1>1. launch \in {Phases[i] : i \in 1..7} \cup {"over", "stopped"}
    <2>1. Phases[1] = "gamedb"
      BY DEF Phases
    <2> QED BY <2>1 DEF Init
  <1>2. \A c \in Conns : stored[c] \in Seq(Nat)
    BY DEF Init
  <1> QED BY <1>1, <1>2 DEF Init, TypeOK

(* The types of the sessions, of what runs them, and of both.              *)
SupervisionTypes ==
  /\ launch \in {Phases[i] : i \in 1..7} \cup {"over", "stopped"}
  /\ databases \in {"connected", "disconnected"}
  /\ running \subseteq Servers
  /\ keyserver \in {"receive", "send"}

SessionTypes ==
  /\ step \in [Conns -> Http \cup Admin \cup Stats \cup {"free"}]
  /\ op \in [Conns -> {"pending", "done", "failed"}]
  /\ alarm \in [Conns -> {"off", "armed", "queued"}]
  /\ left \in [Conns -> Nat]
  /\ closed \subseteq Conns /\ escaped \subseteq Conns
  /\ taken \in [Conns -> Nat]
  /\ stored \in [Conns -> Seq(Nat)]
  /\ undefined \in BOOLEAN
  /\ \A c \in Conns :
       /\ alarm[c] = "armed" <=> left[c] # 0
       /\ alarm[c] # "off" => step[c] \in Http \cup Admin
       /\ c \in closed => step[c] \in Admin
       /\ c \in escaped => step[c] \in Http

LEMMA TypesSplit == /\ TypeOK <=> SupervisionTypes /\ SessionTypes
                    /\ TypeOK' <=> SupervisionTypes' /\ SessionTypes'
  BY DEF TypeOK, SupervisionTypes, SessionTypes

LEMMA SupervisionKeeps ==
  ASSUME SupervisionTypes, UNCHANGED supervision PROVE SupervisionTypes'
  BY DEF SupervisionTypes, supervision

LEMMA SessionsKeep ==
  ASSUME SessionTypes, UNCHANGED sessions PROVE SessionTypes'
  BY DEF SessionTypes, sessions, timing, snapshots

LEMMA WaitKeeps ==
  ASSUME TypeOK, NEW c \in Conns, NEW s, SameKind(c, s), Wait(c, s)
  PROVE  TypeOK'
  <1> USE TypesSplit
  <1>1. SupervisionTypes'
    BY SupervisionKeeps DEF Wait
  <1>2. /\ step' = [step EXCEPT ![c] = s]
        /\ op' \in [Conns -> {"pending", "done", "failed"}]
    BY DEF Wait, Start, SessionTypes
  <1>3. UNCHANGED <<alarm, left, closed, escaped, taken, stored, undefined>>
    BY DEF Wait, timing, snapshots
  <1>4. s \in Http \cup Admin \cup Stats
    BY DEF SameKind
  <1>5. step' \in [Conns -> Http \cup Admin \cup Stats \cup {"free"}]
    BY <1>2, <1>4 DEF SessionTypes
  <1>6. ASSUME NEW d \in Conns
        PROVE  /\ step[d] \in Http => step'[d] \in Http
               /\ step[d] \in Admin => step'[d] \in Admin
    BY <1>2 DEF SameKind, SessionTypes, Http, Admin, Stats
  <1>7. SessionTypes'
    BY <1>2, <1>3, <1>5, <1>6 DEF SessionTypes
  <1> QED BY <1>1, <1>7

LEMMA EndKeeps ==
  ASSUME TypeOK, NEW c \in Conns, End(c)
  PROVE  TypeOK'
  <1> USE TypesSplit
  <1>1. SupervisionTypes'
    BY SupervisionKeeps DEF End
  <1>2. <<>> \in Seq(Nat)
    OBVIOUS
  <1>3. SessionTypes'
    BY <1>2 DEF End, TimerGoes, SessionTypes
  <1> QED BY <1>1, <1>3

LEMMA AcceptKeeps ==
  ASSUME TypeOK, NEW c \in Conns, Accept(c)
  PROVE  TypeOK'
  <1> USE TypesSplit
  <1>1. step[c] = "free"
    BY DEF Accept
  <1>2. alarm[c] = "off" /\ left[c] = 0 /\ c \notin closed /\ c \notin escaped
    BY <1>1 DEF SessionTypes, Http, Admin
  <1>3. ASSUME NEW s \in {"request", "command"}, NEW n \in Nat \ {0},
               Start(c, s), Arm(c, n)
        PROVE  TypeOK'
    <2>1. SupervisionTypes'
      BY <1>3, SupervisionKeeps DEF Arm
    <2>2. s \in Http \cup Admin
      BY DEF Http, Admin
    <2>3. /\ step' = [step EXCEPT ![c] = s]
          /\ op' \in [Conns -> {"pending", "done", "failed"}]
          /\ alarm' = [alarm EXCEPT ![c] = "armed"]
          /\ left' = [left EXCEPT ![c] = n]
          /\ UNCHANGED <<closed, escaped, taken, stored, undefined>>
      BY <1>3 DEF Start, Arm, SessionTypes, snapshots
    <2>4. SessionTypes'
      BY <1>2, <2>2, <2>3 DEF SessionTypes
    <2> QED BY <2>1, <2>4
  <1>4. ASSUME Wait(c, "challenge") PROVE TypeOK'
    <2>1. SupervisionTypes'
      BY <1>4, SupervisionKeeps DEF Wait
    <2>2. "challenge" \in Stats
      BY DEF Stats
    <2>3. /\ step' = [step EXCEPT ![c] = "challenge"]
          /\ op' \in [Conns -> {"pending", "done", "failed"}]
          /\ UNCHANGED <<alarm, left, closed, escaped, taken, stored, undefined>>
      BY <1>4 DEF Wait, Start, SessionTypes, timing, snapshots
    <2>4. SessionTypes'
      BY <1>2, <2>2, <2>3 DEF SessionTypes
    <2> QED BY <2>1, <2>4
  <1> QED BY <1>3, <1>4, ServicesAssumption DEF Accept

LEMMA CompletionKeeps ==
  ASSUME TypeOK, NEW c \in Conns, PeerActs(c) \/ QueryEnds(c) \/ EndpointActs(c)
  PROVE  TypeOK'
  <1> USE TypesSplit
  <1>1. SupervisionTypes'
    BY SupervisionKeeps DEF PeerActs, QueryEnds, EndpointActs
  <1>2. op' \in [Conns -> {"pending", "done", "failed"}]
    BY DEF PeerActs, QueryEnds, EndpointActs, Complete, SessionTypes
  <1>3. UNCHANGED <<step, alarm, left, closed, escaped, taken, undefined>>
    BY DEF PeerActs, QueryEnds, EndpointActs, timing, snapshots
  <1>4. stored' \in [Conns -> Seq(Nat)]
    <2>1. stored[c] \in Seq(Nat) /\ taken[c] \in Nat
      BY DEF SessionTypes
    <2>2. Append(stored[c], taken[c]) \in Seq(Nat)
      BY <2>1
    <2>3. stored' = stored \/ stored' = [stored EXCEPT ![c] = Append(@, taken[c])]
      BY DEF PeerActs, QueryEnds, EndpointActs, snapshots
    <2> QED BY <2>2, <2>3 DEF SessionTypes
  <1> QED BY <1>1, <1>2, <1>3, <1>4 DEF SessionTypes

LEMMA TickKeeps == ASSUME TypeOK, Tick PROVE TypeOK'
  <1> USE TypesSplit
  <1>1. SupervisionTypes'
    BY SupervisionKeeps DEF Tick
  <1>2. UNCHANGED <<step, closed, escaped, taken, stored, undefined>>
    BY DEF Tick, snapshots
  <1>3. op' \in [Conns -> {"pending", "done", "failed"}]
    BY DEF Tick, SessionTypes
  <1>4. ASSUME NEW c \in Conns
        PROVE  /\ left'[c] = IF alarm[c] = "armed" THEN left[c] - 1 ELSE left[c]
               /\ alarm'[c] = IF alarm[c] = "armed" /\ left[c] = 1
                              THEN "queued" ELSE alarm[c]
               /\ left'[c] \in Nat /\ alarm'[c] \in {"off", "armed", "queued"}
               /\ alarm'[c] = "armed" <=> left'[c] # 0
               /\ alarm'[c] # "off" => alarm[c] # "off"
    BY DEF Tick, SessionTypes
  <1>5. /\ alarm' \in [Conns -> {"off", "armed", "queued"}]
        /\ left' \in [Conns -> Nat]
    BY <1>4 DEF Tick
  <1>6. SessionTypes'
    BY <1>2, <1>3, <1>4, <1>5 DEF SessionTypes
  <1> QED BY <1>1, <1>6

LEMMA TimeoutKeeps ==
  ASSUME TypeOK, NEW c \in Conns, Timeout(c)
  PROVE  TypeOK'
  <1> USE TypesSplit
  <1>1. SupervisionTypes'
    BY SupervisionKeeps DEF Timeout
  <1>2. /\ alarm[c] = "queued"
        /\ alarm' = [alarm EXCEPT ![c] = "off"]
        /\ UNCHANGED <<step, left, taken, stored, undefined>>
    BY DEF Timeout, snapshots
  <1>3. left[c] = 0
    BY <1>2 DEF SessionTypes
  <1>4. op' \in [Conns -> {"pending", "done", "failed"}]
    BY DEF Timeout, HttpTimeout, AdminTimeout, SessionTypes
  <1>5. \/ step[c] \in Http /\ closed' = closed /\ escaped' \subseteq escaped \cup {c}
        \/ step[c] \in Admin /\ escaped' = escaped /\ closed' = closed \cup {c}
    BY DEF Timeout, HttpTimeout, AdminTimeout, SocketClosed
  <1>6. /\ closed' \subseteq Conns /\ escaped' \subseteq Conns
        /\ \A d \in Conns : /\ d \in closed' => step[d] \in Admin
                            /\ d \in escaped' => step[d] \in Http
    BY <1>5 DEF SessionTypes
  <1>7. /\ alarm' \in [Conns -> {"off", "armed", "queued"}]
        /\ \A d \in Conns : /\ alarm'[d] = "armed" <=> left[d] # 0
                            /\ alarm'[d] # "off" => step[d] \in Http \cup Admin
    BY <1>2, <1>3 DEF SessionTypes
  <1>8. SessionTypes'
    BY <1>2, <1>4, <1>6, <1>7 DEF SessionTypes
  <1> QED BY <1>1, <1>8

LEMMA UndefinedKeeps ==
  ASSUME TypeOK, UNCHANGED <<supervision, step, op, timing, snapshots>>,
         undefined' \in BOOLEAN
  PROVE  TypeOK'
  BY DEF TypeOK, supervision, timing, snapshots

LEMMA SnapshotKeeps ==
  ASSUME TypeOK, NEW c \in Conns, Snapshot(c)
  PROVE  TypeOK'
  <1> USE TypesSplit
  <1>1. SupervisionTypes'
    BY SupervisionKeeps DEF Snapshot
  <1>2. PICK s \in {"connect", "packet"} : Start(c, s)
    BY DEF Snapshot
  <1>3. step[c] \in Stats /\ s \in Stats
    BY DEF Snapshot, Done, Stats
  <1>4. step[c] \notin Http /\ step[c] \notin Admin
    BY DEF Snapshot, Done, Http, Admin
  <1>5. /\ step' = [step EXCEPT ![c] = s]
        /\ op' \in [Conns -> {"pending", "done", "failed"}]
        /\ UNCHANGED <<alarm, left, closed, escaped, stored, undefined>>
    BY <1>2 DEF Snapshot, Start, SessionTypes, timing
  <1>6. taken' \in [Conns -> Nat]
    BY DEF Snapshot, SessionTypes
  <1>7. SessionTypes'
    BY <1>3, <1>4, <1>5, <1>6 DEF SessionTypes
  <1> QED BY <1>1, <1>7

LEMMA ContinueKeeps ==
  ASSUME TypeOK, NEW c \in Conns, Continue(c)
  PROVE  TypeOK'
  <1> USE DEF Done, Failed, SameKind, Http, Admin, Stats, AtEndpoint
  <1>1. CASE Part(c)
    BY <1>1, WaitKeeps DEF Part, InParts
  <1>2. CASE HttpRequest(c)
    BY <1>2, WaitKeeps, EndKeeps DEF HttpRequest, HandleBF2Web
  <1>3. CASE GetPlayerID(c)
    <2>1. CASE /\ UNCHANGED <<supervision, step, op, timing, snapshots>>
               /\ undefined' = TRUE
      BY <2>1, UndefinedKeeps
    <2> QED BY <1>3, <2>1, WaitKeeps, EndKeeps DEF GetPlayerID
  <1>4. CASE HttpWritten(c)
    BY <1>4, WaitKeeps, EndKeeps DEF HttpWritten
  <1>5. CASE AdminCommand(c)
    BY <1>5, WaitKeeps, EndKeeps DEF AdminCommand, HandleAPI, HandleFileLookup
  <1>6. CASE Authenticate(c)
    BY <1>6, WaitKeeps, EndKeeps DEF Authenticate
  <1>7. CASE Process(c)
    BY <1>7, WaitKeeps, EndKeeps DEF Process
  <1>8. CASE Snapshot(c)
    BY <1>8, SnapshotKeeps
  <1>9. CASE SnapshotFails(c)
    BY <1>9, EndKeeps DEF SnapshotFails
  <1>10. CASE Forward(c)
    BY <1>10, WaitKeeps DEF Forward
  <1> QED BY <1>1, <1>2, <1>3, <1>4, <1>5, <1>6, <1>7, <1>8, <1>9, <1>10
          DEF Continue

(* Launch goes from one phase to another.                                  *)
LEMMA NextPhaseIsPhase ==
  /\ DOMAIN NextPhase = {"gamedb", "playerdb", "admin", "stats", "http", "servers"}
  /\ NextPhase["gamedb"] = "playerdb"
  /\ NextPhase["playerdb"] = "admin"
  /\ NextPhase["admin"] = "stats"
  /\ NextPhase["stats"] = "http"
  /\ NextPhase["http"] = "servers"
  /\ NextPhase["servers"] = "serving"
  <1>1. DOMAIN NextPhase = {"gamedb", "playerdb", "admin", "stats", "http", "servers"}
    BY DEF NextPhase, Phases
  <1>2. ASSUME NEW k \in 1..6
        PROVE  NextPhase[Phases[k]] = Phases[k + 1]
    <2>1. (CHOOSE i \in 1..6 : Phases[i] = Phases[k]) = k
      BY DEF Phases
    <2>2. Phases[k] \in {Phases[i] : i \in 1..6}
      OBVIOUS
    <2> QED BY <2>1, <2>2 DEF NextPhase
  <1> QED BY <1>1, <1>2 DEF Phases

LEMMA SupervisingKeeps ==
  ASSUME TypeOK,
         Launch \/ Help \/ (\E n \in Servers : ServerEnds(n)) \/ Disconnect \/ CDKey
  PROVE  TypeOK'
  <1> USE TypesSplit
  <1>1. SessionTypes'
    BY SessionsKeep DEF Launch, Help, ServerEnds, Disconnect, CDKey
  <1>2. /\ launch' \in {Phases[i] : i \in 1..7} \cup {"over", "stopped"}
        /\ running' \subseteq Servers
    <2>1. {Phases[i] : i \in 1..7} =
            {"gamedb", "playerdb", "admin", "stats", "http", "servers", "serving"}
      BY DEF Phases
    <2> QED BY <2>1, NextPhaseIsPhase
            DEF Launch, Help, ServerEnds, Disconnect, CDKey, SupervisionTypes
  <1>3. databases' \in {"connected", "disconnected"} /\ keyserver' \in {"receive", "send"}
    BY DEF Launch, Help, ServerEnds, Disconnect, CDKey, SupervisionTypes
  <1> QED BY <1>1, <1>2, <1>3 DEF SupervisionTypes

LEMMA StopKeeps == ASSUME TypeOK, Stop PROVE TypeOK'
  <1> USE TypesSplit
  <1>1. <<>> \in Seq(Nat)
    OBVIOUS
  <1>2. SessionTypes'
    BY <1>1 DEF Stop, SessionTypes
  <1>3. SupervisionTypes'
    BY DEF Stop, SupervisionTypes
  <1> QED BY <1>2, <1>3

LEMMA TypeStep == TypeOK /\ [Next]_vars => TypeOK'
  <1> SUFFICES ASSUME TypeOK, [Next]_vars PROVE TypeOK'
    OBVIOUS
  <1>1. CASE UNCHANGED vars
    BY <1>1 DEF vars, supervision, timing, snapshots, TypeOK
  <1>2. CASE Next
    BY <1>2, SupervisingKeeps, StopKeeps, TickKeeps, AcceptKeeps, CompletionKeeps,
       ContinueKeeps, TimeoutKeeps DEF Next, Session
  <1> QED BY <1>1, <1>2

(* The variables keep their types; a timer runs only for a session it was  *)
(* made for, and has seconds left exactly while it is armed.               *)
THEOREM TypeOKHolds == Spec => []TypeOK
  BY TypeInit, TypeStep, PTL DEF Spec

-----------------------------------------------------------------------------
(* Servers run only once all that precedes them in Launch is done, and the *)
(* databases are connected from their phase until all servers have ended.  *)
LaunchInv ==
  /\ running # {} => launch = "serving"
  /\ launch \in {"admin", "stats", "http", "servers", "serving"} =>
       databases = "connected"

LEMMA LaunchInit == Init => LaunchInv
  BY DEF Init, LaunchInv

LEMMA LaunchStep == LaunchInv /\ [Next]_vars => LaunchInv'
  <1> SUFFICES ASSUME LaunchInv, [Next]_vars PROVE LaunchInv'
    OBVIOUS
  <1> USE DEF LaunchInv
  <1>1. CASE UNCHANGED supervision
    BY <1>1 DEF supervision
  <1>2. CASE Launch
    BY <1>2, NextPhaseIsPhase DEF Launch
  <1>3. CASE Help
    BY <1>3 DEF Help
  <1>4. CASE Stop
    BY <1>4 DEF Stop
  <1>5. CASE \E n \in Servers : ServerEnds(n)
    BY <1>5 DEF ServerEnds
  <1>6. CASE Disconnect
    BY <1>6 DEF Disconnect, AllEnded
  <1>7. CASE CDKey
    BY <1>7 DEF CDKey
  <1>8. CASE Tick
    BY <1>8, <1>1 DEF Tick
  <1>9. ASSUME NEW c \in Conns, Session(c)
        PROVE  UNCHANGED supervision
    <2> USE DEF Wait, End
    <2>1. CASE Accept(c)
      BY <2>1 DEF Accept, Arm
    <2>2. CASE PeerActs(c) \/ QueryEnds(c) \/ EndpointActs(c) \/ Timeout(c)
      BY <2>2 DEF PeerActs, QueryEnds, EndpointActs, Timeout
    <2>3. CASE Part(c) \/ HttpRequest(c) \/ GetPlayerID(c) \/ HttpWritten(c)
      BY <2>3 DEF Part, HttpRequest, HandleBF2Web, GetPlayerID, HttpWritten
    <2>4. CASE AdminCommand(c)
      BY <2>4 DEF AdminCommand, HandleAPI, HandleFileLookup
    <2>5. CASE Authenticate(c) \/ Process(c)
      BY <2>5 DEF Authenticate, Process
    <2>6. CASE Snapshot(c) \/ SnapshotFails(c) \/ Forward(c)
      BY <2>6 DEF Snapshot, SnapshotFails, Forward
    <2> QED BY <1>9, <2>1, <2>2, <2>3, <2>4, <2>5, <2>6 DEF Session, Continue
  <1>10. CASE UNCHANGED vars
    BY <1>10, <1>1 DEF vars
  <1> QED BY <1>1, <1>2, <1>3, <1>4, <1>5, <1>6, <1>7, <1>8, <1>9, <1>10 DEF Next

(* The databases are connected as long as a server runs: one that ends     *)
(* (Emulator::Launch waits for all) does not take them from the others.    *)
THEOREM DatabasesOutliveServersHolds == Spec => []DatabasesOutliveServers
  <1>1. LaunchInv => DatabasesOutliveServers
    BY DEF LaunchInv, DatabasesOutliveServers
  <1> QED BY <1>1, LaunchInit, LaunchStep, PTL DEF Spec

-----------------------------------------------------------------------------
Upto(n) == [i \in 1..n |-> i]

LEMMA UptoGrows ==
  /\ Upto(0) = <<>>
  /\ \A n \in Nat : Len(Upto(n)) = n
  /\ \A n \in Nat \ {0} : Append(Upto(n - 1), n) = Upto(n)
  <1>1. Upto(0) = <<>>
    BY DEF Upto
  <1>2. ASSUME NEW n \in Nat PROVE Upto(n) \in Seq(Nat) /\ Len(Upto(n)) = n
    BY DEF Upto
  <1>3. ASSUME NEW n \in Nat \ {0} PROVE Append(Upto(n - 1), n) = Upto(n)
    <2> DEFINE s == Append(Upto(n - 1), n)
    <2>1. n - 1 \in Nat
      OBVIOUS
    <2>2. Upto(n - 1) \in Seq(Nat) /\ Len(Upto(n - 1)) = n - 1
      BY <1>2, <2>1
    <2>3. s \in Seq(Nat) /\ Len(s) = n
      BY <2>2
    <2>4. ASSUME NEW i \in 1..n PROVE s[i] = Upto(n)[i]
      <3>1. CASE i = n
        BY <2>2, <3>1 DEF Upto
      <3>2. CASE i # n
        <4>1. i \in 1..n - 1
          BY <3>2
        <4>2. s[i] = Upto(n - 1)[i]
          BY <2>2, <4>1
        <4> QED BY <4>1, <4>2 DEF Upto
      <3> QED BY <3>1, <3>2
    <2> QED BY <1>2, <2>3, <2>4, SeqEqual
  <1> QED BY <1>1, <1>2, <1>3

(* The snapshot being forwarded has not been received before its post is   *)
(* done.                                                                   *)
Underway(c) == step[c] = "connect" \/ (step[c] = "post" /\ op[c] # "done")

SnapshotInv(c) ==
  /\ Underway(c) => taken[c] # 0 /\ stored[c] = Upto(taken[c] - 1)
  /\ ~Underway(c) => stored[c] = Upto(taken[c])

SnapshotsInv == \A c \in Conns : SnapshotInv(c)

(* What a step leaves of a session, it leaves of its snapshots.            *)
Same(c) == /\ step'[c] = step[c] /\ op'[c] = op[c]
           /\ taken'[c] = taken[c] /\ stored'[c] = stored[c]

LEMMA SameKeeps ==
  ASSUME NEW c, SnapshotInv(c), Same(c) PROVE SnapshotInv(c)'
  BY DEF SnapshotInv, Underway, Same

LEMMA SameButOne ==
  ASSUME TypeOK, SnapshotsInv, NEW c \in Conns, SnapshotInv(c)',
         \A d \in Conns \ {c} : Same(d)
  PROVE  SnapshotsInv'
  BY SameKeeps DEF SnapshotsInv

(* A session that waits for something else than a snapshot, or ends.       *)
LEMMA WaitSnapshots ==
  ASSUME TypeOK, SnapshotsInv, NEW c \in Conns, ~Underway(c),
         NEW s, s # "connect", s # "post", Wait(c, s)
  PROVE  SnapshotsInv'
  <1>1. step'[c] = s /\ taken' = taken /\ stored' = stored
    BY DEF Wait, Start, TypeOK, snapshots
  <1>2. SnapshotInv(c)'
    BY <1>1 DEF SnapshotsInv, SnapshotInv, Underway
  <1>3. \A d \in Conns \ {c} : Same(d)
    BY DEF Same, Wait, Start, TypeOK, snapshots
  <1> QED BY <1>2, <1>3, SameButOne

LEMMA EndSnapshots ==
  ASSUME TypeOK, SnapshotsInv, NEW c \in Conns, End(c)
  PROVE  SnapshotsInv'
  <1>1. step'[c] = "free" /\ taken'[c] = 0 /\ stored'[c] = <<>>
    BY DEF End, TypeOK
  <1>2. SnapshotInv(c)'
    BY <1>1, UptoGrows DEF SnapshotInv, Underway
  <1>3. \A d \in Conns \ {c} : Same(d)
    BY DEF Same, End, TypeOK
  <1> QED BY <1>2, <1>3, SameButOne

(* An operation ends, or its timer does: only the end of a post stores.    *)
LEMMA EndpointSnapshots ==
  ASSUME TypeOK, SnapshotsInv, NEW c \in Conns, EndpointActs(c)
  PROVE  SnapshotsInv'
  <1>1. /\ step' = step /\ taken' = taken /\ op[c] = "pending"
        /\ op' \in [Conns -> {"pending", "done", "failed"}]
        /\ \A d \in Conns \ {c} : op'[d] = op[d]
    BY DEF EndpointActs, Complete, TypeOK
  <1>2. stored' = IF step[c] = "post" /\ op'[c] = "done"
                  THEN [stored EXCEPT ![c] = Append(@, taken[c])] ELSE stored
    BY DEF EndpointActs, Complete, TypeOK
  <1>3. \A d \in Conns \ {c} : Same(d)
    BY <1>1, <1>2 DEF Same, TypeOK
  <1>4. SnapshotInv(c)'
    <2>1. CASE step[c] = "post" /\ op'[c] = "done"
      <3>1. taken[c] \in Nat \ {0} /\ stored[c] = Upto(taken[c] - 1)
        BY <1>1, <2>1 DEF SnapshotsInv, SnapshotInv, Underway, TypeOK
      <3>2. stored'[c] = Append(stored[c], taken[c])
        BY <1>2, <2>1 DEF TypeOK
      <3>3. stored'[c] = Upto(taken[c])
        BY <3>1, <3>2, UptoGrows
      <3> QED BY <1>1, <2>1, <3>3 DEF SnapshotInv, Underway
    <2>2. CASE ~(step[c] = "post" /\ op'[c] = "done")
      BY <1>1, <1>2, <2>2 DEF SnapshotsInv, SnapshotInv, Underway
    <2> QED BY <2>1, <2>2
  <1> QED BY <1>3, <1>4, SameButOne

LEMMA ElsewhereSnapshots ==
  ASSUME TypeOK, SnapshotsInv,
         UNCHANGED <<step, taken, stored>>,
         \A c \in Conns : step[c] = "post" => op'[c] = op[c]
  PROVE  SnapshotsInv'
  BY DEF SnapshotsInv, SnapshotInv, Underway

(* A snapshot begins, and is posted.                                       *)
LEMMA SnapshotSnapshots ==
  ASSUME TypeOK, SnapshotsInv, Forwarding, NEW c \in Conns, Snapshot(c)
  PROVE  SnapshotsInv'
  <1>1. taken[c] \in Nat /\ stored[c] = Upto(taken[c])
    BY DEF Snapshot, Done, SnapshotsInv, SnapshotInv, Underway, TypeOK
  <1>2. step'[c] = "connect" /\ taken'[c] = taken[c] + 1 /\ stored' = stored
    BY DEF Snapshot, Start, TypeOK
  <1>3. SnapshotInv(c)'
    BY <1>1, <1>2 DEF SnapshotInv, Underway
  <1>4. \A d \in Conns \ {c} : Same(d)
    BY DEF Same, Snapshot, Start, TypeOK
  <1> QED BY <1>3, <1>4, SameButOne

LEMMA PostSnapshots ==
  ASSUME TypeOK, SnapshotsInv, NEW c \in Conns, Done(c, "connect"), Wait(c, "post")
  PROVE  SnapshotsInv'
  <1>1. taken[c] # 0 /\ stored[c] = Upto(taken[c] - 1)
    BY DEF Done, SnapshotsInv, SnapshotInv, Underway
  <1>2. step'[c] = "post" /\ taken' = taken /\ stored' = stored
    BY DEF Wait, Start, TypeOK, snapshots
  <1>3. "post" \notin OnSocket
    BY DEF OnSocket, AtEndpoint
  <1>4. op'[c] = "pending"
    BY <1>3 DEF Wait, Start, TypeOK
  <1>5. SnapshotInv(c)'
    BY <1>1, <1>2, <1>4 DEF SnapshotInv, Underway
  <1>6. \A d \in Conns \ {c} : Same(d)
    BY DEF Same, Wait, Start, TypeOK, snapshots
  <1> QED BY <1>5, <1>6, SameButOne

LEMMA ContinueSnapshots ==
  ASSUME TypeOK, SnapshotsInv, Forwarding, NEW c \in Conns, Continue(c)
  PROVE  SnapshotsInv'
  <1> USE DEF Done, Failed, Underway
  <1>1. CASE Part(c)
    BY <1>1, WaitSnapshots DEF Part, InParts
  <1>2. CASE HttpRequest(c)
    BY <1>2, WaitSnapshots, EndSnapshots DEF HttpRequest, HandleBF2Web
  <1>3. CASE GetPlayerID(c)
    <2>1. CASE UNCHANGED <<supervision, step, op, timing, snapshots>>
      BY <2>1, ElsewhereSnapshots DEF snapshots
    <2> QED BY <1>3, <2>1, WaitSnapshots, EndSnapshots DEF GetPlayerID
  <1>4. CASE HttpWritten(c)
    BY <1>4, WaitSnapshots, EndSnapshots DEF HttpWritten
  <1>5. CASE AdminCommand(c)
    BY <1>5, WaitSnapshots, EndSnapshots DEF AdminCommand, HandleAPI, HandleFileLookup
  <1>6. CASE Authenticate(c)
    BY <1>6, WaitSnapshots, EndSnapshots DEF Authenticate
  <1>7. CASE Process(c)
    BY <1>7, WaitSnapshots, EndSnapshots DEF Process
  <1>8. CASE Snapshot(c)
    BY <1>8, SnapshotSnapshots
  <1>9. CASE SnapshotFails(c)
    BY <1>9, EndSnapshots DEF SnapshotFails
  <1>10. CASE Forward(c)
    BY <1>10, WaitSnapshots, PostSnapshots DEF Forward
  <1> QED BY <1>1, <1>2, <1>3, <1>4, <1>5, <1>6, <1>7, <1>8, <1>9, <1>10
          DEF Continue

LEMMA AcceptSnapshots ==
  ASSUME TypeOK, SnapshotsInv, NEW c \in Conns, Accept(c)
  PROVE  SnapshotsInv'
  <1>1. step[c] = "free"
    BY DEF Accept
  <1>2. step'[c] \in {"request", "command", "challenge"} /\ taken' = taken /\ stored' = stored
    BY DEF Accept, Wait, Start, Arm, snapshots, TypeOK
  <1>3. SnapshotInv(c)'
    BY <1>1, <1>2 DEF SnapshotsInv, SnapshotInv, Underway
  <1>4. \A d \in Conns \ {c} : Same(d)
    BY DEF Same, Accept, Wait, Start, Arm, snapshots, TypeOK
  <1> QED BY <1>3, <1>4, SameButOne

LEMMA OthersSnapshots ==
  ASSUME TypeOK, SnapshotsInv, NEW c \in Conns,
         PeerActs(c) \/ QueryEnds(c) \/ Timeout(c)
  PROVE  SnapshotsInv'
  <1>1. UNCHANGED <<step, taken, stored>>
    BY DEF PeerActs, QueryEnds, Timeout, snapshots
  <1>2. \A d \in Conns \ {c} : op'[d] = op[d]
    BY DEF PeerActs, QueryEnds, Timeout, HttpTimeout, AdminTimeout, Complete, TypeOK
  <1>3. step[c] # "post"
    BY DEF PeerActs, QueryEnds, Timeout, HttpTimeout, AdminTimeout,
           OnSocket, AtEndpoint, Queries, Http, Admin
  <1> QED BY <1>1, <1>2, <1>3, ElsewhereSnapshots

LEMMA StopSnapshots == ASSUME Stop PROVE SnapshotsInv'
  BY UptoGrows DEF Stop, SnapshotsInv, SnapshotInv, Underway

LEMMA SnapshotsStep ==
  ASSUME Forwarding, TypeOK, SnapshotsInv, [Next]_vars PROVE SnapshotsInv'
  <1>1. CASE UNCHANGED sessions \/ UNCHANGED vars
    BY <1>1, ElsewhereSnapshots DEF sessions, vars, snapshots
  <1>2. CASE Launch \/ Help \/ (\E n \in Servers : ServerEnds(n)) \/ Disconnect \/ CDKey
    BY <1>2, <1>1 DEF Launch, Help, ServerEnds, Disconnect, CDKey
  <1>3. CASE Tick
    <2>1. UNCHANGED <<step, taken, stored>>
      BY <1>3 DEF Tick, snapshots
    <2>2. \A c \in Conns : step[c] = "post" => op'[c] = op[c]
      BY <1>3 DEF Tick
    <2> QED BY <2>1, <2>2, ElsewhereSnapshots
  <1> QED BY <1>1, <1>2, <1>3, StopSnapshots, AcceptSnapshots, OthersSnapshots,
             EndpointSnapshots, ContinueSnapshots DEF Next, Session

(* An endpoint that is configured has received what the game server sent,  *)
(* in that order and without a gap (StatsClient::HandeSnapshot).           *)
THEOREM SnapshotsInOrderHolds == Spec => []SnapshotsInOrder
  <1>1. ~Forwarding => SnapshotsInOrder
    BY DEF SnapshotsInOrder
  <1>2. Init => SnapshotsInv
    BY UptoGrows DEF Init, SnapshotsInv, SnapshotInv, Underway
  <1>3. ASSUME TypeOK, SnapshotsInv PROVE SnapshotsInOrder
    <2> SUFFICES ASSUME NEW c \in Conns
                 PROVE  stored[c] =
                          Upto(IF /\ step[c] \in {"connect", "post"}
                                  /\ Len(stored[c]) < taken[c]
                               THEN taken[c] - 1 ELSE taken[c])
      BY DEF SnapshotsInOrder, Upto
    <2>1. taken[c] \in Nat
      BY <1>3 DEF TypeOK
    <2>2. CASE Underway(c)
      <3>1. stored[c] = Upto(taken[c] - 1) /\ taken[c] \in Nat \ {0}
        BY <1>3, <2>1, <2>2 DEF SnapshotsInv, SnapshotInv
      <3>2. Len(stored[c]) = taken[c] - 1
        BY <3>1, UptoGrows
      <3> QED BY <2>2, <3>1, <3>2 DEF Underway
    <2>3. CASE ~Underway(c)
      <3>1. stored[c] = Upto(taken[c])
        BY <1>3, <2>3 DEF SnapshotsInv, SnapshotInv
      <3>2. Len(stored[c]) = taken[c]
        BY <2>1, <3>1, UptoGrows
      <3> QED BY <2>1, <3>1, <3>2
    <2> QED BY <2>2, <2>3
  <1>4. CASE Forwarding
    <2>1. SnapshotsInv /\ TypeOK /\ [Next]_vars => SnapshotsInv'
      BY <1>4, SnapshotsStep
    <2> QED BY <1>2, <1>3, <2>1, TypeOKHolds, PTL DEF Spec
  <1>5. CASE ~Forwarding
    BY <1>1, <1>5, PTL
  <1> QED BY <1>4, <1>5

-----------------------------------------------------------------------------
(* A session whose timer has gone waits for nothing its peer decides: one  *)
(* of the administration has a closed socket, on which nothing is pending, *)
(* and one of HTTP has failed or waits for its second timer, unless it     *)
(* escaped.                                                                *)
TimedOut(c) ==
  /\ step[c] \in Admin /\ alarm[c] = "off" => c \in closed
  /\ c \in closed /\ step[c] \in OnSocket => op[c] # "pending"
  /\ step[c] \in Http /\ alarm[c] = "off" /\ c \notin escaped =>
       step[c] = "linger" \/ op[c] = "failed"

WaitInv == \A c \in Conns : TimedOut(c)

(* What a step leaves of a session, it leaves of its timer.                *)
Unmoved(c) ==
  /\ step'[c] = step[c] /\ op'[c] = op[c] /\ alarm'[c] = alarm[c]
  /\ c \in closed' <=> c \in closed
  /\ c \in escaped' <=> c \in escaped

LEMMA UnmovedTimed ==
  ASSUME NEW c, TimedOut(c), Unmoved(c) PROVE TimedOut(c)'
  BY DEF TimedOut, Unmoved

LEMMA TimedButOne ==
  ASSUME WaitInv, NEW c \in Conns, TimedOut(c)',
         \A d \in Conns \ {c} : Unmoved(d)
  PROVE  WaitInv'
  BY UnmovedTimed DEF WaitInv

(* An operation is started by a session whose timer is still to go, by one *)
(* that escaped or on a socket that is closed; or the second timer is.     *)
LEMMA WaitTimed ==
  ASSUME TypeOK, WaitInv, NEW c \in Conns, NEW s, SameKind(c, s), Wait(c, s),
         \/ s = "linger"
         \/ step[c] # "linger" /\ op[c] = "done"
  PROVE  WaitInv'
  <1>1. /\ step'[c] = s
        /\ op'[c] = IF c \in closed /\ s \in OnSocket THEN "failed" ELSE "pending"
        /\ UNCHANGED <<alarm, closed, escaped>>
        /\ \A d \in Conns \ {c} : step'[d] = step[d] /\ op'[d] = op[d]
    BY DEF Wait, Start, TypeOK, timing
  <1>2. TimedOut(c)'
    <2>1. TimedOut(c)
      BY DEF WaitInv
    <2>2. /\ s \in Http => step[c] \in Http
          /\ s \in Admin => step[c] \in Admin
      BY DEF SameKind, Http, Admin, Stats
    <2> QED BY <1>1, <2>1, <2>2 DEF TimedOut
  <1>3. \A d \in Conns \ {c} : Unmoved(d)
    BY <1>1 DEF Unmoved
  <1> QED BY <1>2, <1>3, TimedButOne

LEMMA EndTimed ==
  ASSUME TypeOK, WaitInv, NEW c \in Conns, End(c)
  PROVE  WaitInv'
  <1>1. step'[c] = "free" /\ c \notin closed'
    BY DEF End, TypeOK
  <1>2. TimedOut(c)'
    BY <1>1 DEF TimedOut, Admin, Http
  <1>3. \A d \in Conns \ {c} : Unmoved(d)
    BY DEF Unmoved, End, TimerGoes, TypeOK
  <1> QED BY <1>2, <1>3, TimedButOne

LEMMA AcceptTimed ==
  ASSUME TypeOK, WaitInv, NEW c \in Conns, Accept(c)
  PROVE  WaitInv'
  <1>1. step[c] = "free"
    BY DEF Accept
  <1>2. c \notin closed /\ UNCHANGED <<closed, escaped>>
    BY <1>1 DEF Accept, Arm, Wait, timing, TypeOK, Admin
  <1>3. \/ alarm'[c] = "armed"
        \/ step'[c] = "challenge"
    BY DEF Accept, Arm, Wait, Start, TypeOK
  <1>4. TimedOut(c)'
    BY <1>2, <1>3 DEF TimedOut, Admin, Http
  <1>5. \A d \in Conns \ {c} : Unmoved(d)
    BY <1>2 DEF Unmoved, Accept, Arm, Wait, Start, timing, TypeOK
  <1> QED BY <1>4, <1>5, TimedButOne

LEMMA CompletionTimed ==
  ASSUME TypeOK, WaitInv, NEW c \in Conns, PeerActs(c) \/ QueryEnds(c) \/ EndpointActs(c)
  PROVE  WaitInv'
  <1>1. /\ UNCHANGED <<step, alarm, closed, escaped>>
        /\ op[c] = "pending" /\ op'[c] # "pending"
        /\ \A d \in Conns \ {c} : op'[d] = op[d]
        /\ step[c] # "linger"
    BY DEF PeerActs, QueryEnds, EndpointActs, Complete, timing, TypeOK,
           OnSocket, Queries, AtEndpoint
  <1>2. TimedOut(c)'
    BY <1>1 DEF WaitInv, TimedOut
  <1>3. \A d \in Conns \ {c} : Unmoved(d)
    BY <1>1 DEF Unmoved
  <1> QED BY <1>2, <1>3, TimedButOne

LEMMA TickTimed == ASSUME TypeOK, WaitInv, Tick PROVE WaitInv'
  <1> SUFFICES ASSUME NEW c \in Conns PROVE TimedOut(c)'
    BY DEF WaitInv
  <1>1. /\ UNCHANGED <<step, closed, escaped>>
        /\ alarm'[c] = "off" <=> alarm[c] = "off"
        /\ op'[c] = IF step[c] = "linger" THEN "done" ELSE op[c]
    BY DEF Tick, TypeOK
  <1>2. TimedOut(c)
    BY DEF WaitInv
  <1> QED BY <1>1, <1>2 DEF TimedOut

(* What the timer finds pending fails; what it cannot stop escapes.        *)
LEMMA TimeoutTimed ==
  ASSUME TypeOK, WaitInv, NEW c \in Conns, Timeout(c)
  PROVE  WaitInv'
  <1>1. /\ step' = step /\ alarm'[c] = "off"
        /\ \A d \in Conns \ {c} : alarm'[d] = alarm[d]
    BY DEF Timeout, TypeOK
  <1>2. /\ op'[c] = IF Cancelled(c) THEN "failed" ELSE op[c]
        /\ \A d \in Conns \ {c} : op'[d] = op[d]
    BY DEF Timeout, HttpTimeout, AdminTimeout, TypeOK
  <1>3. \A d \in Conns \ {c} : Unmoved(d)
    BY <1>1, <1>2 DEF Unmoved, Timeout, HttpTimeout, AdminTimeout, SocketClosed
  <1>4. TimedOut(c)
    BY DEF WaitInv
  <1>5. CASE AdminTimeout(c)
    <2>1. step[c] \in Admin /\ step[c] \notin Http /\ c \in closed'
      BY <1>5 DEF AdminTimeout, SocketClosed, Admin, Http
    <2> QED BY <1>1, <1>2, <1>3, <2>1, TimedButOne DEF TimedOut, Cancelled
  <1>6. CASE HttpTimeout(c)
    <2>1. step[c] \in Http /\ step[c] \notin Admin /\ closed' = closed /\ c \notin closed
      BY <1>6 DEF HttpTimeout, Admin, Http, TypeOK
    <2>2. CASE c \in escaped'
      BY <1>1, <1>3, <2>1, <2>2, TimedButOne DEF TimedOut
    <2>3. CASE c \notin escaped'
      <3>1. step[c] \notin {"has", "get"} /\ (step[c] \in InParts => op[c] # "done")
        BY <1>6, <2>3 DEF HttpTimeout
      <3>2. step[c] # "linger" => step[c] \in InParts /\ step[c] \in OnSocket
        BY <2>1, <3>1 DEF Http, InParts, OnSocket, Queries, AtEndpoint
      <3>3. step[c] # "linger" => op'[c] = "failed"
        BY <1>2, <3>1, <3>2 DEF Cancelled, TypeOK
      <3> QED BY <1>1, <1>3, <2>1, <3>3, TimedButOne DEF TimedOut
    <2> QED BY <2>2, <2>3
  <1> QED BY <1>5, <1>6 DEF Timeout

LEMMA SnapshotTimed ==
  ASSUME TypeOK, WaitInv, NEW c \in Conns, Snapshot(c)
  PROVE  WaitInv'
  <1>1. step[c] = "packet" /\ c \notin closed
    BY DEF Snapshot, Done, TypeOK, Admin
  <1>2. step'[c] \in {"connect", "packet"} /\ UNCHANGED <<alarm, closed, escaped>>
    BY DEF Snapshot, Start, timing, TypeOK
  <1>3. TimedOut(c)'
    BY <1>1, <1>2 DEF TimedOut, Admin, Http
  <1>4. \A d \in Conns \ {c} : Unmoved(d)
    BY <1>2 DEF Unmoved, Snapshot, Start, TypeOK
  <1> QED BY <1>3, <1>4, TimedButOne

LEMMA ContinueTimed ==
  ASSUME TypeOK, WaitInv, NEW c \in Conns, Continue(c)
  PROVE  WaitInv'
  <1> USE DEF Done, Failed, SameKind, Http, Admin, Stats, AtEndpoint
  <1>1. CASE Part(c)
    BY <1>1, WaitTimed DEF Part, InParts
  <1>2. CASE HttpRequest(c)
    BY <1>2, WaitTimed, EndTimed DEF HttpRequest, HandleBF2Web
  <1>3. CASE GetPlayerID(c)
    <2>1. CASE UNCHANGED <<supervision, step, op, timing, snapshots>>
      BY <2>1 DEF WaitInv, TimedOut, timing
    <2> QED BY <1>3, <2>1, WaitTimed, EndTimed DEF GetPlayerID
  <1>4. CASE HttpWritten(c)
    BY <1>4, WaitTimed, EndTimed DEF HttpWritten
  <1>5. CASE AdminCommand(c)
    BY <1>5, WaitTimed, EndTimed DEF AdminCommand, HandleAPI, HandleFileLookup
  <1>6. CASE Authenticate(c)
    BY <1>6, WaitTimed, EndTimed DEF Authenticate
  <1>7. CASE Process(c)
    BY <1>7, WaitTimed, EndTimed DEF Process
  <1>8. CASE Snapshot(c)
    BY <1>8, SnapshotTimed
  <1>9. CASE SnapshotFails(c)
    BY <1>9, EndTimed DEF SnapshotFails
  <1>10. CASE Forward(c)
    BY <1>10, WaitTimed DEF Forward
  <1> QED BY <1>1, <1>2, <1>3, <1>4, <1>5, <1>6, <1>7, <1>8, <1>9, <1>10
          DEF Continue

LEMMA StopTimed == ASSUME Stop PROVE WaitInv'
  BY DEF Stop, WaitInv, TimedOut, Admin, Http

LEMMA WaitStep == TypeOK /\ WaitInv /\ [Next]_vars => WaitInv'
  <1> SUFFICES ASSUME TypeOK, WaitInv, [Next]_vars PROVE WaitInv'
    OBVIOUS
  <1>1. CASE UNCHANGED sessions \/ UNCHANGED vars
    BY <1>1 DEF sessions, vars, timing, WaitInv, TimedOut
  <1>2. CASE Launch \/ Help \/ (\E n \in Servers : ServerEnds(n)) \/ Disconnect \/ CDKey
    BY <1>2, <1>1 DEF Launch, Help, ServerEnds, Disconnect, CDKey
  <1> QED BY <1>1, <1>2, StopTimed, AcceptTimed, CompletionTimed, TickTimed,
             ContinueTimed, TimeoutTimed DEF Next, Session

(* No peer holds up a session of HTTP or of the administration whose timer *)
(* has gone, except those of HTTP that escaped their timer.                *)
THEOREM WaitIsTimedHolds == Spec => []WaitIsTimed
  <1>1. Init => WaitInv
    BY DEF Init, WaitInv, TimedOut, Admin, Http
  <1>2. WaitInv => WaitIsTimed
    <2> SUFFICES ASSUME WaitInv, NEW c \in Conns,
                        step[c] \in (Http \cup Admin) \cap OnSocket, op[c] = "pending",
                        alarm[c] = "off", c \notin escaped
                 PROVE  FALSE
      BY DEF WaitIsTimed
    <2>1. TimedOut(c) /\ step[c] # "linger"
      BY DEF WaitInv, OnSocket
    <2> QED BY <2>1 DEF TimedOut
  <1> QED BY <1>1, <1>2, TypeOKHolds, WaitStep, PTL DEF Spec
=============================================================================
