------------------------------- MODULE Services -------------------------------
(***************************************************************************)
(* The start of the emulator and the servers it supervises                 *)
(* (emulator/emulator.cpp, main.cpp), with the sessions of three of them:  *)
(* HTTP (http.client.cpp), administration (admin.cpp) and stats            *)
(* (stats.client.cpp); and the CD-key server (key.cpp).                    *)
(*                                                                         *)
(* All run on one thread.  A session is one coroutine: a step is what it   *)
(* does from the completion of one operation to the start of the next.  An *)
(* operation is pending until it is done or has failed, and then its       *)
(* completion is queued.  HTTP and administration have a timer each, whose *)
(* handler is queued like a completion when the time is up: either may     *)
(* come first.  When the session ends the timer goes, but not a handler    *)
(* that is queued already; it then uses a session that is gone.            *)
(***************************************************************************)
EXTENDS Naturals, Sequences, FiniteSets

CONSTANTS
  Conns,          \* connections
  HTTP_TIMEOUT,   \* seconds (15)
  ADMIN_TIMEOUT,  \* seconds (10)
  Others,         \* the servers other modules are about
  Optional,       \* of "http" and "admin": those not switched on
  Forwarding,     \* a snapshot endpoint is configured
  SharedPlayers,  \* another program may delete players
  SNAPSHOTS       \* bound: snapshots of a session

Servers == (Others \cup {"http", "admin", "stats", "cd-key"}) \ Optional

ASSUME ServicesAssumption ==
  /\ HTTP_TIMEOUT \in Nat \ {0} /\ ADMIN_TIMEOUT \in Nat \ {0}
  /\ Optional \subseteq {"http", "admin"}
  /\ Forwarding \in BOOLEAN /\ SharedPlayers \in BOOLEAN
  /\ SNAPSHOTS \in Nat

VARIABLES
  launch,     \* how far Launch has come; see Phases
  databases,  \* "connected" or "disconnected"
  running,    \* servers whose coroutine has not ended
  keyserver,  \* "receive" or "send"
  step,       \* what the session of a connection waits for; or "free"
  op,         \* of that operation: "pending", or its queued completion
  alarm,      \* of the session's timer: "off", "armed" or "queued"
  left,       \* seconds until it goes
  closed,     \* connections whose socket the timer has closed
  taken,      \* snapshots a game server has sent in this session
  stored,     \* auxiliary: those the endpoint has received
  escaped,    \* auxiliary: HTTP sessions their timer did not stop
  undefined   \* auxiliary: something that is gone has been used

supervision == <<launch, databases, running, keyserver>>
timing == <<alarm, left, closed, escaped>>
snapshots == <<taken, stored>>
vars == <<supervision, step, op, timing, snapshots, undefined>>

Phases == <<"gamedb", "playerdb", "admin", "stats", "http", "servers", "serving">>

Http == {"request", "has", "get", "reply", "image", "linger"}
Admin == {"command", "list", "answer"}
Stats == {"challenge", "auth", "refuse", "granted", "packet", "player",
          "result", "connect", "post", "response"}

Queries == {"has", "get", "list", "player"}
AtEndpoint == {"connect", "post", "response"}
OnSocket == (Http \cup Admin \cup Stats) \ (Queries \cup AtEndpoint \cup {"linger"})

(* beast's reads and writes transfer a message in parts.                   *)
InParts == {"request", "reply", "image", "command", "answer"}

Init ==
  /\ launch = "gamedb"
  /\ databases = "disconnected"
  /\ running = {}
  /\ keyserver = "receive"
  /\ step = [c \in Conns |-> "free"]
  /\ op = [c \in Conns |-> "pending"]
  /\ alarm = [c \in Conns |-> "off"]
  /\ left = [c \in Conns |-> 0]
  /\ closed = {}
  /\ taken = [c \in Conns |-> 0]
  /\ stored = [c \in Conns |-> <<>>]
  /\ escaped = {}
  /\ undefined = FALSE

Alive == launch # "stopped" /\ ~undefined

-----------------------------------------------------------------------------
(* Start and end.                                                          *)

sessions == <<step, op, timing, snapshots, undefined>>

NextPhase ==
  [p \in {Phases[i] : i \in 1..6} |->
     Phases[(CHOOSE i \in 1..6 : Phases[i] = p) + 1]]

(* Launch, one Init after the other; the last phase constructs the         *)
(* remaining servers and runs them all.                                    *)
Launch ==
  /\ launch \in DOMAIN NextPhase
  /\ launch' = NextPhase[launch]
  /\ databases' = IF launch = "playerdb" THEN "connected" ELSE databases
  /\ running' = IF launch' = "serving" THEN Servers ELSE running
  /\ UNCHANGED <<keyserver, sessions>>

(* -h: Launch returns; nothing stops the context.                          *)
Help ==
  /\ launch = "gamedb"
  /\ launch' = "over"
  /\ UNCHANGED <<databases, running, keyserver, sessions>>

(* A signal, or an exception of Launch: the context stops, and all that    *)
(* ran in it is destroyed.                                                 *)
Stop ==
  /\ launch' = "stopped"
  /\ databases' = "disconnected"
  /\ running' = {}
  /\ keyserver' = "receive"
  /\ step' = [c \in Conns |-> "free"]
  /\ op' = [c \in Conns |-> "pending"]
  /\ alarm' = [c \in Conns |-> "off"]
  /\ left' = [c \in Conns |-> 0]
  /\ taken' = [c \in Conns |-> 0]
  /\ stored' = [c \in Conns |-> <<>>]
  /\ closed' = {} /\ escaped' = {}
  /\ UNCHANGED undefined

(* Accepting fails, or an exception leaves the server's coroutine: it is   *)
(* gone, and the others and its sessions go on.                            *)
ServerEnds(n) ==
  /\ n \in running
  /\ running' = running \ {n}
  /\ keyserver' = IF n = "cd-key" THEN "receive" ELSE keyserver
  /\ UNCHANGED <<launch, databases, sessions>>

(* Variant: the first server to end ends the wait.                         *)
OneEnded == launch = "serving" /\ running # Servers

AllEnded == launch = "serving" /\ running = {}

Disconnect ==
  /\ AllEnded
  /\ launch' = "over"
  /\ databases' = "disconnected"
  /\ UNCHANGED <<running, keyserver, sessions>>

(* A CD key is asked for, answered, and the next datagram awaited; a       *)
(* failing operation is ServerEnds.                                        *)
CDKey ==
  /\ "cd-key" \in running
  /\ keyserver' = IF keyserver = "receive" THEN "send" ELSE "receive"
  /\ UNCHANGED <<launch, databases, running, sessions>>

-----------------------------------------------------------------------------
(* What the outside does to the operations.                                *)

Complete(c, result) ==
  /\ op[c] = "pending"
  /\ op' = [op EXCEPT ![c] = result]

(* The peer sends or receives; or it hangs up.                             *)
PeerActs(c) ==
  /\ step[c] \in OnSocket
  /\ \E r \in {"done", "failed"} : Complete(c, r)
  /\ UNCHANGED <<supervision, step, timing, snapshots, undefined>>

(* A database query ends; it may throw.                                    *)
QueryEnds(c) ==
  /\ step[c] \in Queries
  /\ \E r \in {"done", "failed"} : Complete(c, r)
  /\ UNCHANGED <<supervision, step, timing, snapshots, undefined>>

(* The snapshot endpoint answers, or fails.                                *)
EndpointActs(c) ==
  /\ step[c] \in AtEndpoint
  /\ \E r \in {"done", "failed"} :
       /\ Complete(c, r)
       /\ stored' = IF step[c] = "post" /\ r = "done"
                    THEN [stored EXCEPT ![c] = Append(@, taken[c])] ELSE stored
  /\ UNCHANGED <<supervision, step, timing, taken, undefined>>

(* A second, whatever is queued when it is over.                           *)
Tick ==
  /\ \E c \in Conns : alarm[c] = "armed" \/ step[c] = "linger"
  /\ left' = [c \in Conns |-> IF alarm[c] = "armed" THEN left[c] - 1 ELSE left[c]]
  /\ alarm' = [c \in Conns |->
                 IF alarm[c] = "armed" /\ left[c] = 1 THEN "queued" ELSE alarm[c]]
  /\ op' = [c \in Conns |-> IF step[c] = "linger" THEN "done" ELSE op[c]]
  /\ UNCHANGED <<supervision, step, closed, escaped, snapshots, undefined>>

-----------------------------------------------------------------------------
(* Sessions.                                                               *)

(* Start an operation; on a closed socket it fails at once.                *)
Start(c, s) ==
  /\ step' = [step EXCEPT ![c] = s]
  /\ op' = [op EXCEPT ![c] = IF c \in closed /\ s \in OnSocket THEN "failed"
                             ELSE "pending"]

Wait(c, s) == Start(c, s) /\ UNCHANGED <<supervision, timing, snapshots, undefined>>

TimerGoes(c) ==
  /\ alarm' = [alarm EXCEPT ![c] = "off"]
  /\ left' = [left EXCEPT ![c] = 0]

(* Run returns or throws, and the session is destroyed.                    *)
End(c) ==
  /\ step' = [step EXCEPT ![c] = "free"]
  /\ op' = [op EXCEPT ![c] = "pending"]
  /\ TimerGoes(c)
  /\ closed' = closed \ {c}
  /\ escaped' = escaped \ {c}
  /\ taken' = [taken EXCEPT ![c] = 0]
  /\ stored' = [stored EXCEPT ![c] = <<>>]
  /\ undefined' = (alarm[c] = "queued")
  /\ UNCHANGED supervision

Arm(c, seconds) ==
  /\ alarm' = [alarm EXCEPT ![c] = "armed"]
  /\ left' = [left EXCEPT ![c] = seconds]
  /\ UNCHANGED <<supervision, closed, escaped, snapshots, undefined>>

Accept(c) ==
  /\ step[c] = "free"
  /\ \/ "http" \in running /\ Start(c, "request") /\ Arm(c, HTTP_TIMEOUT)
     \/ "admin" \in running /\ Start(c, "command") /\ Arm(c, ADMIN_TIMEOUT)
     \/ "stats" \in running /\ Wait(c, "challenge")

Done(c, s) == step[c] = s /\ op[c] = "done"
Failed(c, s) == step[c] = s /\ op[c] = "failed"

Part(c) ==
  /\ step[c] \in InParts /\ op[c] = "done"
  /\ Wait(c, step[c])

(* HandleBF2Web: getplayerid for a nick asks the database; all other pages *)
(* are known at once, the empty one among them.                            *)
HandleBF2Web(c) == \E s \in {"has", "reply"} : Wait(c, s)

(* HTTP: a request for a page or for an image, each of its own host; any   *)
(* other ends the session.                                                 *)
HttpRequest(c) ==
  \/ Failed(c, "request") /\ End(c)
  \/ Done(c, "request") /\ (HandleBF2Web(c) \/ Wait(c, "image") \/ End(c))

(* The player may be gone between the two queries: the profile of nobody   *)
(* is then asked for its number.                                           *)
GetPlayerID(c) ==
  \/ Failed(c, "has") /\ End(c)
  \/ Done(c, "has") /\ (Wait(c, "get") \/ Wait(c, "reply"))
  \/ Failed(c, "get") /\ End(c)
  \/ Done(c, "get") /\ Wait(c, "reply")
  \/ /\ SharedPlayers /\ Done(c, "get")
     /\ undefined' = TRUE
     /\ UNCHANGED <<supervision, step, op, timing, snapshots>>

(* The result of writing a page is not looked at: the second is waited     *)
(* for in any case.                                                        *)
HttpWritten(c) ==
  \/ (Done(c, "reply") \/ Failed(c, "reply")) /\ Wait(c, "linger")
  \/ (Done(c, "image") \/ Failed(c, "image") \/ Done(c, "linger")) /\ End(c)

(* HandleAPI: only the list of a game with a database of its own is waited *)
(* for; an edit of a table is done, and its answer may still not arrive.   *)
(* What throws ends the session without an answer.                         *)
HandleAPI(c) == Wait(c, "list") \/ Wait(c, "answer") \/ End(c)

(* Found or not, a file is an answer.                                      *)
HandleFileLookup(c) == Wait(c, "answer")

(* Administration: access refused is an answer, too; asking a closed       *)
(* socket for its address throws.                                          *)
AdminCommand(c) ==
  \/ Failed(c, "command") /\ End(c)
  \/ Done(c, "command") /\ (HandleAPI(c) \/ HandleFileLookup(c))
  \/ Failed(c, "list") /\ End(c)
  \/ Done(c, "list") /\ Wait(c, "answer")
  \/ (Done(c, "answer") \/ Failed(c, "answer")) /\ End(c)

(* Stats: Authenticate.                                                    *)
Authenticate(c) ==
  \/ Done(c, "challenge") /\ Wait(c, "auth")
  \/ Done(c, "auth") /\ (End(c) \/ \E s \in {"refuse", "granted"} : Wait(c, s))
  \/ Done(c, "granted") /\ Wait(c, "packet")
  \/ \E s \in {"challenge", "auth", "granted"} : Failed(c, s) /\ End(c)
  \/ (Done(c, "refuse") \/ Failed(c, "refuse")) /\ End(c)

(* Process: a packet that needs no answer, an authp with and without a     *)
(* player to look up, and the end of the stream.                           *)
Process(c) ==
  \/ Done(c, "packet") /\ \E s \in {"packet", "result", "player"} : Wait(c, s)
  \/ Done(c, "player") /\ Wait(c, "result")
  \/ Done(c, "result") /\ Wait(c, "packet")
  \/ \E s \in {"packet", "player", "result"} : Failed(c, s) /\ End(c)

(* HandeSnapshot: over a connection of its own, for each snapshot.         *)
Snapshot(c) ==
  /\ Done(c, "packet") /\ taken[c] < SNAPSHOTS
  /\ taken' = [taken EXCEPT ![c] = @ + 1]
  /\ Start(c, IF Forwarding THEN "connect" ELSE "packet")
  /\ UNCHANGED <<supervision, timing, stored, undefined>>

(* Variant: an unreachable endpoint is logged and the session goes on.     *)
GoesOn(c) == (\E s \in AtEndpoint : Failed(c, s)) /\ Wait(c, "packet")

SnapshotFails(c) == (\E s \in AtEndpoint : Failed(c, s)) /\ End(c)

Forward(c) ==
  \/ Done(c, "connect") /\ Wait(c, "post")
  \/ Done(c, "post") /\ Wait(c, "response")
  \/ Done(c, "response") /\ Wait(c, "packet")

-----------------------------------------------------------------------------
(* The handlers of the timers.                                             *)

(* Variant: the HTTP timer stops a read only.                              *)
OnlyTheRead(c) == step[c] = "request" /\ op[c] = "pending"

(* What cancel and close make fail: the operation the socket has pending.  *)
Cancelled(c) == step[c] \in OnSocket /\ op[c] = "pending"

(* m_Socket.cancel(): what is started later is not cancelled.              *)
HttpTimeout(c) ==
  /\ step[c] \in Http
  /\ op' = IF Cancelled(c) THEN [op EXCEPT ![c] = "failed"] ELSE op
  /\ escaped' = IF \/ step[c] \in {"has", "get"}
                   \/ step[c] \in InParts /\ op[c] = "done"
                THEN escaped \cup {c} ELSE escaped
  /\ UNCHANGED closed

(* Variant: cancel() for administration, too.                              *)
NotClosed(c) == UNCHANGED closed

SocketClosed(c) == closed' = closed \cup {c}

AdminTimeout(c) ==
  /\ step[c] \in Admin
  /\ op' = IF Cancelled(c) THEN [op EXCEPT ![c] = "failed"] ELSE op
  /\ SocketClosed(c)
  /\ UNCHANGED escaped

Timeout(c) ==
  /\ alarm[c] = "queued"
  /\ alarm' = [alarm EXCEPT ![c] = "off"]
  /\ HttpTimeout(c) \/ AdminTimeout(c)
  /\ UNCHANGED <<supervision, step, left, snapshots, undefined>>

Continue(c) ==
  \/ Part(c)
  \/ HttpRequest(c)
  \/ GetPlayerID(c)
  \/ HttpWritten(c)
  \/ AdminCommand(c)
  \/ Authenticate(c)
  \/ Process(c)
  \/ Snapshot(c)
  \/ SnapshotFails(c)
  \/ Forward(c)

Session(c) ==
  \/ Accept(c)
  \/ PeerActs(c)
  \/ QueryEnds(c)
  \/ EndpointActs(c)
  \/ Continue(c)
  \/ Timeout(c)

Next ==
  /\ Alive
  /\ \/ Launch
     \/ Help
     \/ Stop
     \/ \E n \in Servers : ServerEnds(n)
     \/ Disconnect
     \/ CDKey
     \/ Tick
     \/ \E c \in Conns : Session(c)

Spec == Init /\ [][Next]_vars

(* Queued handlers run, queries end, and time passes whatever the peers    *)
(* do.  Nothing is assumed of peers and of the snapshot endpoint.          *)
Fairness ==
  /\ WF_vars(Alive /\ Tick)
  /\ \A c \in Conns :
       /\ WF_vars(Alive /\ Continue(c))
       /\ WF_vars(Alive /\ Timeout(c))
       /\ WF_vars(Alive /\ QueryEnds(c))

FairSpec == Spec /\ Fairness

-----------------------------------------------------------------------------
TypeOK ==
  /\ launch \in {Phases[i] : i \in 1..7} \cup {"over", "stopped"}
  /\ databases \in {"connected", "disconnected"}
  /\ running \subseteq Servers
  /\ keyserver \in {"receive", "send"}
  /\ step \in [Conns -> Http \cup Admin \cup Stats \cup {"free"}]
  /\ op \in [Conns -> {"pending", "done", "failed"}]
  /\ alarm \in [Conns -> {"off", "armed", "queued"}]
  /\ left \in [Conns -> Nat]
  /\ closed \subseteq Conns /\ escaped \subseteq Conns
  /\ taken \in [Conns -> Nat]
  /\ stored \in [Conns -> Seq(Nat)]
  /\ undefined \in BOOLEAN
  /\ \A c \in Conns :
       /\ alarm[c] = "armed" <=> left[c] # 0
       /\ alarm[c] # "off" => step[c] \in Http \cup Admin
       /\ c \in closed => step[c] \in Admin
       /\ c \in escaped => step[c] \in Http

(* The databases are connected as long as a server runs: one that ends     *)
(* does not take them from the others.                                     *)
DatabasesOutliveServers == running # {} => databases = "connected"

(* The endpoint has received what the game server sent, in that order and  *)
(* without a gap: a session that cannot forward a snapshot ends before it  *)
(* forwards the next.                                                      *)
SnapshotsInOrder ==
  Forwarding =>
    \A c \in Conns :
      LET due == IF step[c] \in {"connect", "post"} /\ Len(stored[c]) < taken[c]
                 THEN taken[c] - 1 ELSE taken[c]
      IN stored[c] = [i \in 1..due |-> i]

(* A session of HTTP or of the administration that waits for its peer has  *)
(* a timer that is still to go, unless it is one that escaped: no peer can *)
(* hold up a session whose time is over (HttpClient::Run, AdminClient::Run). *)
WaitIsTimed ==
  \A c \in Conns :
    /\ step[c] \in (Http \cup Admin) \cap OnSocket
    /\ op[c] = "pending"
    => alarm[c] # "off" \/ c \in escaped

(* The timer closes the socket, so a session of the administration ends,   *)
(* whatever the peer does and at whatever moment the time is up.           *)
AdminEnds ==
  \A c \in Conns : step[c] \in Admin ~> step[c] \notin Admin \/ ~Alive

(* "the connection should never last more than 15 seconds" (comment in     *)
(* HttpClient::Run).  It ends, whatever the peer does, unless at the       *)
(* moment the timer goes the database is being asked, or the completion of *)
(* a part of a transfer is queued: the next operation is never cancelled.  *)
HttpEnds ==
  \A c \in Conns : step[c] \in Http ~> step[c] \notin Http \/ c \in escaped \/ ~Alive
=============================================================================
