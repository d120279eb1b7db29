------------------------------- MODULE Browser -------------------------------
(***************************************************************************)
(* The sessions of the server browser (emulator/ms.client.cpp) over the    *)
(* table of one game (emulator/game.cpp, emulator/bf2.cpp).                *)
(*                                                                         *)
(* A session sends the rows its request selects, one send after the other, *)
(* while rows come and go, and then forwards the updates of the table: a   *)
(* slot of the game's signals puts them into a channel, and the session    *)
(* takes them out.  A session is one coroutine, so a step is what it does  *)
(* from the completion of one operation to the start of the next.          *)
(*                                                                         *)
(* A message on the wire is kept as its kind, the server it is about and   *)
(* the number of the encryption that made it: the cipher is a stream that  *)
(* the client follows, so a message has to be encrypted in the order in    *)
(* which it is sent.                                                       *)
(***************************************************************************)
EXTENDS Naturals, Sequences, FiniteSets, SequencesExt

CONSTANTS
  Browsers,     \* sessions
  Servers,      \* endpoints that may be in the table
  Matching,     \* Matching[b]: the rows the filter of b selects
  Unsendable,   \* Unsendable[b]: rows with a value the keys of b cannot carry
  Limit,        \* Limit[b]: most rows in a list (500, or what the request says)
  CAPACITY,     \* of the channel of a session (10)
  Faults,       \* whether clients leave, requests are refused, sends fail
  None

ASSUME BrowserAssumption ==
  /\ IsFiniteSet(Servers)
  /\ Matching \in [Browsers -> SUBSET Servers]
  /\ Unsendable \in [Browsers -> SUBSET Servers]
  /\ Limit \in [Browsers -> Nat] /\ CAPACITY \in Nat
  /\ Faults \in BOOLEAN
  /\ None \notin Servers

VARIABLES
  table,   \* servers with a row
  slots,   \* sessions connected to OnServerAdded and OnServerRemoved, in order
  step,    \* where the coroutine of a session is; see Steps
  wish,    \* what its request asks for: "header", "list", "push"; or None
  rest,    \* rows of the list still to be sent
  queue,   \* m_SignalChannel
  deaf,    \* sessions whose channel_reader has been cancelled
  cipher,  \* number of encryptions made
  wire,    \* auxiliary: what was sent
  asof,    \* auxiliary: the table when the list was selected
  base     \* auxiliary: the table when the slots were connected; or None, also
           \* after an update that did not reach them

vars == <<table, slots, step, wish, rest, queue, deaf, cipher, wire, asof, base>>

(* The steps named like a message are those in which it is being sent.     *)
Sending == {"challenge", "header", "row", "end", "push"}
Steps == Sending \cup {"request", "lookup", "live", "closed"}

Init ==
  /\ table = {}
  /\ slots = <<>>
  /\ step = [b \in Browsers |-> "request"]
  /\ wish = [b \in Browsers |-> None]
  /\ rest = [b \in Browsers |-> {}]
  /\ queue = [b \in Browsers |-> <<>>]
  /\ deaf = {}
  /\ cipher = [b \in Browsers |-> 0]
  /\ wire = [b \in Browsers |-> <<>>]
  /\ asof = [b \in Browsers |-> {}]
  /\ base = [b \in Browsers |-> None]

-----------------------------------------------------------------------------
(* The signals of the table.                                               *)

(* Variant: the channel is unbounded.                                      *)
AlwaysRoom(b) == b \in Browsers

(* A slot's try_send succeeds while the buffer has room; one more update   *)
(* is handed to the channel_reader if that is waiting.                     *)
HasRoom(b) ==
  Len(queue[b]) < CAPACITY + IF step[b] = "live" /\ b \notin deaf THEN 1 ELSE 0

Update(what, s) == [what |-> what, server |-> s]

(* Variant: an update goes to the front.                                   *)
QueuedFirst(b, u) == <<u>> \o queue[b]

Queued(b, u) == Append(queue[b], u)

(* The slots called: those before the first that throws.                   *)
Called(u) ==
  {slots[i] : i \in {j \in DOMAIN slots :
     \A k \in 1..j : u.what = "added" => u.server \notin Unsendable[slots[k]]}}

(* The connected sessions the update does not reach lose track.            *)
LoseTrack(u) ==
  base' = [b \in Browsers |->
             IF b \in Range(slots) \ Called(u) THEN None ELSE base[b]]

(* Variant: the slot encrypts the update it queues.                        *)
EncryptInSlot(u) ==
  /\ queue' = [b \in Browsers |->
       IF b \in Called(u) /\ HasRoom(b) THEN Queued(b, u) ELSE queue[b]]
  /\ cipher' = [b \in Browsers |->
       IF b \in Called(u) THEN cipher[b] + 1 ELSE cipher[b]]
  /\ LoseTrack(u)
  /\ UNCHANGED <<wire, step>>

Signal(u) ==
  /\ queue' = [b \in Browsers |->
       IF b \in Called(u) /\ HasRoom(b) THEN Queued(b, u) ELSE queue[b]]
  /\ LoseTrack(u)
  /\ UNCHANGED <<cipher, wire, step>>

(* Game::AddOrUpdateServer and Game::RemoveServers; the latter announces a *)
(* removal whether or not there was a row.                                 *)
AddOrUpdateServer(s) ==
  /\ table' = table \cup {s}
  /\ Signal(Update("added", s))
  /\ UNCHANGED <<slots, wish, rest, deaf, asof>>

RemoveServer(s) ==
  /\ table' = table \ {s}
  /\ Signal(Update("removed", s))
  /\ UNCHANGED <<slots, wish, rest, deaf, asof>>

-----------------------------------------------------------------------------
(* A session.                                                              *)

(* Start to send a message, in the clear or encrypted.                     *)
SendPlain(b, what) ==
  /\ wire' = [wire EXCEPT ![b] =
                Append(@, [what |-> what, server |-> None, nr |-> 0])]
  /\ step' = [step EXCEPT ![b] = what]
  /\ UNCHANGED cipher

Send(b, what, s) ==
  /\ cipher' = [cipher EXCEPT ![b] = @ + 1]
  /\ wire' = [wire EXCEPT ![b] =
                Append(@, [what |-> what, server |-> s, nr |-> cipher[b] + 1])]
  /\ step' = [step EXCEPT ![b] = what]

(* Variant: the connections to the signals are not scoped.                 *)
CloseUnscoped(b) ==
  /\ step' = [step EXCEPT ![b] = "closed"]
  /\ UNCHANGED slots

(* The session is destroyed, and its connections with it.                  *)
Close(b) ==
  /\ step' = [step EXCEPT ![b] = "closed"]
  /\ slots' = IF b \in Range(slots)
              THEN RemoveAt(slots, CHOOSE i \in DOMAIN slots : slots[i] = b)
              ELSE slots

Leave(b) ==
  /\ Close(b)
  /\ wish' = [wish EXCEPT ![b] = None]
  /\ rest' = [rest EXCEPT ![b] = {}]
  /\ queue' = [queue EXCEPT ![b] = <<>>]
  /\ deaf' = deaf \ {b}
  /\ cipher' = [cipher EXCEPT ![b] = 0]
  /\ wire' = [wire EXCEPT ![b] = <<>>]
  /\ asof' = [asof EXCEPT ![b] = {}]
  /\ base' = [base EXCEPT ![b] = None]
  /\ UNCHANGED table

(* The first packet: a list request with some of its options.              *)
Request(b, w) ==
  /\ step[b] = "request"
  /\ wish' = [wish EXCEPT ![b] = w]
  /\ SendPlain(b, "challenge")
  /\ UNCHANGED <<table, slots, rest, queue, deaf, asof, base>>

SendHeader(b) ==
  /\ step[b] = "challenge"
  /\ Send(b, "header", None)
  /\ UNCHANGED <<table, slots, wish, rest, queue, deaf, asof, base>>

(* No list was asked for: HandleServerListRequest is done.                 *)
NoList(b) ==
  /\ step[b] = "header"
  /\ wish[b] = "header"
  /\ step' = [step EXCEPT ![b] = "live"]
  /\ UNCHANGED <<table, slots, wish, rest, queue, deaf, cipher, wire, asof, base>>

(* GetServers: the rows are selected.  A game may then ask another         *)
(* database about them, which the session waits for; else this wait ends   *)
(* at once.                                                                *)
Selections(b) ==
  LET S == table \cap Matching[b]
  IN {R \in SUBSET S :
        Cardinality(R) =
          IF Cardinality(S) < Limit[b] THEN Cardinality(S) ELSE Limit[b]}

GetServers(b) ==
  /\ step[b] = "header"
  /\ wish[b] # "header"
  /\ \E R \in Selections(b) : rest' = [rest EXCEPT ![b] = R]
  /\ asof' = [asof EXCEPT ![b] = table]
  /\ step' = [step EXCEPT ![b] = "lookup"]
  /\ UNCHANGED <<table, slots, wish, queue, deaf, cipher, wire, base>>

(* Variant: the rows are looked up as they are sent.                       *)
LiveRow(b, s) ==
  /\ s \in rest[b]
  /\ rest' = [rest EXCEPT ![b] = (table \cap Matching[b]) \ {s}]

TakeRow(b, s) ==
  /\ s \in rest[b]
  /\ rest' = [rest EXCEPT ![b] = @ \ {s}]

SendRow(b) ==
  /\ step[b] \in {"lookup", "row"}
  /\ \E s \in Servers \ Unsendable[b] : TakeRow(b, s) /\ Send(b, "row", s)
  /\ UNCHANGED <<table, slots, wish, queue, deaf, asof, base>>

(* GetServerBytes throws for a row with a value that does not fit its key. *)
RowFails(b) ==
  /\ step[b] \in {"lookup", "row"}
  /\ rest[b] \cap Unsendable[b] # {}
  /\ Leave(b)

(* Variant: the end is sent with the last row.                             *)
EndsWithRow(b) == step[b] = "row" /\ rest[b] = {}

Complete(b) == step[b] \in {"lookup", "row"} /\ rest[b] = {}

SendEnd(b) ==
  /\ Complete(b)
  /\ Send(b, "end", None)
  /\ UNCHANGED <<table, slots, wish, rest, queue, deaf, asof, base>>

(* The end of HandleServerListRequest: only now are the slots connected.   *)
Connect(b) ==
  /\ step[b] = "end"
  /\ step' = [step EXCEPT ![b] = "live"]
  /\ IF wish[b] = "push"
     THEN /\ slots' = Append(slots, b)
          /\ base' = [base EXCEPT ![b] = table]
     ELSE UNCHANGED <<slots, base>>
  /\ UNCHANGED <<table, wish, rest, queue, deaf, cipher, wire, asof>>

(* Variant: a second coroutine forwards the updates.                       *)
WaitingToo(b) == step[b] \in {"live", "push"}

Waiting(b) == step[b] = "live" /\ b \notin deaf

(* Process: an update is taken from the channel, encrypted and sent.       *)
SendPush(b) ==
  /\ Waiting(b)
  /\ queue[b] # <<>>
  /\ Send(b, "push", Head(queue[b]).server)
  /\ queue' = [queue EXCEPT ![b] = Tail(@)]
  /\ base' = [base EXCEPT ![b] = None]
  /\ UNCHANGED <<table, slots, wish, rest, deaf, asof>>

(* After the send, Process goes on to std::get<1>(incoming), which throws  *)
(* as incoming holds the update: the session ends.                         *)
PushSent(b) == step[b] = "push" /\ Leave(b)

(* Another packet wins the race against the channel: channel_reader is     *)
(* cancelled, for good.  Resuming it again fails, and that either goes     *)
(* unnoticed or ends the session.                                          *)
OtherPacket(b) ==
  /\ step[b] = "live"
  /\ \/ /\ deaf' = deaf \cup {b}
        /\ UNCHANGED <<table, slots, step, wish, rest, queue, cipher, wire, asof, base>>
     \/ Leave(b)

(* The client hangs up, a packet is refused, an operation fails.           *)
HangUp(b) == Faults /\ step[b] # "closed" /\ Leave(b)

Continue(b) ==
  \/ SendHeader(b)
  \/ NoList(b)
  \/ GetServers(b)
  \/ SendRow(b)
  \/ RowFails(b)
  \/ SendEnd(b)
  \/ Connect(b)
  \/ SendPush(b)
  \/ PushSent(b)

UpdateTable(s) == AddOrUpdateServer(s) \/ RemoveServer(s)

Session(b) ==
  \/ \E w \in {"header", "list", "push"} : Request(b, w)
  \/ Continue(b)
  \/ OtherPacket(b)
  \/ HangUp(b)

Next ==
  \/ \E s \in Servers : UpdateTable(s)
  \/ \E b \in Browsers : Session(b)

Spec == Init /\ [][Next]_vars

(* A client reads what it is sent, so that a started send completes.  There *)
(* is no timeout: a client that stops reading keeps its session.           *)
Fairness == \A b \in Browsers : WF_vars(Continue(b))

FairSpec == Spec /\ Fairness

-----------------------------------------------------------------------------
Message == [what : Sending, server : Servers \cup {None}, nr : Nat]

Updates == [what : {"added", "removed"}, server : Servers]

TypeOK ==
  /\ table \subseteq Servers
  /\ slots \in Seq(Browsers)
  /\ step \in [Browsers -> Steps]
  /\ wish \in [Browsers -> {"header", "list", "push", None}]
  /\ rest \in [Browsers -> SUBSET Servers]
  /\ deaf \subseteq Browsers
  /\ cipher \in [Browsers -> Nat]
  /\ asof \in [Browsers -> SUBSET Servers]
  /\ base \in [Browsers -> (SUBSET Servers) \cup {None}]
  /\ wire \in [Browsers -> Seq(Message)]
  /\ queue \in [Browsers -> Seq(Updates)]
  /\ \A b \in Browsers : Len(queue[b]) <= CAPACITY + 1

Rows(b) == {i \in DOMAIN wire[b] : wire[b][i].what = "row"}

(* The list is the table as it was at one moment: rows that come and go    *)
(* while it is sent are neither in it twice nor half in it, and it is as   *)
(* long as the limit allows.                                               *)
ListIsSnapshot ==
  \A b \in Browsers : step[b] \in {"end", "live", "push"} /\ wish[b] # "header" =>
    LET sent == {wire[b][i].server : i \in Rows(b)}
    IN /\ sent \subseteq asof[b] \cap Matching[b]
       /\ Cardinality(sent) = Cardinality(Rows(b))
       /\ Cardinality(sent) < Limit[b] => asof[b] \cap Matching[b] \subseteq sent

(* "we do not want to interleave sending data from the channel and sending *)
(* data generated from the packet handling" (comment in Process): a push   *)
(* is sent only while nothing else is, and only to a client that has its   *)
(* list.                                                                   *)
OneSendAtATime ==
  [][\A b \in Browsers :
       Len(wire'[b]) > Len(wire[b]) /\ Last(wire'[b]).what = "push" =>
         /\ step[b] = "live"
         /\ \E i \in DOMAIN wire[b] : wire[b][i].what = "end"]_vars

(* The client decrypts what it receives in the order it receives it: the   *)
(* n-th message after the challenge was made by the n-th encryption.       *)
CipherInStep ==
  \A b \in Browsers :
    /\ \A i \in DOMAIN wire[b] : wire[b][i].nr = i - 1
    /\ cipher[b] = IF wire[b] = <<>> THEN 0 ELSE Len(wire[b]) - 1

(* A slot refers to its session, so none outlives it, none is called       *)
(* before the list is complete, and a session has at most one.             *)
SlotsAreLive ==
  /\ \A i \in DOMAIN slots : step[slots[i]] \in {"live", "push"}
  /\ \A i, j \in DOMAIN slots : slots[i] = slots[j] => i = j

(* What a session knows of the table: what it was when its slots were      *)
(* connected, unless the queue says otherwise; its last word on a server   *)
(* counts.                                                                 *)
LastWord(q, s, i) ==
  q[i].server = s /\ \A j \in DOMAIN q : j > i => q[j].server # s

Known(b) ==
  LET q == queue[b]
  IN {s \in Servers :
        \/ s \in base[b] /\ \A i \in DOMAIN q : q[i].server # s
        \/ \E i \in DOMAIN q : LastWord(q, s, i) /\ q[i].what = "added"}

(* As long as its channel has not been full and no slot threw for a row,   *)
(* its own or one called before it, a session that has not yet pushed an   *)
(* update holds all that changed since it was connected, in an order that  *)
(* leads to the table as it is.                                            *)
QueueLeadsToTable ==
  \A b \in Browsers : base[b] # None /\ HasRoom(b) => Known(b) = table

(* Process is a loop that waits for an update or a packet, and forwards    *)
(* "adhoc data (server added/removed)" (comment in Process): as long as    *)
(* nothing fails, forwarding an update does not end the session.           *)
PushKeepsSession ==
  [][\A b \in Browsers :
       ~Faults /\ step[b] = "push" => step'[b] # "closed"]_vars

(* A list that was asked for is sent to its end, unless the session ends.  *)
ListEnds ==
  \A b \in Browsers :
    step[b] = "challenge" ~> step[b] \in {"live", "closed"}
=============================================================================
