------------------------------- MODULE Master -------------------------------
(***************************************************************************)
(* The query-and-reporting server (emulator/master.cpp) and the server     *)
(* tables of the games it fills (emulator/game.cpp).                       *)
(*                                                                         *)
(* A game server announces itself with a heartbeat, is sent a challenge,   *)
(* answers it, and is then listed in the table of its game.  Everything    *)
(* runs on one io_context thread: a handler is atomic up to the point      *)
(* where it waits for its reply to be sent, and while the receive loop     *)
(* waits there the Cleanup loop, the clock and the admin interface go on.  *)
(*                                                                         *)
(* A time is kept as the age of a stamp in whole seconds, which is all the *)
(* code ever compares; a challenge is kept as whether the game server has  *)
(* received it, which is what being able to answer it takes.               *)
(***************************************************************************)
EXTENDS Naturals

CONSTANTS
  Clients,  \* endpoints (address and port) of game servers
  Games,    \* the games the database knows
  Values,   \* contents of heartbeats, as far as they are told apart
  GamesOf,  \* GamesOf[c]: the game names the heartbeats of c carry
  TIMEOUT,  \* an entry older than this is removed (60 s)
  PERIOD,   \* the cleanup timer (60 s)
  Faults,   \* what may fail: a "send", a "store" into a table, "receive"
  Edited,   \* the rows the admin interface edits, as <<game, endpoint>>
  None

ASSUME GamesAssumption ==
  /\ GamesOf \in [Clients -> SUBSET Games]
  /\ None \notin Clients
  /\ None \notin Values

ASSUME TimeAssumption == TIMEOUT \in Nat /\ PERIOD \in Nat \ {0}

ASSUME SwitchAssumption ==
  /\ Faults \subseteq {"send", "store", "receive"}
  /\ Edited \subseteq Games \X Clients

VARIABLES
  awaiting,   \* m_AwaitingValidation
  validated,  \* m_Validated
  table,      \* table[g][c]: the row of endpoint c in the table of game g
  loop,       \* where AcceptConnections is: "receive", "send", "ended"
  iter,       \* endpoint of the entry HandleChallenge holds across its send
  timer,      \* seconds until m_CleanupTimer expires
  undefined,  \* auxiliary: an erased entry has been used
  reached     \* auxiliary: endpoints that received a challenge since start

vars == <<awaiting, validated, table, loop, iter, timer, undefined, reached>>
service == <<loop, iter>>
aux == <<undefined, reached>>

(* The struct "server".  Of an entry of m_Validated only last_update and   *)
(* gamename are ever read, so only these are kept.                         *)
Pending == [age : Nat, game : Games, val : Values, proof : {"unknown", "known"}]
Lease == [age : Nat, game : Games]

ASSUME NoneAssumption == None \notin Pending /\ None \notin Lease

ASSUME AgeAssumption == None \notin Nat

(* Updates of an entry: its stamp, its stamp and values, its proof.        *)
Stamped(e, age) == [e EXCEPT !.age = age]

(* Variant: a heartbeat makes a new challenge each time.                   *)
RefreshedAnew(e, v) == [e EXCEPT !.age = 0, !.val = v, !.proof = "unknown"]

Refreshed(e, v) == [e EXCEPT !.age = 0, !.val = v]
Answerable(e) == [e EXCEPT !.proof = "known"]

NoEntries == [c \in Clients |-> None]
NoRows == [g \in Games |-> NoEntries]

Init ==
  /\ awaiting = NoEntries
  /\ validated = NoEntries
  /\ table = NoRows
  /\ loop = "receive"
  /\ iter = None
  /\ timer = PERIOD
  /\ undefined = FALSE
  /\ reached = {}

-----------------------------------------------------------------------------
(* Game::AddOrUpdateServer: INSERT OR REPLACE.                             *)
AddOrUpdateServer(g, c, v) == table' = [table EXCEPT ![g][c] = v]

(* Variant: a failure is logged where it occurs and is not thrown.         *)
FailureIgnored(g, c, v) == UNCHANGED table

(* It throws for a key it cannot store, which leaves the row as it was, or *)
(* when a browser's slot of OnServerAdded throws: the row is stored then.  *)
AddOrUpdateFails(g, c, v) ==
  "store" \in Faults /\ (UNCHANGED table \/ AddOrUpdateServer(g, c, v))

(* HandleHeartbeat of an endpoint in m_Validated: the row is replaced in   *)
(* the game the packet names; the entry is neither compared nor refreshed. *)
UpdateServer(c, g, v) ==
  /\ validated[c] # None
  /\ AddOrUpdateServer(g, c, v) \/ AddOrUpdateFails(g, c, v)
  /\ UNCHANGED <<awaiting, validated, service>>

(* HandleHeartbeat of an unknown endpoint: a new challenge is sent.        *)
SendChallenge(c, g, v) ==
  /\ validated[c] = None
  /\ awaiting[c] = None
  /\ awaiting' = [awaiting EXCEPT ![c] =
                    [age |-> 0, game |-> g, val |-> v, proof |-> "unknown"]]
  /\ loop' = "send"
  /\ UNCHANGED <<validated, table, iter>>

(* HandleHeartbeat of an endpoint that has not answered its challenge yet. *)
RefreshPending(c, v) ==
  /\ validated[c] = None
  /\ awaiting[c] # None
  /\ awaiting' = [awaiting EXCEPT ![c] = Refreshed(@, v)]
  /\ UNCHANGED <<validated, table, service>>

HandleHeartbeat(c, g, v) ==
  /\ loop = "receive"
  /\ g \in GamesOf[c]
  /\ UpdateServer(c, g, v) \/ SendChallenge(c, g, v) \/ RefreshPending(c, v)
  /\ UNCHANGED <<timer, aux>>

(* Variant: operator[] on the map without asking it first, which inserts.  *)
KeepAliveInserts(c) ==
  /\ loop = "receive"
  /\ awaiting' = [awaiting EXCEPT ![c] =
                    [age |-> 0, game |-> None, val |-> None, proof |-> "unknown"]]
  /\ UNCHANGED <<validated, table, service, timer, aux>>

HandleKeepAlive(c) ==
  /\ loop = "receive"
  /\ \/ /\ awaiting[c] # None
        /\ awaiting' = [awaiting EXCEPT ![c] = Stamped(@, 0)]
        /\ UNCHANGED validated
     \/ /\ awaiting[c] = None
        /\ validated[c] # None
        /\ validated' = [validated EXCEPT ![c] = Stamped(@, 0)]
        /\ UNCHANGED awaiting
  /\ UNCHANGED <<table, service, timer, aux>>

(* HandleAvailable: nothing but a reply, which the receive loop awaits.    *)
HandleAvailable ==
  /\ loop = "receive"
  /\ loop' = "send"
  /\ UNCHANGED <<awaiting, validated, table, iter, timer, aux>>

-----------------------------------------------------------------------------
(* Variant: any answer will do.                                            *)
ProofUnchecked(c) == awaiting[c] # None

ProofMatches(c) == awaiting[c] # None /\ awaiting[c].proof = "known"

(* HandleChallenge up to its reply: the entry is copied with its stamp     *)
(* (emplace keeps an entry that is already there), and the iterator to it  *)
(* is held while the reply is sent.                                        *)
AcceptProof(c) ==
  /\ loop = "receive"
  /\ ProofMatches(c)
  /\ validated' =
       IF validated[c] # None
       THEN validated
       ELSE [validated EXCEPT ![c] =
               [age |-> awaiting[c].age, game |-> awaiting[c].game]]
  /\ loop' = "send"
  /\ iter' = c
  /\ UNCHANGED <<awaiting, table, timer, aux>>

(* HandleChallenge with any other proof: of an earlier challenge, say.     *)
RejectProof(c) ==
  /\ loop = "receive"
  /\ awaiting[c] # None
  /\ awaiting' = [awaiting EXCEPT ![c] = None]
  /\ UNCHANGED <<validated, table, service, timer, aux>>

(* HandleChallenge after its reply: the row is stored, then the entry      *)
(* erased; an exception in between skips the erase.                        *)
ListServer ==
  /\ loop = "send"
  /\ iter # None
  /\ awaiting[iter] # None
  /\ \/ /\ AddOrUpdateServer(awaiting[iter].game, iter, awaiting[iter].val)
        /\ awaiting' = [awaiting EXCEPT ![iter] = None]
     \/ /\ AddOrUpdateFails(awaiting[iter].game, iter, awaiting[iter].val)
        /\ UNCHANGED awaiting
  /\ loop' = "receive"
  /\ iter' = None
  /\ UNCHANGED <<validated, timer, aux>>

(* The same when Cleanup has erased the entry meanwhile: the handler reads *)
(* and erases through a dangling iterator.  It may find some row's data,   *)
(* or throw, or bring the process down (Restart).                          *)
UseErasedEntry ==
  /\ loop = "send"
  /\ iter # None
  /\ awaiting[iter] = None
  /\ undefined' = TRUE
  /\ \/ UNCHANGED table
     \/ \E g \in Games, v \in Values : AddOrUpdateServer(g, iter, v)
  /\ loop' = "receive"
  /\ iter' = None
  /\ UNCHANGED <<awaiting, validated, timer, reached>>

(* A reply after which the handler has nothing left to do.                 *)
FinishReply ==
  /\ loop = "send"
  /\ iter = None
  /\ loop' = "receive"
  /\ UNCHANGED <<awaiting, validated, table, iter, timer, aux>>

(* async_send_to throws: AcceptConnections catches it and goes on.         *)
SendFails ==
  /\ "send" \in Faults
  /\ loop = "send"
  /\ loop' = "receive"
  /\ iter' = None
  /\ UNCHANGED <<awaiting, validated, table, timer, aux>>

(* An error or an empty datagram ends the receive loop, and only that.     *)
ReceiveEnds ==
  /\ "receive" \in Faults
  /\ loop = "receive"
  /\ loop' = "ended"
  /\ UNCHANGED <<awaiting, validated, table, iter, timer, aux>>

-----------------------------------------------------------------------------
(* Variants: the comparison is off by one, to either side.                 *)
ExpiredLate(e) == e # None /\ e.age > TIMEOUT + 1
ExpiredEarly(e) == e # None /\ e.age >= TIMEOUT

Expired(e) == e # None /\ e.age > TIMEOUT

(* Variants: only one map is looked at; the endpoint leaves every game.    *)
RemovedPending(g, c) == Expired(awaiting[c]) /\ awaiting[c].game = g
RemovedEverywhere(g, c) == Expired(awaiting[c]) \/ Expired(validated[c])

(* The rows Cleanup removes: those of expired entries, of either map.      *)
Removed(g, c) ==
  \/ Expired(awaiting[c]) /\ awaiting[c].game = g
  \/ Expired(validated[c]) /\ validated[c].game = g

(* One round of Cleanup.  None of its co_awaits suspends with the games    *)
(* held in memory, so it is one step.                                      *)
Cleanup ==
  /\ timer = 0
  /\ table' = [g \in Games |-> [c \in Clients |->
                 IF Removed(g, c) THEN None ELSE table[g][c]]]
  /\ awaiting' = [c \in Clients |->
                    IF Expired(awaiting[c]) THEN None ELSE awaiting[c]]
  /\ validated' = [c \in Clients |->
                     IF Expired(validated[c]) THEN None ELSE validated[c]]
  /\ timer' = PERIOD
  /\ UNCHANGED <<service, aux>>

Older(m) == [c \in Clients |->
               IF m[c] = None THEN None ELSE Stamped(m[c], m[c].age + 1)]

(* A second passes.  An expired timer is served before the next one.       *)
Tick ==
  /\ timer > 0
  /\ timer' = timer - 1
  /\ awaiting' = Older(awaiting)
  /\ validated' = Older(validated)
  /\ UNCHANGED <<table, service, aux>>

-----------------------------------------------------------------------------
(* The network delivers the challenge of c; a lost one never arrives.      *)
DeliverChallenge(c) ==
  /\ awaiting[c] # None
  /\ awaiting[c].proof = "unknown"
  /\ awaiting' = [awaiting EXCEPT ![c] = Answerable(@)]
  /\ reached' = reached \cup {c}
  /\ UNCHANGED <<validated, table, service, timer, undefined>>

(* POST and DELETE /api/server of the admin interface.                     *)
MayEdit(g, c) == <<g, c>> \in Edited

AdminAdd(g, c, v) ==
  /\ MayEdit(g, c)
  /\ AddOrUpdateServer(g, c, v)
  /\ UNCHANGED <<awaiting, validated, service, timer, aux>>

AdminRemove(g, c) ==
  /\ MayEdit(g, c)
  /\ table' = [table EXCEPT ![g][c] = None]
  /\ UNCHANGED <<awaiting, validated, service, timer, aux>>

(* The process stops, or crashes, and is started again: all state is lost. *)
Restart ==
  /\ awaiting' = NoEntries
  /\ validated' = NoEntries
  /\ table' = NoRows
  /\ loop' = "receive"
  /\ iter' = None
  /\ timer' = PERIOD
  /\ undefined' = FALSE
  /\ reached' = {}

Handle(c) ==
  \/ \E g \in Games, v \in Values : HandleHeartbeat(c, g, v)
  \/ HandleKeepAlive(c)
  \/ AcceptProof(c)
  \/ RejectProof(c)

Resume == ListServer \/ UseErasedEntry \/ FinishReply

Next ==
  \/ \E c \in Clients : Handle(c) \/ DeliverChallenge(c)
  \/ HandleAvailable
  \/ Resume
  \/ SendFails
  \/ ReceiveEnds
  \/ Cleanup
  \/ Tick
  \/ \E g \in Games, c \in Clients :
       AdminRemove(g, c) \/ \E v \in Values : AdminAdd(g, c, v)
  \/ Restart

Spec == Init /\ [][Next]_vars

(* Timers expire and started sends complete; nothing is assumed of the     *)
(* game servers or of the network.                                         *)
Fairness == WF_vars(Tick) /\ WF_vars(Cleanup) /\ WF_vars(Resume)

FairSpec == Spec /\ Fairness

-----------------------------------------------------------------------------
(* Every entry and every row is well formed; in particular the gamename of *)
(* an entry is a game the database knows, so that the GetGame of Cleanup,  *)
(* which throws for any other name, never ends the cleanup loop.           *)
TypeOK ==
  /\ awaiting \in [Clients -> Pending \cup {None}]
  /\ validated \in [Clients -> Lease \cup {None}]
  /\ table \in [Games -> [Clients -> Values \cup {None}]]
  /\ loop \in {"receive", "send", "ended"}
  /\ iter \in Clients \cup {None}
  /\ timer \in 0..PERIOD
  /\ undefined \in BOOLEAN
  /\ reached \subseteq Clients

(* An entry outlives its last refresh by TIMEOUT + PERIOD at most, counting *)
(* the time to the next cleanup: whatever fails in the receive loop, a      *)
(* server that has gone away is forgotten within two minutes.               *)
AgeBound ==
  \A c \in Clients :
    /\ awaiting[c] # None => awaiting[c].age + timer <= TIMEOUT + PERIOD
    /\ validated[c] # None => validated[c].age + timer <= TIMEOUT + PERIOD

(* Only the heartbeat handshake fills the tables, except for rows that an  *)
(* administrator edits: an endpoint is listed, for any game, only after a  *)
(* challenge sent to it has arrived there.  It holds under every fault,    *)
(* and even where an erased entry was used.                                *)
OnlyReachedListed ==
  \A g \in Games, c \in Clients :
    table[g][c] # None /\ ~MayEdit(g, c) => c \in reached

(* What the next two invariants need: replies are sent, rows are stored,   *)
(* and nobody but this server edits the tables.                            *)
Orderly ==
  /\ Faults \subseteq {"receive"}
  /\ \A g \in Games, c \in Clients : ~MayEdit(g, c)

(* A validated server is visible: its row is in the table of the game it   *)
(* was validated for, from the end of HandleChallenge until its entry is   *)
(* removed.                                                                *)
ValidatedIsListed ==
  Orderly /\ ~undefined =>
    \A c \in Clients : validated[c] # None /\ iter # c =>
                          table[validated[c].game][c] # None

(* No row is left behind: a listed server that names one game only has a   *)
(* validated entry for that game, so that Cleanup will remove its row.     *)
OneGame(c) == \A g, h \in GamesOf[c] : g = h

ListedHasLease ==
  Orderly /\ ~undefined =>
    \A g \in Games, c \in Clients : OneGame(c) /\ table[g][c] # None =>
      validated[c] # None /\ validated[c].game = g

(* The inductive forms of the above.  Whatever an endpoint gets hold of it *)
(* has by an answer to a challenge that reached it.                        *)
ReachedInv ==
  \A c \in Clients :
    /\ awaiting[c] # None /\ awaiting[c].proof = "known" => c \in reached
    /\ validated[c] # None => c \in reached
    /\ iter = c => c \in reached
    /\ \A g \in Games :
         table[g][c] # None /\ ~MayEdit(g, c) => c \in reached

(* An endpoint is in both maps only while HandleChallenge sends its reply  *)
(* to it, and then its two entries agree, so they expire together.         *)
EntryInv(c) ==
  /\ awaiting[c] # None /\ validated[c] # None => iter = c
  /\ awaiting[c] # None /\ iter = c =>
       /\ validated[c] # None
       /\ validated[c].age = awaiting[c].age
       /\ validated[c].game = awaiting[c].game
  /\ awaiting[c] # None => awaiting[c].game \in GamesOf[c]
  /\ validated[c] # None => validated[c].game \in GamesOf[c]

RowInv(c) ==
  /\ validated[c] # None /\ iter # c => table[validated[c].game][c] # None
  /\ \A g \in Games : OneGame(c) /\ table[g][c] # None =>
       validated[c] # None /\ validated[c].game = g

OrderlyInv ==
  Orderly /\ ~undefined =>
    /\ iter # None => loop = "send"
    /\ \A c \in Clients : EntryInv(c) /\ RowInv(c)

(* The challenge of HandleHeartbeat's comment: "when both encryptions      *)
(* match, the gameserver is validated and can be seen by the clients".     *)
(* The encryption is keyed by the game, so a row belongs to a game the     *)
(* server was validated for.                                               *)
SeenWhereValidated ==
  \A g \in Games, c \in Clients : table[g][c] # None =>
    validated[c] # None /\ validated[c].game = g

(* An outstanding challenge stays answerable: heartbeats and keepalives    *)
(* that arrive before the answer neither replace the proof the entry waits *)
(* for nor the game whose key made it.                                     *)
ChallengeKept ==
  [][\A c \in Clients : awaiting[c] # None /\ awaiting'[c] # None =>
       /\ awaiting'[c].game = awaiting[c].game
       /\ awaiting[c].proof = "known" => awaiting'[c].proof = "known"]_vars

(* A row is withdrawn only by the admin interface, a restart, or a cleanup *)
(* that finds an entry of that endpoint and game silent for more than      *)
(* TIMEOUT; never because another server, or another game, timed out.      *)
Silent(m, g, c) == m[c] # None /\ m[c].game = g /\ m[c].age > TIMEOUT

RowsKept ==
  [][\A g \in Games, c \in Clients :
       table[g][c] # None /\ table'[g][c] = None =>
         \/ Silent(awaiting, g, c) \/ Silent(validated, g, c)
         \/ AdminRemove(g, c)
         \/ Restart]_vars

(* What a browser may rely on (module Directory): a row whose endpoint is  *)
(* validated is a lease, as old as the entry.  A row that an administrator *)
(* may have removed is counted as if it were there.                        *)
LeaseOf(c) ==
  IF /\ validated[c] # None
     /\ \E g \in Games : table[g][c] # None \/ MayEdit(g, c)
  THEN validated[c].age
  ELSE None

Listing == INSTANCE Directory WITH
  Servers <- Clients,
  LIMIT <- TIMEOUT + PERIOD,
  lease <- [c \in Clients |-> LeaseOf(c)]

(* The master server implements the directory, whatever sends and stores   *)
(* fail.                                                                   *)
ImplementsDirectory == Listing!Spec

(* A server that falls silent leaves the list for good, even if the        *)
(* receive loop has ended: either it is heard of again and again, or its   *)
(* row stays away from some time on.                                       *)
Delisted ==
  Orderly => \A c \in Clients : OneGame(c) =>
    \/ []<><<Handle(c)>>_vars
    \/ <>[](\A g \in Games : table[g][c] = None)
    \/ <>[]undefined
=============================================================================
