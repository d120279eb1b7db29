---------------------------- MODULE MasterProofs ----------------------------
(***************************************************************************)
(* Theorems about Master for every set of clients, games and values, every *)
(* TIMEOUT and PERIOD, and every choice of what may fail.                  *)
(***************************************************************************)
EXTENDS Master, TLAPS

USE GamesAssumption, TimeAssumption, NoneAssumption

(* The fields of an entry, and what the updates of the code do to them.    *)
LEMMA PendingUpdates ==
  ASSUME NEW e \in Pending
  PROVE  /\ e.age \in Nat /\ e.game \in Games /\ e.val \in Values
         /\ Answerable(e) \in Pending
         /\ Answerable(e).age = e.age /\ Answerable(e).game = e.game
  BY DEF Pending, Answerable

LEMMA PendingStamped ==
  ASSUME NEW e \in Pending, NEW n \in Nat
  PROVE  /\ Stamped(e, n) \in Pending
         /\ Stamped(e, n).age = n /\ Stamped(e, n).game = e.game
         /\ Stamped(e, n).proof = e.proof
  BY DEF Pending, Stamped

LEMMA PendingRefreshed ==
  ASSUME NEW e \in Pending, NEW v \in Values
  PROVE  /\ Refreshed(e, v) \in Pending
         /\ Refreshed(e, v).age = 0 /\ Refreshed(e, v).game = e.game
         /\ Refreshed(e, v).proof = e.proof
  BY DEF Pending, Refreshed

LEMMA LeaseFields ==
  ASSUME NEW e \in Lease
  PROVE  e.age \in Nat /\ e.game \in Games
  BY DEF Lease

LEMMA LeaseStamped ==
  ASSUME NEW e \in Lease, NEW n \in Nat
  PROVE  /\ Stamped(e, n) \in Lease
         /\ Stamped(e, n).age = n /\ Stamped(e, n).game = e.game
  BY DEF Lease, Stamped

LEMMA EmptyTypes ==
  /\ NoEntries \in [Clients -> Pending \cup {None}]
  /\ NoEntries \in [Clients -> Lease \cup {None}]
  /\ NoRows \in [Games -> [Clients -> Values \cup {None}]]
  BY DEF NoEntries, NoRows

LEMMA TypeInit == Init => TypeOK
  <1> SUFFICES ASSUME Init PROVE TypeOK
    OBVIOUS
  <1>1. timer \in 0..PERIOD
    BY DEF Init
  <1> QED BY <1>1, EmptyTypes DEF Init, TypeOK

(* Erasing, or keeping, what expired leaves well-formed maps.              *)
LEMMA TypeCleanup == TypeOK /\ Cleanup => TypeOK'
  BY DEF TypeOK, Cleanup, service, aux

LEMMA TypeTick == TypeOK /\ Tick => TypeOK'
  <1> SUFFICES ASSUME TypeOK, Tick PROVE TypeOK'
    OBVIOUS
  <1> USE DEF TypeOK, Tick, service, aux
  <1>1. awaiting' \in [Clients -> Pending \cup {None}]
    <2> SUFFICES ASSUME NEW c \in Clients, awaiting[c] # None
                 PROVE  Stamped(awaiting[c], awaiting[c].age + 1) \in Pending
      BY DEF Older
    <2> QED BY PendingUpdates, PendingStamped
  <1>2. validated' \in [Clients -> Lease \cup {None}]
    <2> SUFFICES ASSUME NEW c \in Clients, validated[c] # None
                 PROVE  Stamped(validated[c], validated[c].age + 1) \in Lease
      BY DEF Older
    <2> QED BY LeaseFields, LeaseStamped
  <1>3. timer' \in 0..PERIOD
    OBVIOUS
  <1> QED BY <1>1, <1>2, <1>3

LEMMA TypeHeartbeat ==
  ASSUME TypeOK, NEW c \in Clients, NEW g \in Games, NEW v \in Values,
         HandleHeartbeat(c, g, v)
  PROVE  TypeOK'
  <1> USE DEF TypeOK, HandleHeartbeat, service, aux
  <1>1. CASE UpdateServer(c, g, v)
    BY <1>1 DEF UpdateServer, AddOrUpdateServer, AddOrUpdateFails
  <1>2. CASE SendChallenge(c, g, v)
    BY <1>2 DEF SendChallenge, Pending
  <1>3. CASE RefreshPending(c, v)
    BY <1>3, PendingRefreshed DEF RefreshPending
  <1> QED BY <1>1, <1>2, <1>3

(* What a handler called for a packet of c does to the types.              *)
LEMMA TypeHandle ==
  ASSUME TypeOK, NEW c \in Clients, Handle(c)
  PROVE  TypeOK'
  <1> USE DEF TypeOK, service, aux
  <1>1. CASE \E g \in Games, v \in Values : HandleHeartbeat(c, g, v)
    BY <1>1, TypeHeartbeat
  <1>2. CASE HandleKeepAlive(c)
    BY <1>2, PendingStamped, LeaseStamped DEF HandleKeepAlive
  <1>3. CASE AcceptProof(c)
    BY <1>3, PendingUpdates DEF AcceptProof, ProofMatches, Lease
  <1>4. CASE RejectProof(c)
    BY <1>4 DEF RejectProof
  <1> QED BY <1>1, <1>2, <1>3, <1>4 DEF Handle

LEMMA TypeNext == TypeOK /\ [Next]_vars => TypeOK'
  <1> SUFFICES ASSUME TypeOK, [Next]_vars PROVE TypeOK'
    OBVIOUS
  <1> USE DEF TypeOK, service, aux
  <1>1. CASE \E c \in Clients : Handle(c)
    BY <1>1, TypeHandle
  <1>2. CASE \E c \in Clients : DeliverChallenge(c)
    BY <1>2, PendingUpdates DEF DeliverChallenge
  <1>3. CASE HandleAvailable
    BY <1>3 DEF HandleAvailable
  <1>4. CASE ListServer
    <2>1. iter \in Clients /\ awaiting[iter] \in Pending
      BY <1>4 DEF ListServer
    <2>2. awaiting[iter].game \in Games /\ awaiting[iter].val \in Values
      BY <2>1, PendingUpdates
    <2>3. table' \in [Games -> [Clients -> Values \cup {None}]]
      BY <1>4, <2>1, <2>2 DEF ListServer, AddOrUpdateServer, AddOrUpdateFails
    <2> QED BY <1>4, <2>1, <2>3 DEF ListServer
  <1>5. CASE UseErasedEntry
    BY <1>5 DEF UseErasedEntry, AddOrUpdateServer
  <1>6. CASE FinishReply \/ SendFails \/ ReceiveEnds
    BY <1>6 DEF FinishReply, SendFails, ReceiveEnds
  <1>7. CASE Cleanup
    BY <1>7, TypeCleanup
  <1>8. CASE Tick
    BY <1>8, TypeTick
  <1>9. CASE \E g \in Games, c \in Clients :
               AdminRemove(g, c) \/ \E v \in Values : AdminAdd(g, c, v)
    BY <1>9 DEF AdminRemove, AdminAdd, AddOrUpdateServer
  <1>10. CASE Restart
    <2>1. timer' \in 0..PERIOD
      BY <1>10 DEF Restart
    <2> QED BY <1>10, <2>1, EmptyTypes DEF Restart
  <1>11. CASE UNCHANGED vars
    BY <1>11 DEF vars
  <1> QED
    BY <1>1, <1>2, <1>3, <1>4, <1>5, <1>6, <1>7, <1>8, <1>9, <1>10, <1>11
    DEF Next, Resume

(* Entries and rows are well formed in every reachable state; the gamename *)
(* of an entry is a known game, so GetGame does not throw in Cleanup.      *)
THEOREM TypeCorrect == Spec => []TypeOK
  BY TypeInit, TypeNext, PTL DEF Spec

-----------------------------------------------------------------------------
LEMMA AgeInit == Init => AgeBound
  BY DEF Init, AgeBound, NoEntries

(* The handlers leave the timer alone, and give an entry no stamp older    *)
(* than one it, or the entry it is copied from, already had.               *)
LEMMA AgeHandle ==
  ASSUME TypeOK, AgeBound, NEW c \in Clients, Handle(c)
  PROVE  AgeBound'
  <1> USE DEF TypeOK, AgeBound, service, aux
  <1>1. ASSUME NEW g \in Games, NEW v \in Values, HandleHeartbeat(c, g, v)
        PROVE  AgeBound'
    <2> USE <1>1 DEF HandleHeartbeat
    <2>1. CASE UpdateServer(c, g, v)
      BY <2>1 DEF UpdateServer
    <2>2. CASE SendChallenge(c, g, v)
      BY <2>2 DEF SendChallenge
    <2>3. CASE RefreshPending(c, v)
      BY <2>3, PendingRefreshed DEF RefreshPending
    <2> QED BY <2>1, <2>2, <2>3
  <1>2. CASE HandleKeepAlive(c)
    <2> USE <1>2 DEF HandleKeepAlive
    <2>1. CASE awaiting[c] # None
      <3>1. Stamped(awaiting[c], 0).age = 0
        BY <2>1, PendingStamped
      <3> QED BY <2>1, <3>1
    <2>2. CASE awaiting[c] = None
      <3>1. Stamped(validated[c], 0).age = 0
        BY <2>2, LeaseStamped
      <3> QED BY <2>2, <3>1
    <2> QED BY <2>1, <2>2
  <1>3. CASE AcceptProof(c)
    <2> USE <1>3 DEF AcceptProof, ProofMatches
    <2>1. CASE validated[c] # None
      BY <2>1
    <2>2. CASE validated[c] = None
      <3> DEFINE new == [age |-> awaiting[c].age, game |-> awaiting[c].game]
      <3>1. new.age = awaiting[c].age
        OBVIOUS
      <3>2. validated' = [validated EXCEPT ![c] = new]
        BY <2>2
      <3> HIDE DEF new
      <3> QED BY <3>1, <3>2
    <2> QED BY <2>1, <2>2
  <1>4. CASE RejectProof(c)
    BY <1>4 DEF RejectProof
  <1> QED BY <1>1, <1>2, <1>3, <1>4 DEF Handle

LEMMA AgeTick == TypeOK /\ AgeBound /\ Tick => AgeBound'
  <1> SUFFICES ASSUME TypeOK, AgeBound, Tick, NEW c \in Clients
               PROVE  /\ awaiting'[c] # None =>
                           awaiting'[c].age + timer' <= TIMEOUT + PERIOD
                      /\ validated'[c] # None =>
                           validated'[c].age + timer' <= TIMEOUT + PERIOD
    BY DEF AgeBound
  <1>1. timer \in Nat /\ timer > 0 /\ timer' = timer - 1
    BY DEF TypeOK, Tick
  <1>2. ASSUME awaiting'[c] # None
        PROVE  awaiting'[c].age + timer' <= TIMEOUT + PERIOD
    <2>1. /\ awaiting[c] \in Pending
          /\ awaiting'[c] = Stamped(awaiting[c], awaiting[c].age + 1)
      BY <1>2 DEF TypeOK, Tick, Older
    <2>2. awaiting[c].age \in Nat /\ awaiting[c].age + 1 \in Nat
      BY <2>1, PendingUpdates
    <2>3. awaiting'[c].age = awaiting[c].age + 1
      <3>1. ASSUME NEW n \in Nat PROVE Stamped(awaiting[c], n).age = n
        BY <2>1, PendingStamped
      <3> QED BY <2>1, <2>2, <3>1
    <2>4. awaiting[c].age + timer <= TIMEOUT + PERIOD
      BY <2>1 DEF AgeBound
    <2> QED BY <1>1, <2>2, <2>3, <2>4
  <1>3. ASSUME validated'[c] # None
        PROVE  validated'[c].age + timer' <= TIMEOUT + PERIOD
    <2>1. /\ validated[c] \in Lease
          /\ validated'[c] = Stamped(validated[c], validated[c].age + 1)
      BY <1>3 DEF TypeOK, Tick, Older
    <2>2. validated[c].age \in Nat /\ validated[c].age + 1 \in Nat
      BY <2>1, LeaseFields
    <2>3. validated'[c].age = validated[c].age + 1
      <3>1. ASSUME NEW n \in Nat PROVE Stamped(validated[c], n).age = n
        BY <2>1, LeaseStamped
      <3> QED BY <2>1, <2>2, <3>1
    <2>4. validated[c].age + timer <= TIMEOUT + PERIOD
      BY <2>1 DEF AgeBound
    <2> QED BY <1>1, <2>2, <2>3, <2>4
  <1> QED BY <1>2, <1>3

(* What is left after a cleanup is at most TIMEOUT old, with PERIOD to go. *)
LEMMA AgeCleanup == TypeOK /\ AgeBound /\ Cleanup => AgeBound'
  <1> SUFFICES ASSUME TypeOK, Cleanup, NEW c \in Clients
               PROVE  /\ awaiting'[c] # None =>
                           awaiting'[c].age + timer' <= TIMEOUT + PERIOD
                      /\ validated'[c] # None =>
                           validated'[c].age + timer' <= TIMEOUT + PERIOD
    BY DEF AgeBound
  <1>1. timer' = PERIOD
    BY DEF Cleanup
  <1>2. ASSUME awaiting'[c] # None
        PROVE  awaiting'[c].age \in Nat /\ awaiting'[c].age <= TIMEOUT
    BY <1>2, PendingUpdates DEF TypeOK, Cleanup, Expired
  <1>3. ASSUME validated'[c] # None
        PROVE  validated'[c].age \in Nat /\ validated'[c].age <= TIMEOUT
    BY <1>3, LeaseFields DEF TypeOK, Cleanup, Expired
  <1> QED BY <1>1, <1>2, <1>3

LEMMA AgeNext == TypeOK /\ AgeBound /\ [Next]_vars => AgeBound'
  <1> SUFFICES ASSUME TypeOK, AgeBound, [Next]_vars PROVE AgeBound'
    OBVIOUS
  <1> USE DEF service, aux
  <1>1. CASE \E c \in Clients : Handle(c)
    BY <1>1, AgeHandle
  <1>2. CASE \E c \in Clients : DeliverChallenge(c)
    BY <1>2, PendingUpdates DEF DeliverChallenge, TypeOK, AgeBound
  <1>3. CASE HandleAvailable \/ UseErasedEntry \/ FinishReply \/ SendFails
             \/ ReceiveEnds \/ UNCHANGED vars
    BY <1>3 DEF HandleAvailable, UseErasedEntry, FinishReply, SendFails,
                ReceiveEnds, vars, AgeBound
  <1>4. CASE ListServer
    BY <1>4 DEF ListServer, TypeOK, AgeBound
  <1>5. CASE Cleanup
    BY <1>5, AgeCleanup
  <1>6. CASE Tick
    BY <1>6, AgeTick
  <1>7. CASE \E g \in Games, c \in Clients :
               AdminRemove(g, c) \/ \E v \in Values : AdminAdd(g, c, v)
    BY <1>7 DEF AdminRemove, AdminAdd, AgeBound
  <1>8. CASE Restart
    BY <1>8 DEF Restart, NoEntries, AgeBound
  <1> QED
    BY <1>1, <1>2, <1>3, <1>4, <1>5, <1>6, <1>7, <1>8 DEF Next, Resume

(* However long the server runs and whatever fails, no entry of either map *)
(* is more than TIMEOUT + PERIOD old: a vanished server is forgotten.      *)
THEOREM AgeBoundHolds == Spec => []AgeBound
  BY TypeCorrect, AgeInit, AgeNext, PTL DEF Spec

-----------------------------------------------------------------------------
LEMMA ReachedInit == Init => ReachedInv
  BY DEF Init, ReachedInv, NoEntries, NoRows

LEMMA ReachedHandle ==
  ASSUME TypeOK, ReachedInv, NEW c \in Clients, Handle(c)
  PROVE  ReachedInv'
  <1> USE DEF TypeOK, ReachedInv, service, aux
  <1>1. ASSUME NEW g \in Games, NEW v \in Values, HandleHeartbeat(c, g, v)
        PROVE  ReachedInv'
    <2> USE <1>1 DEF HandleHeartbeat
    <2>1. CASE UpdateServer(c, g, v)
      BY <2>1 DEF UpdateServer, AddOrUpdateServer, AddOrUpdateFails
    <2>2. CASE SendChallenge(c, g, v)
      BY <2>2 DEF SendChallenge
    <2>3. CASE RefreshPending(c, v)
      BY <2>3, PendingRefreshed DEF RefreshPending
    <2> QED BY <2>1, <2>2, <2>3
  <1>2. CASE HandleKeepAlive(c)
    BY <1>2, PendingStamped DEF HandleKeepAlive
  <1>3. CASE AcceptProof(c)
    BY <1>3 DEF AcceptProof, ProofMatches
  <1>4. CASE RejectProof(c)
    BY <1>4 DEF RejectProof
  <1> QED BY <1>1, <1>2, <1>3, <1>4 DEF Handle

LEMMA ReachedNext == TypeOK /\ ReachedInv /\ [Next]_vars => ReachedInv'
  <1> SUFFICES ASSUME TypeOK, ReachedInv, [Next]_vars PROVE ReachedInv'
    OBVIOUS
  <1> USE DEF TypeOK, ReachedInv, service, aux
  <1>1. CASE \E c \in Clients : Handle(c)
    BY <1>1, ReachedHandle
  <1>2. CASE \E c \in Clients : DeliverChallenge(c)
    BY <1>2 DEF DeliverChallenge
  <1>3. CASE HandleAvailable \/ FinishReply \/ SendFails \/ ReceiveEnds
             \/ UNCHANGED vars
    BY <1>3 DEF HandleAvailable, FinishReply, SendFails, ReceiveEnds, vars
  <1>4. CASE ListServer
    BY <1>4 DEF ListServer, AddOrUpdateServer, AddOrUpdateFails
  <1>5. CASE UseErasedEntry
    BY <1>5 DEF UseErasedEntry, AddOrUpdateServer
  <1>6. CASE Cleanup
    BY <1>6 DEF Cleanup
  <1>7. CASE Tick
    <2> USE <1>7 DEF Tick, Older
    <2>1. ASSUME NEW c \in Clients, awaiting'[c] # None
          PROVE  awaiting[c] # None /\ awaiting'[c].proof = awaiting[c].proof
      BY <2>1, PendingUpdates, PendingStamped
    <2> QED BY <2>1
  <1>8. CASE \E g \in Games, c \in Clients :
               AdminRemove(g, c) \/ \E v \in Values : AdminAdd(g, c, v)
    <2>1. PICK g \in Games, c \in Clients :
                 AdminRemove(g, c) \/ \E v \in Values : AdminAdd(g, c, v)
      BY <1>8
    <2>2. \A h \in Games, d \in Clients : h # g \/ d # c => table'[h][d] = table[h][d]
      BY <2>1 DEF AdminRemove, AdminAdd, AddOrUpdateServer
    <2>3. MayEdit(g, c) /\ UNCHANGED <<awaiting, validated, iter, reached>>
      BY <2>1 DEF AdminRemove, AdminAdd
    <2> QED BY <2>2, <2>3
  <1>9. CASE Restart
    BY <1>9 DEF Restart, NoEntries, NoRows
  <1> QED
    BY <1>1, <1>2, <1>3, <1>4, <1>5, <1>6, <1>7, <1>8, <1>9 DEF Next, Resume

(* No endpoint is listed that was not reached by a challenge, whatever     *)
(* fails and even if an erased entry was used.                             *)
THEOREM OnlyReachedListedHolds == Spec => []OnlyReachedListed
  <1>1. ReachedInv => OnlyReachedListed
    BY DEF ReachedInv, OnlyReachedListed
  <1> QED BY <1>1, TypeCorrect, ReachedInit, ReachedNext, PTL DEF Spec

-----------------------------------------------------------------------------
(* What becomes of a pending entry that is not erased.                     *)
LEMMA PendingKept ==
  ASSUME TypeOK, [Next]_vars, NEW c \in Clients,
         awaiting[c] # None, awaiting'[c] # None
  PROVE  /\ awaiting'[c].game = awaiting[c].game
         /\ awaiting[c].proof = "known" => awaiting'[c].proof = "known"
  <1>1. awaiting[c] \in Pending /\ awaiting \in [Clients -> Pending \cup {None}]
    BY DEF TypeOK
  <1>2. CASE awaiting'[c] = awaiting[c]
    BY <1>2
  <1>3. ASSUME NEW d \in Clients, Handle(d)
        PROVE  \/ awaiting'[c] = awaiting[c]
               \/ awaiting'[c] = Stamped(awaiting[c], 0)
               \/ \E v \in Values : awaiting'[c] = Refreshed(awaiting[c], v)
    <2>1. ASSUME NEW g \in Games, NEW v \in Values, HandleHeartbeat(d, g, v)
          PROVE  awaiting'[c] \in {awaiting[c], Refreshed(awaiting[c], v)}
      BY <1>1, <2>1 DEF HandleHeartbeat, UpdateServer, SendChallenge, RefreshPending
    <2>2. CASE HandleKeepAlive(d)
      BY <1>1, <2>2 DEF HandleKeepAlive
    <2>3. CASE AcceptProof(d) \/ RejectProof(d)
      BY <1>1, <2>3 DEF AcceptProof, RejectProof
    <2> QED BY <1>3, <2>1, <2>2, <2>3 DEF Handle
  <1>4. CASE \E d \in Clients : Handle(d)
    BY <1>1, <1>3, <1>4, PendingStamped, PendingRefreshed
  <1>5. ASSUME NEW d \in Clients, DeliverChallenge(d)
        PROVE  \/ awaiting'[c] = awaiting[c]
               \/ /\ awaiting[c].proof = "unknown"
                  /\ awaiting'[c].game = awaiting[c].game
    BY <1>1, <1>5, PendingUpdates DEF DeliverChallenge
  <1>6. CASE ListServer
    BY <1>1, <1>2, <1>6 DEF ListServer, TypeOK
  <1>7. CASE Tick
    <2>1. awaiting'[c] = Stamped(awaiting[c], awaiting[c].age + 1)
      BY <1>7 DEF Tick, Older
    <2>2. awaiting[c].age + 1 \in Nat
      BY <1>1, PendingUpdates
    <2> QED BY <1>1, <2>1, <2>2, PendingStamped
  <1>8. CASE Cleanup \/ Restart
    BY <1>2, <1>8 DEF Cleanup, Restart, NoEntries
  <1>9. CASE UNCHANGED awaiting
    BY <1>2, <1>9
  <1> QED
    BY <1>4, <1>5, <1>2, <1>6, <1>7, <1>8, <1>9
    DEF Next, Resume, UseErasedEntry, FinishReply, SendFails, ReceiveEnds,
        HandleAvailable, AdminRemove, AdminAdd, vars

(* Neither a heartbeat nor a keepalive that arrives before the answer to a *)
(* challenge makes that answer wrong (HandleHeartbeat, HandleKeepAlive).   *)
THEOREM ChallengeKeptHolds == Spec => ChallengeKept
  <1>1. TypeOK /\ [Next]_vars =>
          \A c \in Clients : awaiting[c] # None /\ awaiting'[c] # None =>
            /\ awaiting'[c].game = awaiting[c].game
            /\ awaiting[c].proof = "known" => awaiting'[c].proof = "known"
    BY PendingKept
  <1> QED BY <1>1, TypeCorrect, PTL DEF ChallengeKept, Spec

-----------------------------------------------------------------------------
(* Storing a row takes no row away.                                        *)
LEMMA StoredRow ==
  ASSUME TypeOK, NEW g \in Games, NEW c \in Clients, NEW v \in Values,
         AddOrUpdateServer(g, c, v)
  PROVE  /\ table'[g][c] # None
         /\ \A h \in Games, d \in Clients :
              /\ h # g \/ d # c => table'[h][d] = table[h][d]
              /\ table[h][d] # None => table'[h][d] # None
  BY DEF AddOrUpdateServer, TypeOK

(* What each step may do to the tables.                                    *)
LEMMA RowSteps ==
  ASSUME TypeOK, [Next]_vars
  PROVE  \/ UNCHANGED table
         \/ \E g \in Games, c \in Clients, v \in Values : AddOrUpdateServer(g, c, v)
         \/ \E g \in Games, c \in Clients : AdminRemove(g, c)
         \/ Cleanup
         \/ Restart
  <1>1. ASSUME NEW c \in Clients, NEW g \in Games, NEW v \in Values,
               HandleHeartbeat(c, g, v)
        PROVE  UNCHANGED table \/ AddOrUpdateServer(g, c, v)
    BY <1>1 DEF HandleHeartbeat, UpdateServer, SendChallenge, RefreshPending,
                AddOrUpdateFails
  <1>2. ASSUME NEW c \in Clients,
               HandleKeepAlive(c) \/ AcceptProof(c) \/ RejectProof(c) \/ DeliverChallenge(c)
        PROVE  UNCHANGED table
    BY <1>2 DEF HandleKeepAlive, AcceptProof, RejectProof, DeliverChallenge
  <1>3. ASSUME ListServer
        PROVE  \/ UNCHANGED table
               \/ AddOrUpdateServer(awaiting[iter].game, iter, awaiting[iter].val)
    BY <1>3 DEF ListServer, AddOrUpdateFails
  <1>4. ASSUME ListServer
        PROVE  /\ iter \in Clients /\ awaiting[iter].game \in Games
               /\ awaiting[iter].val \in Values
    BY <1>4, PendingUpdates DEF ListServer, TypeOK
  <1>5. ASSUME UseErasedEntry
        PROVE  /\ iter \in Clients
               /\ \/ UNCHANGED table
                  \/ \E g \in Games, v \in Values : AddOrUpdateServer(g, iter, v)
    BY <1>5 DEF UseErasedEntry, TypeOK
  <1> QED
    BY <1>1, <1>2, <1>3, <1>4, <1>5
    DEF Next, Handle, Resume, FinishReply, SendFails, ReceiveEnds, Tick,
        HandleAvailable, AdminAdd, vars

(* A row goes only for the silence of its own entry, by hand, or with all  *)
(* others (Cleanup, the admin interface, a restart).                       *)
THEOREM RowsKeptHolds == Spec => RowsKept
  <1>1. ASSUME TypeOK, [Next]_vars, NEW g \in Games, NEW c \in Clients,
               table[g][c] # None, table'[g][c] = None
        PROVE  \/ Silent(awaiting, g, c) \/ Silent(validated, g, c)
               \/ AdminRemove(g, c)
               \/ Restart
    <2>1. CASE UNCHANGED table
      BY <1>1, <2>1
    <2>2. CASE \E h \in Games, d \in Clients, v \in Values : AddOrUpdateServer(h, d, v)
      BY <1>1, <2>2, StoredRow
    <2>3. ASSUME NEW h \in Games, NEW d \in Clients, AdminRemove(h, d)
          PROVE  AdminRemove(g, c)
      <3>1. h = g /\ d = c
        BY <1>1, <2>3 DEF AdminRemove, TypeOK
      <3> QED BY <2>3, <3>1
    <2>4. CASE Cleanup
      BY <1>1, <2>4 DEF Cleanup, Removed, Expired, Silent
    <2> QED BY <1>1, <2>1, <2>2, <2>3, <2>4, RowSteps
  <1>2. TypeOK /\ [Next]_vars =>
          \A g \in Games, c \in Clients :
            table[g][c] # None /\ table'[g][c] = None =>
              \/ Silent(awaiting, g, c) \/ Silent(validated, g, c)
              \/ AdminRemove(g, c)
              \/ Restart
    BY <1>1
  <1> QED BY <1>2, TypeCorrect, PTL DEF RowsKept, Spec

-----------------------------------------------------------------------------
(* The refinement of Directory.  An endpoint that is in both maps has a    *)
(* pending entry that is no older than its validated one: it is copied     *)
(* from the former, and only that is refreshed while both are there.  So   *)
(* no cleanup withdraws the row of a lease that goes on.                   *)
YoungerInv ==
  \A c \in Clients : awaiting[c] # None /\ validated[c] # None =>
    awaiting[c].age <= validated[c].age

LEMMA YoungerInit == Init => YoungerInv
  BY DEF Init, YoungerInv, NoEntries

LEMMA YoungerNext == TypeOK /\ YoungerInv /\ [Next]_vars => YoungerInv'
  <1> SUFFICES ASSUME TypeOK, YoungerInv, [Next]_vars,
                      NEW c \in Clients, awaiting'[c] # None, validated'[c] # None
               PROVE  awaiting'[c].age <= validated'[c].age
    BY DEF YoungerInv
  <1>1. /\ awaiting \in [Clients -> Pending \cup {None}]
        /\ validated \in [Clients -> Lease \cup {None}]
    BY DEF TypeOK
  <1>2. awaiting[c] # None /\ validated[c] # None =>
          /\ awaiting[c].age \in Nat /\ validated[c].age \in Nat
          /\ awaiting[c].age <= validated[c].age
    BY <1>1, PendingUpdates, LeaseFields DEF YoungerInv
  <1>3. CASE awaiting'[c] = awaiting[c] /\ validated'[c] = validated[c]
    BY <1>2, <1>3
  <1>4. ASSUME NEW d \in Clients, NEW g \in Games, NEW v \in Values,
               HandleHeartbeat(d, g, v)
        PROVE  awaiting'[c] = awaiting[c] /\ validated'[c] = validated[c]
    BY <1>1, <1>4 DEF HandleHeartbeat, UpdateServer, SendChallenge, RefreshPending
  <1>5. ASSUME NEW d \in Clients, HandleKeepAlive(d)
        PROVE  awaiting'[c].age <= validated'[c].age
    <2>1. CASE awaiting'[c] = Stamped(awaiting[c], 0) /\ validated' = validated
               /\ awaiting[c] # None
      <3>1. awaiting'[c].age = 0 /\ validated'[c].age \in Nat
        BY <1>1, <2>1, PendingStamped, LeaseFields
      <3> QED BY <3>1
    <2>2. CASE awaiting'[c] = awaiting[c] /\ validated'[c] = validated[c]
      BY <1>3, <2>2
    <2> QED BY <1>1, <1>5, <2>1, <2>2 DEF HandleKeepAlive
  <1>6. ASSUME NEW d \in Clients, AcceptProof(d)
        PROVE  awaiting'[c].age <= validated'[c].age
    <2>1. CASE validated[c] # None \/ d # c
      BY <1>1, <1>3, <1>6, <2>1 DEF AcceptProof
    <2>2. CASE validated[c] = None /\ d = c
      <3>1. awaiting'[c] = awaiting[c] /\ validated'[c].age = awaiting[c].age
        BY <1>1, <1>6, <2>2 DEF AcceptProof
      <3>2. awaiting[c].age \in Nat
        BY <1>1, <3>1, PendingUpdates
      <3> QED BY <3>1, <3>2
    <2> QED BY <2>1, <2>2
  <1>7. ASSUME NEW d \in Clients, RejectProof(d)
        PROVE  awaiting'[c] = awaiting[c] /\ validated'[c] = validated[c]
    BY <1>1, <1>7 DEF RejectProof
  <1>8. ASSUME NEW d \in Clients, DeliverChallenge(d)
        PROVE  awaiting'[c].age <= validated'[c].age
    <2>1. /\ awaiting[c] # None /\ validated[c] # None /\ validated'[c] = validated[c]
          /\ awaiting'[c].age = awaiting[c].age
      BY <1>1, <1>8, PendingUpdates DEF DeliverChallenge
    <2> QED BY <1>2, <2>1
  <1>9. CASE ListServer
    BY <1>1, <1>3, <1>9 DEF ListServer, TypeOK
  <1>10. CASE Tick
    <2>1. /\ awaiting[c] # None /\ validated[c] # None
          /\ awaiting'[c] = Stamped(awaiting[c], awaiting[c].age + 1)
          /\ validated'[c] = Stamped(validated[c], validated[c].age + 1)
      BY <1>10 DEF Tick, Older
    <2>2. /\ awaiting[c] \in Pending /\ awaiting[c].age + 1 \in Nat
          /\ validated[c] \in Lease /\ validated[c].age + 1 \in Nat
      BY <1>1, <1>2, <2>1
    <2>3. Stamped(awaiting[c], awaiting[c].age + 1).age = awaiting[c].age + 1
      BY <2>2, PendingStamped
    <2>4. Stamped(validated[c], validated[c].age + 1).age = validated[c].age + 1
      BY <2>2, LeaseStamped
    <2> QED BY <1>2, <2>1, <2>3, <2>4
  <1>11. CASE Cleanup \/ Restart
    BY <1>3, <1>11 DEF Cleanup, Restart, NoEntries
  <1>12. CASE UNCHANGED <<awaiting, validated>>
    BY <1>3, <1>12
  <1> QED
    BY <1>3, <1>4, <1>5, <1>6, <1>7, <1>8, <1>9, <1>10, <1>11, <1>12
    DEF Next, Handle, Resume, UseErasedEntry, FinishReply, SendFails, ReceiveEnds,
        HandleAvailable, AdminRemove, AdminAdd, vars

(* An endpoint holds a lease while it is validated and has a row, or had   *)
(* one an administrator may have removed.                                  *)
HasRow(c) == \E g \in Games : table[g][c] # None \/ MayEdit(g, c)

EntryLease(c) ==
  /\ validated[c] # None /\ HasRow(c) =>
       LeaseOf(c) = validated[c].age /\ LeaseOf(c) \in Nat /\ LeaseOf(c) # None
  /\ ~(validated[c] # None /\ HasRow(c)) => LeaseOf(c) = None

LEMMA LeaseOfEntry ==
  ASSUME TypeOK, NEW c \in Clients
  PROVE  EntryLease(c)
  <1>1. ASSUME validated[c] # None PROVE validated[c].age \in Nat
    BY <1>1, LeaseFields DEF TypeOK
  <1> QED BY <1>1, AgeAssumption DEF EntryLease, LeaseOf, HasRow

LEMMA LeaseOfNextEntry ==
  ASSUME TypeOK', NEW c \in Clients
  PROVE  EntryLease(c)'
  <1>1. ASSUME validated'[c] # None PROVE validated'[c].age \in Nat
    BY <1>1, LeaseFields DEF TypeOK
  <1> QED BY <1>1, AgeAssumption DEF EntryLease, LeaseOf, HasRow

Leases == [c \in Clients |-> LeaseOf(c)]

LEMMA SameLease ==
  ASSUME NEW c \in Clients, validated'[c] = validated[c], HasRow(c)' <=> HasRow(c)
  PROVE  LeaseOf(c)' = LeaseOf(c)
  BY DEF LeaseOf, HasRow

(* A step that gives at most one endpoint a lease, or leaves all alone.    *)
LEMMA Enrolled ==
  ASSUME TypeOK', AgeBound', NEW c \in Clients,
         \A d \in Clients \ {c} : LeaseOf(d)' = LeaseOf(d),
         LeaseOf(c)' = LeaseOf(c) \/ LeaseOf(c) = None
  PROVE  Listing!Next \/ Leases' = Leases
  <1>1. CASE LeaseOf(c)' = LeaseOf(c)
    BY <1>1 DEF Leases
  <1>2. CASE LeaseOf(c)' # LeaseOf(c)
    <2>1. LeaseOf(c) = None /\ LeaseOf(c)' # None
      BY <1>2
    <2>2. validated'[c] # None /\ LeaseOf(c)' = validated'[c].age /\ LeaseOf(c)' \in Nat
      BY <2>1, LeaseOfNextEntry DEF EntryLease
    <2>3. timer' \in Nat /\ TIMEOUT + PERIOD \in Nat
      BY DEF TypeOK
    <2>4. validated'[c].age + timer' <= TIMEOUT + PERIOD
      BY <2>2 DEF AgeBound
    <2>5. LeaseOf(c)' \in 0..(TIMEOUT + PERIOD)
      BY <2>2, <2>3, <2>4
    <2> DEFINE age == LeaseOf(c)'
    <2>6. Leases' = [Leases EXCEPT ![c] = age] /\ Leases[c] = None
      <3>1. \A d \in Clients : Leases[d] = LeaseOf(d)
        BY DEF Leases
      <3>2. Leases' = [d \in Clients |-> LeaseOf(d)']
        BY DEF Leases
      <3>3. \A d \in Clients : LeaseOf(d)' = IF d = c THEN age ELSE LeaseOf(d)
        OBVIOUS
      <3> QED BY <2>1, <3>1, <3>2, <3>3 DEF Leases
    <2>7. Listing!Enrol(c)
      BY <2>5, <2>6 DEF Listing!Enrol, Leases
    <2> QED BY <2>7 DEF Listing!Next
  <1> QED BY <1>1, <1>2

LEMMA LeasesKept ==
  ASSUME \A c \in Clients : LeaseOf(c)' = LeaseOf(c)
  PROVE  Leases' = Leases
  BY DEF Leases

LEMMA StoredListing ==
  ASSUME TypeOK, TypeOK', AgeBound', UNCHANGED validated,
         NEW g \in Games, NEW c \in Clients, NEW v \in Values, AddOrUpdateServer(g, c, v)
  PROVE  Listing!Next \/ Leases' = Leases
  <1>1. \A d \in Clients \ {c} : HasRow(d)' <=> HasRow(d)
    BY StoredRow DEF HasRow
  <1>2. \A d \in Clients \ {c} : LeaseOf(d)' = LeaseOf(d)
    BY <1>1, SameLease
  <1>3. LeaseOf(c)' = LeaseOf(c) \/ LeaseOf(c) = None
    <2>1. CASE HasRow(c)
      <3>1. HasRow(c)'
        BY <2>1, StoredRow DEF HasRow
      <3> QED BY <2>1, <3>1, SameLease
    <2>2. CASE ~HasRow(c)
      BY <2>2, LeaseOfEntry DEF EntryLease
    <2> QED BY <2>1, <2>2
  <1> QED BY <1>2, <1>3, Enrolled

LEMMA KeepAliveListing ==
  ASSUME TypeOK, TypeOK', NEW c \in Clients, HandleKeepAlive(c)
  PROVE  Listing!Next \/ Leases' = Leases
  <1>1. UNCHANGED table /\ \A d \in Clients : HasRow(d)' <=> HasRow(d)
    BY DEF HandleKeepAlive, HasRow
  <1>2. CASE UNCHANGED validated
    BY <1>1, <1>2, SameLease, LeasesKept
  <1>3. CASE validated[c] # None /\ validated' = [validated EXCEPT ![c] = Stamped(@, 0)]
    <2>1. \A d \in Clients \ {c} : LeaseOf(d)' = LeaseOf(d)
      BY <1>1, <1>3, SameLease DEF TypeOK
    <2>2. CASE ~HasRow(c)
      <3>1. LeaseOf(c) = None /\ LeaseOf(c)' = None
        BY <1>1, <2>2, LeaseOfEntry, LeaseOfNextEntry DEF EntryLease
      <3> QED BY <2>1, <3>1, LeasesKept
    <2>3. CASE HasRow(c)
      <3>1. validated'[c] # None /\ validated'[c].age = 0
        BY <1>3, LeaseStamped DEF TypeOK
      <3>2. LeaseOf(c)' = 0 /\ LeaseOf(c) # None
        BY <1>1, <1>3, <2>3, <3>1, LeaseOfEntry, LeaseOfNextEntry DEF EntryLease
      <3>3. Leases' = [Leases EXCEPT ![c] = 0] /\ Leases[c] # None
        <4>1. \A d \in Clients : LeaseOf(d)' = IF d = c THEN 0 ELSE LeaseOf(d)
          BY <2>1, <3>2
        <4> QED BY <3>2, <4>1 DEF Leases
      <3>4. Listing!Renew(c)
        BY <3>3 DEF Listing!Renew, Leases
      <3> QED BY <3>4 DEF Listing!Next
    <2> QED BY <2>2, <2>3
  <1> QED BY <1>2, <1>3 DEF HandleKeepAlive

LEMMA AcceptListing ==
  ASSUME TypeOK, TypeOK', AgeBound', NEW c \in Clients, AcceptProof(c)
  PROVE  Listing!Next \/ Leases' = Leases
  <1>1. \A d \in Clients : HasRow(d)' <=> HasRow(d)
    BY DEF AcceptProof, HasRow
  <1>2. \A d \in Clients \ {c} : LeaseOf(d)' = LeaseOf(d)
    BY <1>1, SameLease DEF AcceptProof, TypeOK
  <1>3. LeaseOf(c)' = LeaseOf(c) \/ LeaseOf(c) = None
    <2>1. CASE validated[c] # None
      BY <1>1, <2>1, SameLease DEF AcceptProof
    <2>2. CASE validated[c] = None
      BY <2>2, LeaseOfEntry DEF EntryLease
    <2> QED BY <2>1, <2>2
  <1> QED BY <1>2, <1>3, Enrolled

LEMMA CleanupListing ==
  ASSUME TypeOK, TypeOK', YoungerInv, Cleanup
  PROVE  Listing!Next
  <1>1. ASSUME NEW c \in Clients
        PROVE  LeaseOf(c)' = IF LeaseOf(c) # None /\ LeaseOf(c) > TIMEOUT
                             THEN None ELSE LeaseOf(c)
    <2>1. validated'[c] = IF Expired(validated[c]) THEN None ELSE validated[c]
      BY DEF Cleanup
    <2>2. CASE validated[c] = None
      BY <2>1, <2>2, LeaseOfEntry, LeaseOfNextEntry DEF EntryLease
    <2>3. CASE Expired(validated[c])
      <3>1. LeaseOf(c)' = None
        BY <2>1, <2>3, LeaseOfNextEntry DEF EntryLease
      <3>2. LeaseOf(c) = None \/ LeaseOf(c) > TIMEOUT
        BY <2>3, LeaseOfEntry DEF EntryLease, Expired
      <3> QED BY <3>1, <3>2
    <2>4. CASE validated[c] # None /\ ~Expired(validated[c])
      <3>1. ~Expired(awaiting[c])
        <4>1. SUFFICES ASSUME awaiting[c] # None PROVE ~(awaiting[c].age > TIMEOUT)
          BY DEF Expired
        <4>2. /\ awaiting[c].age \in Nat /\ validated[c].age \in Nat
              /\ awaiting[c].age <= validated[c].age
          BY <2>4, <4>1, PendingUpdates, LeaseFields DEF TypeOK, YoungerInv
        <4>3. ~(validated[c].age > TIMEOUT)
          BY <2>4 DEF Expired
        <4> QED BY <4>2, <4>3
      <3>2. \A g \in Games : table'[g][c] = table[g][c]
        BY <2>4, <3>1 DEF Cleanup, Removed
      <3>3. HasRow(c)' <=> HasRow(c)
        BY <3>2 DEF HasRow
      <3>4. LeaseOf(c)' = LeaseOf(c)
        BY <2>1, <2>4, <3>3, SameLease
      <3>5. LeaseOf(c) = None \/ ~(LeaseOf(c) > TIMEOUT)
        BY <2>4, LeaseOfEntry DEF EntryLease, Expired
      <3> QED BY <3>4, <3>5
    <2> QED BY <2>2, <2>3, <2>4
  <1>2. Leases' = [c \in Clients |->
                     IF Leases[c] # None /\ Leases[c] > TIMEOUT THEN None ELSE Leases[c]]
    BY <1>1 DEF Leases
  <1>3. Listing!Expire
    BY <1>2 DEF Listing!Expire, Leases
  <1> QED BY <1>3 DEF Listing!Next

LEMMA TickListing ==
  ASSUME TypeOK, TypeOK', AgeBound, Tick
  PROVE  Listing!Next
  <1>1. timer \in Nat /\ timer > 0 /\ TIMEOUT + PERIOD \in Nat
    BY DEF TypeOK, Tick
  <1>2. ASSUME NEW c \in Clients
        PROVE  /\ LeaseOf(c) # None => LeaseOf(c) < TIMEOUT + PERIOD
               /\ LeaseOf(c)' = IF LeaseOf(c) = None THEN None ELSE LeaseOf(c) + 1
    <2>1. HasRow(c)' <=> HasRow(c)
      BY DEF Tick, HasRow
    <2>2. CASE validated[c] = None
      <3>1. validated'[c] = None
        BY <2>2 DEF Tick, Older
      <3> QED BY <2>2, <3>1, LeaseOfEntry, LeaseOfNextEntry DEF EntryLease
    <2>3. CASE validated[c] # None
      <3>1. validated[c] \in Lease /\ validated[c].age \in Nat
            /\ validated[c].age + 1 \in Nat
        BY <2>3, LeaseFields DEF TypeOK
      <3>2. validated'[c] = Stamped(validated[c], validated[c].age + 1)
        BY <2>3 DEF Tick, Older
      <3>3. /\ Stamped(validated[c], validated[c].age + 1) # None
            /\ Stamped(validated[c], validated[c].age + 1).age = validated[c].age + 1
        <4>1. ASSUME NEW n \in Nat
              PROVE  Stamped(validated[c], n) \in Lease /\ Stamped(validated[c], n).age = n
          BY <3>1, LeaseStamped
        <4> QED BY <3>1, <4>1, NoneAssumption
      <3>4. validated[c].age + timer <= TIMEOUT + PERIOD
        BY <2>3 DEF AgeBound
      <3>5. validated[c].age < TIMEOUT + PERIOD
        BY <1>1, <3>1, <3>4
      <3> QED BY <2>1, <2>3, <3>2, <3>3, <3>5, LeaseOfEntry, LeaseOfNextEntry
              DEF EntryLease
    <2> QED BY <2>2, <2>3
  <1>3. /\ \A c \in Clients : Leases[c] # None => Leases[c] < TIMEOUT + PERIOD
        /\ Leases' = [c \in Clients |-> IF Leases[c] = None THEN None ELSE Leases[c] + 1]
    BY <1>2 DEF Leases
  <1>4. Listing!Age
    BY <1>3 DEF Listing!Age, Leases
  <1> QED BY <1>4 DEF Listing!Next

LEMMA RestartListing ==
  ASSUME Restart PROVE Listing!Next
  <1>1. \A c \in Clients : LeaseOf(c)' = None
    BY DEF Restart, LeaseOf, NoEntries
  <1>2. Listing!Forget
    BY <1>1 DEF Listing!Forget
  <1> QED BY <1>2 DEF Listing!Next

(* A row an administrator edits counts as present in any case.             *)
LEMMA AdminListing ==
  ASSUME TypeOK, NEW g \in Games, NEW c \in Clients, UNCHANGED validated,
         MayEdit(g, c),
         \A h \in Games, d \in Clients : h # g \/ d # c => table'[h][d] = table[h][d]
  PROVE  Leases' = Leases
  <1>1. \A d \in Clients : HasRow(d)' <=> HasRow(d)
    BY DEF HasRow, MayEdit
  <1> QED BY <1>1, SameLease, LeasesKept

LEMMA ListingStep ==
  ASSUME TypeOK, TypeOK', AgeBound, AgeBound', YoungerInv, [Next]_vars
  PROVE  Listing!Next \/ Leases' = Leases
  <1>1. CASE UNCHANGED <<validated, table>>
    BY <1>1, SameLease, LeasesKept DEF HasRow
  <1>2. ASSUME NEW c \in Clients, NEW g \in Games, NEW v \in Values,
               HandleHeartbeat(c, g, v)
        PROVE  Listing!Next \/ Leases' = Leases
    <2>1. \/ UNCHANGED <<validated, table>>
          \/ UNCHANGED validated /\ AddOrUpdateServer(g, c, v)
      BY <1>2 DEF HandleHeartbeat, UpdateServer, SendChallenge, RefreshPending,
                  AddOrUpdateFails
    <2> QED BY <1>1, <2>1, StoredListing
  <1>3. ASSUME NEW c \in Clients, RejectProof(c) \/ DeliverChallenge(c)
        PROVE  UNCHANGED <<validated, table>>
    BY <1>3 DEF RejectProof, DeliverChallenge
  <1>4. CASE ListServer
    <2>1. UNCHANGED validated /\ iter \in Clients /\ awaiting[iter].game \in Games
          /\ awaiting[iter].val \in Values
      BY <1>4, PendingUpdates DEF ListServer, TypeOK
    <2>2. \/ UNCHANGED table
          \/ AddOrUpdateServer(awaiting[iter].game, iter, awaiting[iter].val)
      BY <1>4 DEF ListServer, AddOrUpdateFails
    <2> QED BY <1>1, <2>1, <2>2, StoredListing
  <1>5. CASE UseErasedEntry
    <2>1. UNCHANGED validated /\ iter \in Clients
      BY <1>5 DEF UseErasedEntry, TypeOK
    <2>2. \/ UNCHANGED table
          \/ \E g \in Games, v \in Values : AddOrUpdateServer(g, iter, v)
      BY <1>5 DEF UseErasedEntry
    <2> QED BY <1>1, <2>1, <2>2, StoredListing
  <1>6. ASSUME NEW g \in Games, NEW c \in Clients,
               AdminRemove(g, c) \/ \E v \in Values : AdminAdd(g, c, v)
        PROVE  Leases' = Leases
    <2>1. /\ UNCHANGED validated /\ MayEdit(g, c)
          /\ \A h \in Games, d \in Clients : h # g \/ d # c => table'[h][d] = table[h][d]
      BY <1>6 DEF AdminRemove, AdminAdd, AddOrUpdateServer, TypeOK
    <2> QED BY <2>1, AdminListing
  <1> QED
    BY <1>1, <1>2, <1>3, <1>4, <1>5, <1>6, KeepAliveListing, AcceptListing,
       CleanupListing, TickListing, RestartListing
    DEF Next, Handle, Resume, FinishReply, SendFails, ReceiveEnds, HandleAvailable, vars

(* The master server keeps the promise of Directory, whatever fails:       *)
(* leases age and are renewed, and end by silence or with everything.      *)
THEOREM ImplementsDirectoryHolds == Spec => ImplementsDirectory
  <1>1. Init => Listing!Init
    BY DEF Init, Listing!Init, LeaseOf, NoEntries
  <1>2. TypeOK /\ TypeOK' /\ AgeBound /\ AgeBound' /\ YoungerInv /\ [Next]_vars =>
          [Listing!Next]_Leases
    BY ListingStep
  <1>3. Spec => []YoungerInv
    BY TypeCorrect, YoungerInit, YoungerNext, PTL DEF Spec
  <1> QED BY <1>1, <1>2, <1>3, TypeCorrect, AgeBoundHolds, PTL
          DEF Spec, ImplementsDirectory, Listing!Spec, Leases

-----------------------------------------------------------------------------
(* The list and the maps of Master agree, as long as replies are sent,     *)
(* rows are stored and nobody else edits the tables (Orderly).  Neither    *)
(* ValidatedIsListed nor ListedHasLease is inductive: HandleChallenge      *)
(* suspends with the endpoint in both maps and its row not stored yet, and *)
(* Cleanup may run there.  OrderlyInv adds that the two entries agree then,*)
(* so that Cleanup removes both or none.                                   *)
LEMMA OrderlyInit == Init => OrderlyInv
  BY DEF Init, OrderlyInv, EntryInv, RowInv, NoEntries, NoRows

(* A step leaves alone what it says nothing about.                         *)
LEMMA OrderlyFrame ==
  ASSUME TypeOK, NEW d \in Clients, EntryInv(d), RowInv(d),
         awaiting'[d] = awaiting[d], validated'[d] = validated[d],
         \A g \in Games : table'[g][d] = table[g][d],
         (iter' = d) <=> (iter = d)
  PROVE  EntryInv(d)' /\ RowInv(d)'
  <1>1. EntryInv(d)'
    BY DEF EntryInv
  <1>2. validated[d] # None => validated[d].game \in Games
    BY LeaseFields DEF TypeOK
  <1>3. RowInv(d)'
    BY <1>2 DEF RowInv, OneGame
  <1> QED BY <1>1, <1>3

(* While the receive loop waits for a packet no endpoint is in both maps.  *)
LEMMA OrderlyReceive ==
  ASSUME OrderlyInv, Orderly, ~undefined, loop = "receive"
  PROVE  /\ iter = None
         /\ \A d \in Clients : EntryInv(d) /\ RowInv(d)
         /\ \A d \in Clients : awaiting[d] = None \/ validated[d] = None
  BY DEF OrderlyInv, EntryInv

LEMMA OrderlyHeartbeat ==
  ASSUME TypeOK, OrderlyInv, Orderly, ~undefined,
         NEW c \in Clients, NEW g \in Games, NEW v \in Values,
         HandleHeartbeat(c, g, v)
  PROVE  OrderlyInv'
  <1>1. /\ iter = None
        /\ \A d \in Clients : EntryInv(d) /\ RowInv(d)
        /\ g \in GamesOf[c]
    BY OrderlyReceive DEF HandleHeartbeat
  <1>2. iter' = None
    BY <1>1 DEF HandleHeartbeat, UpdateServer, SendChallenge, RefreshPending, service
  <1>3. SUFFICES EntryInv(c)' /\ RowInv(c)'
    <2>1. ASSUME NEW d \in Clients, d # c
          PROVE  /\ awaiting'[d] = awaiting[d]
                 /\ validated'[d] = validated[d]
                 /\ \A h \in Games : table'[h][d] = table[h][d]
      BY <2>1 DEF TypeOK, HandleHeartbeat, UpdateServer, SendChallenge,
                  RefreshPending, AddOrUpdateServer, AddOrUpdateFails
    <2>2. ASSUME NEW d \in Clients, d # c PROVE EntryInv(d)' /\ RowInv(d)'
      BY <1>1, <1>2, <2>1, <2>2, OrderlyFrame
    <2> QED BY <1>2, <1>3, <2>2 DEF OrderlyInv
  <1>4. CASE UpdateServer(c, g, v)
    <2>1. /\ validated[c] # None /\ validated' = validated
          /\ awaiting' = awaiting
          /\ table' = [table EXCEPT ![g][c] = v]
      BY <1>4 DEF UpdateServer, AddOrUpdateServer, AddOrUpdateFails, Orderly
    <2>2. EntryInv(c) /\ RowInv(c)
      BY <1>1
    <2>3. EntryInv(c)'
      BY <1>1, <1>2, <2>1, <2>2 DEF EntryInv
    <2>4. \A h \in Games : table'[h][c] = IF h = g THEN v ELSE table[h][c]
      BY <2>1 DEF TypeOK
    <2>5. v # None /\ validated[c].game \in GamesOf[c] /\ validated[c].game \in Games
      BY <2>1, <2>2, LeaseFields DEF EntryInv, TypeOK
    <2>6. RowInv(c)'
      BY <1>1, <1>2, <2>1, <2>2, <2>4, <2>5 DEF RowInv, OneGame
    <2> QED BY <2>3, <2>6
  <1>5. CASE SendChallenge(c, g, v)
    <2> DEFINE new == [age |-> 0, game |-> g, val |-> v, proof |-> "unknown"]
    <2>1. /\ validated[c] = None /\ validated' = validated /\ table' = table
          /\ awaiting'[c] = new /\ new.game = g
      BY <1>5 DEF SendChallenge, TypeOK
    <2> HIDE DEF new
    <2>2. EntryInv(c)'
      BY <1>1, <1>2, <2>1 DEF EntryInv
    <2>3. RowInv(c)'
      BY <1>1, <1>2, <2>1 DEF RowInv, OneGame
    <2> QED BY <2>2, <2>3
  <1>6. CASE RefreshPending(c, v)
    <2>1. /\ validated[c] = None /\ validated' = validated /\ table' = table
          /\ awaiting[c] # None /\ awaiting[c] \in Pending
          /\ awaiting'[c] = Refreshed(awaiting[c], v)
      BY <1>6 DEF RefreshPending, TypeOK
    <2>2. awaiting'[c].game = awaiting[c].game
      BY <2>1, PendingRefreshed
    <2>3. EntryInv(c)'
      BY <1>1, <1>2, <2>1, <2>2 DEF EntryInv
    <2>4. RowInv(c)'
      BY <1>1, <1>2, <2>1 DEF RowInv, OneGame
    <2> QED BY <2>3, <2>4
  <1> QED BY <1>4, <1>5, <1>6 DEF HandleHeartbeat

LEMMA OrderlyHandle ==
  ASSUME TypeOK, OrderlyInv, Orderly, ~undefined,
         NEW c \in Clients, Handle(c)
  PROVE  OrderlyInv'
  <1>1. CASE \E g \in Games, v \in Values : HandleHeartbeat(c, g, v)
    BY <1>1, OrderlyHeartbeat
  <1>2. CASE HandleKeepAlive(c) \/ AcceptProof(c) \/ RejectProof(c)
    <2>1. /\ iter = None
          /\ \A d \in Clients : EntryInv(d) /\ RowInv(d)
          /\ awaiting[c] = None \/ validated[c] = None
      BY <1>2, OrderlyReceive DEF HandleKeepAlive, AcceptProof, RejectProof
    <2>2. /\ table' = table
          /\ iter' = None \/ (iter' = c /\ loop' = "send")
      BY <1>2, <2>1 DEF HandleKeepAlive, AcceptProof, RejectProof, service
    <2>3. SUFFICES EntryInv(c)' /\ RowInv(c)'
      <3>1. ASSUME NEW d \in Clients, d # c
            PROVE  awaiting'[d] = awaiting[d] /\ validated'[d] = validated[d]
        BY <1>2, <3>1 DEF TypeOK, HandleKeepAlive, AcceptProof, RejectProof
      <3>2. ASSUME NEW d \in Clients, d # c PROVE EntryInv(d)' /\ RowInv(d)'
        BY <2>1, <2>2, <3>1, <3>2, OrderlyFrame
      <3> QED BY <2>2, <2>3, <3>2 DEF OrderlyInv
    <2>4. EntryInv(c) /\ RowInv(c)
      BY <2>1
    <2>5. CASE HandleKeepAlive(c)
      <3>1. iter' = None
        BY <2>1, <2>5 DEF HandleKeepAlive, service
      <3>2. CASE awaiting[c] # None
        <4>1. /\ awaiting'[c] = Stamped(awaiting[c], 0) /\ awaiting[c] \in Pending
              /\ validated' = validated
          BY <2>5, <3>2 DEF HandleKeepAlive, TypeOK
        <4>2. awaiting'[c].game = awaiting[c].game
          BY <4>1, PendingStamped
        <4>3. EntryInv(c)'
          BY <2>1, <2>4, <3>1, <3>2, <4>1, <4>2 DEF EntryInv
        <4> QED BY <2>1, <2>2, <2>4, <3>1, <3>2, <4>1, <4>3 DEF RowInv, OneGame
      <3>3. CASE awaiting[c] = None
        <4>1. /\ validated'[c] = Stamped(validated[c], 0)
              /\ validated[c] \in Lease /\ validated[c] # None
              /\ awaiting' = awaiting
          BY <2>5, <3>3 DEF HandleKeepAlive, TypeOK
        <4>2. validated'[c].game = validated[c].game /\ validated'[c] # None
          BY <4>1, LeaseStamped
        <4>3. EntryInv(c)'
          BY <2>4, <3>3, <4>1, <4>2 DEF EntryInv
        <4> QED BY <2>1, <2>2, <2>4, <3>1, <4>1, <4>2, <4>3 DEF RowInv, OneGame
      <3> QED BY <3>2, <3>3
    <2>6. CASE AcceptProof(c)
      <3> DEFINE new == [age |-> awaiting[c].age, game |-> awaiting[c].game]
      <3>1. awaiting[c] # None /\ awaiting[c] \in Pending /\ validated[c] = None
        BY <2>1, <2>6 DEF AcceptProof, ProofMatches, TypeOK
      <3>2. new \in Lease
        BY <3>1, PendingUpdates DEF Lease
      <3>3. new.age = awaiting[c].age /\ new.game = awaiting[c].game
        OBVIOUS
      <3>4. validated'[c] = new /\ awaiting' = awaiting /\ iter' = c
        BY <2>6, <3>1 DEF AcceptProof, TypeOK
      <3> HIDE DEF new
      <3>5. EntryInv(c)'
        BY <2>4, <3>1, <3>2, <3>3, <3>4 DEF EntryInv
      <3> QED BY <2>2, <2>4, <3>1, <3>4, <3>5 DEF RowInv, OneGame
    <2>7. CASE RejectProof(c)
      <3>1. awaiting'[c] = None /\ validated' = validated /\ iter' = None
        BY <2>1, <2>7 DEF RejectProof, service, TypeOK
      <3> QED BY <2>1, <2>2, <2>4, <3>1 DEF EntryInv, RowInv, OneGame
    <2> QED BY <1>2, <2>5, <2>6, <2>7
  <1> QED BY <1>1, <1>2 DEF Handle

(* The row of the endpoint appears, and its second entry goes.             *)
LEMMA OrderlyListServer ==
  ASSUME TypeOK, OrderlyInv, Orderly, ~undefined, ListServer
  PROVE  OrderlyInv'
  <1>1. PICK c \in Clients : c = iter
    BY DEF TypeOK, ListServer
  <1>2. PICK g \in Games : g = awaiting[c].game /\ awaiting[c] # None
    BY <1>1, PendingUpdates DEF TypeOK, ListServer
  <1>3. PICK v \in Values : v = awaiting[c].val
    BY <1>1, <1>2, PendingUpdates DEF TypeOK
  <1>4. /\ table' = [table EXCEPT ![g][c] = v]
        /\ awaiting' = [awaiting EXCEPT ![c] = None]
        /\ validated' = validated /\ iter' = None
    BY <1>1, <1>2, <1>3
    DEF ListServer, AddOrUpdateServer, AddOrUpdateFails, Orderly, aux
  <1>5. \A d \in Clients : EntryInv(d) /\ RowInv(d)
    BY DEF OrderlyInv
  <1>6. validated[c] # None /\ validated[c].game = g
    BY <1>1, <1>2, <1>5 DEF EntryInv
  <1>7. ASSUME NEW d \in Clients, d # c PROVE EntryInv(d)' /\ RowInv(d)'
    <2>1. /\ awaiting'[d] = awaiting[d] /\ validated'[d] = validated[d]
          /\ \A h \in Games : table'[h][d] = table[h][d]
      BY <1>4, <1>7 DEF TypeOK
    <2> QED BY <1>1, <1>4, <1>5, <1>7, <2>1, OrderlyFrame
  <1>8. EntryInv(c)'
    <2>1. awaiting'[c] = None
      BY <1>4 DEF TypeOK
    <2> QED BY <1>4, <1>5, <2>1 DEF EntryInv
  <1>9. RowInv(c)'
    <2>1. \A h \in Games : table'[h][c] = IF h = g THEN v ELSE table[h][c]
      BY <1>4 DEF TypeOK
    <2>2. RowInv(c) /\ EntryInv(c) /\ v # None
      BY <1>5
    <2>3. \A h \in Games : OneGame(c) /\ table[h][c] # None => h = g
      BY <1>6, <2>2 DEF RowInv
    <2> QED BY <1>4, <1>6, <2>1, <2>2, <2>3 DEF RowInv, OneGame
  <1> QED BY <1>4, <1>7, <1>8, <1>9 DEF OrderlyInv

(* An endpoint in both maps expires from both; the row of one that expires *)
(* is removed, and no other.                                               *)
LEMMA OrderlyCleanup ==
  ASSUME TypeOK, OrderlyInv, Orderly, ~undefined, Cleanup
  PROVE  OrderlyInv'
  <1> USE DEF Cleanup, service, aux
  <1>1. \A d \in Clients : EntryInv(d) /\ RowInv(d)
    BY DEF OrderlyInv
  <1>2. ASSUME NEW d \in Clients
        PROVE  EntryInv(d)'
    BY <1>1 DEF EntryInv, Expired
  <1>3. ASSUME NEW d \in Clients
        PROVE  RowInv(d)'
    <2>1. ASSUME validated'[d] # None, iter' # d
          PROVE  table'[validated'[d].game][d] # None
      <3>1. validated'[d] = validated[d] /\ ~Expired(validated[d])
        BY <2>1
      <3>2. awaiting[d] = None
        BY <1>1, <2>1, <3>1 DEF EntryInv
      <3>3. validated[d].game \in Games
        BY <2>1, <3>1, LeaseFields DEF TypeOK
      <3>4. ~Removed(validated[d].game, d)
        BY <3>1, <3>2 DEF Removed, Expired
      <3> QED BY <1>1, <2>1, <3>1, <3>3, <3>4 DEF RowInv
    <2>2. ASSUME NEW g \in Games, OneGame(d), table'[g][d] # None
          PROVE  validated'[d] # None /\ validated'[d].game = g
      <3>1. table[g][d] # None /\ ~Removed(g, d)
        BY <2>2
      <3>2. validated[d] # None /\ validated[d].game = g
        BY <1>1, <2>2, <3>1 DEF RowInv
      <3> QED BY <3>1, <3>2 DEF Removed
    <2> QED BY <2>1, <2>2 DEF RowInv, OneGame
  <1> QED BY <1>2, <1>3 DEF OrderlyInv

LEMMA OrderlyTick ==
  ASSUME TypeOK, OrderlyInv, Orderly, ~undefined, Tick
  PROVE  OrderlyInv'
  <1>1. \A d \in Clients : EntryInv(d) /\ RowInv(d)
    BY DEF OrderlyInv
  <1>2. ASSUME NEW d \in Clients
        PROVE  /\ (awaiting'[d] = None) <=> (awaiting[d] = None)
               /\ awaiting[d] # None =>
                    /\ awaiting'[d].age = awaiting[d].age + 1
                    /\ awaiting'[d].game = awaiting[d].game
    <2>1. CASE awaiting[d] = None
      BY <2>1 DEF Tick, Older
    <2>2. CASE awaiting[d] # None
      <3>1. awaiting[d] \in Pending /\ awaiting[d].age + 1 \in Nat
        BY <2>2, PendingUpdates DEF TypeOK
      <3>2. ASSUME NEW n \in Nat
            PROVE  /\ Stamped(awaiting[d], n) \in Pending
                   /\ Stamped(awaiting[d], n).age = n
                   /\ Stamped(awaiting[d], n).game = awaiting[d].game
        BY <3>1, PendingStamped
      <3> QED BY <2>2, <3>1, <3>2 DEF Tick, Older
    <2> QED BY <2>1, <2>2
  <1>3. ASSUME NEW d \in Clients
        PROVE  /\ (validated'[d] = None) <=> (validated[d] = None)
               /\ validated[d] # None =>
                    /\ validated'[d].age = validated[d].age + 1
                    /\ validated'[d].game = validated[d].game
    <2>1. CASE validated[d] = None
      BY <2>1 DEF Tick, Older
    <2>2. CASE validated[d] # None
      <3>1. validated[d] \in Lease /\ validated[d].age + 1 \in Nat
        BY <2>2, LeaseFields DEF TypeOK
      <3>2. ASSUME NEW n \in Nat
            PROVE  /\ Stamped(validated[d], n) \in Lease
                   /\ Stamped(validated[d], n).age = n
                   /\ Stamped(validated[d], n).game = validated[d].game
        BY <3>1, LeaseStamped
      <3> QED BY <2>2, <3>1, <3>2 DEF Tick, Older
    <2> QED BY <2>1, <2>2
  <1>4. UNCHANGED <<table, loop, iter, undefined>>
    BY DEF Tick, service, aux
  <1>5. ASSUME NEW d \in Clients PROVE EntryInv(d)'
    BY <1>1, <1>2, <1>3, <1>4 DEF EntryInv
  <1>6. ASSUME NEW d \in Clients PROVE RowInv(d)'
    BY <1>1, <1>3, <1>4 DEF RowInv, OneGame
  <1> QED BY <1>4, <1>5, <1>6 DEF OrderlyInv

LEMMA OrderlyNext == TypeOK /\ OrderlyInv /\ [Next]_vars => OrderlyInv'
  <1> SUFFICES ASSUME TypeOK, OrderlyInv, [Next]_vars, Orderly, ~undefined'
               PROVE  OrderlyInv'
    BY DEF OrderlyInv
  <1> USE DEF service, aux
  <1>1. CASE Restart
    BY <1>1 DEF Restart, NoEntries, NoRows, OrderlyInv, EntryInv, RowInv
  <1>2. CASE UNCHANGED vars
    BY <1>2 DEF vars, OrderlyInv, EntryInv, RowInv, OneGame
  <1>3. CASE Next /\ ~Restart
    <2>1. ~undefined /\ ~UseErasedEntry
      BY <1>3 DEF Next, Handle, HandleHeartbeat, HandleKeepAlive, AcceptProof,
                  RejectProof, DeliverChallenge, HandleAvailable, Resume,
                  ListServer, UseErasedEntry, FinishReply, SendFails,
                  ReceiveEnds, Cleanup, Tick, AdminRemove, AdminAdd
    <2>2. \A d \in Clients : EntryInv(d) /\ RowInv(d)
      BY <2>1 DEF OrderlyInv
    <2>3. iter # None => loop = "send"
      BY <2>1 DEF OrderlyInv
    <2>4. CASE \E c \in Clients : Handle(c)
      BY <2>1, <2>4, OrderlyHandle
    <2>5. CASE \E c \in Clients : DeliverChallenge(c)
      <3>1. PICK c \in Clients : DeliverChallenge(c)
        BY <2>5
      <3>2. /\ awaiting[c] \in Pending /\ awaiting'[c] = Answerable(awaiting[c])
            /\ \A d \in Clients : d # c => awaiting'[d] = awaiting[d]
            /\ UNCHANGED <<validated, table, loop, iter>>
        BY <3>1 DEF DeliverChallenge, TypeOK
      <3>3. ASSUME NEW d \in Clients PROVE EntryInv(d)'
        <4>1. CASE d = c
          BY <2>2, <3>1, <3>2, <4>1, PendingUpdates DEF EntryInv, DeliverChallenge
        <4>2. CASE d # c
          BY <2>2, <3>2, <4>2 DEF EntryInv
        <4> QED BY <4>1, <4>2
      <3>4. ASSUME NEW d \in Clients PROVE RowInv(d)'
        BY <2>2, <3>2 DEF RowInv, OneGame
      <3> QED BY <2>3, <3>2, <3>3, <3>4 DEF OrderlyInv
    <2>6. CASE HandleAvailable \/ FinishReply \/ ReceiveEnds
      <3>1. UNCHANGED <<awaiting, validated, table, iter>>
            /\ (iter' # None => loop' = "send")
        BY <2>3, <2>6 DEF HandleAvailable, FinishReply, ReceiveEnds
      <3>2. ASSUME NEW d \in Clients PROVE EntryInv(d)' /\ RowInv(d)'
        BY <2>2, <3>1, OrderlyFrame
      <3> QED BY <3>1, <3>2 DEF OrderlyInv
    <2>7. CASE ListServer
      BY <2>1, <2>7, OrderlyListServer
    <2>8. CASE SendFails
      BY <2>8 DEF SendFails, Orderly
    <2>9. CASE Cleanup
      BY <2>1, <2>9, OrderlyCleanup
    <2>10. CASE Tick
      BY <2>1, <2>10, OrderlyTick
    <2>11. CASE \E g \in Games, c \in Clients :
                  AdminRemove(g, c) \/ \E v \in Values : AdminAdd(g, c, v)
      BY <2>11 DEF AdminRemove, AdminAdd, Orderly
    <2> QED
      BY <1>3, <2>1, <2>4, <2>5, <2>6, <2>7, <2>8, <2>9, <2>10, <2>11
      DEF Next, Resume
  <1> QED BY <1>1, <1>2, <1>3

LEMMA OrderlyAlways == Spec => []OrderlyInv
  BY TypeCorrect, OrderlyInit, OrderlyNext, PTL DEF Spec

(* Every validated server has its row, unless HandleChallenge is about to  *)
(* store it.                                                               *)
THEOREM ValidatedIsListedHolds == Spec => []ValidatedIsListed
  <1>1. OrderlyInv => ValidatedIsListed
    BY DEF OrderlyInv, RowInv, ValidatedIsListed
  <1> QED BY <1>1, OrderlyAlways, PTL

(* Every row of a server that names one game only has a validated entry,   *)
(* which Cleanup will find when the server falls silent.                   *)
THEOREM ListedHasLeaseHolds == Spec => []ListedHasLease
  <1>1. OrderlyInv => ListedHasLease
    BY DEF OrderlyInv, RowInv, ListedHasLease
  <1> QED BY <1>1, OrderlyAlways, PTL
=============================================================================
