----------------------------- MODULE LoginProofs -----------------------------
(***************************************************************************)
(* Proofs about Login.  LoginInv: types, and that whoever is logged in has *)
(* answered the challenge of the very session with the password of the     *)
(* account the session acts for.  It speaks of a session in that session's *)
(* variables only, so a step of one session leaves it true of all others.  *)
(*                                                                         *)
(* AccountInv, on top of it, relates the sessions to the table.  Most      *)
(* steps leave the table alone (Quiet); for the two that write it is shown *)
(* what each other session still knows after them.                         *)
(***************************************************************************)
EXTENDS Login, TLAPS

(* A session has proved what it claims.                                    *)
Proved(c) ==
  /\ player[c] # None
  /\ login[c] # None
  /\ login[c].name = player[c].name
  /\ login[c].response = Response(player[c].name, player[c].password, c)

(* Where a login session can be, with which packet and in which state.     *)
PlayerPlaced(c) ==
  /\ at[c] \in {"closed", "challenge"} <=> state[c] = "INITIALIZING"
  /\ at[c] \in {"has", "get", "create", "auth"} => state[c] = "AUTHENTICATING"
  /\ at[c] = "update" => state[c] = "AUTHENTICATED" /\ packet[c] # None
  /\ at[c] = "has" => packet[c] \in LoginPackets \cup NewUserPackets
  /\ at[c] = "get" => packet[c] \in LoginPackets
  /\ at[c] = "create" => packet[c] # None /\ player[c] # None
  /\ at[c] # "nicks"
  /\ at[c] = "auth" \/ state[c] = "AUTHENTICATED" => Proved(c)

(* The same for a search session.                                          *)
SearcherPlaced(c) ==
  /\ at[c] \in {"closed", "read", "reply", "has", "get", "nicks"}
  /\ at[c] \in {"has", "get"} => packet[c] \in CheckPackets
  /\ at[c] = "nicks" => packet[c] \in NicksPackets

Placed(c) ==
  IF c \in Players THEN PlayerPlaced(c) ELSE SearcherPlaced(c)

LoginInv == Types /\ \A c \in Sessions : Placed(c)

(* A step that is about session c only.                                    *)
OthersKept(c) ==
  \A d \in Sessions \ {c} :
    /\ at'[d] = at[d] /\ packet'[d] = packet[d]
    /\ d \in Players => state'[d] = state[d] /\ player'[d] = player[d]
                          /\ login'[d] = login[d]

Kept(c) == Types' /\ OthersKept(c) /\ Placed(c)'

-----------------------------------------------------------------------------
LEMMA Combine ==
  ASSUME NEW c \in Sessions, LoginInv, Kept(c)
  PROVE  LoginInv'
<1>1. SUFFICES ASSUME NEW d \in Sessions, d # c PROVE Placed(d)'
  BY DEF LoginInv, Kept
<1>2. Placed(d)
  BY DEF LoginInv
<1>3. /\ at'[d] = at[d] /\ packet'[d] = packet[d]
      /\ d \in Players => state'[d] = state[d] /\ player'[d] = player[d]
                            /\ login'[d] = login[d]
  BY <1>1 DEF Kept, OthersKept
<1> QED
  BY <1>2, <1>3 DEF Placed, PlayerPlaced, SearcherPlaced, Proved

LEMMA EndKept ==
  ASSUME NEW c \in Sessions, LoginInv, End(c), UNCHANGED db
  PROVE  Kept(c)
<1>1. Types'
  BY DEF LoginInv, Types, End, Goto, db, Positions
<1>2. OthersKept(c)
  BY DEF LoginInv, Types, End, Goto, OthersKept
<1>3. at'[c] = "closed" /\ (c \in Players => state'[c] = "INITIALIZING")
  BY DEF LoginInv, Types, End, Goto
<1>4. Placed(c)'
  BY <1>3 DEF Placed, PlayerPlaced, SearcherPlaced
<1> QED
  BY <1>1, <1>2, <1>4 DEF Kept

LEMMA AcceptKept ==
  ASSUME NEW c \in Sessions, LoginInv, Accept(c)
  PROVE  Kept(c)
<1>1. Types'
  BY LoginAssumption DEF LoginInv, Types, Accept, Goto, db, Positions, AtSend, AtQuery
<1>2. OthersKept(c)
  BY DEF LoginInv, Types, Accept, Goto, db, OthersKept, Sessions
<1>3. Placed(c)'
  BY NoneAssumption, LoginAssumption DEF LoginInv, Types, Accept, Goto, db, Placed, PlayerPlaced, SearcherPlaced, Sessions
<1> QED
  BY <1>1, <1>2, <1>3 DEF Kept

LEMMA ChallengeSentKept ==
  ASSUME NEW c \in Players, LoginInv, ChallengeSent(c)
  PROVE  Kept(c)
<1>1. Types'
  BY LoginAssumption DEF LoginInv, Types, ChallengeSent, Goto, db, Positions, AtSend, AtQuery
<1>2. OthersKept(c)
  BY DEF LoginInv, Types, ChallengeSent, Goto, db, OthersKept, Sessions
<1>3. Placed(c)'
  BY NoneAssumption, LoginAssumption DEF LoginInv, Types, ChallengeSent, Goto, db, Placed, PlayerPlaced, SearcherPlaced, Sessions
<1> QED
  BY <1>1, <1>2, <1>3 DEF Kept

LEMMA HandleLoginKept ==
  ASSUME NEW c \in Players, LoginInv, NEW n \in Names, NEW m \in Names, NEW pw \in Passwords,
         NEW d \in Players, HandleLogin(c, n, Response(m, MD5(pw), d))
  PROVE  Kept(c)
<1>1. Types'
  BY LoginAssumption DEF LoginInv, Types, HandleLogin, Ask, Goto, db, Packets, LoginPackets, Sessions, Positions, AtSend, AtQuery
<1>2. OthersKept(c)
  BY DEF LoginInv, Types, HandleLogin, Ask, Goto, db, OthersKept, Sessions
<1>3. Placed(c)'
  BY NoneAssumption, LoginAssumption DEF LoginInv, Types, HandleLogin, Ask, Goto, db, LoginPackets, Placed, PlayerPlaced, SearcherPlaced, Sessions
<1> QED
  BY <1>1, <1>2, <1>3 DEF Kept

LEMMA HandleNewUserKept ==
  ASSUME NEW c \in Players, LoginInv, NEW n \in Names, NEW e \in Emails, NEW pw \in Passwords,
         HandleNewUser(c, n, e, pw)
  PROVE  Kept(c)
<1>1. Types'
  BY LoginAssumption DEF LoginInv, Types, HandleNewUser, Ask, Goto, db, Packets, NewUserPackets, Sessions, Positions, AtSend, AtQuery
<1>2. OthersKept(c)
  BY DEF LoginInv, Types, HandleNewUser, Ask, Goto, db, OthersKept, Sessions
<1>3. Placed(c)'
  BY NoneAssumption, LoginAssumption DEF LoginInv, Types, HandleNewUser, Ask, Goto, db, NewUserPackets, Placed, PlayerPlaced, SearcherPlaced, Sessions
<1> QED
  BY <1>1, <1>2, <1>3 DEF Kept

LEMMA HandleUpdateProfileKept ==
  ASSUME NEW c \in Players, LoginInv, NEW k \in Countries, HandleUpdateProfile(c, k)
  PROVE  Kept(c)
<1>1. Types'
  BY LoginAssumption DEF LoginInv, Types, HandleUpdateProfile, Ask, Goto, db, Packets, Accounts, Sessions, Placed, PlayerPlaced, Proved, Positions, AtSend, AtQuery
<1>2. OthersKept(c)
  BY DEF LoginInv, Types, HandleUpdateProfile, Ask, Goto, db, OthersKept, Sessions
<1>3. Placed(c)'
  BY NoneAssumption, LoginAssumption DEF LoginInv, Types, HandleUpdateProfile, Ask, Goto, db, Packets, Proved, Accounts, Placed, PlayerPlaced, SearcherPlaced, Sessions
<1> QED
  BY <1>1, <1>2, <1>3 DEF Kept

LEMMA HandleProfileExistsKept ==
  ASSUME NEW c \in Sessions, LoginInv, NEW n \in Names, c \notin Players, HandleProfileExists(c, n)
  PROVE  Kept(c)
<1>1. Types'
  BY LoginAssumption DEF LoginInv, Types, HandleProfileExists, Ask, Goto, db, Packets, CheckPackets, Sessions, Positions, AtSend, AtQuery
<1>2. OthersKept(c)
  BY DEF LoginInv, Types, HandleProfileExists, Ask, Goto, db, OthersKept, Sessions
<1>3. Placed(c)'
  BY NoneAssumption, LoginAssumption DEF LoginInv, Types, HandleProfileExists, Ask, Goto, db, CheckPackets, Placed, PlayerPlaced, SearcherPlaced, Sessions
<1> QED
  BY <1>1, <1>2, <1>3 DEF Kept

LEMMA HandleSearchNicksKept ==
  ASSUME NEW c \in Sessions, LoginInv, NEW e \in Emails, c \notin Players,
         NEW pass \in Passwords \cup {Encoded(pw) : pw \in Passwords},
         HandleSearchNicks(c, e, pass)
  PROVE  Kept(c)
<1>1. Types'
  BY LoginAssumption DEF LoginInv, Types, HandleSearchNicks, Ask, Goto, db, Packets, NicksPackets, Sessions, Positions, AtSend, AtQuery
<1>2. OthersKept(c)
  BY DEF LoginInv, Types, HandleSearchNicks, Ask, Goto, db, OthersKept, Sessions
<1>3. Placed(c)'
  BY NoneAssumption, LoginAssumption DEF LoginInv, Types, HandleSearchNicks, Ask, Goto, db, NicksPackets, Placed, PlayerPlaced, SearcherPlaced, Sessions
<1> QED
  BY <1>1, <1>2, <1>3 DEF Kept

LEMMA AnswerKept ==
  ASSUME NEW c \in Sessions, LoginInv, Answer(c)
  PROVE  Kept(c)
<1>1. Types'
  BY LoginAssumption DEF LoginInv, Types, Answer, Goto, db, Positions, AtSend, AtQuery
<1>2. OthersKept(c)
  BY DEF LoginInv, Types, Answer, Goto, db, OthersKept, Sessions
<1>3. Placed(c)'
  BY NoneAssumption, LoginAssumption DEF LoginInv, Types, Answer, Goto, db, Proved, Placed, PlayerPlaced, SearcherPlaced, Sessions
<1> QED
  BY <1>1, <1>2, <1>3 DEF Kept

LEMMA ReplySentKept ==
  ASSUME NEW c \in Sessions, LoginInv, ReplySent(c)
  PROVE  Kept(c)
<1>1. Types'
  BY LoginAssumption DEF LoginInv, Types, ReplySent, Goto, db, Positions, AtSend, AtQuery
<1>2. OthersKept(c)
  BY DEF LoginInv, Types, ReplySent, Goto, db, OthersKept, Sessions
<1>3. Placed(c)'
  BY NoneAssumption, LoginAssumption DEF LoginInv, Types, ReplySent, Goto, db, Proved, Placed, PlayerPlaced, SearcherPlaced, Sessions
<1> QED
  BY <1>1, <1>2, <1>3 DEF Kept

LEMMA AuthSentKept ==
  ASSUME NEW c \in Players, LoginInv, AuthSent(c)
  PROVE  Kept(c)
<1>1. Types'
  BY LoginAssumption DEF LoginInv, Types, AuthSent, Goto, db, Positions, AtSend, AtQuery
<1>2. OthersKept(c)
  BY DEF LoginInv, Types, AuthSent, Goto, db, OthersKept, Sessions
<1>3. Placed(c)'
  BY NoneAssumption, LoginAssumption DEF LoginInv, Types, AuthSent, Goto, db, Proved, Placed, PlayerPlaced, SearcherPlaced, Sessions
<1> QED
  BY <1>1, <1>2, <1>3 DEF Kept

(* What HandleNewUser remembers before it creates the account.             *)
LEMMA NewAccount ==
  ASSUME NEW c \in Sessions, Types, packet[c] \in NewUserPackets
  PROVE  Row(0, packet[c].name, packet[c].email, MD5(packet[c].password), None) \in Accounts
BY DEF NewUserPackets, Accounts, Row

LEMMA FoundKept ==
  ASSUME NEW c \in Sessions, LoginInv, HasPlayer(c), Found(c)
  PROVE  Kept(c)
<1>1. Types'
  BY LoginAssumption DEF LoginInv, Types, HasPlayer, Found, Goto, db, Positions, AtSend, AtQuery
<1>2. OthersKept(c)
  BY DEF LoginInv, Types, HasPlayer, Found, Goto, db, OthersKept, Sessions
<1>3. Placed(c)'
  BY NoneAssumption, LoginAssumption DEF LoginInv, Types, HasPlayer, Found, Goto, db, LoginPackets, NewUserPackets, CheckPackets, Placed, PlayerPlaced, SearcherPlaced, Sessions
<1> QED
  BY <1>1, <1>2, <1>3 DEF Kept

LEMMA FreeKept ==
  ASSUME NEW c \in Sessions, LoginInv, HasPlayer(c), Free(c)
  PROVE  Kept(c)
<1>1. c \in Players /\ packet[c] \in NewUserPackets
  BY LoginAssumption DEF LoginInv, Placed, PlayerPlaced, SearcherPlaced, HasPlayer, Free,
     LoginPackets, CheckPackets
<1> DEFINE new == Row(0, packet[c].name, packet[c].email, MD5(packet[c].password), None)
<1>2. new \in Accounts
  BY <1>1, NewAccount DEF LoginInv
<1>3. /\ at' = [at EXCEPT ![c] = "create"] /\ player' = [player EXCEPT ![c] = new]
      /\ UNCHANGED <<backend, rows, sequence, packet, state, login, foreign>>
  BY DEF HasPlayer, Free, Goto, db
<1> HIDE DEF new
<1>4. Types'
  BY <1>2, <1>3 DEF LoginInv, Types, Positions, AtQuery
<1>5. OthersKept(c)
  BY <1>3 DEF LoginInv, Types, OthersKept, Sessions
<1>6. at[c] = "has"
  BY DEF HasPlayer
<1>7. Placed(c)'
  BY <1>1, <1>2, <1>3, <1>6, NoneAssumption
  DEF LoginInv, Types, Placed, PlayerPlaced, Packets, Sessions
<1> QED
  BY <1>4, <1>5, <1>7 DEF Kept

LEMMA RefusedKept ==
  ASSUME NEW c \in Sessions, LoginInv, HasPlayer(c), Refused(c)
  PROVE  Kept(c)
<1>1. Types'
  BY LoginAssumption DEF LoginInv, Types, HasPlayer, Refused, Goto, db, Positions, AtSend, AtQuery
<1>2. OthersKept(c)
  BY DEF LoginInv, Types, HasPlayer, Refused, Goto, db, OthersKept, Sessions
<1>3. Placed(c)'
  BY NoneAssumption, LoginAssumption DEF LoginInv, Types, HasPlayer, Refused, Goto, db, Placed, PlayerPlaced, SearcherPlaced, Sessions
<1> QED
  BY <1>1, <1>2, <1>3 DEF Kept

LEMMA GetPlayerByNameKept ==
  ASSUME NEW c \in Sessions, LoginInv, GetPlayerByName(c)
  PROVE  Kept(c)
<1>1. PICK r \in Named(packet[c].name) :
         IF packet[c].kind = "login" /\ Proves(c, r)
         THEN /\ player' = [player EXCEPT ![c] = r]
              /\ login' = [login EXCEPT ![c] = packet[c]]
              /\ Goto(c, "auth")
         ELSE Goto(c, "reply") /\ UNCHANGED <<player, login>>
  BY DEF GetPlayerByName
<1>2. /\ at[c] = "get"
      /\ UNCHANGED <<backend, rows, sequence, packet, state, foreign>>
  BY DEF GetPlayerByName, db
<1>3. r \in Accounts /\ r.name = packet[c].name
  BY DEF Named, LoginInv, Types
<1>4. CASE packet[c].kind = "login" /\ Proves(c, r)
  <2>1. c \in Players /\ packet[c] \in LoginPackets
    BY <1>2, <1>4 DEF LoginInv, Placed, PlayerPlaced, SearcherPlaced, CheckPackets, Sessions
  <2>2. /\ player' = [player EXCEPT ![c] = r]
        /\ login' = [login EXCEPT ![c] = packet[c]]
        /\ at' = [at EXCEPT ![c] = "auth"]
    BY <1>1, <1>4 DEF Goto
  <2>3. Types'
    BY <1>2, <1>3, <2>1, <2>2 DEF LoginInv, Types, Positions, AtSend
  <2>4. OthersKept(c)
    BY <1>2, <2>2 DEF LoginInv, Types, OthersKept, Sessions
  <2>5. Proved(c)'
    BY <1>3, <1>4, <2>1, <2>2, <1>2, NoneAssumption
    DEF Proved, Proves, LoginInv, Types, Packets
  <2>6. Placed(c)'
    BY <1>2, <2>1, <2>2, <2>5
    DEF LoginInv, Types, Placed, PlayerPlaced, Sessions
  <2> QED
    BY <2>3, <2>4, <2>6 DEF Kept
<1>5. CASE ~(packet[c].kind = "login" /\ Proves(c, r))
  <2>1. at' = [at EXCEPT ![c] = "reply"] /\ UNCHANGED <<player, login>>
    BY <1>1, <1>5 DEF Goto
  <2>2. Types' /\ OthersKept(c)
    BY <1>2, <2>1 DEF LoginInv, Types, OthersKept, Positions, AtSend, Sessions
  <2>3. Placed(c)'
    BY <1>2, <2>1 DEF LoginInv, Types, Placed, PlayerPlaced, SearcherPlaced, Sessions
  <2> QED
    BY <2>2, <2>3 DEF Kept
<1> QED
  BY <1>4, <1>5

LEMMA CreatePlayerKept ==
  ASSUME NEW c \in Sessions, LoginInv, CreatePlayer(c)
  PROVE  Kept(c)
<1>1. c \in Players /\ player[c] \in Accounts /\ state[c] = "AUTHENTICATING"
  BY DEF LoginInv, Types, Placed, PlayerPlaced, SearcherPlaced, CreatePlayer, Sessions
<1> DEFINE new == [player[c] EXCEPT !.id = sequence]
<1>2. new \in Accounts
  BY <1>1 DEF Accounts, LoginInv, Types
<1>3. /\ at' = [at EXCEPT ![c] = "reply"] /\ player' = [player EXCEPT ![c] = new]
      /\ rows' = rows \cup {new} /\ sequence' = sequence + 1
      /\ UNCHANGED <<backend, packet, state, login, foreign>>
  BY <1>1 DEF CreatePlayer, Goto, db, LoginInv, Types
<1> HIDE DEF new
<1>4. Types'
  BY <1>1, <1>2, <1>3 DEF LoginInv, Types, Positions, AtSend
<1>5. OthersKept(c)
  BY <1>3 DEF LoginInv, Types, OthersKept, Sessions
<1>6. Placed(c)'
  BY <1>1, <1>3 DEF LoginInv, Types, Placed, PlayerPlaced, Sessions
<1> QED
  BY <1>4, <1>5, <1>6 DEF Kept

LEMMA UpdatePlayerKept ==
  ASSUME NEW c \in Sessions, LoginInv, UpdatePlayer(c)
  PROVE  Kept(c)
<1>1. c \in Players /\ state[c] = "AUTHENTICATED" /\ Proved(c)
  BY DEF LoginInv, Placed, PlayerPlaced, SearcherPlaced, UpdatePlayer, Sessions
<1>2. player[c] \in Accounts
  BY <1>1 DEF LoginInv, Types, Proved
<1>3. ASSUME NEW r \in rows PROVE Written(c, r) \in Accounts
  BY <1>2, <1>3 DEF Written, Accounts, LoginInv, Types
<1>4. /\ at' = [at EXCEPT ![c] = "read"] /\ packet' = [packet EXCEPT ![c] = None]
      /\ rows' = {Written(c, r) : r \in rows}
      /\ UNCHANGED <<backend, sequence, state, player, login, foreign>>
  BY DEF UpdatePlayer, Goto, db
<1>5. Types'
  BY <1>3, <1>4 DEF LoginInv, Types, Positions
<1>6. OthersKept(c)
  BY <1>4 DEF LoginInv, Types, OthersKept, Sessions
<1>7. Placed(c)'
  BY <1>1, <1>4 DEF LoginInv, Types, Placed, PlayerPlaced, Proved, Sessions
<1> QED
  BY <1>5, <1>6, <1>7 DEF Kept

LEMMA GetPlayerByMailAndPasswordKept ==
  ASSUME NEW c \in Sessions, LoginInv, GetPlayerByMailAndPassword(c)
  PROVE  Kept(c)
<1>1. Types'
  BY LoginAssumption DEF LoginInv, Types, GetPlayerByMailAndPassword, Goto, db, Positions, AtSend, AtQuery
<1>2. OthersKept(c)
  BY DEF LoginInv, Types, GetPlayerByMailAndPassword, Goto, db, OthersKept, Sessions
<1>3. Placed(c)'
  BY NoneAssumption, LoginAssumption DEF LoginInv, Types, GetPlayerByMailAndPassword, Goto, db, Placed, PlayerPlaced, SearcherPlaced, Sessions
<1> QED
  BY <1>1, <1>2, <1>3 DEF Kept

LEMMA LeaveKept ==
  ASSUME NEW c \in Sessions, LoginInv,
         Leave(c) \/ NameTaken(c) \/ PlayerGone(c)
  PROVE  Kept(c)
<1>1. End(c) /\ UNCHANGED db
  BY DEF Leave, NameTaken, PlayerGone, LoginInv, Types
<1> QED
  BY <1>1, EndKept

LEMMA EditKept ==
  ASSUME LoginInv, Edit
  PROVE  LoginInv'
<1>1. ASSUME NEW r \in rows, NEW pw \in Passwords
      PROVE  [r EXCEPT !.password = MD5(pw)] \in Accounts
  BY <1>1 DEF LoginInv, Types, Accounts
<1>2. rows' \subseteq Accounts
  BY <1>1 DEF Edit, LoginInv, Types
<1>3. /\ UNCHANGED <<backend, sequence, at, packet, state, player, login>>
      /\ foreign' \in BOOLEAN
  BY DEF Edit
<1>4. Types'
  BY <1>2, <1>3 DEF LoginInv, Types
<1>5. ASSUME NEW c \in Sessions PROVE Placed(c)'
  <2>1. Placed(c)
    BY DEF LoginInv
  <2> QED
    BY <1>3, <2>1 DEF Placed, PlayerPlaced, SearcherPlaced, Proved
<1> QED
  BY <1>4, <1>5 DEF LoginInv

(* Before the program has run, and whenever it starts again, all sessions  *)
(* are closed.                                                             *)
LEMMA RestartKept ==
  ASSUME LoginInv, Restart
  PROVE  LoginInv'
<1>1. Types'
  BY DEF LoginInv, Types, Restart, db, Positions
<1>2. ASSUME NEW c \in Sessions PROVE Placed(c)'
  BY DEF Restart, Placed, PlayerPlaced, SearcherPlaced
<1> QED
  BY <1>1, <1>2 DEF LoginInv

LEMMA Initially ==
  ASSUME Init
  PROVE  LoginInv
<1>1. Types
  BY LoginAssumption DEF Init, Types, Positions
<1>2. ASSUME NEW c \in Sessions PROVE Placed(c)
  BY DEF Init, Placed, PlayerPlaced, SearcherPlaced
<1> QED
  BY <1>1, <1>2 DEF LoginInv

LEMMA ContinueKept ==
  ASSUME NEW c \in Sessions, LoginInv, Continue(c)
  PROVE  Kept(c)
<1>1. CASE HasPlayer(c)
  BY <1>1, FoundKept, FreeKept, RefusedKept DEF HasPlayer
<1>2. CASE GetPlayerByName(c)
  BY <1>2, GetPlayerByNameKept
<1>3. CASE PlayerGone(c)
  BY <1>3, LeaveKept
<1>4. CASE CreatePlayer(c)
  BY <1>4, CreatePlayerKept
<1>5. CASE NameTaken(c)
  BY <1>5, LeaveKept
<1>6. CASE UpdatePlayer(c)
  BY <1>6, UpdatePlayerKept
<1>7. CASE GetPlayerByMailAndPassword(c)
  BY <1>7, GetPlayerByMailAndPasswordKept
<1>8. CASE ReplySent(c)
  BY <1>8, ReplySentKept
<1> QED
  BY <1>1, <1>2, <1>3, <1>4, <1>5, <1>6, <1>7, <1>8 DEF Continue

LEMMA RequestKept ==
  ASSUME NEW c \in Players, LoginInv, Request(c)
  PROVE  Kept(c)
<1>1. CASE \E n, m \in Names, pw \in Passwords, d \in Players :
             HandleLogin(c, n, Response(m, MD5(pw), d))
  BY <1>1, HandleLoginKept
<1>2. CASE \E n \in Names, e \in Emails, pw \in Passwords :
             HandleNewUser(c, n, e, pw)
  BY <1>2, HandleNewUserKept
<1>3. CASE \E k \in Countries : HandleUpdateProfile(c, k)
  BY <1>3, HandleUpdateProfileKept
<1> QED
  BY <1>1, <1>2, <1>3 DEF Request

LEMMA SearchKept ==
  ASSUME NEW c \in Searchers, LoginInv, Search(c)
  PROVE  Kept(c)
<1>1. c \in Sessions /\ c \notin Players
  BY LoginAssumption DEF Sessions
<1>2. CASE \E n \in Names : HandleProfileExists(c, n)
  BY <1>1, <1>2, HandleProfileExistsKept
<1>3. CASE \E e \in Emails, pw \in Passwords :
             HandleSearchNicks(c, e, pw) \/ HandleSearchNicks(c, e, Encoded(pw))
  BY <1>1, <1>3, HandleSearchNicksKept
<1> QED
  BY <1>2, <1>3 DEF Search

LEMMA StepKept ==
  ASSUME LoginInv, [Next]_vars
  PROVE  LoginInv'
<1>1. CASE \E c \in Sessions : Accept(c) \/ Answer(c) \/ Continue(c) \/ Leave(c)
  BY <1>1, AcceptKept, AnswerKept, ContinueKept, LeaveKept, Combine
<1>2. CASE \E c \in Players : ChallengeSent(c) \/ Request(c) \/ AuthSent(c)
  BY <1>2, ChallengeSentKept, RequestKept, AuthSentKept, Combine DEF Sessions
<1>3. CASE \E c \in Searchers : Search(c)
  BY <1>3, SearchKept, Combine DEF Sessions
<1>4. CASE Edit
  BY <1>4, EditKept
<1>5. CASE Restart
  BY <1>5, RestartKept
<1>6. CASE UNCHANGED vars
  BY <1>6 DEF vars, LoginInv, Types, Placed, PlayerPlaced, SearcherPlaced, Proved
<1> QED
  BY <1>1, <1>2, <1>3, <1>4, <1>5, <1>6 DEF Next

-----------------------------------------------------------------------------
LEMMA LoginCorrect == Spec => []LoginInv
<1>1. Init => LoginInv
  BY Initially
<1>2. LoginInv /\ [Next]_vars => LoginInv'
  BY StepKept
<1> QED
  BY <1>1, <1>2, PTL DEF Spec

(* The types, and where a session is as its state and packet allow: what   *)
(* LoginClient and SearchClient keep across their waits.                   *)
THEOREM TypeCorrect == Spec => []TypeOK
<1>1. LoginInv => TypeOK
  <2> SUFFICES ASSUME LoginInv PROVE TypeOK
    OBVIOUS
  <2>1. ASSUME NEW c \in Sessions, at[c] \in AtQuery PROVE packet[c] # None
    BY <2>1, NoneAssumption DEF LoginInv, Types, Placed, PlayerPlaced, SearcherPlaced,
       AtQuery, Packets
  <2>2. ASSUME NEW c \in Players
        PROVE  /\ state[c] = "INITIALIZING" <=> at[c] \in {"closed", "challenge"}
               /\ at[c] \in {"create", "auth", "update"} => player[c] # None
    BY DEF LoginInv, Placed, PlayerPlaced, Proved, Sessions
  <2> QED
    BY <2>1, <2>2 DEF TypeOK, LoginInv
<1> QED
  BY <1>1, LoginCorrect, PTL

(* HandleLogin: nobody is logged in without the answer to the challenge of *)
(* the session, made with the password of the account it acts for.         *)
THEOREM AuthenticatedProvedHolds == Spec => []AuthenticatedProved
<1>1. LoginInv => AuthenticatedProved
  BY DEF LoginInv, AuthenticatedProved, Placed, PlayerPlaced, Proved, Sessions
<1> QED
  BY <1>1, LoginCorrect, PTL

-----------------------------------------------------------------------------
(* What sessions and the table know of each other.  An account that is     *)
(* remembered is stored; who is logged in has an id; and what HasPlayer    *)
(* found out holds until it is used.                                       *)
Stored(p) ==
  \E r \in rows : /\ r.id = p.id /\ r.name = p.name
                  /\ r.password = p.password /\ r.email = p.email

SessionInv(c) ==
  /\ c \in Players =>
       /\ Untouched /\ player[c] # None /\ player[c].id # 0 => Stored(player[c])
       /\ at[c] = "auth" \/ state[c] = "AUTHENTICATED" => player[c].id # 0
       /\ backend = "sqlite" /\ at[c] = "create" => Named(player[c].name) = {}
  /\ ~foreign /\ at[c] = "get" => Named(packet[c].name) # {}

RowsInv ==
  /\ sequence # 0
  /\ \A r \in rows : r.id # 0
  /\ KeepsUnique => \A r, q \in rows : r.name = q.name => r = q

(* With SQLite only one session is at a query.                             *)
AloneInv ==
  backend = "sqlite" =>
    \A c, d \in Sessions : at[c] \in AtQuery /\ at[d] \in AtQuery => c = d

AccountInv ==
  LoginInv /\ RowsInv /\ AloneInv /\ \A c \in Sessions : SessionInv(c)

(* A step of session c that leaves the database alone.                     *)
Quiet(c) == May(c) /\ Kept(c) /\ UNCHANGED db /\ SessionInv(c)'

-----------------------------------------------------------------------------
LEMMA AloneKept ==
  ASSUME NEW c \in Sessions, AccountInv, May(c), Kept(c), backend' = backend
  PROVE  AloneInv'
BY DEF AccountInv, AloneInv, May, Kept, OthersKept

LEMMA QuietKept ==
  ASSUME NEW c \in Sessions, AccountInv, Quiet(c)
  PROVE  AccountInv'
<1>1. LoginInv' /\ AloneInv'
  BY Combine, AloneKept DEF Quiet, AccountInv, db
<1>2. RowsInv'
  BY DEF Quiet, AccountInv, RowsInv, KeepsUnique, db
<1>3. ASSUME NEW d \in Sessions, d # c PROVE SessionInv(d)'
  <2>1. SessionInv(d)
    BY DEF AccountInv
  <2>2. /\ at'[d] = at[d] /\ packet'[d] = packet[d]
        /\ d \in Players => state'[d] = state[d] /\ player'[d] = player[d]
    BY <1>3 DEF Quiet, Kept, OthersKept
  <2> QED
    BY <2>1, <2>2 DEF SessionInv, Quiet, Untouched, KeepsUnique, Stored, Named, db
<1> QED
  BY <1>1, <1>2, <1>3 DEF AccountInv, Quiet

LEMMA EndQuiet ==
  ASSUME NEW c \in Sessions, AccountInv, May(c), End(c), UNCHANGED db
  PROVE  Quiet(c)
<1>1. Kept(c)
  BY EndKept DEF AccountInv
<1>2. /\ at'[c] = "closed"
      /\ c \in Players => player'[c] = None /\ state'[c] = "INITIALIZING"
  BY DEF AccountInv, LoginInv, Types, End, Goto
<1>3. SessionInv(c)'
  BY <1>2 DEF SessionInv
<1> QED
  BY <1>1, <1>3 DEF Quiet

(* Steps after which a session remembers what it did, and is not where     *)
(* something is relied on.                                                 *)
LEMMA SamePlayerQuiet ==
  ASSUME NEW c \in Sessions, AccountInv, May(c), Kept(c), UNCHANGED db,
         at'[c] \notin {"get", "create"},
         c \in Players => /\ player'[c] = player[c]
                          /\ at'[c] = "auth" \/ state'[c] = "AUTHENTICATED" =>
                               at[c] = "auth" \/ state[c] = "AUTHENTICATED"
  PROVE  Quiet(c)
<1>1. SessionInv(c)
  BY DEF AccountInv
<1>2. SessionInv(c)'
  BY <1>1 DEF SessionInv, Untouched, KeepsUnique, Stored, db
<1> QED
  BY <1>2 DEF Quiet

LEMMA AcceptQuiet ==
  ASSUME NEW c \in Sessions, AccountInv, Accept(c)
  PROVE  Quiet(c)
<1>1. May(c) /\ UNCHANGED db /\ at'[c] \notin {"get", "create", "auth"} /\ UNCHANGED <<player, state>>
  BY DEF Accept, Goto, AccountInv, LoginInv, Types, AtQuery
<1> QED
  BY <1>1, AcceptKept, SamePlayerQuiet DEF AccountInv

LEMMA ChallengeSentQuiet ==
  ASSUME NEW c \in Players, AccountInv, ChallengeSent(c)
  PROVE  Quiet(c)
<1>1. /\ May(c) /\ UNCHANGED db /\ at'[c] \notin {"get", "create", "auth"}
      /\ UNCHANGED player /\ state'[c] = "AUTHENTICATING"
  BY DEF ChallengeSent, Goto, AccountInv, LoginInv, Types, Sessions
<1> QED
  BY <1>1, ChallengeSentKept, SamePlayerQuiet DEF AccountInv, Sessions

LEMMA AnswerQuiet ==
  ASSUME NEW c \in Sessions, AccountInv, Answer(c)
  PROVE  Quiet(c)
<1>1. /\ May(c) /\ UNCHANGED db /\ at'[c] = "reply" /\ UNCHANGED <<player, state>>
  BY DEF Answer, Goto, AccountInv, LoginInv, Types
<1> QED
  BY <1>1, AnswerKept, SamePlayerQuiet DEF AccountInv

LEMMA ReplySentQuiet ==
  ASSUME NEW c \in Sessions, AccountInv, ReplySent(c)
  PROVE  Quiet(c)
<1>1. /\ May(c) /\ UNCHANGED db /\ at'[c] = "read" /\ UNCHANGED <<player, state>>
  BY DEF ReplySent, Goto, AccountInv, LoginInv, Types
<1> QED
  BY <1>1, ReplySentKept, SamePlayerQuiet DEF AccountInv

LEMMA AuthSentQuiet ==
  ASSUME NEW c \in Players, AccountInv, AuthSent(c)
  PROVE  Quiet(c)
<1>1. /\ May(c) /\ UNCHANGED db /\ at'[c] = "read" /\ at[c] = "auth" /\ UNCHANGED player
  BY DEF AuthSent, Goto, AccountInv, LoginInv, Types, Sessions
<1> QED
  BY <1>1, AuthSentKept, SamePlayerQuiet DEF AccountInv, Sessions

LEMMA RequestQuiet ==
  ASSUME NEW c \in Players, AccountInv, Request(c)
  PROVE  Quiet(c)
<1>1. Kept(c) /\ c \in Sessions
  BY RequestKept DEF AccountInv, Sessions
<1>2. CASE \/ \E n, m \in Names, pw \in Passwords, d \in Players :
                HandleLogin(c, n, Response(m, MD5(pw), d))
           \/ \E n \in Names, e \in Emails, pw \in Passwords : HandleNewUser(c, n, e, pw)
  <2>1. /\ May(c) /\ UNCHANGED db /\ at'[c] = "has" /\ UNCHANGED <<player, state>>
    BY <1>1, <1>2 DEF HandleLogin, HandleNewUser, Ask, Goto, AccountInv, LoginInv, Types
  <2> QED
    BY <1>1, <2>1, SamePlayerQuiet
<1>3. CASE \E k \in Countries : HandleUpdateProfile(c, k)
  <2>1. PICK k \in Countries : HandleUpdateProfile(c, k)
    BY <1>3
  <2>2. /\ May(c) /\ UNCHANGED db /\ at'[c] = "update" /\ UNCHANGED state
        /\ player' = [player EXCEPT ![c].country = k] /\ state[c] = "AUTHENTICATED"
    BY <1>1, <2>1 DEF HandleUpdateProfile, Ask, Goto, AccountInv, LoginInv, Types
  <2>3. player[c] \in Accounts /\ player[c] # None
    BY <1>1, <2>2 DEF AccountInv, LoginInv, Types, Placed, PlayerPlaced, Proved
  <2>4. /\ player'[c].id = player[c].id /\ player'[c].name = player[c].name
        /\ player'[c].password = player[c].password /\ player'[c].email = player[c].email
    BY <2>2, <2>3 DEF AccountInv, LoginInv, Types, Accounts
  <2>5. SessionInv(c)
    BY <1>1 DEF AccountInv
  <2>6. SessionInv(c)'
    BY <2>2, <2>3, <2>4, <2>5 DEF SessionInv, Untouched, KeepsUnique, Stored, db
  <2> QED
    BY <1>1, <2>2, <2>6 DEF Quiet
<1> QED
  BY <1>2, <1>3 DEF Request

LEMMA SearchQuiet ==
  ASSUME NEW c \in Searchers, AccountInv, Search(c)
  PROVE  Quiet(c)
<1>1. Kept(c) /\ c \in Sessions /\ c \notin Players
  BY SearchKept, LoginAssumption DEF AccountInv, Sessions
<1>2. /\ May(c) /\ UNCHANGED db /\ at'[c] \in {"has", "nicks"}
  BY <1>1 DEF Search, HandleProfileExists, HandleSearchNicks, Ask, Goto, AccountInv, LoginInv, Types
<1> QED
  BY <1>1, <1>2, SamePlayerQuiet

-----------------------------------------------------------------------------
LEMMA HasPlayerQuiet ==
  ASSUME NEW c \in Sessions, AccountInv, HasPlayer(c)
  PROVE  Quiet(c)
<1>1. Kept(c)
  BY FoundKept, FreeKept, RefusedKept DEF HasPlayer, AccountInv
<1>2. May(c) /\ at[c] = "has" /\ UNCHANGED db /\ UNCHANGED <<packet, state>>
  BY DEF HasPlayer
<1>3. SessionInv(c) /\ at \in [Sessions -> Positions] /\ player \in [Players -> Accounts \cup {None}]
  BY DEF AccountInv, LoginInv, Types
<1>4. CASE Found(c)
  <2>1. Named(packet[c].name) # {} /\ at'[c] = "get" /\ UNCHANGED player
    BY <1>3, <1>4 DEF Found, Goto
  <2>2. SessionInv(c)'
    BY <1>2, <1>3, <2>1 DEF SessionInv, Untouched, KeepsUnique, Stored, Named, db
  <2> QED
    BY <1>1, <1>2, <2>2 DEF Quiet
<1>5. CASE Free(c)
  <2>1. c \in Players
    BY <1>2, <1>5 DEF AccountInv, LoginInv, Placed, SearcherPlaced, CheckPackets, Free
  <2>2. /\ Named(packet[c].name) = {} /\ at'[c] = "create"
        /\ player'[c].id = 0 /\ player'[c].name = packet[c].name
    BY <1>3, <1>5, <2>1 DEF Free, Goto, Row
  <2>3. state'[c] # "AUTHENTICATED"
    BY <1>2, <2>1 DEF AccountInv, LoginInv, Placed, PlayerPlaced
  <2>4. SessionInv(c)'
    BY <1>2, <2>2, <2>3 DEF SessionInv, Named, db
  <2> QED
    BY <1>1, <1>2, <2>4 DEF Quiet
<1>6. CASE Refused(c)
  <2>1. at'[c] = "reply" /\ UNCHANGED player
    BY <1>3, <1>6 DEF Refused, Goto
  <2> QED
    BY <1>1, <1>2, <2>1, SamePlayerQuiet
<1> QED
  BY <1>4, <1>5, <1>6 DEF HasPlayer

LEMMA GetPlayerByNameQuiet ==
  ASSUME NEW c \in Sessions, AccountInv, GetPlayerByName(c)
  PROVE  Quiet(c)
<1>1. Kept(c)
  BY GetPlayerByNameKept DEF AccountInv
<1>2. May(c) /\ at[c] = "get" /\ UNCHANGED db /\ UNCHANGED <<packet, state>>
  BY DEF GetPlayerByName
<1>3. SessionInv(c) /\ at \in [Sessions -> Positions] /\ player \in [Players -> Accounts \cup {None}]
  BY DEF AccountInv, LoginInv, Types
<1>4. PICK r \in Named(packet[c].name) :
         IF packet[c].kind = "login" /\ Proves(c, r)
         THEN /\ player' = [player EXCEPT ![c] = r]
              /\ login' = [login EXCEPT ![c] = packet[c]]
              /\ Goto(c, "auth")
         ELSE Goto(c, "reply") /\ UNCHANGED <<player, login>>
  BY DEF GetPlayerByName
<1>5. r \in rows /\ r.id # 0
  BY DEF Named, AccountInv, RowsInv
<1>6. CASE player' = [player EXCEPT ![c] = r] /\ Goto(c, "auth")
  <2>1. at'[c] = "auth" /\ (c \in Players => player'[c] = r)
    BY <1>3, <1>6 DEF Goto
  <2>2. SessionInv(c)'
    BY <1>2, <1>5, <2>1 DEF SessionInv, Stored, db
  <2> QED
    BY <1>1, <1>2, <2>2 DEF Quiet
<1>7. CASE Goto(c, "reply") /\ UNCHANGED player
  <2>1. at'[c] = "reply"
    BY <1>3, <1>7 DEF Goto
  <2> QED
    BY <1>1, <1>2, <1>7, <2>1, SamePlayerQuiet
<1> QED
  BY <1>4, <1>6, <1>7

LEMMA GetPlayerByMailAndPasswordQuiet ==
  ASSUME NEW c \in Sessions, AccountInv, GetPlayerByMailAndPassword(c)
  PROVE  Quiet(c)
<1>1. /\ May(c) /\ UNCHANGED db /\ at'[c] = "reply" /\ UNCHANGED <<player, state>>
  BY DEF GetPlayerByMailAndPassword, Goto, AccountInv, LoginInv, Types
<1> QED
  BY <1>1, GetPlayerByMailAndPasswordKept, SamePlayerQuiet DEF AccountInv

-----------------------------------------------------------------------------
LEMMA CreatePlayerAccounts ==
  ASSUME NEW c \in Sessions, AccountInv, CreatePlayer(c)
  PROVE  AccountInv'
<1>1. /\ c \in Players /\ player[c] \in Accounts /\ at[c] = "create"
      /\ state[c] = "AUTHENTICATING"
  BY DEF AccountInv, LoginInv, Types, Placed, PlayerPlaced, SearcherPlaced, CreatePlayer, Sessions
<1> DEFINE new == [player[c] EXCEPT !.id = sequence]
<1>2. new.id = sequence /\ new.name = player[c].name
  BY <1>1 DEF Accounts
<1>3. /\ at'[c] = "reply" /\ player'[c] = new /\ UNCHANGED <<backend, packet, state, foreign>>
      /\ rows' = rows \cup {new} /\ sequence' = sequence + 1 /\ sequence \in Nat
      /\ KeepsUnique => Named(player[c].name) = {}
  BY <1>1 DEF CreatePlayer, Goto, db, AccountInv, LoginInv, Types
<1> HIDE DEF new
<1>4. Kept(c) /\ May(c)
  BY CreatePlayerKept DEF AccountInv, CreatePlayer
<1>5. LoginInv' /\ AloneInv'
  BY <1>3, <1>4, Combine, AloneKept DEF AccountInv
<1>6. RowsInv'
  <2>1. KeepsUnique => \A r \in rows : r.name # new.name
    BY <1>2, <1>3 DEF Named
  <2> QED
    BY <1>2, <1>3, <2>1 DEF RowsInv, AccountInv, KeepsUnique
<1>7. SessionInv(c)'
  BY <1>1, <1>3 DEF SessionInv, Stored
<1>8. ASSUME NEW d \in Sessions, d # c PROVE SessionInv(d)'
  <2>1. SessionInv(d)
    BY DEF AccountInv
  <2>2. /\ at'[d] = at[d] /\ packet'[d] = packet[d]
        /\ d \in Players => state'[d] = state[d] /\ player'[d] = player[d]
    BY <1>4, <1>8 DEF Kept, OthersKept
  <2>3. backend = "sqlite" => at[d] # "create"
    BY <1>1, <1>8 DEF AccountInv, AloneInv, AtQuery
  <2> QED
    BY <1>3, <2>1, <2>2, <2>3 DEF SessionInv, Untouched, KeepsUnique, Stored, Named
<1> QED
  BY <1>5, <1>6, <1>7, <1>8 DEF AccountInv

(* UpdatePlayer writes all that the session remembers, of which only the   *)
(* country is news.                                                        *)
LEMMA OnlyCountryWritten ==
  ASSUME NEW c \in Sessions, AccountInv, UpdatePlayer(c), Untouched, NEW r \in rows
  PROVE  /\ Written(c, r).id = r.id /\ Written(c, r).name = r.name
         /\ Written(c, r).password = r.password /\ Written(c, r).email = r.email
         /\ Written(c, r).country # r.country => r.name = player[c].name
<1>1. /\ c \in Players /\ state[c] = "AUTHENTICATED" /\ player[c] # None
      /\ player[c].id # 0
  BY DEF AccountInv, LoginInv, Placed, PlayerPlaced, SearcherPlaced, Proved, UpdatePlayer,
     Sessions, SessionInv
<1>2. PICK q \in rows : /\ q.name = player[c].name
                        /\ q.password = player[c].password /\ q.email = player[c].email
  BY <1>1 DEF AccountInv, SessionInv, Stored
<1>3. r.name = player[c].name => r = q
  BY <1>2 DEF AccountInv, RowsInv, Untouched
<1>4. r \in Accounts
  BY DEF AccountInv, LoginInv, Types
<1> QED
  BY <1>2, <1>3, <1>4 DEF Written, Accounts

(* UPDATE changes no id and no name, whoever else writes.                  *)
LEMMA NamesKept ==
  ASSUME NEW c \in Sessions, AccountInv, NEW r \in rows
  PROVE  Written(c, r).id = r.id /\ Written(c, r).name = r.name
<1>1. r \in Accounts
  BY DEF AccountInv, LoginInv, Types
<1> QED
  BY <1>1 DEF Written, Accounts

LEMMA UpdatePlayerAccounts ==
  ASSUME NEW c \in Sessions, AccountInv, UpdatePlayer(c)
  PROVE  AccountInv'
<1>1. /\ at'[c] = "read" /\ rows' = {Written(c, r) : r \in rows}
      /\ UNCHANGED <<backend, sequence, foreign, state, player>>
  BY DEF UpdatePlayer, Goto, AccountInv, LoginInv, Types
<1>2. Kept(c) /\ May(c)
  BY UpdatePlayerKept DEF AccountInv, UpdatePlayer
<1>3. LoginInv' /\ AloneInv'
  BY <1>1, <1>2, Combine, AloneKept DEF AccountInv
<1>4. RowsInv'
  <2>1. ASSUME NEW s \in rows', NEW q \in rows', KeepsUnique, s.name = q.name PROVE s = q
    <3>1. PICK s0 \in rows : s = Written(c, s0)
      BY <1>1
    <3>2. PICK q0 \in rows : q = Written(c, q0)
      BY <1>1
    <3>3. s0 = q0
      BY <2>1, <3>1, <3>2, NamesKept DEF AccountInv, RowsInv
    <3> QED
      BY <3>1, <3>2, <3>3
  <2>2. \A s \in rows' : s.id # 0
    BY <1>1, NamesKept DEF AccountInv, RowsInv
  <2> QED
    BY <1>1, <2>1, <2>2 DEF RowsInv, AccountInv, KeepsUnique
<1>5. ASSUME Untouched, NEW p, Stored(p) PROVE Stored(p)'
  <2>1. PICK r \in rows : /\ r.id = p.id /\ r.name = p.name
                          /\ r.password = p.password /\ r.email = p.email
    BY <1>5 DEF Stored
  <2>2. Written(c, r) \in rows'
    BY <1>1
  <2> QED
    BY <1>5, <2>1, <2>2, OnlyCountryWritten DEF Stored
<1>6. ASSUME NEW n PROVE (Named(n) = {}) <=> (Named(n)' = {})
  BY <1>1, NamesKept DEF Named
<1>7. ASSUME NEW d \in Sessions PROVE SessionInv(d)'
  <2>1. SessionInv(d)
    BY DEF AccountInv
  <2>2. (at'[d] = at[d] /\ packet'[d] = packet[d]) \/ at'[d] = "read"
    BY <1>1, <1>2 DEF Kept, OthersKept
  <2>3. Untouched' <=> Untouched
    BY <1>1 DEF Untouched, KeepsUnique
  <2>4. d \in Players /\ (at'[d] = "auth" \/ state'[d] = "AUTHENTICATED") => player'[d].id # 0
    BY <1>1, <2>1, <2>2 DEF SessionInv
  <2>5. ~foreign' /\ at'[d] = "get" => (Named(packet[d].name) # {})'
    <3>1. SUFFICES ASSUME ~foreign', at'[d] = "get" PROVE (Named(packet[d].name) # {})'
      OBVIOUS
    <3>2. /\ Named(packet[d].name) # {} /\ packet'[d] = packet[d]
      BY <1>1, <2>1, <2>2, <3>1 DEF SessionInv
    <3>3. PICK r \in rows : r.name = packet[d].name
      BY <3>2 DEF Named
    <3>4. Written(c, r) \in rows' /\ Written(c, r).name = packet'[d].name
      BY <1>1, <3>2, <3>3, NamesKept
    <3> QED
      BY <3>4 DEF Named
  <2>6. d \in Players /\ backend' = "sqlite" /\ at'[d] = "create" => (Named(player[d].name) = {})'
    BY <1>1, <1>6, <2>1, <2>2 DEF SessionInv, Named
  <2>7. d \in Players /\ Untouched' /\ player'[d] # None /\ player'[d].id # 0 => Stored(player[d])'
    BY <1>1, <1>5, <2>1, <2>3 DEF SessionInv, Stored
  <2> QED
    BY <2>4, <2>5, <2>6, <2>7 DEF SessionInv
<1> QED
  BY <1>3, <1>4, <1>7 DEF AccountInv

(* Another program keeps ids and names, and what it destroys is not        *)
(* claimed once it has acted.                                              *)
LEMMA EditAccounts ==
  ASSUME AccountInv, Edit
  PROVE  AccountInv'
<1>1. LoginInv'
  BY EditKept DEF AccountInv
<1>2. /\ backend = "mysql" /\ foreign'
      /\ UNCHANGED <<backend, sequence, at, packet, state, player, login>>
  BY DEF Edit
<1>3. PICK r \in rows :
        \/ rows' = rows \ {r}
        \/ \E pw \in Passwords : rows' = (rows \ {r}) \cup {[r EXCEPT !.password = MD5(pw)]}
  BY DEF Edit
<1>4. r \in Accounts
  BY DEF AccountInv, LoginInv, Types
<1>5. RowsInv'
  <2>1. CASE rows' = rows \ {r}
    BY <1>2, <2>1 DEF AccountInv, RowsInv, KeepsUnique
  <2>2. CASE \E pw \in Passwords : rows' = (rows \ {r}) \cup {[r EXCEPT !.password = MD5(pw)]}
    <3>1. PICK pw \in Passwords : rows' = (rows \ {r}) \cup {[r EXCEPT !.password = MD5(pw)]}
      BY <2>2
    <3> DEFINE new == [r EXCEPT !.password = MD5(pw)]
    <3>2. new.id = r.id /\ new.name = r.name
      BY <1>4 DEF Accounts
    <3>3. rows' = (rows \ {r}) \cup {new}
      BY <3>1
    <3> HIDE DEF new
    <3> QED
      BY <1>2, <3>2, <3>3 DEF AccountInv, RowsInv, KeepsUnique
  <2> QED
    BY <1>3, <2>1, <2>2
<1>6. AloneInv'
  BY <1>2 DEF AloneInv
<1>7. ASSUME NEW d \in Sessions PROVE SessionInv(d)'
  BY <1>2 DEF AccountInv, SessionInv, Untouched
<1> QED
  BY <1>1, <1>5, <1>6, <1>7 DEF AccountInv

LEMMA RestartAccounts ==
  ASSUME AccountInv, Restart
  PROVE  AccountInv'
<1>1. LoginInv'
  BY RestartKept DEF AccountInv
<1>2. UNCHANGED db
  BY DEF Restart
<1>3. RowsInv' /\ AloneInv'
  BY <1>2 DEF AccountInv, RowsInv, AloneInv, KeepsUnique, db, Restart, AtQuery
<1>4. ASSUME NEW d \in Sessions PROVE SessionInv(d)'
  BY DEF SessionInv, Restart
<1> QED
  BY <1>1, <1>3, <1>4 DEF AccountInv

LEMMA ContinueAccounts ==
  ASSUME NEW c \in Sessions, AccountInv, Continue(c) \/ Leave(c)
  PROVE  AccountInv'
<1>1. CASE CreatePlayer(c)
  BY <1>1, CreatePlayerAccounts
<1>2. CASE UpdatePlayer(c)
  BY <1>2, UpdatePlayerAccounts
<1>3. CASE PlayerGone(c) \/ NameTaken(c) \/ Leave(c)
  <2>1. May(c) /\ End(c) /\ UNCHANGED db
    BY <1>3 DEF PlayerGone, NameTaken, Leave
  <2> QED
    BY <2>1, EndQuiet, QuietKept
<1>4. CASE HasPlayer(c) \/ GetPlayerByName(c)
  BY <1>4, HasPlayerQuiet, GetPlayerByNameQuiet, QuietKept
<1>5. CASE GetPlayerByMailAndPassword(c) \/ ReplySent(c)
  BY <1>5, GetPlayerByMailAndPasswordQuiet, ReplySentQuiet, QuietKept
<1> QED
  BY <1>1, <1>2, <1>3, <1>4, <1>5 DEF Continue

LEMMA StepAccounts ==
  ASSUME AccountInv, [Next]_vars
  PROVE  AccountInv'
<1>1. CASE \E c \in Sessions : Accept(c) \/ Answer(c) \/ Continue(c) \/ Leave(c)
  BY <1>1, AcceptQuiet, AnswerQuiet, ContinueAccounts, QuietKept
<1>2. CASE \E c \in Players : ChallengeSent(c) \/ Request(c) \/ AuthSent(c)
  BY <1>2, ChallengeSentQuiet, RequestQuiet, AuthSentQuiet, QuietKept DEF Sessions
<1>3. CASE \E c \in Searchers : Search(c)
  BY <1>3, SearchQuiet, QuietKept DEF Sessions
<1>4. CASE Edit
  BY <1>4, EditAccounts
<1>5. CASE Restart
  BY <1>5, RestartAccounts
<1>6. CASE UNCHANGED vars
  <2>1. LoginInv'
    BY <1>6, StepKept DEF AccountInv
  <2> QED
    BY <1>6, <2>1 DEF vars, AccountInv, RowsInv, AloneInv, KeepsUnique, SessionInv, Untouched,
       Stored, Named
<1> QED
  BY <1>1, <1>2, <1>3, <1>4, <1>5, <1>6 DEF Next

LEMMA AccountsCorrect == Spec => []AccountInv
<1>1. Init => AccountInv
  <2> SUFFICES ASSUME Init PROVE AccountInv
    OBVIOUS
  <2>1. LoginInv
    BY Initially
  <2>2. RowsInv /\ AloneInv
    BY LoginAssumption DEF Init, RowsInv, AloneInv, AtQuery
  <2>3. ASSUME NEW c \in Sessions PROVE SessionInv(c)
    BY DEF Init, SessionInv
  <2> QED
    BY <2>1, <2>2, <2>3 DEF AccountInv
<1>2. AccountInv /\ [Next]_vars => AccountInv'
  BY StepAccounts
<1> QED
  BY <1>1, <1>2, PTL DEF Spec

(* m_PlayerData: while no other program writes and names are unique, what  *)
(* a session remembers is its account, whatever other sessions do.         *)
THEOREM SessionHasAccountHolds == Spec => []SessionHasAccount
<1>1. AccountInv => SessionHasAccount
  BY DEF AccountInv, SessionInv, SessionHasAccount, Stored, Sessions
<1> QED
  BY <1>1, AccountsCorrect, PTL

(* HasPlayer, then GetPlayerByName or CreatePlayer: what the first query   *)
(* found out is so when the second is made.                                *)
THEOREM ChecksHoldHolds == Spec => []ChecksHold
<1>1. AccountInv => ChecksHold
  BY DEF AccountInv, SessionInv, ChecksHold, Sessions
<1> QED
  BY <1>1, AccountsCorrect, PTL

(* HandleSearchNicks: the password a session logged in with finds its      *)
(* account.  The response was made from the password that is stored, so    *)
(* that is the digest the search asks for.                                 *)
THEOREM LoginFindsAccountHolds == Spec => []LoginFindsAccount
<1>1. ASSUME AccountInv, Untouched,
             NEW c \in Players, NEW q \in Searchers, NEW pw \in Passwords,
             state[c] = "AUTHENTICATED",
             login[c].response = Response(player[c].name, MD5(pw), c),
             Asks(q, player[c], pw)
      PROVE  player[c].name \in Associated(q)
  <2>1. Proved(c) /\ player[c].id # 0
    BY <1>1 DEF AccountInv, LoginInv, SessionInv, Placed, PlayerPlaced, Sessions
  <2>2. player[c].password = MD5(pw)
    BY <1>1, <2>1 DEF Proved, Response
  <2>3. Stored(player[c])
    BY <1>1, <2>1 DEF AccountInv, SessionInv, Proved, Sessions
  <2>4. PICK r \in rows : /\ r.name = player[c].name /\ r.password = MD5(pw)
                          /\ r.email = player[c].email
    BY <2>2, <2>3 DEF Stored
  <2>5. r.email = Lower[packet[q].email] /\ r.password = Digest(packet[q].pass)
    BY <1>1, <2>4 DEF Asks, Digest
  <2> QED
    BY <2>4, <2>5 DEF Associated
<1>2. AccountInv => LoginFindsAccount
  BY <1>1 DEF LoginFindsAccount
<1> QED
  BY <1>2, AccountsCorrect, PTL

(* UpdatePlayer and CreatePlayer: no session takes an account away, and    *)
(* only the one that is logged in to it changes it.                        *)
THEOREM AccountsKeptHolds == Spec => AccountsKept
<1> DEFINE
  Same(r, q) == /\ q.id = r.id /\ q.name = r.name
                /\ q.password = r.password /\ q.email = r.email
  ByOwner(r) == \E c \in Players : /\ state[c] = "AUTHENTICATED"
                                   /\ login[c].name = r.name
                                   /\ UpdatePlayer(c)
<1>1. AccountInv /\ [Next]_vars =>
        (Untouched /\ ~foreign' => \A r \in rows : \E q \in rows' :
           /\ q.id = r.id /\ q.name = r.name
           /\ q.password = r.password /\ q.email = r.email
           /\ q.country # r.country =>
                \E c \in Players : /\ state[c] = "AUTHENTICATED"
                                   /\ login[c].name = r.name
                                   /\ UpdatePlayer(c))
  <2> SUFFICES ASSUME AccountInv, [Next]_vars, Untouched, ~foreign', NEW r \in rows
               PROVE  \E q \in rows' : Same(r, q) /\ (q.country # r.country => ByOwner(r))
    OBVIOUS
  <2>1. CASE r \in rows'
    BY <2>1
  <2>2. CASE \E c \in Sessions : UpdatePlayer(c)
    <3>1. PICK c \in Sessions : UpdatePlayer(c)
      BY <2>2
    <3>2. Written(c, r) \in rows'
      BY <3>1 DEF UpdatePlayer
    <3>3. /\ c \in Players /\ state[c] = "AUTHENTICATED"
          /\ login[c].name = player[c].name
      BY <3>1 DEF UpdatePlayer, AccountInv, LoginInv, Placed, PlayerPlaced, SearcherPlaced,
         Proved, Sessions
    <3>4. Same(r, Written(c, r)) /\ (Written(c, r).country # r.country => r.name = player[c].name)
      BY <3>1, OnlyCountryWritten
    <3>5. Written(c, r).country # r.country => ByOwner(r)
      BY <3>1, <3>3, <3>4
    <3> QED
      BY <3>2, <3>4, <3>5
  <2>3. (\E c \in Sessions : UpdatePlayer(c)) \/ rows \subseteq rows'
    <3>1. ~Edit
      BY DEF Edit
    <3>2. ASSUME NEW c \in Sessions, Continue(c), ~UpdatePlayer(c) PROVE rows \subseteq rows'
      BY <3>2 DEF Continue, HasPlayer, GetPlayerByName, PlayerGone, CreatePlayer, NameTaken,
         GetPlayerByMailAndPassword, ReplySent, db
    <3>3. ASSUME NEW c \in Sessions, Accept(c) \/ Answer(c) \/ Leave(c) PROVE rows' = rows
      BY <3>3 DEF Accept, Answer, Leave, db
    <3>4. ASSUME NEW c \in Players, ChallengeSent(c) \/ Request(c) \/ AuthSent(c)
          PROVE  rows' = rows
      BY <3>4 DEF ChallengeSent, Request, AuthSent, HandleLogin, HandleNewUser,
         HandleUpdateProfile, Ask, db
    <3>5. ASSUME NEW c \in Searchers, Search(c) PROVE rows' = rows
      BY <3>5 DEF Search, HandleProfileExists, HandleSearchNicks, Ask, db
    <3>6. Restart \/ UNCHANGED vars => rows' = rows
      BY DEF Restart, db, vars
    <3> QED
      BY <3>1, <3>2, <3>3, <3>4, <3>5, <3>6 DEF Next
  <2> QED
    BY <2>1, <2>2, <2>3
<1> QED
  BY <1>1, AccountsCorrect, PTL DEF Spec, AccountsKept

=============================================================================
