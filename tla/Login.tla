-------------------------------- MODULE Login --------------------------------
(***************************************************************************)
(* Player accounts: the login server (emulator/gpcm.client.cpp), the       *)
(* search server (emulator/gpsp.client.cpp) and the player database they   *)
(* share (emulator/playerdb.sqlite.cpp, emulator/playerdb.mysql.cpp).      *)
(*                                                                         *)
(* A session is one coroutine.  It can be overtaken by others where it     *)
(* waits for the network and, with MySQL, where it waits for a query; with *)
(* SQLite a query returns at once, which the model expresses by letting    *)
(* nobody else move while a session is at a query.                         *)
(*                                                                         *)
(* A digest is kept as a pair of its kind and what it is made from, so it  *)
(* equals another exactly if it is made from the same.                     *)
(***************************************************************************)
EXTENDS Naturals, FiniteSets

CONSTANTS
  Players,    \* sessions of the login server
  Searchers,  \* sessions of the search server
  Names, Passwords, Emails, Countries,
  Lower,      \* Lower[e]: e in lower case
  TooShort,   \* passwords of less than 3 or more than 30 characters
  Backends,   \* the databases that may be configured: "sqlite", "mysql"
  Unique,     \* whether the MySQL schema keeps names unique
  FIRST,      \* first id (2900001)
  MAXIDS,     \* bound: number of accounts created
  MAXOPEN,    \* bound: sessions open at the same time
  None

ASSUME LoginAssumption ==
  /\ Players \cap Searchers = {}
  /\ Lower \in [Emails -> Emails]
  /\ Backends \subseteq {"sqlite", "mysql"} /\ Unique \in BOOLEAN
  /\ FIRST \in Nat \ {0} /\ MAXIDS \in Nat /\ MAXOPEN \in Nat

Sessions == Players \cup Searchers

VARIABLES
  backend,    \* the database that is configured; constant
  rows,       \* table player
  sequence,   \* the next id
  at,         \* where the coroutine of a session is
  packet,     \* the packet it handles
  state,      \* m_State
  player,     \* m_PlayerData
  login,      \* auxiliary: the last login packet whose response was checked
  foreign     \* auxiliary: another program has edited the database

db == <<backend, rows, sequence, foreign>>
vars == <<backend, rows, sequence, at, packet, state, player, login, foreign>>

AtQuery == {"has", "get", "create", "update", "nicks"}
AtSend == {"challenge", "auth", "reply"}
Positions == AtQuery \cup AtSend \cup {"read", "closed"}

MD5(x) == <<"md5", x>>
Encoded(pw) == <<"passenc", pw>>

(* generate_challenge: of a name, a password and the challenges of session *)
(* c, which no other session, of now or before, has.                       *)
Response(n, pw, c) == <<"response", n, pw, c>>

Row(id, n, e, pw, k) ==
  [id |-> id, name |-> n, email |-> e, password |-> pw, country |-> k]

Init ==
  /\ backend \in Backends
  /\ rows = {}
  /\ sequence = FIRST
  /\ at = [c \in Sessions |-> "closed"]
  /\ packet = [c \in Sessions |-> None]
  /\ state = [c \in Players |-> "INITIALIZING"]
  /\ player = [c \in Players |-> None]
  /\ login = [c \in Players |-> None]
  /\ foreign = FALSE

-----------------------------------------------------------------------------
(* With SQLite a session at a query goes on before anybody else.           *)
May(c) == backend = "mysql" \/ \A d \in Sessions \ {c} : at[d] \notin AtQuery

Goto(c, p) == at' = [at EXCEPT ![c] = p]

(* Variant: the next session inherits the state and the player.            *)
EndKeepingPlayer(c) ==
  /\ Goto(c, "closed")
  /\ packet' = [packet EXCEPT ![c] = None]
  /\ UNCHANGED <<state, player, login>>

(* The session ends: closed by either side, or by an exception.            *)
End(c) ==
  /\ Goto(c, "closed")
  /\ packet' = [packet EXCEPT ![c] = None]
  /\ state' = [d \in Players |-> IF d = c THEN "INITIALIZING" ELSE state[d]]
  /\ player' = [d \in Players |-> IF d = c THEN None ELSE player[d]]
  /\ login' = [d \in Players |-> IF d = c THEN None ELSE login[d]]

(* AcceptClients: a login session begins by sending its challenge.         *)
Accept(c) ==
  /\ at[c] = "closed" /\ May(c)
  /\ Cardinality({d \in Sessions : at[d] # "closed"}) < MAXOPEN
  /\ Goto(c, IF c \in Players THEN "challenge" ELSE "read")
  /\ UNCHANGED <<db, packet, state, player, login>>

ChallengeSent(c) ==
  /\ at[c] = "challenge" /\ May(c)
  /\ state' = [state EXCEPT ![c] = "AUTHENTICATING"]
  /\ Goto(c, "read")
  /\ UNCHANGED <<db, packet, player, login>>

(* A packet begins a query.                                                *)
Ask(c, p, query) ==
  /\ at[c] = "read" /\ May(c)
  /\ packet' = [packet EXCEPT ![c] = p]
  /\ Goto(c, query)
  /\ UNCHANGED <<db, state, login>>

HandleLogin(c, n, r) ==
  /\ state[c] = "AUTHENTICATING"
  /\ Ask(c, [kind |-> "login", name |-> n, response |-> r], "has")
  /\ UNCHANGED player

(* Variant: an account can be made at any time.                            *)
NewUserAnytime(c, n, e, pw) ==
  /\ Ask(c, [kind |-> "newuser", name |-> n, email |-> e, password |-> pw], "has")
  /\ UNCHANGED player

HandleNewUser(c, n, e, pw) ==
  /\ state[c] = "AUTHENTICATING"
  /\ Ask(c, [kind |-> "newuser", name |-> n, email |-> e, password |-> pw], "has")
  /\ UNCHANGED player

HandleUpdateProfile(c, k) ==
  /\ state[c] = "AUTHENTICATED"
  /\ Ask(c, [kind |-> "updatepro"], "update")
  /\ player' = [player EXCEPT ![c].country = k]

HandleProfileExists(c, n) ==
  Ask(c, [kind |-> "check", name |-> n], "has") /\ UNCHANGED player

HandleSearchNicks(c, e, pass) ==
  /\ Ask(c, [kind |-> "nicks", email |-> e, pass |-> pass], "nicks")
  /\ UNCHANGED player

(* Any packet that is only answered: a malformed one, one the state does   *)
(* not allow, an unknown one, or getprofile of a session that is logged in.*)
Answer(c) ==
  /\ at[c] = "read" /\ May(c)
  /\ Goto(c, "reply")
  /\ UNCHANGED <<db, packet, state, player, login>>

(* A reply does not end the session, whether or not it is called fatal.    *)
ReplySent(c) ==
  /\ at[c] = "reply" /\ May(c)
  /\ Goto(c, "read")
  /\ packet' = [packet EXCEPT ![c] = None]
  /\ UNCHANGED <<db, state, player, login>>

AuthSent(c) ==
  /\ at[c] = "auth" /\ May(c)
  /\ state' = [state EXCEPT ![c] = "AUTHENTICATED"]
  /\ Goto(c, "read")
  /\ packet' = [packet EXCEPT ![c] = None]
  /\ UNCHANGED <<db, player, login>>

-----------------------------------------------------------------------------
(* The queries: each step is the completion of one.                        *)
Named(n) == {r \in rows : r.name = n}

(* HasPlayer, for login, check and newuser.                                *)
Found(c) ==
  /\ packet[c].kind \in {"login", "check"}
  /\ Named(packet[c].name) # {}
  /\ Goto(c, "get")
  /\ UNCHANGED player

(* Variant: the name is not looked for.                                    *)
FreeOrNot(c) ==
  /\ packet[c].kind = "newuser"
  /\ packet[c].password \notin TooShort
  /\ player' = [player EXCEPT ![c] =
       Row(0, packet[c].name, packet[c].email, MD5(packet[c].password), None)]
  /\ Goto(c, "create")

Free(c) ==
  /\ packet[c].kind = "newuser"
  /\ Named(packet[c].name) = {}
  /\ packet[c].password \notin TooShort
  /\ player' = [player EXCEPT ![c] =
       Row(0, packet[c].name, packet[c].email, MD5(packet[c].password), None)]
  /\ Goto(c, "create")

Refused(c) ==
  /\ IF packet[c].kind = "newuser"
     THEN Named(packet[c].name) # {} \/ packet[c].password \in TooShort
     ELSE Named(packet[c].name) = {}
  /\ Goto(c, "reply")
  /\ UNCHANGED player

HasPlayer(c) ==
  /\ at[c] = "has" /\ May(c)
  /\ Found(c) \/ Free(c) \/ Refused(c)
  /\ UNCHANGED <<db, packet, state, login>>

(* Variant: the answer to any challenge will do.                           *)
AnyChallenge(c, r) ==
  \E d \in Players : packet[c].response = Response(packet[c].name, r.password, d)

Proves(c, r) ==
  packet[c].response = Response(packet[c].name, r.password, c)

(* GetPlayerByName, for a login with the right response and with a wrong   *)
(* one, and for a check.                                                   *)
GetPlayerByName(c) ==
  /\ at[c] = "get" /\ May(c)
  /\ \E r \in Named(packet[c].name) :
       IF packet[c].kind = "login" /\ Proves(c, r)
       THEN /\ player' = [player EXCEPT ![c] = r]
            /\ login' = [login EXCEPT ![c] = packet[c]]
            /\ Goto(c, "auth")
       ELSE Goto(c, "reply") /\ UNCHANGED <<player, login>>
  /\ UNCHANGED <<db, packet, state>>

(* The row has gone since HasPlayer: an empty optional is dereferenced,    *)
(* and the best that can come of it is an exception.                       *)
PlayerGone(c) ==
  /\ at[c] = "get" /\ May(c)
  /\ Named(packet[c].name) = {}
  /\ End(c)
  /\ UNCHANGED db

(* Whether the schema has name UNIQUE.                                     *)
KeepsUnique == backend = "sqlite" \/ Unique

CreatePlayer(c) ==
  /\ at[c] = "create" /\ May(c)
  /\ KeepsUnique => Named(player[c].name) = {}
  /\ sequence < FIRST + MAXIDS
  /\ rows' = rows \cup {[player[c] EXCEPT !.id = sequence]}
  /\ sequence' = sequence + 1
  /\ player' = [player EXCEPT ![c].id = sequence]
  /\ Goto(c, "reply")
  /\ UNCHANGED <<backend, foreign, packet, state, login>>

(* The INSERT is refused: the exception ends the session.                  *)
NameTaken(c) ==
  /\ at[c] = "create" /\ May(c)
  /\ KeepsUnique /\ Named(player[c].name) # {}
  /\ End(c)
  /\ UNCHANGED db

(* Variant: what is remembered is taken for the password, and hashed.      *)
WrittenRehashed(c, r) ==
  IF r.name = player[c].name
  THEN [r EXCEPT !.password = MD5(player[c].password)]
  ELSE r

(* UPDATE ... WHERE name, with all that the session remembers.             *)
Written(c, r) ==
  IF r.name = player[c].name
  THEN [r EXCEPT !.password = player[c].password, !.email = player[c].email,
                 !.country = player[c].country]
  ELSE r

UpdatePlayer(c) ==
  /\ at[c] = "update" /\ May(c)
  /\ rows' = {Written(c, r) : r \in rows}
  /\ Goto(c, "read")
  /\ packet' = [packet EXCEPT ![c] = None]
  /\ UNCHANGED <<backend, sequence, foreign, state, player, login>>

(* Variant: the password is looked for as it was sent.                     *)
DigestInClear(pass) == pass

(* The digest a search asks for: of the password in the clear, or of the   *)
(* encoded password, which passdecode has decoded for nothing.             *)
Digest(pass) == MD5(pass)

Associated(c) ==
  {r.name : r \in {q \in rows : /\ q.email = Lower[packet[c].email]
                                /\ q.password = Digest(packet[c].pass)}}

(* The reply lists Associated(c), or is an error if that is empty.         *)
GetPlayerByMailAndPassword(c) ==
  /\ at[c] = "nicks" /\ May(c)
  /\ Goto(c, "reply")
  /\ UNCHANGED <<db, packet, state, player, login>>

(* The database fails, also because another session uses its connection;   *)
(* a client leaves, or logs out.                                           *)
Leave(c) ==
  /\ at[c] # "closed" /\ May(c)
  /\ at[c] \in AtQuery => backend = "mysql"
  /\ End(c)
  /\ UNCHANGED db

(* Another program that works on the same MySQL database.                  *)
Edit ==
  /\ backend = "mysql"
  /\ \E r \in rows :
       \/ rows' = rows \ {r}
       \/ \E pw \in Passwords :
            rows' = (rows \ {r}) \cup {[r EXCEPT !.password = MD5(pw)]}
  /\ foreign' = TRUE
  /\ UNCHANGED <<backend, sequence, at, packet, state, player, login>>

(* The process is restarted; the database stays.                           *)
Restart ==
  /\ at' = [c \in Sessions |-> "closed"]
  /\ packet' = [c \in Sessions |-> None]
  /\ state' = [c \in Players |-> "INITIALIZING"]
  /\ player' = [c \in Players |-> None]
  /\ login' = [c \in Players |-> None]
  /\ UNCHANGED db

Continue(c) ==
  \/ HasPlayer(c) \/ GetPlayerByName(c) \/ PlayerGone(c)
  \/ CreatePlayer(c) \/ NameTaken(c) \/ UpdatePlayer(c)
  \/ GetPlayerByMailAndPassword(c)
  \/ ReplySent(c)

Request(c) ==
  \/ \E n, m \in Names, pw \in Passwords, d \in Players :
       HandleLogin(c, n, Response(m, MD5(pw), d))
  \/ \E n \in Names, e \in Emails, pw \in Passwords : HandleNewUser(c, n, e, pw)
  \/ \E k \in Countries : HandleUpdateProfile(c, k)

Search(c) ==
  \/ \E n \in Names : HandleProfileExists(c, n)
  \/ \E e \in Emails, pw \in Passwords :
       \/ HandleSearchNicks(c, e, pw)
       \/ HandleSearchNicks(c, e, Encoded(pw))

Next ==
  \/ \E c \in Sessions : Accept(c) \/ Answer(c) \/ Continue(c) \/ Leave(c)
  \/ \E c \in Players : ChallengeSent(c) \/ Request(c) \/ AuthSent(c)
  \/ \E c \in Searchers : Search(c)
  \/ Edit
  \/ Restart

Spec == Init /\ [][Next]_vars

-----------------------------------------------------------------------------
LoginPackets ==
  [kind : {"login"}, name : Names,
   response : {Response(n, MD5(pw), c) : n \in Names, pw \in Passwords, c \in Players}]
NewUserPackets ==
  [kind : {"newuser"}, name : Names, email : Emails, password : Passwords]
CheckPackets == [kind : {"check"}, name : Names]
NicksPackets ==
  [kind : {"nicks"}, email : Emails,
   pass : Passwords \cup {Encoded(pw) : pw \in Passwords}]
Packets ==
  LoginPackets \cup NewUserPackets \cup [kind : {"updatepro"}]
    \cup CheckPackets \cup NicksPackets

Accounts ==
  [id : Nat, name : Names, email : Emails, password : {MD5(pw) : pw \in Passwords},
   country : Countries \cup {None}]

ASSUME NoneAssumption == None \notin Packets /\ None \notin Accounts

Types ==
  /\ backend \in Backends
  /\ rows \subseteq Accounts
  /\ sequence \in Nat
  /\ at \in [Sessions -> Positions]
  /\ packet \in [Sessions -> Packets \cup {None}]
  /\ state \in [Players -> {"INITIALIZING", "AUTHENTICATING", "AUTHENTICATED"}]
  /\ player \in [Players -> Accounts \cup {None}]
  /\ login \in [Players -> LoginPackets \cup {None}]
  /\ foreign \in BOOLEAN

(* The values of the variables, and where a session is as its state and    *)
(* what it remembers allow: a session that ended left nothing behind for   *)
(* the next, and nobody is at a query without what it is about.            *)
TypeOK ==
  /\ Types
  /\ \A c \in Sessions : at[c] \in AtQuery => packet[c] # None
  /\ \A c \in Players :
       /\ state[c] = "INITIALIZING" <=> at[c] \in {"closed", "challenge"}
       /\ at[c] \in {"create", "auth", "update"} => player[c] # None

(* Who is logged in has answered the challenge of this very session, with  *)
(* the password of the account the session acts for: neither the answer to *)
(* another session's challenge nor an account made in between gets it one. *)
AuthenticatedProved ==
  \A c \in Players : state[c] = "AUTHENTICATED" =>
    /\ player[c] # None
    /\ login[c] # None
    /\ login[c].name = player[c].name
    /\ login[c].response = Response(player[c].name, player[c].password, c)

(* No program but this one has written to the database, and names are      *)
(* unique.                                                                 *)
Untouched == KeepsUnique /\ ~foreign

(* What a session remembers is an account: the id a client is told is the  *)
(* one its account is stored under, and the password UpdatePlayer writes   *)
(* back is the one stored.                                                 *)
SessionHasAccount ==
  Untouched => \A c \in Players : player[c] # None /\ player[c].id # 0 =>
    \E r \in rows : /\ r.id = player[c].id /\ r.name = player[c].name
                    /\ r.password = player[c].password
                    /\ r.email = player[c].email

(* What HasPlayer found out still holds when the next query relies on it:  *)
(* GetPlayerByName returns a player, which HandleLogin and                 *)
(* HandleProfileExists dereference without asking, and with SQLite the     *)
(* name of a new account is still free.                                    *)
ChecksHold ==
  /\ ~foreign => \A c \in Sessions :
       at[c] = "get" => Named(packet[c].name) # {}
  /\ backend = "sqlite" => \A c \in Players :
       at[c] = "create" => Named(player[c].name) = {}

(* No session takes an account away or changes its name, password or       *)
(* address, and only one that is logged in to it changes its country.      *)
AccountsKept ==
  [][Untouched /\ ~foreign' => \A r \in rows : \E q \in rows' :
       /\ q.id = r.id /\ q.name = r.name
       /\ q.password = r.password /\ q.email = r.email
       /\ q.country # r.country =>
            \E c \in Players : /\ state[c] = "AUTHENTICATED"
                               /\ login[c].name = r.name
                               /\ UpdatePlayer(c)]_vars

(* A search for account r that carries pass.                               *)
Asks(c, r, pass) ==
  /\ at[c] = "nicks"
  /\ packet[c].email = r.email /\ Lower[r.email] = r.email
  /\ packet[c].pass = pass

(* The password that logs in is the password that searches: whoever gave   *)
(* the login server the right response made with pw is told the name of    *)
(* the account by the search server when asking with pw and the address,   *)
(* in lower case, whatever has happened to the table since.                *)
LoginFindsAccount ==
  Untouched => \A c \in Players, q \in Searchers, pw \in Passwords :
    /\ state[c] = "AUTHENTICATED"
    /\ login[c].response = Response(player[c].name, MD5(pw), c)
    /\ Asks(q, player[c], pw)
    => player[c].name \in Associated(q)

(* The request that the comment in SearchClient::Process lists, "nicks     *)
(* (email, passenc, ...)", does so with the encoded password.              *)
PassencFindsAccount ==
  \A c \in Searchers, r \in rows, pw \in Passwords :
    Asks(c, r, Encoded(pw)) /\ r.password = MD5(pw) => r.name \in Associated(c)
=============================================================================
