# TLA+ models of the GameSpy emulator

The program under `src/emulator/` replaces the GameSpy services that Battlefield 2
(and other games of its time) depend on: game servers announce themselves, players
log in, and clients ask for a list of servers. It is one process with one
`io_context`, run by one thread (`main.cpp`). Every server is a set of C++20 coroutines on
that context, so no two statements ever run at once: **a handler is atomic up to the next
`co_await` that really suspends**, and all concurrency hazards of the code are about
state that is read before such a point and used after it. That sentence is the
granularity of every model here.

## The system

| component | state | operations | talks to |
|---|---|---|---|
| Master server, UDP (`master.cpp`) | `m_AwaitingValidation`, `m_Validated`: endpoint -> entry; cleanup timer | heartbeat, keepalive, challenge reply, availability; periodic `Cleanup` | game tables (writes) |
| Server browser, TCP (`ms.cpp`, `ms.client.cpp`) | per session: cipher, receive buffer, channel of 10 updates, two signal slots | request, list, push of updates | game tables (reads, listens) |
| Game tables (`game.cpp`, `bf2.cpp`, `sqlite.cpp`) | one in-memory SQLite table per game, cache of columns, two signals | `AddOrUpdateServer`, `RemoveServers`, `GetServers` | called by master, browser, admin |
| Game database (`gamedb.cpp`) | the set of games, fixed after start | lookup | everyone |
| Login server, TCP (`gpcm*.cpp`) | per session: `m_State`, `m_PlayerData`, challenge | login, newuser, getprofile, updatepro, logout | player database |
| Player search, TCP (`gpsp*.cpp`) | none | nicks, check | player database |
| Player database (`playerdb*.cpp`) | table `player`, SQLite or MySQL | has, get, search, create, update | login, search |
| Stats server, TCP (`stats*.cpp`) | per session: challenge, authenticated or not | auth, snapshot forwarded over HTTP | an HTTP endpoint |
| CD-key server, UDP (`key.cpp`) | none | one reply per datagram | - |
| HTTP and admin servers (`http*.cpp`, `admin.cpp`) | per connection: a timer | requests under a timeout; the admin API edits game tables | game tables |
| Supervision (`emulator.cpp`, `main.cpp`) | the running servers | start, stop on a signal | all |
| Parsing and formatting (`qr.cpp`, `sb_request.cpp`, `utils.cpp`, `sapphire.cpp`, `md5.cpp`) | cipher state | pure functions | all |
| Client patches, redirector (`bf2-dlls/`, `redirect/`) | - | patches and API detours of a Windows process | - |

What is hard about it, component by component, and what makes each correct:

- **Master.** `HandleChallenge` holds an iterator while its reply is sent, and `Cleanup`
  runs meanwhile. Two maps and one table per game have to agree through sends and stores
  that fail. UDP loses challenges. Correct means: only validated servers are listed, a
  validated server is listed, an entry expires when it should and takes exactly its rows
  along, an outstanding challenge can still be answered, and a silent server disappears.
- **Browser.** TCP delivers bytes in any pieces. A list is sent row by row while rows
  change. Signals arrive at any moment, and the cipher is a stream. Correct means: packets
  are cut where they begin, a list is of one moment, every message is encrypted in the order
  it is sent, updates are kept in order, and slots never outlive their session.
- **Login and search.** "Is the name free" and "create it" are two queries, as are "is there such
  a player" and "get him"; with MySQL both pairs can be split by another session.
  Correct means: a session is logged in only with proof for that session, what a session
  remembers is its account, and no session disturbs somebody else's account.
- **Game tables.** Columns are added while the table is used and the cache of
  columns holds views into another container. Correct means: cache and table agree
  and pointers stay valid.
- **Stats, HTTP, admin.** A timer fires once and cancels what happens to be outstanding;
  a remote endpoint may never answer. Correct means: connections end, sessions survive
  the failures they should.
- **Supervision.** Which failure ends which server.

`PROJECT.json` lists each of these hazards with the line where it bites.

## Modules

| module | models | proofs |
|---|---|---|
| `Master` | `master.cpp`, with the tables it fills and the admin interface as a second writer | `MasterProofs` |
| `Directory` | abstract: what the master promises to those who read its list | |
| `PacketReader` | the generator `packet_reader` of `ms.client.cpp` | `PacketsProofs` |
| `Browser` | the sessions of `ms.client.cpp` with the signals of `game.cpp` | `BrowserProofs` |
| `Login` | `gpcm.client.cpp`, `gpsp.client.cpp` and the player database | `LoginProofs` |
| `GameTable` | the table of one game: `game.cpp`, `sqlite.cpp` | `GameTableProofs` |
| `Services` | `emulator.cpp`, `main.cpp`, and the sessions of `http.client.cpp`, `admin.cpp` and `stats.client.cpp`; `key.cpp` | `ServicesProofs` |
| `Texts` | strings that end with a zero, as several parsers read them | |
| `ListProtocol` | `sb_request.cpp`, the keys of `gamedb.cpp`, the filter of `bf2.cpp` | `FormatsProofs` |
| `Packets` | `qr.cpp`, `value_for_key` of `utils.cpp` | `PacketsProofs`, `FormatsProofs` |
| `VideoFallback` | the choice of a video mode in `client-video-fallback.cpp` | `FormatsProofs` |
| `Sapphire` | the cipher `sapphire.cpp`, and a connection it is used on | `FormatsProofs` |
| `Formats` | the formats together: each given one of its inputs, or a connection in use | `FormatsProofs` |
| `Folding` | lemmas about `FoldLeft`, with which the formats are read and written | (itself) |
| `MC...` | instances of these for TLC: model values, the constants that are functions, symmetry | |

Definitions marked "Variant" in a module are ways the definition after them could be
wrong. Nothing uses them: each is there so that one can be put in its place, to see
that some property tells the difference. `PROJECT.json` says which property that is.

### Master

One entry of `m_AwaitingValidation` is `awaiting[c]` (the age of `last_update`, game,
values, and whether the game server knows the proof it is to send); one of `m_Validated`
is `validated[c]`. `table[g][c]` is the row of endpoint `c` in the table of game `g`.

| code | action |
|---|---|
| `HandleHeartbeat`: validated / unknown / pending endpoint | `UpdateServer`, `SendChallenge`, `RefreshPending` |
| `HandleKeepAlive` | `HandleKeepAlive` |
| `HandleAvailable` | `HandleAvailable` |
| `HandleChallenge` to its `co_await` / wrong proof | `AcceptProof` / `RejectProof` |
| `HandleChallenge` after its `co_await` / after its entry was erased | `ListServer` / `UseErasedEntry` |
| other replies, a failing reply, the end of the receive loop | `FinishReply`, `SendFails`, `ReceiveEnds` |
| one round of `Cleanup` | `Cleanup` |
| the clock, the network | `Tick`, `DeliverChallenge` |
| the admin API, a restart of the process | `AdminAdd`, `AdminRemove`, `Restart` |

`Cleanup` can erase the entry whose iterator `HandleChallenge` holds. What follows in
C++ is undefined; `UseErasedEntry` lets it do nothing or store some row, and sets
`undefined`. A crash is `Restart`. Properties that cannot survive that exclude
states after it; `OnlyReachedListed` and `AgeBound` do not need to.

`Directory` knows a lease per server and nothing else: it can be renewed, grows older but
never older than a limit, and ends only when it is older than the timeout or when
everything is forgotten. `ImplementsDirectory` maps the age of a validated, listed entry
to it. The rows an administrator may edit (`Edited`) are counted as present: whoever removes
a row by hand breaks no promise of the master.

### PacketReader and Browser

`PacketReader` keeps the stream of a client as two functions of the position, the
number found there and whether a known type follows, so nothing but the reader's own
arithmetic keeps it on packet boundaries. `Read(n)` is one completion of
`async_read_some`; `ParsePacket` is one pass of the inner loop.

In `Browser` a step is what a session does from the completion of one operation to the
start of the next. `Called` is a signal reaching a slot: it puts an update into the channel
of the session if there is room, and throws if the row has a value the keys of
the session cannot carry, in which case the slots after it are not called. A message on the wire carries the
number of the encryption that made it.

### Login

A session is a program counter (`at`) with the packet it handles. Each query is a step
of its own. `backend` is the database that is configured: with MySQL others move in
between, with SQLite, where every query returns at once, nobody does. A digest is a pair of
its kind and what it is made from. `Edit` is another program on the same MySQL database, whose
schema is shared with bf2stats (`rank_id` exists "for compatibility with bf2stats"), and
`foreign` says that it has acted. `GetPlayerByName` on a row that has gone returns no value, which both
callers dereference: `PlayerGone` ends the session.

### GameTable

`columns` are those of the SQLite table, `params` the names in `m_Data.keys` and `m_Params`, and
`room` how many elements the vector can still take before it moves. An update runs to
its end, but may fail on the way: `RefuseName` is a name no column can have, `AlterFails` a failing
`ALTER TABLE` after some that succeeded, `Insert` the rest. Names that differ in case name one
column, a word of SQL none. When the vector moves, all that `m_Params` held by then goes into `stale`, and what a
lookup gives for a stale name is any answer (`Found`).
`Master` and `Browser` see only that a store succeeds or fails.

### Services

`launch` is how far `Launch` has come. A session is a `step`, the operation it waits for,
with the state of that operation and of its timer: both have a completion that is queued before it is
handled, so the timer can go between the end of one operation and the start of the next.
`cancel()` fails only what is pending; `close()` also what is started later. `beast`
transfers a message in parts (`Part`), each an operation of its own. A queued timer handler that
outlives its session sets `undefined`, as does the page of a player
who has gone. `stored` is what the snapshot endpoint has received of a session.

### Formats

`ListProtocol`, `Packets` and `VideoFallback` are algorithms, written as operators over
sequences of bytes (or of tokens, where only the order of words matters). What the code writes is
read back by an operator that follows the description of the format and not the code
(`ReadList`, `Literal`), and what the code reads is made by another (`Request`, `Beat`, `Text`).
`Sapphire` has the cipher for any number of cards and a connection on which server and client each keep
a deck, with bytes under way in between. `Formats` hands each input to its format, and says of which kind
the inputs are (`IsRequest`, `IsList`, `IsFilter`, `IsBeat`, `IsText`): TLC evaluates that for the inputs of the run, the theorems need no more of them.

## Runs

All of them search exhaustively the states of their instance; each takes less than a minute with two workers.

| run | instance | checks |
|---|---|---|
| `master_orderly` | 2 servers, one of them naming 2 games; sends and stores succeed; fairness | `ValidatedIsListed`, `ListedHasLease`, `Delisted` |
| `master_faults` | the same with every fault, and an administrator who edits a row | `TypeOK`, `AgeBound`, `OnlyReachedListed`, `ChallengeKept`, `RowsKept`, `ImplementsDirectory` |
| `master_seen` | 1 server, 2 games | violates `SeenWhereValidated` |
| `reader` | buffer of 7, streams of 10 bytes; fairness | `RoomToRead`, `PacketReceived`, `PacketsAreStream`, `NothingWithheld`, `AllReceived` |
| `browser` | two scenes: 1 session over 3 servers with lists of at most 2 rows; 2 sessions over 1 server whose row cannot be sent to one; channel of 2; fairness | `TypeOK`, `SlotsAreLive`, `ListIsSnapshot`, `CipherInStep`, `QueueLeadsToTable`, `OneSendAtATime`, `ListEnds` |
| `browser_push` | the same without faults | violates `PushKeepsSession` |
| `login` | 2 login sessions and 1 search session, any 2 of them open; 2 names, 2 passwords of which one is too short; SQLite and MySQL | `TypeOK`, `ChecksHold`, `AuthenticatedProved`, `SessionHasAccount`, `LoginFindsAccount`, `AccountsKept` |
| `login_passenc` | 1 login and 1 search session, SQLite | violates `PassencFindsAccount` |
| `game_table` | 2 servers that send any of 5 names, each update with one of 2 values; the vector is full or has room for one | `TypeOK`, `CachedHaveColumn`, `RefusalHasCause`, `ListShowsLastUpdate`, `RefusedChangesNoRow` |
| `game_keys` | the same with 1 value | violates `ParamsReferToKeys` |
| `services` | all servers, one connection, an HTTP timeout of 3 and an admin timeout of 2; fairness | `DatabasesOutliveServers`, `SnapshotsInOrder`, `AdminEnds`, `HttpEnds` |
| `formats` | inputs of each format; a connection of 8 cards and up to 6 bytes | `ListReadBack`, `PacketReadBack`, `ClosestModeSet`, `ReadIsSent` |

Deadlock is checked where the system never stops. It may stop in `reader` (a stream ends),
in `services` (the process does) and in `formats` (an input is a final state).

### Why the bounds are enough

- *Master.* One unit of time is 30 seconds, so `TIMEOUT = PERIOD = 2` is the ratio of the
  code with a moment strictly inside a period; an entry can expire just before, at, and just after
  a cleanup. Two endpoints are needed for one to disturb the other, two games
  for rows an endpoint leaves behind; no code relates three of either. Values are one:
  the handlers pass them on and compare nothing.
- *PacketReader.* Seven bytes hold two headers and a rest, so there are two packets in a
  buffer, a packet that spans two reads, a compaction with something left, a packet of exactly
  the buffer's size and one that is a byte longer. Lengths below the header are included.
- *Browser.* A limit of 2 over 3 rows cuts a list; a channel of 2 is filled. Two sessions
  are enough for one slot to be called after another that throws.
- *Login.* Two sessions race for one name; the second name is there for one session to
  be disturbed by what another does to an account that is not its own. The password that is too
  short gets into the table through the other program, so a session may remember one password
  while the table holds the other. `MAXIDS` bounds the accounts created to two, and `MAXOPEN` the
  sessions open at once: the code relates a session to one other at most, through one row.
- *GameTable.* The five names are one of each kind: configured, free, the same column as
  another, a word of SQL, no name at all. An update may have any of them, so a failure can come
  before, between and after additions. Two servers are enough for one to harm the other. The
  policy that adds no columns is covered by the proofs only.
- *Services.* Sessions share nothing but the servers that accept them and the passing of time, so one
  connection, used again and again for sessions of every kind, shows what they do. The
  timeouts differ and leave room for several operations before, at and after the moment
  they go; three snapshots make a gap and a swap possible. The server that stands for
  all others (`Others`) only ends.
- *Formats.* Each input set has the shapes the code tells apart: empty and missing values, numbers
  at 255 and 256, challenges with zeros and backslashes, one row and two, a second column; for a heartbeat keys that come
  twice, cells that end like a header does, teams without rows, and every place it can be cut at. Eight cards are few enough for
  the places of a deal to coincide, and six bytes enough for several to be under way; the proofs are for any number of both.

### Fairness

- `master_orderly`: weak fairness of `Tick`, `Cleanup` and `Resume`: timers of a
  `steady_timer` expire and a started `async_send_to` of a datagram completes. Nothing
  is assumed of game servers or of the network.
- `reader`: the reader is resumed, and bytes that have been sent arrive.
- `browser`: a started operation of a session completes, i.e. the client reads. The code has
  no timeout there, so without this assumption `ListEnds` is false.
- `services`: time passes, queued handlers run (the `io_context` runs them in the order they
  were queued) and database queries end. Nothing is assumed of peers and of the
  snapshot endpoint: a session of the stats server may wait for ever, and no property says otherwise.

### What the runs show against the code

- `master_seen`: a heartbeat of a validated server is stored in the game *it names*,
  though the server was challenged with the key of another one; and only the row of the
  game it was validated for is ever cleaned up (`master.cpp:107-116`, `:41-44`).
- `browser_push`: after forwarding an update `Process` goes on to treat the result of its
  wait as a packet (`ms.client.cpp:160`); `std::get` throws, and the first update
  a session forwards ends it.
- `login_passenc`: a search with an encoded password decodes it and then hashes the
  encoded form (`gpsp.client.cpp:35-36`), so it never finds an account.
- `game_keys`: the first new key that does not fit makes the vector of keys move, and `m_Params` is left with
  references to freed memory (`game.cpp:218`).

`HttpEnds` holds as it is stated: "the connection should never last more than 15 seconds"
(`http.client.cpp:223`) is true except of a session whose timer goes while it asks the
database or while the completion of a part is queued. Nothing cancels what it starts then.

More was met while modelling that has no property, because nothing in the code says what
is intended:

- An address is stored as typed and searched for in lower case (`gpcm.client.cpp:145`,
  `gpsp.client.cpp:45`).
- `UPDATE ... WHERE name` (`playerdb.mysql.cpp:95`) gives two accounts one password if the MySQL schema
  does not keep names unique. `login` assumes that it does (`Unique`).
- Options of a list request are flags, but compared as a number: `limit_result_count` together with any
  other is refused (`sb_request.cpp:54`). A row without data, which only an administrator
  can make, is sent without the flag `has_keys` and misread (`sb_request.cpp:247`).
- A request for 256 fields without a name is let through, and the header announces none of them: their number is cast
  to a byte (`sb_request.cpp:168`).
- An empty cell of a heartbeat moves the cells after it, and a table of players that cannot be
  read is taken for none (`qr.cpp:105`). A value that equals the name of a key confuses `value_for_key`.
- A filter for a hostname that contains `%'` ends there, and one that contains the word of
  another condition is changed (`bf2.cpp`).
- After `-h`, and after the last server has ended, the process goes on running nothing; one failing accept ends a
  server for good.
- On the error path of a statement that cannot be prepared its database is never set (`sqlite.h:127`,
  `sqlite.cpp:165`).

## Proofs

| theorem | says, for every value of the constants |
|---|---|
| `MasterProofs!TypeCorrect` | types; a stored game name is always known, so `GetGame` never throws in `Cleanup` |
| `MasterProofs!AgeBoundHolds` | no entry gets older than `TIMEOUT + PERIOD`, whatever fails |
| `MasterProofs!OnlyReachedListedHolds` | no endpoint is listed that no challenge has reached |
| `MasterProofs!ChallengeKeptHolds` | an outstanding challenge stays answerable |
| `MasterProofs!RowsKeptHolds` | a row goes by the silence of its own endpoint, by hand or with a restart |
| `MasterProofs!ImplementsDirectoryHolds` | every behaviour of the master is one of `Directory` |
| `MasterProofs!ValidatedIsListedHolds` | without faults, a validated server has its row |
| `MasterProofs!ListedHasLeaseHolds` | without faults, a row of a server of one game has an entry that `Cleanup` will find |
| `PacketsProofs!RoomToReadHolds` | the reader never waits with a full buffer |
| `PacketsProofs!PacketReceivedHolds` | a packet handed out has been received |
| `PacketsProofs!PacketsAreStreamHolds` | the packets are those of the stream, in order, without gaps |
| `PacketsProofs!NothingWithheldHolds` | the reader waits only for bytes its next packet lacks |
| `BrowserProofs!TypeOKHolds` | types; a channel holds no more than its buffer and one update handed over |
| `BrowserProofs!SlotsAreLiveHolds` | a slot is of a session whose list is complete, and there once |
| `BrowserProofs!CipherInStepHolds` | messages are sent in the order of their encryption |
| `BrowserProofs!ListIsSnapshotHolds` | a list is the selection of one moment, each row once |
| `BrowserProofs!OneSendAtATimeHolds` | nothing is pushed in between |
| `BrowserProofs!QueueLeadsToTableHolds` | what a session has queued leads from the table it has sent to the table as it is |
| `LoginProofs!TypeCorrect` | types; a session is where its state and packet allow |
| `LoginProofs!AuthenticatedProvedHolds` | who is logged in has answered the challenge of this session with the password of the account it acts for |
| `LoginProofs!SessionHasAccountHolds` | what a session remembers is its account |
| `LoginProofs!ChecksHoldHolds` | what `HasPlayer` found out holds when it is relied on |
| `LoginProofs!AccountsKeptHolds` | no session disturbs the account of another |
| `LoginProofs!LoginFindsAccountHolds` | the password a session logged in with finds its account in a search by address and password |
| `GameTableProofs!TypeOKHolds` | types of table and cache |
| `GameTableProofs!CachedHaveColumnHolds` | a cached key has its column |
| `GameTableProofs!RefusalHasCauseHolds` | an update that keeps to the known keys is not refused |
| `GameTableProofs!ListShowsLastUpdateHolds` | a list shows what each server said last |
| `GameTableProofs!RefusedChangesNoRowHolds` | a failing update changes no row |
| `GameTableProofs!ParamsReferUntilKeysAdded` | `m_Params` refers to the keys until the first is added, and always where none are |
| `ServicesProofs!TypeOKHolds` | types; a timer runs only for a session that has one |
| `ServicesProofs!DatabasesOutliveServersHolds` | the databases stay until the last server has ended |
| `ServicesProofs!SnapshotsInOrderHolds` | the endpoint gets the snapshots of a session in order, without a gap |
| `ServicesProofs!WaitIsTimedHolds` | a session of HTTP or of the administration that waits for its peer has a timer to go, or escaped it |
| `FormatsProofs!DecryptInverts` | `decrypt` undoes `encrypt`, for every deck and byte |
| `FormatsProofs!ReadIsSentHolds` | the client reads what was sent, however far behind it is |
| `FormatsProofs!InitializeIsWhole` | the deck that is made of a key, whatever key that is not empty, has every card once |
| `FormatsProofs!DeckIsWholeHolds` | such a deck loses no card while it is used |
| `FormatsProofs!ClosestModeChosen`, `ClosestModeSetHolds` | the mode that is set is known, and none is closer to what was asked for |
| `FormatsProofs!RequestIsReadBack` | every request arrives as it was sent, and no beginning of one is taken for a request |
| `FormatsProofs!ListIsReadBack` | the client reads the rows a list was made of, however many, or nothing was sent |
| `FormatsProofs!NameIsReadBack` | a filter asks for the name that was typed, whatever quotes are in it |
| `FormatsProofs!ListReadBackHolds` | these three, of every state of the run |
| `PacketsProofs!HeartbeatIsReadBack` | a heartbeat is read as it was sent, and one that was cut, wherever, gives nothing that was not sent and no part of a table's rows |
| `PacketsProofs!TextIsReadBack` | a value of a text packet is found as it was sent, and only if it was sent |
| `FormatsProofs!PacketReadBackHolds` | these two, of every state of the run |
| `Folding!FoldConcat` | a fold of one sequence behind another is the fold of the second from what the first has left |

They assume what the modules' `ASSUME`s say, which TLC evaluates in the runs: types of the constants, that `None` is no
value, in `Sapphire` that xor is its own inverse, in `GameTable` that `Connect` has accepted the configuration, and in
`Formats` of which kind the inputs are; none of these bounds a number or a length but where the code does.

- **`AgeBound`.** Inductive together with `TypeOK`: `age + timer` does not change when a
  second passes, and when the timer starts anew `Cleanup` has just removed everything older than
  `TIMEOUT`. `AcceptProof` copies a stamp, so it copies the bound.
- **`OnlyReachedListed`.** A row is written from an entry, so `ReachedInv` says the same
  of everything that leads to one: a known proof, a validated entry, the held
  iterator. With it the erased entry does no harm: what is stored is stored for the
  endpoint of `iter`.
- **`ChallengeKept`, `RowsKept`.** One case per action, from `TypeOK` alone.
- **`ImplementsDirectory`.** A cleanup can erase the pending entry of an endpoint and keep its validated one,
  or the reverse. `YoungerInv` says that the pending one is no older, so a cleanup that ends a
  lease ends it for its age.
- **`ValidatedIsListed`, `ListedHasLease`.** Between `AcceptProof` and `ListServer` an
  endpoint is in both maps. `EntryInv` says that this is the only time it is, and that its two
  entries then agree in age and game: hence they expire together, and
  no cleanup in between leaves a row without an entry. `RowInv` is the two
  properties themselves. Both are needed for every step, so `OrderlyInv` is their conjunction.
- **`PacketReader`.** `ReaderInv` says where the next packet begins: at the end of the
  last one handed out (`EndOf(packets)`). It is an equation between positions in the stream
  and positions in the buffer, and compaction must preserve it.
- **`Browser`.** `BrowserInv` says of each session three things, each of which no step of another disturbs: its messages are
  numbered up to its cipher (`CipherInv`); it is on a slot, or has something in its channel, only when the
  end of its list is on the wire (`PushInv`); and the rows sent with those still to be sent are the
  rows selected (`ListInv`). That no session is in the slots twice is needed so that leaving removes it.
  `QueueLeadsToTable` follows the table a session knows: `TrackInv` says that the queued updates, applied in
  order to what was sent when the slots were connected, give the present table, as long as no update was refused by a full channel or a
  throwing slot. One more update at the end of the queue and one more change of the table are the same function.
- **`Login`.** `LoginInv` speaks of a session only in terms of that session's variables,
  never of the table. So a step of one session preserves it for all others (`Combine`), and one
  lemma per action is about the acting session alone. `AuthenticatedProved` follows because
  nothing changes `m_PlayerData` between the check of the response and the end of the
  session but a country: `newuser` sets it, and is refused by then.
  `AccountInv` adds the table. With SQLite one session at most is at a query (`AloneInv`), so nobody creates
  what another has found free. Names are unique (`RowsInv`), so the row `UpdatePlayer` reaches is the account of the
  session that writes, which already has what is written but the country (`OnlyCountryWritten`). Hence
  the accounts of all other sessions stay what those remember. `LoginFindsAccount` joins the two: the
  response was made from the password of the row, and digests of different passwords differ, so the search asks for the digest that is in the row.
- **`GameTable`.** `TableInv` adds to the properties that no authorizer stays behind and that a row is what
  was sent last, with the default for all other columns. The cache is extended only after the
  last `ALTER TABLE`, so a failure leaves columns without a key and never a key without a column. `ViewsInv` is
  what `game_keys` leaves of `ParamsReferToKeys`: names are stale only after a key was added.
- **`Services`.** Servers run only in the last phase of `Launch`, after the databases are connected (`LaunchInv`).
  `SnapshotsInv` ties what is stored to the step of the session: one less than was taken, while the last is being sent.
  `WaitInv` relates a session's operation to its timer and to whether its socket is closed; a session that starts an
  operation after its timer went does so on a closed socket, or is one of those that escaped.
- **Formats.** `FoldLeft` chooses the elements of a set one after the other; `Folding` shows by well-founded induction over
  numbers (`LeastNumber`, `Induction`) what it computes, for the step of any fold: the step is an operator constant that each
  use gives by `INSTANCE`. What is written piece by piece is then read piece by piece.
  A name is quoted and read token by token, and what `Literal` has read after *n* tokens is those tokens.
  In a request the terminators are where the parts end, because no part before the challenge has a zero and the challenge has a
  length (`Place`); a part of a request either lacks a terminator or the bytes its options announce.
  In a list every piece (key, address, port, value) is read where it begins, and the reader comes to its end with what was written (`Stages`). A list that is
  sent has no piece that could not be written. The fields are fewer than 256 since their number is a byte: 256 fields without a
  name, which `Parse` lets through, would be announced as none. Rows without data and the address that ends a list are left out (`IsServer`).
- **Heartbeats.** What a game server writes is texts with a zero after each (`Terms`), and `Strings` gives these back
  (`StringsOfTerms`), or the first of them if the packet was cut (`StringsOfMore`). `QRPacket::Parse` takes only what ends with a
  zero, and that is its strings with their zeros, nothing between or after them (`PiecesAreWhole`). The readers of the map and of a table only add to what they have read
  (`MapKeeps`, `TableGrows`): what they know of a cut heartbeat they also know of the whole one. Hence no value is a wrong one (`MapIsCut`);
  and a table of which anything is missing has not the rows that were announced, so it is not whole, unless it announced none
  (`TableIsCut`). That exception is the code's: of teams without rows some of the headers may be missing, and `BeginningOf` says so.
  In a table that is read to its end each full row is closed before the next is opened (`RowIsRead`), which needs that no cell is
  empty (`IsRow`). `IsBeat` asks nothing else of cells and values than that no zero is in them.
- **Text packets.** The place `value_for_key` takes is the first (`ValueIs`). Where a pair that was written does not hold the key, no
  place begins in it (`ValueBehind`), so the first place is behind it and moves along by its length; where it does, the first place is at its
  key (`ValueIsFound`). The exception, a value that is the key itself, makes a place of the backslashes around it.
- **Video modes.** There is a least score, by the same induction, and the score of a closer size is lower: rates are below 50000, so
  the weight of 100000 for a size is never reached by a difference of rates.
- **`Sapphire`.** The client's deck is the server's of as many bytes ago as are under way (`ChannelInv` keeps
  the decks in between). Decrypting shuffles with what encrypting shuffled with, so it leaves the
  same deck. `DealIsWhole` is about the assignments of a deal when their places coincide. The first deck is
  made by swaps, each with a place that `keyrand` has drawn: after at most twelve tries that is a place, whatever the key (`PlaceIsDrawn`).

Only model-checked: liveness (`Delisted`, `AllReceived`, `ListEnds`, `AdminEnds`, `HttpEnds`), which
needs fairness and is beyond the prover. Every invariant and every other action property of the passing runs is a theorem.
Only proved, and listed by no run: `DeckIsWhole`, `WaitIsTimed`, the types of `Services` (TLC finds the three true on the
instances of `formats` and `services`) and what holds of `ParamsReferToKeys`.

## Not modelled

- Private and ICMP addresses, rules and popular values of a list record: no caller sets them.
- The digests and encodings of `utils.cpp` and `md5.cpp`, and the hash functions of `sapphire.cpp`, which are
  never called: arithmetic on bytes that no property here tells apart. A digest in `Login` is what it is made from.
- The validity of UTF-8, countries and lengths, except that a password may be too short or too long. The pages and answers of the HTTP and
  admin servers. `KeepAliveClient` of the login server, which is never started.
- The patches of the client other than the choice of a video mode, and the redirector: they write into the image
  of a foreign Windows process or detour its API calls, which is nothing a state machine of this code can show.
- Build scripts, configuration and data.

`PROJECT.json` names the status of every component.

## Plan

The models are of one component each, and where two meet one sees of the other what the code between them
passes on: `Master` sees of a table that a store succeeds or fails, `Browser` that rows appear and change. What is left:

1. `MasterBrowser`: `Master` and `Browser` over one table, so that what a session knows is
   related to what servers said. It adds interleavings but no code.
2. A run of `GameTable` with the policy that adds no columns, which only the proofs cover.
3. The remaining patches of the client, as far as they choose and do not only write.
