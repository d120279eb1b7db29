------------------------------- MODULE Packets -------------------------------
(***************************************************************************)
(* The packets of game servers and clients: a heartbeat (emulator/qr.cpp)  *)
(* and the text packets of the login, stats and CD-key servers             *)
(* (value_for_key, emulator/utils.cpp).  Writing them is external: what a  *)
(* game server or a client sends is GameSpy's code.                        *)
(*                                                                         *)
(* A heartbeat is a sequence of bytes.  A text packet is one of words and  *)
(* of the backslashes between them; no word contains one, so what is found *)
(* in the text are the places where it is found in this sequence.          *)
(***************************************************************************)
EXTENDS Texts

CONSTANT TYPES  \* the largest number of a type, prequery_ip_verify (9)

Underscore == 95
Team == 116

(* The type of a heartbeat (QRPacket::Type).                               *)
HEARTBEAT == 3

ASSUME TypesAssumption == TYPES \in Nat /\ HEARTBEAT <= TYPES

-----------------------------------------------------------------------------
(* QRPacket::Parse lets through what has a known type and an instance.     *)
(* What follows these ends with a zero, so that every string in it has its *)
(* terminator.                                                             *)
QRPacket(p) == Len(p) >= 5 /\ p[1] <= TYPES /\ (Len(p) > 5 => p[Len(p)] = 0)

Data(p) == SubSeq(p, 6, Len(p))

(* Variant: a value without text ends the map.                             *)
EndOfAny(key, text) == text = <<>>

(* A key without text ends the map.                                        *)
EndOfMap(key, text) == key = <<>> /\ text = <<>>

(* Of a key that comes twice std::map::emplace keeps the first value.      *)
Emplace(data, key, text) ==
  [k \in DOMAIN data \cup {key} |-> IF k \in DOMAIN data THEN data[k] ELSE text]

NoMap == [data |-> [k \in {} |-> <<>>], key |-> <<>>, after |-> 1, over |-> FALSE]

MapStep(m, text) ==
  LET next == [m EXCEPT !.after = @ + Len(text) + 1]
  IN IF m.over THEN m
     ELSE IF EndOfMap(m.key, text) THEN [next EXCEPT !.over = TRUE]
     ELSE IF m.key = <<>> THEN [next EXCEPT !.key = text]
     ELSE [next EXCEPT !.data = Emplace(@, m.key, text), !.key = <<>>]

(* QRMap::Parse: keys and their values in turn.  Without an end the map    *)
(* ends with the packet.                                                   *)
Map(d) == FoldLeft(LAMBDA m, text : MapStep(m, text), NoMap, Strings(d))

EndsWith(text, end) == IsSuffix(end, text)

(* Variant: no second row is opened.                                       *)
OneRow(rows, headers) == rows = <<>>

(* A cell opens a row if there is none or the last one is full.            *)
OpensRow(rows, headers) == rows = <<>> \/ Len(Last(rows)) = Len(headers)

AddCell(rows, headers, text) ==
  IF OpensRow(rows, headers) THEN Append(rows, <<text>>)
  ELSE [rows EXCEPT ![Len(rows)] = Append(@, text)]

(* A cell without text is taken for the end of the headers, and the cells  *)
(* after it move up.                                                       *)
Cell(t, text, count) ==
  LET rows == AddCell(t.rows, t.headers, text)
  IN IF text = <<>> THEN [t EXCEPT !.parsed = TRUE, !.over = count = 0]
     ELSE [t EXCEPT !.rows = rows,
                    !.over = Len(rows) = count /\ Len(Last(rows)) = Len(t.headers)]

(* What is wanted of a table: as many rows, and headers with such an end.  *)
TableStep(t, text, wanted) ==
  LET next == [t EXCEPT !.after = @ + Len(text) + 1]
  IN IF t.over \/ t.bad THEN t
     ELSE IF ~t.parsed /\ EndsWith(text, wanted.headerEnd) THEN [next EXCEPT !.headers = Append(@, text)]
     ELSE IF t.headers = <<>> THEN [t EXCEPT !.bad = TRUE]
     ELSE Cell(next, text, wanted.count)

EmptyTable(i) ==
  [headers |-> <<>>, rows |-> <<>>, parsed |-> FALSE, over |-> FALSE, bad |-> FALSE, after |-> i]

(* QRTable::Parse: the number of rows, the headers up to a string without  *)
(* text, and the cells; it is whole if none of them is missing.            *)
Table(d, i, headerEnd) ==
  LET wanted == [count |-> 256 * d[i] + d[i + 1], headerEnd |-> headerEnd]
      t == FoldLeft(LAMBDA r, text : TableStep(r, text, wanted),
                    EmptyTable(i + 2), Strings(SubSeq(d, i + 2, Len(d))))
  IN [headers |-> t.headers, rows |-> t.rows, after |-> t.after,
      whole |-> /\ i + 1 <= Len(d) /\ ~t.bad
                /\ Len(t.rows) >= wanted.count
                /\ t.rows = <<>> \/ Len(Last(t.rows)) = Len(t.headers)]

NoTable == [headers |-> <<>>, rows |-> <<>>]

(* QRHeartbeatPacket::Parse.  If the players cannot be read there are none *)
(* and no teams; if the teams cannot, there is no heartbeat.               *)
Heartbeat(p) ==
  LET d == Data(p)
      map == Map(d)
      players == Table(d, map.after, <<Underscore>>)
      teams == Table(d, players.after, <<Underscore, Team>>)
      Contents(t) == [headers |-> t.headers, rows |-> t.rows]
  IN IF ~QRPacket(p) \/ d = <<>> THEN None
     ELSE IF ~players.whole THEN [data |-> map.data, players |-> NoTable, teams |-> NoTable]
     ELSE IF ~teams.whole THEN None
     ELSE [data |-> map.data, players |-> Contents(players), teams |-> Contents(teams)]

(* What a game server sends.                                               *)
Zero(text) == Append(text, 0)

Terms(texts) == FoldLeft(LAMBDA bytes, text : bytes \o Zero(text), <<>>, texts)

MapTexts(pairs) == FoldLeft(LAMBDA texts, x : texts \o <<x.key, x.value>>, <<>>, pairs)

Cells(rows) == FoldLeft(LAMBDA texts, row : texts \o row, <<>>, rows)

Sheet(t) ==
  <<Len(t.rows) \div 256, Len(t.rows) % 256>> \o Terms(t.headers \o <<<<>>>> \o Cells(t.rows))

Beat(h) ==
  <<HEARTBEAT, 1, 2, 3, 4>> \o Terms(MapTexts(h.pairs) \o <<<<>>>>)
    \o Sheet(h.players) \o Sheet(h.teams)

-----------------------------------------------------------------------------
Mark == "\\"

(* Variant: what looks like the key is enough, wherever its name ends.     *)
KeyAlone(k) == <<Mark, k>>

Marked(k) == <<Mark, k, Mark>>

(* utils::value_for_key: what follows the first place where the key is     *)
(* found, up to the next backslash; nothing if there is none.              *)
ValueForKey(packet, k) ==
  LET mark == Marked(k)
      at == {i \in 1..(Len(packet) - Len(mark) + 1) : SubSeq(packet, i, i + Len(mark) - 1) = mark}
      first == CHOOSE i \in at : \A j \in at : i <= j
      rest == SubSeq(packet, first + Len(mark), Len(packet))
      end == First(rest, Mark)
  IN IF at = {} \/ end = 0 THEN None ELSE SubSeq(rest, 1, end - 1)

(* What a client sends: keys with the words of their values.               *)
Text(pairs) ==
  FoldLeft(LAMBDA s, x : s \o <<Mark, x.key, Mark>> \o x.value, <<>>, pairs)
    \o <<Mark, "final", Mark>>

-----------------------------------------------------------------------------
(* What the properties below are about: a heartbeat with names for its     *)
(* keys, of tables that have headers and, in each row, a cell with text    *)
(* for each of these;                                                      *)
Pair == [key : Seq(Nat), value : Seq(Nat)]

IsHeader(text, end) == Free(text, 0) /\ EndsWith(text, end)

IsRow(row, width) ==
  Len(row) = width /\ \A j \in 1..Len(row) : row[j] # <<>> /\ Free(row[j], 0)

IsSheet(t, end) ==
  /\ t \in [headers : Seq(Seq(Nat)), rows : Seq(Seq(Seq(Nat)))]
  /\ t.headers # <<>> /\ Len(t.rows) < 65536
  /\ \A i \in 1..Len(t.headers) : IsHeader(t.headers[i], end)
  /\ \A i \in 1..Len(t.rows) : IsRow(t.rows[i], Len(t.headers))

IsBeat(h) ==
  /\ h.pairs \in Seq(Pair)
  /\ \A i \in 1..Len(h.pairs) :
       h.pairs[i].key # <<>> /\ Free(h.pairs[i].key, 0) /\ Free(h.pairs[i].value, 0)
  /\ IsSheet(h.players, <<Underscore>>)
  /\ IsSheet(h.teams, <<Underscore, Team>>)

(* and a text packet of words, and a key, that are no backslashes.         *)
IsText(pairs, asked) ==
  LET W == {pairs[i].key : i \in 1..Len(pairs)}
             \cup UNION {Range(pairs[i].value) : i \in 1..Len(pairs)}
  IN pairs \in Seq([key : W, value : Seq(W)]) /\ Mark \notin W \cup {asked}

(* What was said first of a key.                                           *)
KeysOf(pairs) == {pairs[i].key : i \in 1..Len(pairs)}

FirstValue(pairs, k) ==
  LET at == {i \in 1..Len(pairs) : pairs[i].key = k}
  IN pairs[CHOOSE i \in at : \A j \in at : i <= j].value

(* A table that is cut is none, or if it has no rows it has less headers.  *)
BeginningOf(cut, t) ==
  \/ cut = t
  \/ cut = NoTable
  \/ t.rows = <<>> /\ cut.rows = <<>> /\ IsPrefix(cut.headers, t.headers)

(* The server reads what the game has sent; and of a datagram that is cut  *)
(* no value that was not sent, nor a row or a list of players that is not  *)
(* whole.                                                                  *)
HeartbeatReadBack(h) ==
  LET sent == [k \in KeysOf(h.pairs) |-> FirstValue(h.pairs, k)]
      p == Beat(h)
  IN /\ Heartbeat(p) = [data |-> sent, players |-> h.players, teams |-> h.teams]
     /\ \A n \in 0..Len(p) :
          LET cut == Heartbeat(SubSeq(p, 1, n))
          IN cut # None =>
               /\ \A k \in DOMAIN cut.data : k \in DOMAIN sent /\ cut.data[k] = sent[k]
               /\ cut.players \in {h.players, NoTable}
               /\ BeginningOf(cut.teams, h.teams)

(* A key is looked for as text, and so may be found where a value is the   *)
(* name of a key and another key follows it.  But for this a value is read *)
(* as it was sent, and a key that was not sent is not found.               *)
TextReadBack(pairs, asked) ==
  (\A i \in 1..Len(pairs) : pairs[i].value # <<asked>>) =>
    ValueForKey(Text(pairs), asked) =
      IF asked \in KeysOf(pairs) THEN FirstValue(pairs, asked) ELSE None
=============================================================================
