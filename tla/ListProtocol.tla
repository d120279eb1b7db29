----------------------------- MODULE ListProtocol -----------------------------
(***************************************************************************)
(* The bytes of the list protocol: a request and what the server makes of  *)
(* it (emulator/sb_request.cpp, Parse), the record of a server and what    *)
(* the client makes of that (PrepareServer), and the filter of a request   *)
(* on its way into SQL (emulator/bf2.cpp).                                 *)
(*                                                                         *)
(* A text is a sequence of bytes without zero.  Of what a record can hold, *)
(* the private address, the ICMP address and the rules are left out: no    *)
(* caller ever sets them; nor are there popular values.                    *)
(***************************************************************************)
EXTENDS Texts

CONSTANTS
  FIELDS_TOTAL,   \* fields_total_length (256)
  FILTER_TOTAL,   \* filter_total_length (256)
  QUERY_PORT      \* of the game, <<high, low>>; not 65535, which means none

Backslash == 92

-----------------------------------------------------------------------------
(* A request.                                                              *)

CHALLENGE == 8
MIN_SIZE == 1 + 1 + 4 + 2 + 2 + CHALLENGE + 1 + 3 + 4

(* The options that are followed by a word of their own, and the largest   *)
(* number options may have.                                                *)
AlternateSourceIP == 8
LimitResultCount == 128
MaxOptions == LimitResultCount

Has(options, o) == (options \div o) % 2 = 1

Split(s) ==
  FoldLeft(LAMBDA names, c :
             IF c = Backslash THEN Append(names, <<>>)
             ELSE [names EXCEPT ![Len(names)] = Append(@, c)],
           <<<<>>>>, Tail(s))

(* Variant: the words the options announce are not waited for.             *)
NoWords(options) == 0

Words(options) ==
  (IF Has(options, AlternateSourceIP) THEN 4 ELSE 0)
    + (IF Has(options, LimitResultCount) THEN 4 ELSE 0)

(* ServerListRequest::Parse.  A string that is not terminated puts all     *)
(* that follows beyond the end.                                            *)
Parse(p) ==
  LET to == After(p, 7)
      challenge == After(p, to)
      filter == challenge + CHALLENGE
      fields == After(p, filter)
      options == After(p, fields)
      words == options + 4
  IN IF /\ Len(p) >= MIN_SIZE
        /\ p[1] = 1 /\ p[2] = 3
        /\ words - 1 <= Len(p)
        /\ Len(String(p, filter)) <= FILTER_TOTAL
        /\ Len(String(p, fields)) \in 1..FIELDS_TOTAL
        /\ p[fields] = Backslash
        /\ \A i \in 0..2 : p[options + i] = 0
        /\ p[options + 3] <= MaxOptions
        /\ words - 1 + Words(p[options + 3]) <= Len(p)
     THEN [from |-> String(p, 7), to |-> String(p, to),
           challenge |-> SubSeq(p, challenge, filter - 1),
           filter |-> String(p, filter),
           fields |-> Split(String(p, fields)),
           options |-> p[options + 3],
           words |-> SubSeq(p, words, words - 1 + Words(p[options + 3]))]
     ELSE None

(* What a client sends.                                                    *)
FieldList(fields) == FoldLeft(LAMBDA s, f : s \o <<Backslash>> \o f, <<>>, fields)

Request(r) ==
  <<1, 3, 0, 0, 1, 0>> \o r.from \o <<0>> \o r.to \o <<0>> \o r.challenge
    \o r.filter \o <<0>> \o FieldList(r.fields)
    \o <<0, 0, 0, 0, r.options>> \o r.words

-----------------------------------------------------------------------------
(* The record of a server: its address, the text of each of its keys, and  *)
(* how the game sends a key.                                               *)

UnsolicitedUDP == 1
ConnectNegotiate == 4
NonStandardPort == 16
HasKeys == 64

Digits == 48..57

Number(v) == FoldLeft(LAMBDA n, c : 10 * n + (c - 48), 0, v)

(* from_chars reads all of v as a number of a width, or throws.            *)
Fits(v, width) ==
  /\ \A i \in DOMAIN v : v[i] \in Digits
  /\ Number(v) < 256 ^ width

(* One value; or None, for what cannot be sent.                            *)
Sent(v, as) ==
  IF as = "string" THEN <<255>> \o v \o <<0>>
  ELSE IF as = "byte" THEN
    IF v = <<>> THEN <<0>> ELSE IF Fits(v, 1) THEN <<Number(v)>> ELSE None
  ELSE
    IF v = <<>> THEN <<0, 0>>
    ELSE IF Fits(v, 2) THEN <<Number(v) \div 256, Number(v) % 256>> ELSE None

(* Variant: a key the server does not name is left out.                    *)
ValueIfAny(data, k, as) == IF k \in DOMAIN data THEN Sent(data[k], as) ELSE <<>>

Value(data, k, as) == Sent(IF k \in DOMAIN data THEN data[k] ELSE <<>>, as)

Join(a, b) == IF a = None \/ b = None THEN None ELSE a \o b

Values(data, fields, sendAs) ==
  FoldLeft(LAMBDA bytes, k : Join(bytes, Value(data, k, sendAs[k])), <<>>, fields)

Natneg(data, natneg) == natneg \in DOMAIN data /\ data[natneg] = <<49>>

Flags(s, natneg) ==
  UnsolicitedUDP
    + (IF s.port # QUERY_PORT THEN NonStandardPort ELSE 0)
    + (IF Natneg(s.data, natneg) THEN ConnectNegotiate ELSE 0)
    + (IF DOMAIN s.data # {} THEN HasKeys ELSE 0)

OwnPort(s) == IF s.port # QUERY_PORT THEN s.port ELSE <<>>

PrepareServer(s, fields, sendAs, natneg) ==
  Join(<<Flags(s, natneg)>> \o s.ip \o OwnPort(s), Values(s.data, fields, sendAs))

-----------------------------------------------------------------------------
(* The list, as HandleServerListRequest sends it: the header with the keys *)
(* of the request and how each is sent, a record for each server, and an   *)
(* address no server has.                                                  *)

NoServerList == 2
SendGroups == 32
End == <<0, 255, 255, 255, 255>>

(* How a key is sent (parse_keys, GetParamSendType): one that is ignored   *)
(* or not known as a string.                                               *)
SendType(config, k) ==
  IF k \in config.ignored THEN "string"
  ELSE IF k \in config.short THEN "short"
  ELSE IF k \in config.byte THEN "byte" ELSE "string"

TypeByte == [string |-> 0, byte |-> 1, short |-> 2]

(* Variant: the keys are written without their number.                     *)
Uncounted(fields) == <<>>

Count(fields) == <<Len(fields) % 256>>

Key(k, as) == <<TypeByte[as]>> \o k \o <<0>>

Keys(fields, sendAs) == FoldLeft(LAMBDA bytes, k : bytes \o Key(k, sendAs[k]), <<>>, fields)

ResponseHeader(client, fields, sendAs, options) ==
  client \o QUERY_PORT
    \o (IF Has(options, NoServerList) THEN <<>>
        ELSE Count(fields) \o Keys(fields, sendAs) \o <<0>>)

List(client, servers, fields, sendAs, natneg, options) ==
  Join(ResponseHeader(client, fields, sendAs, options),
       IF Has(options, NoServerList) \/ Has(options, SendGroups) THEN <<>>
       ELSE Join(FoldLeft(LAMBDA bytes, s : Join(bytes, PrepareServer(s, fields, sendAs, natneg)), <<>>, servers),
                 End))

(* The client (GameSpy's): the keys of the header, then records up to that *)
(* address; in a record what the flags announce, in their order, and then  *)
(* a value for each key.  It has no other way to tell where a record ends. *)
ReadKeys(bytes) ==
  FoldLeft(LAMBDA r, i :
             [types |-> Append(r.types, bytes[r.at]), at |-> After(bytes, r.at + 1)],
           [types |-> <<>>, at |-> 8],
           [i \in 1..bytes[7] |-> i])

ReadValue(bytes, at, type) ==
  IF type = TypeByte.string THEN [value |-> String(bytes, at + 1), after |-> After(bytes, at + 1)]
  ELSE IF type = TypeByte.byte THEN [value |-> bytes[at], after |-> at + 1]
  ELSE [value |-> 256 * bytes[at] + bytes[at + 1], after |-> at + 2]

ReadServer(bytes, at, types) ==
  LET own == Has(bytes[at], NonStandardPort)
      keys == IF own THEN at + 7 ELSE at + 5
      read ==
        FoldLeft(LAMBDA r, type :
                   LET v == ReadValue(bytes, r.after, type)
                   IN [values |-> Append(r.values, v.value), after |-> v.after],
                 [values |-> <<>>, after |-> keys],
                 IF Has(bytes[at], HasKeys) THEN types ELSE <<>>)
  IN [server |-> [ip |-> SubSeq(bytes, at + 1, at + 4),
                  port |-> IF own THEN SubSeq(bytes, at + 5, at + 6) ELSE QUERY_PORT,
                  natneg |-> Has(bytes[at], ConnectNegotiate),
                  values |-> read.values],
      after |-> read.after]

AtEnd(bytes, at) == SubSeq(bytes, at + 1, at + 4) = Tail(End)

(* The servers it has read when it comes to the end, or None if it does    *)
(* not come to it.                                                         *)
ReadList(bytes, most) ==
  LET keys == ReadKeys(bytes)
      read ==
        FoldLeft(LAMBDA r, i :
                   IF r.after + 4 > Len(bytes) \/ AtEnd(bytes, r.after) THEN r
                   ELSE LET next == ReadServer(bytes, r.after, keys.types)
                        IN [servers |-> Append(r.servers, next.server), after |-> next.after],
                 [servers |-> <<>>, after |-> keys.at + 1],
                 [i \in 1..most |-> i])
  IN IF read.after + 4 = Len(bytes) /\ AtEnd(bytes, read.after) THEN read.servers ELSE None

-----------------------------------------------------------------------------
(* A filter, in tokens: "host" is hostname like '% and "end" is %', "quote"  *)
(* and "blank" are a character each, and the others are one or a word.      *)

(* "and" goes before a gametype that does not follow a blank.              *)
SeparateGametype(q) ==
  LET i == First(q, "gametype")
  IN IF i > 1 /\ q[i - 1] # "blank" THEN SubSeq(q, 1, i - 1) \o <<"blank", "and", "blank">> \o SubSeq(q, i, Len(q))
     ELSE q

(* Variant: a quote is followed by another only if it is the first.        *)
QuoteOnce(name) ==
  LET i == First(name, "quote")
  IN IF i = 0 THEN name ELSE SubSeq(name, 1, i) \o <<"quote">> \o SubSeq(name, i + 1, Len(name))

QuoteName(name) ==
  FoldLeft(LAMBDA s, t : IF t = "quote" THEN s \o <<"quote", "quote">> ELSE Append(s, t), <<>>, name)

(* The quotes between the start of a name and the first end after it are   *)
(* doubled.                                                                *)
QuoteHostname(q) ==
  LET i == First(q, "host")
      n == First(SubSeq(q, i + 1, Len(q)), "end")
  IN IF i = 0 \/ n = 0 THEN q
     ELSE SubSeq(q, 1, i) \o QuoteName(SubSeq(q, i + 1, i + n - 1)) \o SubSeq(q, i + n, Len(q))

Rewrite(q) == QuoteHostname(SeparateGametype(q))

(* SQLite: the name a query asks for, up to the first quote that has no    *)
(* other after it; a pair is one quote.                                    *)
Literal(q) ==
  LET read ==
    FoldLeft(LAMBDA r, t :
               IF r.over THEN r
               ELSE IF t = "quote" THEN
                 IF r.pair THEN [r EXCEPT !.name = Append(@, t), !.pair = FALSE]
                 ELSE [r EXCEPT !.pair = TRUE]
               ELSE IF r.pair \/ t = "end" THEN [r EXCEPT !.over = TRUE]
               ELSE [r EXCEPT !.name = Append(@, t)],
             [name |-> <<>>, pair |-> FALSE, over |-> FALSE],
             SubSeq(q, First(q, "host") + 1, Len(q)))
  IN read.name

-----------------------------------------------------------------------------
(* What the properties below are about: a client's request, of texts       *)
(* without zeros and fields without backslashes, at least one, with the    *)
(* words its options announce and within the limits of the server;         *)
Plain(fields) == \A i \in 1..Len(fields) : Free(fields[i], 0) /\ Free(fields[i], Backslash)

IsRequest(r) ==
  /\ r \in [from : Seq(Nat), to : Seq(Nat), challenge : Seq(Nat), filter : Seq(Nat),
            fields : Seq(Seq(Nat)), options : 0..MaxOptions, words : Seq(Nat)]
  /\ Free(r.from, 0) /\ Free(r.to, 0) /\ Free(r.filter, 0) /\ Plain(r.fields)
  /\ Len(r.challenge) = CHALLENGE
  /\ Len(r.words) = IF Has(r.options, AlternateSourceIP) \/ Has(r.options, LimitResultCount) THEN 4 ELSE 0
  /\ Len(r.filter) <= FILTER_TOTAL
  /\ Len(FieldList(r.fields)) \in 1..FIELDS_TOTAL
  /\ MIN_SIZE <= Len(Request(r))

(* a list of servers that have each said something of themselves, none of  *)
(* them at the address that ends a list, and of fields the server knows    *)
(* how to send, whose number fits a byte;                                  *)
Kinds == {"string", "byte", "short"}

IsData(data) == \A k \in DOMAIN data : data[k] \in Seq(Nat) /\ Free(data[k], 0)

IsServer(s) ==
  /\ s.ip \in Seq(Nat) /\ Len(s.ip) = 4 /\ s.ip # Tail(End)
  /\ s.port \in Seq(Nat) /\ Len(s.port) = 2
  /\ DOMAIN s.data # {} /\ IsData(s.data)

IsServers(servers) ==
  /\ servers \in Seq({servers[i] : i \in 1..Len(servers)})
  /\ \A i \in 1..Len(servers) : IsServer(servers[i])

IsFields(fields, sendAs) ==
  /\ fields \in Seq(Seq(Nat)) /\ Len(fields) < 256
  /\ \A i \in 1..Len(fields) : Free(fields[i], 0) /\ sendAs[fields[i]] \in Kinds

IsList(client, servers, fields, sendAs) ==
  /\ client \in Seq(Nat) /\ Len(client) = 4
  /\ QUERY_PORT \in Seq(Nat) /\ Len(QUERY_PORT) = 2
  /\ IsServers(servers) /\ IsFields(fields, sendAs)

(* and a name of any tokens but those that are around it, with any rest    *)
(* behind it that asks for no other name.                                  *)
IsFilter(name, more) ==
  LET T == ({name[i] : i \in 1..Len(name)} \cup {more[i] : i \in 1..Len(more)}
              \cup {"quote", "blank", "and"}) \ {"end", "gametype"}
  IN name \in Seq(T) /\ more \in Seq(T \cup {"end", "gametype"}) /\ "host" \notin T

(* The server reads the request the client has sent, and takes no part of  *)
(* it for a request.                                                       *)
RequestReadBack(r) ==
  LET p == Request(r)
  IN /\ Parse(p) = r
     /\ \A n \in 0..(Len(p) - 1) : Parse(SubSeq(p, 1, n)) = None

(* What the client reads are the rows of the list, with the value of each  *)
(* key it has asked for, whatever the rows before are like.  A row with a  *)
(* value its key cannot carry is not sent; one without any data, which no  *)
(* heartbeat makes, is outside.                                            *)
Shown(s, k, sendAs) ==
  LET v == IF k \in DOMAIN s.data THEN s.data[k] ELSE <<>>
  IN IF sendAs[k] = "string" THEN v ELSE Number(v)

ListReadBackFor(client, servers, fields, sendAs, natneg, options) ==
  LET bytes == List(client, servers, fields, sendAs, natneg, options)
  IN bytes # None =>
       IF Has(options, NoServerList) THEN bytes = client \o QUERY_PORT
       ELSE IF Has(options, SendGroups) THEN ReadKeys(bytes).at = Len(bytes)
       ELSE ReadList(bytes, Len(servers) + 1) =
              [i \in DOMAIN servers |->
                [ip |-> servers[i].ip, port |-> servers[i].port,
                 natneg |-> Natneg(servers[i].data, natneg),
                 values |-> [j \in DOMAIN fields |-> Shown(servers[i], fields[j], sendAs)]]]

(* SQLite looks for the name the client has asked for, whatever quotes are *)
(* in it.                                                                  *)
NameReadBack(name, more) == Literal(Rewrite(<<"host">> \o name \o <<"end">> \o more)) = name
=============================================================================
