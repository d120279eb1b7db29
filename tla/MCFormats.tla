----------------------------- MODULE MCFormats -----------------------------
(* Inputs of each format, and a connection that is encrypted with a deck   *)
(* of eight cards.                                                         *)
EXTENDS Formats, Bitwise

XorOfBytes(a, b) == a ^^ b

(* What initialize makes of a key of five bytes.                           *)
Deck ==
  [cards |-> [i \in 0..7 |-> <<4, 6, 7, 1, 0, 2, 5, 3>>[i + 1]], rotor |-> 6, ratchet |-> 1,
   avalanche |-> 2, last_plain |-> 3, last_cipher |-> 2]
ASSUME DeckOfKey == Deck = Initialize(<<3, 6, 1, 7, 2>>)

GamePort == <<25, 100>>

UpTo(S, n) == UNION {[1..m -> S] : m \in 0..n}

-----------------------------------------------------------------------------
(* A request: every kind of challenge, also one with zeros and with        *)
(* backslashes, and options with words after them or without.              *)
ARequest ==
  {[from |-> f, to |-> <<99, 100>>, challenge |-> c, filter |-> q, fields |-> fs,
    options |-> o, words |-> IF o \in {8, 12, 128} THEN <<w, w, w, w>> ELSE <<>>] :
     f \in {<<98>>, <<98, 99>>},
     c \in {<<1, 2, 3, 4, 5, 6, 7, 8>>, <<0, 92, 0, 92, 0, 0, 0, 0>>},
     q \in {<<>>, <<97, 61, 49>>},
     fs \in {<<<<97>>>>, <<<<97>>, <<98, 99>>>>, <<<<97>>, <<>>>>},
     o \in {0, 1, 8, 12, 128}, w \in {0, 92}}

(* A list: values that are missing, empty, numbers and no numbers, in one  *)
(* row or in the second of two.                                            *)
Hostname == <<104>>
Players == <<110>>
Natneg_ == <<116, 116>>

Config(as) ==
  [short |-> IF as = "short" THEN {Players} ELSE {}, byte |-> {Natneg_, Players}, ignored |-> {}]

SendAs(as) == [k \in {Hostname, Players, Natneg_} |-> SendType(Config(as), k)]

Row(p, d) == [ip |-> <<1, 2, 3, 4>>, port |-> p, data |-> d]

ARow ==
  {Row(p, d) :
     p \in {GamePort, <<1, 0>>},
     d \in UNION {[K -> {<<>>, <<49>>, <<50, 53, 53>>, <<50, 53, 54>>}] :
                    K \in {{Hostname}, {Natneg_}, {Hostname, Players}, {Natneg_, Players}}}}

AList ==
  {[servers |-> before \o <<r>>, fields |-> fs, sends |-> SendAs(as), options |-> 1] :
     before \in {<<>>, <<Row(<<1, 0>>, Players :> <<49>>)>>}, r \in ARow,
     fs \in UpTo({Hostname, Players, Natneg_}, 2) \ {<<>>}, as \in {"byte", "short"}}
  \cup
  {[servers |-> <<>>, fields |-> <<Players, Hostname>>, sends |-> SendAs("byte"), options |-> o] : o \in {0, 2, 32, 34}}

AName ==
  {[name |-> n, more |-> m] :
     n \in UpTo({"quote", "x"}, 4),
     m \in {<<>>, <<"gametype", "quote", "x", "quote">>, <<"blank", "and", "blank", "gametype", "quote", "end", "quote">>}}

(* A heartbeat: cells may end like the headers do, a key may come twice,   *)
(* and a value be empty.                                                   *)
Rows(S, width, n) == UpTo([1..width -> S], n)

Cell_ == {<<120>>, <<121, 95>>}

Narrow == {[headers |-> <<<<112, 95>>>>, rows |-> r] : r \in Rows(Cell_, 1, 2)}
Wide == {[headers |-> <<<<112, 95>>, <<95>>>>, rows |-> r] : r \in Rows(Cell_, 2, 2)}

Teams_ ==
  {[headers |-> SubSeq(<<<<95, 116>>, <<116, 95, 116>>>>, 1, w), rows |-> r] :
     w \in {1, 2}, r \in Rows({<<122, 95, 116>>}, 1, 2)}

ABeat ==
  {[pairs |-> x, players |-> p, teams |-> t] :
     x \in UpTo([key : {<<97>>, <<98, 98>>}, value : {<<>>, <<48>>}], 2),
     p \in Narrow \cup Wide,
     t \in {t \in Teams_ : t.rows = <<>> \/ Len(t.headers) = 1}}

AText ==
  {[pairs |-> p, asked |-> k] :
     p \in UpTo([key : {"nick", "email"}, value : {<<>>, <<"x">>, <<"nick">>, <<"x", "nick">>}], 3),
     k \in {"nick", "email", "pass", "final"}}

AMode ==
  {[modes |-> m, requested |-> q, desktop |-> d] :
     m \in UpTo({<<800, 600, 60>>, <<1024, 768, 60>>, <<1024, 768, 75>>, <<1024, 768, 85>>, <<1000, 792, 60>>}, 3),
     q \in {<<>>, <<800, 600, 60>>, <<1024, 768, 100>>, <<1024, 768, 80>>, <<912, 696, 60>>, <<1012, 780, 60>>},
     d \in {<<>>, <<1024, 768, 60>>}}
=============================================================================
