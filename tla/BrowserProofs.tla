---------------------------- MODULE BrowserProofs ----------------------------
(***************************************************************************)
(* Theorems about Browser, for any number of sessions and servers, any     *)
(* filters and limits and a channel of any size.                           *)
(***************************************************************************)
EXTENDS Browser, FiniteSetTheorems, SequenceTheorems, TLAPS

-----------------------------------------------------------------------------
(* The slots.                                                              *)

OnSlot(b) == \E i \in DOMAIN slots : slots[i] = b

NoneTwice(s) == \A i, j \in DOMAIN s : s[i] = s[j] => i = j

(* A session leaves: its slot is taken out, the others stay.               *)
LEMMA SlotTakenOut ==
  ASSUME NEW b \in Browsers, slots \in Seq(Browsers), NoneTwice(slots), Close(b)
  PROVE  /\ slots' \in Seq(Browsers) /\ NoneTwice(slots')
         /\ \A i \in DOMAIN slots' : slots'[i] # b /\ OnSlot(slots'[i])
         /\ \A c : c # b /\ OnSlot(c) => OnSlot(c)'
  <1>1. CASE b \notin Range(slots)
    BY <1>1 DEF Close, Range, OnSlot
  <1>2. CASE b \in Range(slots)
    <2> DEFINE n == CHOOSE i \in DOMAIN slots : slots[i] = b
               l == SubSeq(slots, 1, n - 1)
               r == SubSeq(slots, n + 1, Len(slots))
    <2>1. n \in 1..Len(slots) /\ slots[n] = b
      BY <1>2 DEF Range
    <2>2. slots' = l \o r
      BY <1>2 DEF Close, RemoveAt
    <2> HIDE DEF n
    <2>3. /\ l \in Seq(Browsers) /\ Len(l) = n - 1
          /\ \A i \in 1..n - 1 : l[i] = slots[i]
      <3>1. \A i \in 1..n - 1 : slots[i] \in Browsers
        BY <2>1
      <3> QED BY <2>1, <3>1, SubSeqProperties
    <2>4. /\ r \in Seq(Browsers) /\ Len(r) = Len(slots) - n
          /\ \A i \in 1..Len(slots) - n : r[i] = slots[n + i]
      <3>1. \A i \in n + 1..Len(slots) : slots[i] \in Browsers
        BY <2>1
      <3> QED BY <2>1, <3>1, SubSeqProperties
    <2> HIDE DEF l, r
    <2>5. /\ slots' \in Seq(Browsers)
          /\ Len(slots') = Len(slots) - 1
          /\ \A i \in 1..Len(slots) - 1 :
               slots'[i] = IF i < n THEN slots[i] ELSE slots[i + 1]
      <3>1. /\ slots' \in Seq(Browsers)
            /\ Len(slots') = Len(l) + Len(r)
            /\ \A i \in 1..Len(l) + Len(r) :
                 slots'[i] = IF i <= Len(l) THEN l[i] ELSE r[i - Len(l)]
        BY <2>2, <2>3, <2>4, ConcatProperties
      <3>2. Len(l) + Len(r) = Len(slots) - 1
        BY <2>1, <2>3, <2>4
      <3>3. ASSUME NEW i \in 1..Len(slots) - 1
            PROVE  slots'[i] = IF i < n THEN slots[i] ELSE slots[i + 1]
        <4>1. CASE i < n
          BY <2>1, <2>3, <3>1, <3>2, <4>1
        <4>2. CASE ~(i < n)
          <5>1. i - (n - 1) \in 1..Len(slots) - n /\ n + (i - (n - 1)) = i + 1
            BY <2>1, <4>2
          <5> QED BY <2>1, <2>3, <2>4, <3>1, <3>2, <4>2, <5>1
        <4> QED BY <4>1, <4>2
      <3> QED BY <3>1, <3>2, <3>3
    <2>6. \A i, j \in 1..Len(slots) : slots[i] = slots[j] => i = j
      BY DEF NoneTwice
    <2>7. NoneTwice(slots')
      BY <2>1, <2>5, <2>6 DEF NoneTwice
    <2>8. \A i \in 1..Len(slots') : slots'[i] # b /\ OnSlot(slots'[i])
      BY <2>1, <2>5, <2>6 DEF OnSlot
    <2>9. ASSUME NEW c, c # b, OnSlot(c) PROVE OnSlot(c)'
      <3>1. PICK i \in 1..Len(slots) : slots[i] = c
        BY <2>9 DEF OnSlot
      <3>2. i # n
        BY <2>1, <2>9, <3>1
      <3>3. CASE i < n
        <4>1. i \in 1..Len(slots) - 1 /\ slots'[i] = c
          BY <2>1, <2>5, <3>1, <3>3
        <4> QED BY <2>5, <4>1 DEF OnSlot
      <3>4. CASE i > n
        <4>1. i - 1 \in 1..Len(slots) - 1 /\ ~(i - 1 < n) /\ i - 1 + 1 = i
          BY <2>1, <3>4
        <4>2. slots'[i - 1] = c
          BY <2>5, <3>1, <4>1
        <4> QED BY <2>5, <4>1, <4>2 DEF OnSlot
      <3> QED BY <2>1, <3>2, <3>3, <3>4
    <2> QED BY <2>5, <2>7, <2>8, <2>9
  <1> QED BY <1>1, <1>2

LEMMA SlotAdded ==
  ASSUME NEW b \in Browsers, slots \in Seq(Browsers), NoneTwice(slots),
         ~OnSlot(b), slots' = Append(slots, b)
  PROVE  /\ slots' \in Seq(Browsers) /\ NoneTwice(slots')
         /\ \A i \in DOMAIN slots' : slots'[i] = b \/ OnSlot(slots'[i])
  <1>1. /\ slots' \in Seq(Browsers) /\ Len(slots') = Len(slots) + 1
        /\ \A i \in 1..Len(slots) : slots'[i] = slots[i] /\ slots[i] # b
        /\ slots'[Len(slots) + 1] = b
    BY AppendProperties DEF OnSlot
  <1>2. \A i \in 1..Len(slots') : i = Len(slots) + 1 \/ i \in 1..Len(slots)
    BY <1>1
  <1>3. NoneTwice(slots')
    BY <1>1, <1>2 DEF NoneTwice
  <1>4. \A i \in DOMAIN slots' : slots'[i] = b \/ OnSlot(slots'[i])
    BY <1>1, <1>2 DEF OnSlot
  <1> QED BY <1>1, <1>3, <1>4

-----------------------------------------------------------------------------
(* Types.                                                                  *)

LEMMA TypeInit == Init => TypeOK
  <1> SUFFICES ASSUME Init PROVE TypeOK
    OBVIOUS
  <1>1. /\ <<>> \in Seq(Browsers) /\ <<>> \in Seq(Message) /\ <<>> \in Seq(Updates)
        /\ Len(<<>>) = 0
    OBVIOUS
  <1> QED BY <1>1, BrowserAssumption DEF Init, TypeOK, Steps

(* What goes through the signals.                                          *)
LEMMA SignalTypes ==
  ASSUME TypeOK, NEW u \in Updates, Signal(u)
  PROVE  /\ queue' \in [Browsers -> Seq(Updates)]
         /\ \A b \in Browsers : Len(queue'[b]) <= CAPACITY + 1
         /\ base' \in [Browsers -> (SUBSET Servers) \cup {None}]
  <1>1. ASSUME NEW b \in Browsers
        PROVE  /\ Queued(b, u) \in Seq(Updates)
               /\ HasRoom(b) => Len(Queued(b, u)) <= CAPACITY + 1
    <2>1. queue[b] \in Seq(Updates) /\ Len(queue[b]) \in Nat
      BY DEF TypeOK
    <2>2. Queued(b, u) \in Seq(Updates) /\ Len(Queued(b, u)) = Len(queue[b]) + 1
      BY <2>1, AppendProperties DEF Queued
    <2>3. HasRoom(b) => Len(queue[b]) <= CAPACITY
      BY <2>1, BrowserAssumption DEF HasRoom
    <2> QED BY <2>1, <2>2, <2>3, BrowserAssumption
  <1>2. queue' = [b \in Browsers |->
          IF b \in Called(u) /\ HasRoom(b) THEN Queued(b, u) ELSE queue[b]]
    BY DEF Signal
  <1>3. queue \in [Browsers -> Seq(Updates)]
        /\ \A b \in Browsers : Len(queue[b]) <= CAPACITY + 1
    BY DEF TypeOK
  <1>4. base' \in [Browsers -> (SUBSET Servers) \cup {None}]
    BY DEF Signal, LoseTrack, TypeOK
  <1> QED BY <1>1, <1>2, <1>3, <1>4

LEMMA UpdateTypes ==
  ASSUME TypeOK, NEW s \in Servers, UpdateTable(s)
  PROVE  TypeOK'
  <1>1. PICK u \in Updates :
          /\ Signal(u)
          /\ table' \subseteq Servers
          /\ UNCHANGED <<slots, wish, rest, deaf, asof>>
    <2>1. Update("added", s) \in Updates /\ Update("removed", s) \in Updates
      BY DEF Update, Updates
    <2> QED BY <2>1 DEF UpdateTable, AddOrUpdateServer, RemoveServer, TypeOK
  <1>2. UNCHANGED <<cipher, wire, step>>
    BY <1>1 DEF Signal
  <1> QED BY <1>1, <1>2, SignalTypes DEF TypeOK

LEMMA LeaveTypes ==
  ASSUME TypeOK, NEW b \in Browsers, Leave(b), slots' \in Seq(Browsers)
  PROVE  TypeOK'
  <1>1. <<>> \in Seq(Message) /\ <<>> \in Seq(Updates) /\ Len(<<>>) = 0
    OBVIOUS
  <1>2. \A c \in Browsers : Len(queue'[c]) <= CAPACITY + 1
    <2>1. CAPACITY \in Nat
      BY BrowserAssumption
    <2>2. \A c \in Browsers : queue'[c] = queue[c] \/ queue'[c] = <<>>
      BY DEF Leave, TypeOK
    <2>3. \A c \in Browsers : Len(queue[c]) <= CAPACITY + 1
      BY DEF TypeOK
    <2> QED BY <1>1, <2>1, <2>2, <2>3
  <1>3. /\ wire' \in [Browsers -> Seq(Message)]
        /\ queue' \in [Browsers -> Seq(Updates)]
    BY <1>1 DEF Leave, TypeOK
  <1>4. /\ step' \in [Browsers -> Steps]
        /\ wish' \in [Browsers -> {"header", "list", "push", None}]
        /\ rest' \in [Browsers -> SUBSET Servers]
        /\ deaf' \subseteq Browsers
        /\ cipher' \in [Browsers -> Nat]
        /\ asof' \in [Browsers -> SUBSET Servers]
        /\ base' \in [Browsers -> (SUBSET Servers) \cup {None}]
        /\ table' \subseteq Servers
    BY DEF Leave, Close, TypeOK, Steps
  <1> QED BY <1>2, <1>3, <1>4 DEF TypeOK

LEMMA SendTypes ==
  ASSUME TypeOK, NEW b \in Browsers, NEW what \in Sending, NEW s \in Servers \cup {None},
         Send(b, what, s) \/ SendPlain(b, what)
  PROVE  /\ step' \in [Browsers -> Steps]
         /\ cipher' \in [Browsers -> Nat]
         /\ wire' \in [Browsers -> Seq(Message)]
  <1>1. cipher[b] + 1 \in Nat /\ wire[b] \in Seq(Message)
    BY DEF TypeOK
  <1>2. step' \in [Browsers -> Steps]
    BY DEF Send, SendPlain, TypeOK, Steps
  <1>3. cipher' \in [Browsers -> Nat]
    BY <1>1 DEF Send, SendPlain, TypeOK
  <1>4. /\ [what |-> what, server |-> None, nr |-> 0] \in Message
        /\ [what |-> what, server |-> s, nr |-> cipher[b] + 1] \in Message
    BY <1>1 DEF Message
  <1>5. \A m \in Message : Append(wire[b], m) \in Seq(Message)
    BY <1>1, AppendProperties
  <1>6. wire' \in [Browsers -> Seq(Message)]
    <2>1. PICK m \in Message : wire' = [wire EXCEPT ![b] = Append(@, m)]
      BY <1>4 DEF Send, SendPlain
    <2>2. Append(wire[b], m) \in Seq(Message) /\ wire \in [Browsers -> Seq(Message)]
      BY <1>5 DEF TypeOK
    <2> QED BY <2>1, <2>2
  <1> QED BY <1>2, <1>3, <1>6

LEMMA SelectionTypes ==
  ASSUME NEW b \in Browsers, NEW R \in Selections(b)
  PROVE  R \subseteq table \cap Matching[b]
  BY DEF Selections

LEMMA PushTypes ==
  ASSUME TypeOK, NEW b \in Browsers, queue[b] # <<>>
  PROVE  /\ Head(queue[b]).server \in Servers
         /\ [queue EXCEPT ![b] = Tail(@)] \in [Browsers -> Seq(Updates)]
         /\ Len(Tail(queue[b])) <= CAPACITY + 1
  <1>1. queue[b] \in Seq(Updates) /\ Len(queue[b]) <= CAPACITY + 1
    BY DEF TypeOK
  <1>2. /\ Head(queue[b]) \in Updates
        /\ Tail(queue[b]) \in Seq(Updates)
        /\ Len(Tail(queue[b])) = Len(queue[b]) - 1
    BY <1>1, HeadTailProperties
  <1>3. Head(queue[b]).server \in Servers
    BY <1>2 DEF Updates
  <1>4. Len(Tail(queue[b])) <= CAPACITY + 1
    BY <1>1, <1>2, BrowserAssumption
  <1> QED BY <1>2, <1>3, <1>4 DEF TypeOK

LEMMA SessionTypes ==
  ASSUME TypeOK, NEW b \in Browsers,
         \/ \E w \in {"header", "list", "push"} : Request(b, w)
         \/ Continue(b) \/ OtherPacket(b) \/ HangUp(b),
         slots' \in Seq(Browsers)
  PROVE  TypeOK'
  <1> USE DEF Sending
  <1>1. ASSUME NEW w \in {"header", "list", "push"}, Request(b, w) PROVE TypeOK'
    BY <1>1, SendTypes DEF Request, TypeOK
  <1>2. CASE SendHeader(b)
    BY <1>2, SendTypes DEF SendHeader, TypeOK
  <1>3. CASE NoList(b)
    BY <1>3 DEF NoList, TypeOK, Steps
  <1>4. CASE GetServers(b)
    <2>1. \A R \in Selections(b) : R \subseteq Servers
      BY SelectionTypes DEF TypeOK
    <2> QED BY <1>4, <2>1 DEF GetServers, TypeOK, Steps
  <1>5. CASE SendRow(b)
    <2>1. PICK s \in Servers : TakeRow(b, s) /\ Send(b, "row", s)
      BY <1>5 DEF SendRow
    <2>2. rest' \in [Browsers -> SUBSET Servers]
      BY <2>1 DEF TakeRow, TypeOK
    <2> QED BY <1>5, <2>1, <2>2, SendTypes DEF SendRow, TypeOK
  <1>6. CASE Leave(b)
    BY <1>6, LeaveTypes
  <1>7. CASE SendEnd(b)
    BY <1>7, SendTypes DEF SendEnd, TypeOK
  <1>8. CASE Connect(b)
    BY <1>8 DEF Connect, TypeOK, Steps
  <1>9. CASE SendPush(b)
    <2>1. /\ Send(b, "push", Head(queue[b]).server)
          /\ queue' = [queue EXCEPT ![b] = Tail(@)]
          /\ base' = [base EXCEPT ![b] = None]
          /\ queue[b] # <<>>
          /\ UNCHANGED <<table, slots, wish, rest, deaf, asof>>
      BY <1>9 DEF SendPush
    <2>2. /\ queue' \in [Browsers -> Seq(Updates)]
          /\ \A c \in Browsers : Len(queue'[c]) <= CAPACITY + 1
      BY <2>1, PushTypes DEF TypeOK
    <2>3. base' \in [Browsers -> (SUBSET Servers) \cup {None}]
      BY <2>1 DEF TypeOK
    <2>4. /\ step' \in [Browsers -> Steps]
          /\ cipher' \in [Browsers -> Nat]
          /\ wire' \in [Browsers -> Seq(Message)]
      <3>1. Head(queue[b]).server \in Servers \cup {None}
        BY <2>1, PushTypes
      <3> QED BY <2>1, <3>1, SendTypes
    <2> QED BY <2>1, <2>2, <2>3, <2>4 DEF TypeOK
  <1>10. CASE OtherPacket(b) /\ ~Leave(b)
    BY <1>10 DEF OtherPacket, TypeOK
  <1> QED BY <1>1, <1>2, <1>3, <1>4, <1>5, <1>6, <1>7, <1>8, <1>9, <1>10
          DEF Continue, RowFails, PushSent, OtherPacket, HangUp

-----------------------------------------------------------------------------
(* What is true of one session.  A list has been sent to its end.          *)
HasEnd(w) == \E i \in DOMAIN w : w[i].what = "end"

Numbered(w, n) ==
  /\ \A i \in DOMAIN w : w[i].nr = i - 1
  /\ n = IF w = <<>> THEN 0 ELSE Len(w) - 1

RowsOf(w) == {i \in DOMAIN w : w[i].what = "row"}
ServersOf(w) == {w[i].server : i \in RowsOf(w)}

CipherInv(b) ==
  /\ step[b] \in {"request", "closed"} <=> wire[b] = <<>>
  /\ Numbered(wire[b], cipher[b])

PushInv(b) ==
  /\ step[b] = "end" => HasEnd(wire[b])
  /\ OnSlot(b) => step[b] \in {"live", "push"} /\ HasEnd(wire[b])
  /\ queue[b] # <<>> => HasEnd(wire[b])

(* The rows sent and those still to be sent are the rows selected.         *)
Selected(b) == rest[b] \cup ServersOf(wire[b])

ListInv(b) ==
  /\ step[b] \in {"request", "challenge", "header", "closed"} => RowsOf(wire[b]) = {}
  /\ step[b] \in {"lookup", "row"} => wish[b] # "header"
  /\ step[b] \in {"lookup", "row", "end", "live", "push"} /\ wish[b] # "header" =>
       /\ Selected(b) \subseteq asof[b] \cap Matching[b]
       /\ rest[b] \cap ServersOf(wire[b]) = {}
       /\ Cardinality(ServersOf(wire[b])) = Cardinality(RowsOf(wire[b]))
       /\ Cardinality(Selected(b)) < Limit[b] =>
            asof[b] \cap Matching[b] \subseteq Selected(b)
       /\ step[b] \in {"end", "live", "push"} => rest[b] = {}

SessionInv(b) == CipherInv(b) /\ PushInv(b) /\ ListInv(b)

BrowserInv ==
  /\ TypeOK
  /\ NoneTwice(slots)
  /\ \A b \in Browsers : SessionInv(b)

(* A step of a session or of the table leaves the other sessions alone.    *)
Same(b) ==
  /\ step'[b] = step[b] /\ wish'[b] = wish[b] /\ rest'[b] = rest[b]
  /\ cipher'[b] = cipher[b] /\ wire'[b] = wire[b] /\ asof'[b] = asof[b]
  /\ queue'[b] = queue[b] \/ (OnSlot(b) /\ queue'[b] # <<>>)
  /\ OnSlot(b)' => OnSlot(b)

LEMMA SameKeeps ==
  ASSUME NEW b, SessionInv(b), Same(b) PROVE SessionInv(b)'
  <1>1. CipherInv(b)'
    BY DEF SessionInv, CipherInv, Same
  <1>2. PushInv(b)'
    BY DEF SessionInv, PushInv, Same
  <1>3. ListInv(b)'
    BY DEF SessionInv, ListInv, Selected, Same
  <1> QED BY <1>1, <1>2, <1>3 DEF SessionInv

-----------------------------------------------------------------------------
(* Messages.                                                               *)

LEMMA NoMessages ==
  /\ Numbered(<<>>, 0) /\ ~HasEnd(<<>>)
  /\ RowsOf(<<>>) = {} /\ ServersOf(<<>>) = {}
  BY DEF Numbered, HasEnd, RowsOf, ServersOf

LEMMA FirstMessage ==
  ASSUME NEW m \in Message, m.nr = 0, m.what # "row"
  PROVE  /\ Append(<<>>, m) # <<>>
         /\ Numbered(Append(<<>>, m), 0)
         /\ RowsOf(Append(<<>>, m)) = {}
  <1>1. Append(<<>>, m) = <<m>>
    OBVIOUS
  <1> QED BY <1>1 DEF Numbered, RowsOf

LEMMA RowsFinite ==
  ASSUME NEW w \in Seq(Message)
  PROVE  /\ IsFiniteSet(RowsOf(w)) /\ Len(w) + 1 \notin RowsOf(w)
         /\ RowsOf(w) \subseteq 1..Len(w)
  <1>1. RowsOf(w) \subseteq 1..Len(w)
    BY DEF RowsOf
  <1>2. IsFiniteSet(1..Len(w))
    BY FS_Interval
  <1> QED BY <1>1, <1>2, FS_Subset

LEMMA NextMessage ==
  ASSUME NEW w \in Seq(Message), w # <<>>, NEW n \in Nat, Numbered(w, n),
         NEW m \in Message, m.nr = n + 1
  PROVE  /\ Append(w, m) # <<>>
         /\ Numbered(Append(w, m), n + 1)
         /\ HasEnd(w) => HasEnd(Append(w, m))
         /\ m.what = "end" => HasEnd(Append(w, m))
         /\ m.what # "row" => /\ RowsOf(Append(w, m)) = RowsOf(w)
                              /\ ServersOf(Append(w, m)) = ServersOf(w)
         /\ m.what = "row" =>
              /\ RowsOf(Append(w, m)) = RowsOf(w) \cup {Len(w) + 1}
              /\ ServersOf(Append(w, m)) = ServersOf(w) \cup {m.server}
  <1> DEFINE x == Append(w, m)
  <1>1. /\ x \in Seq(Message) /\ Len(x) = Len(w) + 1 /\ Len(w) \in Nat
        /\ x[Len(w) + 1] = m
        /\ \A i \in 1..Len(w) : x[i] = w[i]
        /\ DOMAIN x = 1..Len(w) + 1 /\ DOMAIN w = 1..Len(w)
    BY AppendProperties
  <1>2. 1..Len(w) + 1 = (1..Len(w)) \cup {Len(w) + 1}
    BY <1>1
  <1> HIDE DEF x
  <1>3. x # <<>>
    BY <1>1
  <1>4. n = Len(w) - 1
    BY DEF Numbered
  <1>5. Numbered(x, n + 1)
    <2>1. ASSUME NEW i \in DOMAIN x PROVE x[i].nr = i - 1
      BY <1>1, <1>2, <1>4 DEF Numbered
    <2> QED BY <1>1, <1>3, <1>4, <2>1 DEF Numbered
  <1>6. /\ HasEnd(w) => HasEnd(x)
        /\ m.what = "end" => HasEnd(x)
    BY <1>1, <1>2 DEF HasEnd
  <1>7. ASSUME m.what # "row" PROVE RowsOf(x) = RowsOf(w) /\ ServersOf(x) = ServersOf(w)
    <2>1. RowsOf(x) = RowsOf(w)
      BY <1>1, <1>2, <1>7 DEF RowsOf
    <2>2. \A i \in RowsOf(w) : x[i] = w[i]
      BY <1>1 DEF RowsOf
    <2> QED BY <2>1, <2>2 DEF ServersOf
  <1>8. ASSUME m.what = "row"
        PROVE  /\ RowsOf(x) = RowsOf(w) \cup {Len(w) + 1}
               /\ ServersOf(x) = ServersOf(w) \cup {m.server}
    <2>1. RowsOf(x) = RowsOf(w) \cup {Len(w) + 1}
      BY <1>1, <1>2, <1>8 DEF RowsOf
    <2>2. \A i \in RowsOf(w) : x[i] = w[i]
      BY <1>1 DEF RowsOf
    <2> QED BY <1>1, <2>1, <2>2 DEF ServersOf
  <1> QED BY <1>3, <1>5, <1>6, <1>7, <1>8 DEF x

-----------------------------------------------------------------------------
(* Each step of a session.                                                 *)

LEMMA SendsNext ==
  ASSUME TypeOK, NEW b \in Browsers, CipherInv(b), step[b] \notin {"request", "closed"},
         NEW what \in Sending, NEW s \in Servers \cup {None}, Send(b, what, s)
  PROVE  /\ step'[b] = what /\ wire'[b] # <<>>
         /\ Numbered(wire'[b], cipher'[b])
         /\ HasEnd(wire[b]) => HasEnd(wire'[b])
         /\ what = "end" => HasEnd(wire'[b])
         /\ what # "row" => /\ RowsOf(wire'[b]) = RowsOf(wire[b])
                            /\ ServersOf(wire'[b]) = ServersOf(wire[b])
         /\ what = "row" =>
              /\ RowsOf(wire'[b]) = RowsOf(wire[b]) \cup {Len(wire[b]) + 1}
              /\ ServersOf(wire'[b]) = ServersOf(wire[b]) \cup {s}
  <1> DEFINE m == [what |-> what, server |-> s, nr |-> cipher[b] + 1]
  <1>1. wire[b] \in Seq(Message) /\ cipher[b] \in Nat
    BY DEF TypeOK
  <1>2. m \in Message /\ m.nr = cipher[b] + 1 /\ m.what = what /\ m.server = s
    BY <1>1 DEF Message
  <1>3. step'[b] = what /\ cipher'[b] = cipher[b] + 1 /\ wire'[b] = Append(wire[b], m)
    BY DEF Send, TypeOK
  <1>4. wire[b] # <<>> /\ Numbered(wire[b], cipher[b])
    BY DEF CipherInv
  <1> HIDE DEF m
  <1> QED BY <1>1, <1>2, <1>3, <1>4, NextMessage

(* The sets of sessions other than b keep what they have.                  *)
Alone(b) == \A c \in Browsers \ {b} : Same(c)

LEMMA Combine ==
  ASSUME BrowserInv, NEW b \in Browsers, TypeOK', NoneTwice(slots'),
         SessionInv(b)', Alone(b)
  PROVE  BrowserInv'
  BY SameKeeps DEF BrowserInv, Alone

LEMMA SendAlone ==
  ASSUME TypeOK, NEW b \in Browsers, NEW what, NEW s,
         Send(b, what, s) \/ SendPlain(b, what), UNCHANGED <<slots, asof>>,
         \A c \in Browsers \ {b} :
           wish'[c] = wish[c] /\ rest'[c] = rest[c] /\ queue'[c] = queue[c]
  PROVE  Alone(b)
  <1>1. \A c : OnSlot(c)' <=> OnSlot(c)
    BY DEF OnSlot
  <1> QED BY <1>1 DEF Alone, Same, Send, SendPlain, TypeOK

LEMMA RequestStep ==
  ASSUME BrowserInv, NEW b \in Browsers, NEW w \in {"header", "list", "push"},
         Request(b, w)
  PROVE  BrowserInv'
  <1>1. TypeOK /\ SessionInv(b) /\ slots' = slots
    BY DEF BrowserInv, Request
  <1>2. wire[b] = <<>> /\ cipher[b] = 0 /\ step[b] = "request" /\ queue' = queue
    BY <1>1 DEF Request, SessionInv, CipherInv, Numbered
  <1> DEFINE m == [what |-> "challenge", server |-> None, nr |-> 0]
  <1>3. m \in Message /\ m.nr = 0 /\ m.what # "row"
    BY DEF Message, Sending
  <1>4. /\ step'[b] = "challenge" /\ cipher'[b] = 0
        /\ wire'[b] = Append(<<>>, m)
    BY <1>1, <1>2 DEF Request, SendPlain, TypeOK
  <1> HIDE DEF m
  <1>5. CipherInv(b)' /\ ListInv(b)'
    BY <1>3, <1>4, FirstMessage DEF CipherInv, ListInv
  <1>6. PushInv(b)'
    <2>1. ~OnSlot(b) /\ (OnSlot(b)' <=> OnSlot(b))
      BY <1>1, <1>2 DEF SessionInv, PushInv, OnSlot
    <2>2. queue[b] = <<>>
      BY <1>1, <1>2, NoMessages DEF SessionInv, PushInv
    <2> QED BY <1>2, <1>4, <2>1, <2>2 DEF PushInv
  <1>7. TypeOK'
    BY <1>1, SessionTypes DEF TypeOK
  <1>8. Alone(b)
    BY <1>1, SendAlone DEF Request, TypeOK
  <1> QED BY <1>1, <1>5, <1>6, <1>7, <1>8, Combine DEF SessionInv, BrowserInv

LEMMA SendHeaderStep ==
  ASSUME BrowserInv, NEW b \in Browsers, SendHeader(b)
  PROVE  BrowserInv'
  <1>1. TypeOK /\ SessionInv(b) /\ slots' = slots /\ step[b] = "challenge"
    BY DEF BrowserInv, SendHeader
  <1>2. /\ step'[b] = "header" /\ wire'[b] # <<>>
        /\ Numbered(wire'[b], cipher'[b])
        /\ HasEnd(wire[b]) => HasEnd(wire'[b])
        /\ RowsOf(wire'[b]) = RowsOf(wire[b])
    BY <1>1, SendsNext DEF SendHeader, SessionInv, Sending
  <1>3. CipherInv(b)' /\ ListInv(b)'
    BY <1>1, <1>2 DEF CipherInv, ListInv, SessionInv
  <1>4. OnSlot(b)' <=> OnSlot(b)
    BY <1>1 DEF OnSlot
  <1>5. PushInv(b)'
    BY <1>1, <1>2, <1>4 DEF PushInv, SessionInv, SendHeader
  <1>6. TypeOK'
    BY <1>1, SessionTypes DEF TypeOK, Continue
  <1>7. Alone(b)
    BY <1>1, SendAlone DEF SendHeader
  <1> QED BY <1>1, <1>3, <1>5, <1>6, <1>7, Combine DEF SessionInv, BrowserInv

LEMMA NoListStep ==
  ASSUME BrowserInv, NEW b \in Browsers, NoList(b)
  PROVE  BrowserInv'
  <1>1. TypeOK /\ SessionInv(b) /\ step[b] = "header" /\ wish[b] = "header"
    BY DEF BrowserInv, NoList
  <1>2. /\ step'[b] = "live"
        /\ UNCHANGED <<table, slots, wish, rest, queue, deaf, cipher, wire, asof, base>>
        /\ \A c \in Browsers \ {b} : step'[c] = step[c]
    BY <1>1 DEF NoList, TypeOK
  <1>3. \A c : OnSlot(c)' <=> OnSlot(c)
    BY <1>2 DEF OnSlot
  <1>4. CipherInv(b)' /\ PushInv(b)' /\ ListInv(b)'
    BY <1>1, <1>2, <1>3 DEF CipherInv, PushInv, ListInv, SessionInv
  <1>5. TypeOK'
    BY <1>1, <1>2, SessionTypes DEF TypeOK, Continue
  <1>6. Alone(b)
    BY <1>2, <1>3 DEF Alone, Same
  <1> QED BY <1>1, <1>2, <1>4, <1>5, <1>6, Combine DEF SessionInv, BrowserInv

(* As many rows as there are, or as the limit allows.                      *)
LEMMA SelectionIsFull ==
  ASSUME TypeOK, NEW b \in Browsers, NEW R \in Selections(b)
  PROVE  /\ R \subseteq table \cap Matching[b]
         /\ Cardinality(R) < Limit[b] => R = table \cap Matching[b]
  <1> DEFINE S == table \cap Matching[b]
  <1>1. R \in SUBSET S /\ Cardinality(R) = IF Cardinality(S) < Limit[b]
                                           THEN Cardinality(S) ELSE Limit[b]
    BY DEF Selections
  <1>2. S \in SUBSET Servers
    BY DEF TypeOK
  <1> HIDE DEF S
  <1>3. IsFiniteSet(S)
    BY <1>2, BrowserAssumption, FS_Subset
  <1>4. Cardinality(S) = Cardinality(R) => S = R
    BY <1>1, <1>3, FS_Subset
  <1>5. Cardinality(S) \in Nat /\ Limit[b] \in Nat
    BY <1>3, FS_CardinalityType, BrowserAssumption
  <1>6. Cardinality(R) < Limit[b] => R = S
    BY <1>1, <1>4, <1>5
  <1> QED BY <1>1, <1>6 DEF S

LEMMA GetServersStep ==
  ASSUME BrowserInv, NEW b \in Browsers, GetServers(b)
  PROVE  BrowserInv'
  <1>1. TypeOK /\ SessionInv(b) /\ step[b] = "header" /\ wish[b] # "header"
    BY DEF BrowserInv, GetServers
  <1>2. PICK R \in Selections(b) : rest' = [rest EXCEPT ![b] = R]
    BY DEF GetServers
  <1>3. /\ step'[b] = "lookup" /\ rest'[b] = R /\ asof'[b] = table
        /\ UNCHANGED <<table, slots, wish, queue, deaf, cipher, wire, base>>
        /\ \A c \in Browsers \ {b} :
             step'[c] = step[c] /\ rest'[c] = rest[c] /\ asof'[c] = asof[c]
    BY <1>1, <1>2 DEF GetServers, TypeOK
  <1>4. \A c : OnSlot(c)' <=> OnSlot(c)
    BY <1>3 DEF OnSlot
  <1>5. CipherInv(b)' /\ PushInv(b)'
    BY <1>1, <1>3, <1>4 DEF CipherInv, PushInv, SessionInv
  <1>6. ListInv(b)'
    <2>1. RowsOf(wire[b]) = {} /\ ServersOf(wire[b]) = {}
      BY <1>1 DEF SessionInv, ListInv, ServersOf
    <2>2. Selected(b)' = R
      BY <1>3, <2>1 DEF Selected
    <2>3. /\ R \subseteq table \cap Matching[b]
          /\ Cardinality(R) < Limit[b] => R = table \cap Matching[b]
      BY <1>1, SelectionIsFull
    <2> QED BY <1>1, <1>3, <2>1, <2>2, <2>3 DEF ListInv
  <1>7. TypeOK'
    BY <1>1, <1>3, SessionTypes DEF TypeOK, Continue
  <1>8. Alone(b)
    BY <1>3, <1>4 DEF Alone, Same
  <1> QED BY <1>1, <1>3, <1>5, <1>6, <1>7, <1>8, Combine DEF SessionInv, BrowserInv

LEMMA SendRowStep ==
  ASSUME BrowserInv, NEW b \in Browsers, SendRow(b)
  PROVE  BrowserInv'
  <1>1. TypeOK /\ SessionInv(b) /\ slots' = slots /\ step[b] \in {"lookup", "row"}
    BY DEF BrowserInv, SendRow
  <1>2. PICK s \in Servers : TakeRow(b, s) /\ Send(b, "row", s)
    BY DEF SendRow
  <1>3. /\ step'[b] = "row" /\ wire'[b] # <<>>
        /\ Numbered(wire'[b], cipher'[b])
        /\ HasEnd(wire[b]) => HasEnd(wire'[b])
        /\ RowsOf(wire'[b]) = RowsOf(wire[b]) \cup {Len(wire[b]) + 1}
        /\ ServersOf(wire'[b]) = ServersOf(wire[b]) \cup {s}
    BY <1>1, <1>2, SendsNext DEF SessionInv, Sending
  <1>4. /\ s \in rest[b] /\ rest'[b] = rest[b] \ {s}
        /\ \A c \in Browsers \ {b} : rest'[c] = rest[c]
        /\ UNCHANGED <<wish, queue, asof>>
    BY <1>1, <1>2 DEF TakeRow, TypeOK, SendRow
  <1>5. CipherInv(b)'
    BY <1>3 DEF CipherInv
  <1>6. OnSlot(b)' <=> OnSlot(b)
    BY <1>1 DEF OnSlot
  <1>7. PushInv(b)'
    BY <1>1, <1>3, <1>4, <1>6 DEF PushInv, SessionInv
  <1>8. ListInv(b)'
    <2> DEFINE rows == RowsOf(wire[b])
               sent == ServersOf(wire[b])
    <2>1. /\ wish[b] # "header"
          /\ Selected(b) \subseteq asof[b] \cap Matching[b]
          /\ rest[b] \cap sent = {}
          /\ Cardinality(sent) = Cardinality(rows)
          /\ Cardinality(Selected(b)) < Limit[b] =>
               asof[b] \cap Matching[b] \subseteq Selected(b)
      BY <1>1 DEF SessionInv, ListInv
    <2>2. Selected(b)' = Selected(b)
      BY <1>3, <1>4 DEF Selected
    <2>3. rest'[b] \cap ServersOf(wire'[b]) = {}
      BY <1>3, <1>4, <2>1
    <2>4. Cardinality(ServersOf(wire'[b])) = Cardinality(RowsOf(wire'[b]))
      <3>1. IsFiniteSet(rows) /\ Len(wire[b]) + 1 \notin rows
        BY <1>1, RowsFinite DEF TypeOK
      <3>2. sent \in SUBSET Servers
        BY <1>1, <2>1 DEF Selected, TypeOK
      <3>3. IsFiniteSet(sent) /\ s \notin sent
        BY <1>4, <2>1, <3>2, BrowserAssumption, FS_Subset
      <3>4. /\ Cardinality(rows \cup {Len(wire[b]) + 1}) = Cardinality(rows) + 1
            /\ Cardinality(sent \cup {s}) = Cardinality(sent) + 1
        BY <3>1, <3>3, FS_AddElement
      <3> QED BY <1>3, <2>1, <3>4
    <2> HIDE DEF rows, sent
    <2> QED BY <1>3, <1>4, <2>1, <2>2, <2>3, <2>4 DEF ListInv
  <1>9. TypeOK'
    BY <1>1, SessionTypes DEF TypeOK, Continue
  <1>10. Alone(b)
    BY <1>1, <1>2, <1>4, SendAlone
  <1> QED BY <1>1, <1>5, <1>7, <1>8, <1>9, <1>10, Combine DEF SessionInv, BrowserInv

LEMMA SendEndStep ==
  ASSUME BrowserInv, NEW b \in Browsers, SendEnd(b)
  PROVE  BrowserInv'
  <1>1. /\ TypeOK /\ SessionInv(b) /\ slots' = slots
        /\ step[b] \in {"lookup", "row"} /\ rest[b] = {}
        /\ UNCHANGED <<wish, rest, queue, asof>>
    BY DEF BrowserInv, SendEnd, Complete
  <1>2. /\ step'[b] = "end" /\ wire'[b] # <<>>
        /\ Numbered(wire'[b], cipher'[b])
        /\ HasEnd(wire'[b])
        /\ RowsOf(wire'[b]) = RowsOf(wire[b])
        /\ ServersOf(wire'[b]) = ServersOf(wire[b])
    BY <1>1, SendsNext DEF SendEnd, SessionInv, Sending
  <1>3. CipherInv(b)'
    BY <1>2 DEF CipherInv
  <1>4. OnSlot(b)' <=> OnSlot(b)
    BY <1>1 DEF OnSlot
  <1>5. PushInv(b)'
    BY <1>1, <1>2, <1>4 DEF PushInv, SessionInv
  <1>6. ListInv(b)'
    <2>1. Selected(b)' = Selected(b)
      BY <1>1, <1>2 DEF Selected
    <2> QED BY <1>1, <1>2, <2>1 DEF ListInv, SessionInv
  <1>7. TypeOK'
    BY <1>1, SessionTypes DEF TypeOK, Continue
  <1>8. Alone(b)
    BY <1>1, SendAlone DEF SendEnd
  <1> QED BY <1>1, <1>3, <1>5, <1>6, <1>7, <1>8, Combine DEF SessionInv, BrowserInv

LEMMA ConnectStep ==
  ASSUME BrowserInv, NEW b \in Browsers, Connect(b)
  PROVE  BrowserInv'
  <1>1. /\ TypeOK /\ SessionInv(b) /\ NoneTwice(slots) /\ slots \in Seq(Browsers)
        /\ step[b] = "end"
        /\ UNCHANGED <<table, wish, rest, queue, deaf, cipher, wire, asof>>
    BY DEF BrowserInv, Connect, TypeOK
  <1>2. step'[b] = "live" /\ \A c \in Browsers \ {b} : step'[c] = step[c]
    BY <1>1 DEF Connect, TypeOK
  <1>3. ~OnSlot(b) /\ HasEnd(wire[b])
    BY <1>1 DEF SessionInv, PushInv
  <1>4. /\ slots' \in Seq(Browsers) /\ NoneTwice(slots')
        /\ \A c \in Browsers \ {b} : OnSlot(c)' => OnSlot(c)
    <2>1. CASE slots' = Append(slots, b)
      BY <1>1, <1>3, <2>1, SlotAdded DEF OnSlot
    <2>2. CASE slots' = slots
      BY <1>1, <2>2 DEF OnSlot
    <2> QED BY <2>1, <2>2 DEF Connect
  <1>5. CipherInv(b)' /\ PushInv(b)'
    BY <1>1, <1>2, <1>3 DEF CipherInv, PushInv, SessionInv
  <1>6. ListInv(b)'
    BY <1>1, <1>2 DEF ListInv, Selected, SessionInv
  <1>7. TypeOK'
    BY <1>1, <1>4, SessionTypes DEF Continue
  <1>8. Alone(b)
    BY <1>1, <1>2, <1>4 DEF Alone, Same
  <1> QED BY <1>4, <1>5, <1>6, <1>7, <1>8, Combine DEF SessionInv

LEMMA SendPushStep ==
  ASSUME BrowserInv, NEW b \in Browsers, SendPush(b)
  PROVE  BrowserInv'
  <1>1. /\ TypeOK /\ SessionInv(b) /\ slots' = slots
        /\ step[b] = "live" /\ queue[b] # <<>>
        /\ UNCHANGED <<wish, rest, asof>>
    BY DEF BrowserInv, SendPush, Waiting
  <1>2. Head(queue[b]).server \in Servers \cup {None}
    BY <1>1, PushTypes
  <1>3. /\ step'[b] = "push" /\ wire'[b] # <<>>
        /\ Numbered(wire'[b], cipher'[b])
        /\ HasEnd(wire[b]) => HasEnd(wire'[b])
        /\ RowsOf(wire'[b]) = RowsOf(wire[b])
        /\ ServersOf(wire'[b]) = ServersOf(wire[b])
    BY <1>1, <1>2, SendsNext DEF SendPush, SessionInv, Sending
  <1>4. CipherInv(b)'
    BY <1>3 DEF CipherInv
  <1>5. PushInv(b)'
    BY <1>1, <1>3 DEF PushInv, SessionInv
  <1>6. ListInv(b)'
    <2>1. Selected(b)' = Selected(b)
      BY <1>1, <1>3 DEF Selected
    <2> QED BY <1>1, <1>3, <2>1 DEF ListInv, SessionInv
  <1>7. TypeOK'
    BY <1>1, SessionTypes DEF TypeOK, Continue
  <1>8. \A c \in Browsers \ {b} : queue'[c] = queue[c]
    BY <1>1 DEF SendPush, TypeOK
  <1>9. Alone(b)
    BY <1>1, <1>8, SendAlone DEF SendPush
  <1> QED BY <1>1, <1>4, <1>5, <1>6, <1>7, <1>9, Combine DEF SessionInv, BrowserInv

LEMMA LeaveStep ==
  ASSUME BrowserInv, NEW b \in Browsers, Leave(b)
  PROVE  BrowserInv'
  <1>1. TypeOK /\ NoneTwice(slots) /\ slots \in Seq(Browsers)
    BY DEF BrowserInv, TypeOK
  <1>2. /\ slots' \in Seq(Browsers) /\ NoneTwice(slots')
        /\ \A i \in DOMAIN slots' : slots'[i] # b /\ OnSlot(slots'[i])
    BY <1>1, SlotTakenOut DEF Leave
  <1>3. ~OnSlot(b)' /\ \A c \in Browsers : OnSlot(c)' => OnSlot(c)
    BY <1>2 DEF OnSlot
  <1>4. /\ step'[b] = "closed" /\ wire'[b] = <<>> /\ cipher'[b] = 0
        /\ queue'[b] = <<>>
    BY <1>1 DEF Leave, Close, TypeOK
  <1>5. CipherInv(b)' /\ PushInv(b)' /\ ListInv(b)'
    BY <1>3, <1>4, NoMessages DEF CipherInv, PushInv, ListInv
  <1>6. TypeOK'
    BY <1>1, <1>2, LeaveTypes
  <1>7. Alone(b)
    BY <1>1, <1>3 DEF Alone, Same, Leave, Close, TypeOK
  <1> QED BY <1>2, <1>5, <1>6, <1>7, Combine DEF SessionInv

LEMMA OtherPacketStep ==
  ASSUME BrowserInv, NEW b \in Browsers, OtherPacket(b)
  PROVE  BrowserInv'
  <1>1. CASE Leave(b)
    BY <1>1, LeaveStep
  <1>2. CASE UNCHANGED <<table, slots, step, wish, rest, queue, cipher, wire, asof, base>>
    <2>1. TypeOK'
      BY <1>2, SessionTypes DEF BrowserInv, TypeOK
    <2>2. \A c \in Browsers : Same(c)
      BY <1>2 DEF Same, OnSlot
    <2> QED BY <1>2, <2>1, <2>2, SameKeeps DEF BrowserInv
  <1> QED BY <1>1, <1>2 DEF OtherPacket

(* An update of the table reaches only those on its slots.                 *)
LEMMA UpdateStep ==
  ASSUME BrowserInv, NEW s \in Servers, UpdateTable(s)
  PROVE  BrowserInv'
  <1>1. TypeOK /\ TypeOK'
    BY UpdateTypes DEF BrowserInv
  <1>2. PICK u \in Updates : Signal(u) /\ UNCHANGED <<slots, wish, rest, deaf, asof>>
    <2>1. Update("added", s) \in Updates /\ Update("removed", s) \in Updates
      BY DEF Update, Updates
    <2> QED BY <2>1 DEF UpdateTable, AddOrUpdateServer, RemoveServer
  <1>3. UNCHANGED <<step, cipher, wire>>
    BY <1>2 DEF Signal
  <1>4. ASSUME NEW b \in Browsers
        PROVE  queue'[b] = queue[b] \/ (OnSlot(b) /\ queue'[b] # <<>>)
    <2>1. CASE b \in Called(u) /\ HasRoom(b)
      <3>1. OnSlot(b)
        BY <2>1 DEF Called, OnSlot
      <3>2. queue[b] \in Seq(Updates)
        BY <1>1 DEF TypeOK
      <3>3. Queued(b, u) # <<>>
        BY <3>2, AppendProperties DEF Queued
      <3> QED BY <1>2, <2>1, <3>1, <3>3 DEF Signal
    <2>2. CASE ~(b \in Called(u) /\ HasRoom(b))
      BY <1>2, <2>2 DEF Signal
    <2> QED BY <2>1, <2>2
  <1>5. \A b \in Browsers : Same(b)
    BY <1>2, <1>3, <1>4 DEF Same, OnSlot
  <1> QED BY <1>1, <1>2, <1>5, SameKeeps DEF BrowserInv

LEMMA BrowserInit == Init => BrowserInv
  <1> SUFFICES ASSUME Init PROVE BrowserInv
    OBVIOUS
  <1>1. TypeOK
    BY TypeInit
  <1>2. NoneTwice(slots) /\ \A b : ~OnSlot(b)
    BY DEF Init, NoneTwice, OnSlot
  <1>3. ASSUME NEW b \in Browsers PROVE SessionInv(b)
    BY <1>2, NoMessages DEF Init, SessionInv, CipherInv, PushInv, ListInv
  <1> QED BY <1>1, <1>2, <1>3 DEF BrowserInv

LEMMA BrowserStep == BrowserInv /\ [Next]_vars => BrowserInv'
  <1> SUFFICES ASSUME BrowserInv, [Next]_vars PROVE BrowserInv'
    OBVIOUS
  <1>1. CASE UNCHANGED vars
    <2>1. \A b \in Browsers : Same(b)
      BY <1>1 DEF vars, Same, OnSlot
    <2> QED BY <1>1, <2>1, SameKeeps DEF BrowserInv, TypeOK, vars
  <1>2. ASSUME NEW b \in Browsers, Session(b) PROVE BrowserInv'
    BY <1>2, RequestStep, SendHeaderStep, NoListStep, GetServersStep, SendRowStep,
       SendEndStep, ConnectStep, SendPushStep, LeaveStep, OtherPacketStep
       DEF Session, Continue, RowFails, PushSent, HangUp
  <1> QED BY <1>1, <1>2, UpdateStep DEF Next

LEMMA Invariant == Spec => []BrowserInv
  BY BrowserInit, BrowserStep, PTL DEF Spec

-----------------------------------------------------------------------------
(* The variables keep their types; above all the channel of a session      *)
(* never holds more than its buffer and one update handed over.            *)
THEOREM TypeOKHolds == Spec => []TypeOK
  <1>1. BrowserInv => TypeOK
    BY DEF BrowserInv
  <1> QED BY <1>1, Invariant, PTL

(* A slot of the signals never outlives its session, is not called before  *)
(* the list is complete, and is there once.                                *)
THEOREM SlotsAreLiveHolds == Spec => []SlotsAreLive
  <1>1. ASSUME BrowserInv PROVE SlotsAreLive
    <2>1. ASSUME NEW i \in DOMAIN slots PROVE step[slots[i]] \in {"live", "push"}
      <3>1. slots[i] \in Browsers /\ OnSlot(slots[i])
        BY <1>1 DEF BrowserInv, TypeOK, OnSlot
      <3> QED BY <1>1, <3>1 DEF BrowserInv, SessionInv, PushInv
    <2> QED BY <1>1, <2>1 DEF SlotsAreLive, BrowserInv, NoneTwice
  <1> QED BY <1>1, Invariant, PTL

(* The n-th message after the challenge was made by the n-th encryption,   *)
(* so a client that decrypts in the order of arrival stays in step.        *)
THEOREM CipherInStepHolds == Spec => []CipherInStep
  <1>1. BrowserInv => CipherInStep
    BY DEF BrowserInv, SessionInv, CipherInv, Numbered, CipherInStep
  <1> QED BY <1>1, Invariant, PTL

(* A complete list is the table as it was at one moment, as long as the    *)
(* limit allows, whatever comes and goes while it is sent.                 *)
THEOREM ListIsSnapshotHolds == Spec => []ListIsSnapshot
  <1>1. ASSUME BrowserInv, NEW b \in Browsers,
               step[b] \in {"end", "live", "push"}, wish[b] # "header"
        PROVE  LET sent == {wire[b][i].server : i \in Rows(b)}
               IN /\ sent \subseteq asof[b] \cap Matching[b]
                  /\ Cardinality(sent) = Cardinality(Rows(b))
                  /\ Cardinality(sent) < Limit[b] =>
                       asof[b] \cap Matching[b] \subseteq sent
    <2>1. Rows(b) = RowsOf(wire[b])
      BY DEF Rows, RowsOf
    <2>2. {wire[b][i].server : i \in Rows(b)} = ServersOf(wire[b])
      BY <2>1 DEF ServersOf
    <2>3. ListInv(b)
      BY <1>1 DEF BrowserInv, SessionInv
    <2>4. Selected(b) = ServersOf(wire[b])
      BY <1>1, <2>3 DEF ListInv, Selected
    <2> QED BY <1>1, <2>1, <2>2, <2>3, <2>4 DEF ListInv
  <1>2. BrowserInv => ListIsSnapshot
    BY <1>1 DEF ListIsSnapshot
  <1> QED BY <1>2, Invariant, PTL

(* Only a push adds a push to what was sent.                               *)
LEMMA PushOnlyThen ==
  ASSUME BrowserInv, [Next]_vars, NEW b \in Browsers,
         Len(wire'[b]) > Len(wire[b]), Last(wire'[b]).what = "push"
  PROVE  step[b] = "live" /\ queue[b] # <<>>
  <1>1. TypeOK
    BY DEF BrowserInv
  <1>2. wire[b] \in Seq(Message) /\ Len(wire[b]) \in Nat /\ Len(<<>>) = 0
    BY <1>1 DEF TypeOK
  <1>3. wire'[b] # wire[b] /\ wire'[b] # <<>>
    BY <1>2
  <1>4. ASSUME NEW what \in Sending, NEW m \in Message, m.what = what, what # "push",
               wire'[b] = Append(wire[b], m)
        PROVE  FALSE
    <2>1. Last(wire'[b]) = m
      BY <1>2, <1>4, AppendProperties DEF Last
    <2> QED BY <1>4, <2>1
  <1>5. ASSUME NEW c \in Browsers, NEW what \in Sending, NEW s \in Servers \cup {None},
               what # "push", Send(c, what, s) \/ SendPlain(c, what)
        PROVE  FALSE
    <2>1. c = b
      BY <1>1, <1>3, <1>5 DEF Send, SendPlain, TypeOK
    <2>2. PICK m \in Message : m.what = what /\ wire'[b] = Append(wire[b], m)
      <3>1. cipher[b] + 1 \in Nat
        BY <1>1 DEF TypeOK
      <3>2. /\ [what |-> what, server |-> None, nr |-> 0] \in Message
            /\ [what |-> what, server |-> s, nr |-> cipher[b] + 1] \in Message
        BY <3>1 DEF Message
      <3> QED BY <1>1, <1>5, <2>1, <3>2 DEF Send, SendPlain, TypeOK
    <2> QED BY <1>4, <1>5, <2>2
  <1>6. ASSUME NEW c \in Browsers, Leave(c) PROVE FALSE
    BY <1>1, <1>3, <1>6 DEF Leave, TypeOK
  <1>7. ~UNCHANGED wire
    BY <1>3
  <1>8. ~UNCHANGED vars /\ \A s \in Servers : ~UpdateTable(s)
    BY <1>7 DEF vars, UpdateTable, AddOrUpdateServer, RemoveServer, Signal
  <1>9. PICK c \in Browsers : Session(c)
    BY <1>8 DEF Next
  <1>10. SendPush(c)
    <2>1. \A w \in {"header", "list", "push"} : ~Request(c, w)
      BY <1>5 DEF Request, Sending
    <2>2. ~SendHeader(c) /\ ~SendRow(c) /\ ~SendEnd(c)
      BY <1>5 DEF SendHeader, SendRow, SendEnd, Sending
    <2>3. ~NoList(c) /\ ~GetServers(c) /\ ~Connect(c)
      BY <1>7 DEF NoList, GetServers, Connect
    <2>4. ~RowFails(c) /\ ~PushSent(c) /\ ~OtherPacket(c) /\ ~HangUp(c)
      BY <1>6, <1>7 DEF RowFails, PushSent, OtherPacket, HangUp
    <2> QED BY <1>9, <2>1, <2>2, <2>3, <2>4 DEF Session, Continue
  <1>11. c = b
    BY <1>1, <1>3, <1>10 DEF SendPush, Send, TypeOK
  <1> QED BY <1>10, <1>11 DEF SendPush, Waiting

(* An update is pushed only while nothing else is sent, and only to a      *)
(* client that has its list.                                               *)
THEOREM OneSendAtATimeHolds == Spec => OneSendAtATime
  <1>1. ASSUME BrowserInv, [Next]_vars
        PROVE  \A b \in Browsers :
                 Len(wire'[b]) > Len(wire[b]) /\ Last(wire'[b]).what = "push" =>
                   /\ step[b] = "live"
                   /\ \E i \in DOMAIN wire[b] : wire[b][i].what = "end"
    <2> TAKE b \in Browsers
    <2> HAVE Len(wire'[b]) > Len(wire[b]) /\ Last(wire'[b]).what = "push"
    <2>1. step[b] = "live" /\ queue[b] # <<>>
      BY <1>1, PushOnlyThen
    <2>2. HasEnd(wire[b])
      BY <1>1, <2>1 DEF BrowserInv, SessionInv, PushInv
    <2> QED BY <2>1, <2>2 DEF HasEnd
  <1> QED BY <1>1, Invariant, PTL DEF OneSendAtATime, Spec

-----------------------------------------------------------------------------
(* The channel of a session and the table.  As long as base[b] is a table, *)
(* b is called by every signal and has taken nothing out of its channel.   *)
TrackInv(b) ==
  /\ ~OnSlot(b) => queue[b] = <<>>
  /\ base[b] # None => OnSlot(b) /\ step[b] = "live"
  /\ base[b] # None /\ HasRoom(b) => Known(b) = table

Tracking == \A b \in Browsers : TrackInv(b)

(* A queue with one update more knows what the update says.                *)
LEMMA LastOfQueue ==
  ASSUME NEW q \in Seq(Updates), NEW u \in Updates, NEW s, NEW x, x = Append(q, u)
  PROVE  /\ (\A i \in DOMAIN x : x[i].server # s) <=>
              u.server # s /\ \A i \in DOMAIN q : q[i].server # s
         /\ (\E i \in DOMAIN x : LastWord(x, s, i) /\ x[i].what = "added") <=>
              IF u.server = s THEN u.what = "added"
              ELSE \E i \in DOMAIN q : LastWord(q, s, i) /\ q[i].what = "added"
  <1> DEFINE n == Len(q)
  <1>1. /\ n \in Nat /\ DOMAIN q = 1..n /\ DOMAIN x = 1..n + 1
        /\ x[n + 1] = u /\ \A i \in 1..n : x[i] = q[i]
    BY AppendProperties
  <1> HIDE DEF n
  <1>2. /\ \A i \in DOMAIN x : i \in DOMAIN q \/ i = n + 1
        /\ \A i \in DOMAIN q : i \in DOMAIN x /\ n + 1 > i /\ ~(i > n + 1)
        /\ n + 1 \in DOMAIN x /\ ~(n + 1 > n + 1)
    BY <1>1
  <1>3. (\A i \in DOMAIN x : x[i].server # s) <=>
          u.server # s /\ \A i \in DOMAIN q : q[i].server # s
    BY <1>1, <1>2
  <1>4. CASE u.server = s
    <2>1. LastWord(x, s, n + 1)
      BY <1>1, <1>2, <1>4 DEF LastWord
    <2>2. \A i \in DOMAIN q : ~LastWord(x, s, i)
      BY <1>1, <1>2, <1>4 DEF LastWord
    <2> QED BY <1>1, <1>2, <1>3, <1>4, <2>1, <2>2
  <1>5. CASE u.server # s
    <2>1. ~LastWord(x, s, n + 1)
      BY <1>1, <1>5 DEF LastWord
    <2>2. ASSUME NEW i \in DOMAIN q PROVE LastWord(x, s, i) <=> LastWord(q, s, i)
      BY <1>1, <1>2, <1>5 DEF LastWord
    <2> QED BY <1>1, <1>2, <1>3, <1>5, <2>1, <2>2
  <1> QED BY <1>4, <1>5

(* A session whose variables stay as they are keeps track while the table  *)
(* does.                                                                   *)
LEMMA TrackKept ==
  ASSUME NEW b \in Browsers, TrackInv(b), table' = table,
         step'[b] = step[b], queue'[b] = queue[b], base'[b] = base[b],
         b \in deaf => b \in deaf',
         OnSlot(b)' <=> OnSlot(b), \A c \in Browsers : Len(queue[c]) \in Nat
  PROVE  TrackInv(b)'
  <1>1. HasRoom(b)' => HasRoom(b)
    BY BrowserAssumption DEF HasRoom
  <1>2. Known(b)' = Known(b)
    BY DEF Known
  <1> QED BY <1>1, <1>2 DEF TrackInv

(* A step of another session.                                              *)
LEMMA TrackOthers ==
  ASSUME BrowserInv, Tracking, NEW b \in Browsers, Session(b), NEW c \in Browsers \ {b}
  PROVE  TrackInv(c)'
  <1>1. TypeOK /\ NoneTwice(slots) /\ slots \in Seq(Browsers)
    BY DEF BrowserInv, TypeOK
  <1>2. OnSlot(c)' <=> OnSlot(c)
    <2>1. CASE slots' = slots
      BY <2>1 DEF OnSlot
    <2>2. CASE slots' = Append(slots, b)
      <3>1. /\ \A i \in 1..Len(slots) : slots'[i] = slots[i]
            /\ slots'[Len(slots) + 1] = b
            /\ DOMAIN slots' = 1..Len(slots) + 1 /\ DOMAIN slots = 1..Len(slots)
            /\ Len(slots) \in Nat
        BY <1>1, <2>2, AppendProperties
      <3>2. \A i \in 1..Len(slots) + 1 : i \in 1..Len(slots) \/ i = Len(slots) + 1
        BY <3>1
      <3>3. \A i \in 1..Len(slots) : i \in 1..Len(slots) + 1
        BY <3>1
      <3> QED BY <3>1, <3>2, <3>3 DEF OnSlot
    <2>3. CASE Close(b)
      BY <1>1, <2>3, SlotTakenOut DEF OnSlot
    <2> QED BY <2>1, <2>2, <2>3 DEF Session, Continue, Request, SendHeader, NoList,
              GetServers, SendRow, RowFails, SendEnd, Connect, SendPush, PushSent,
              OtherPacket, HangUp, Leave
  <1>3. table' = table /\ (c \in deaf => c \in deaf')
    BY DEF Session, Continue, Request, SendHeader, NoList, GetServers, SendRow,
           RowFails, SendEnd, Connect, SendPush, PushSent, OtherPacket, HangUp, Leave
  <1>4. step'[c] = step[c]
    BY <1>1 DEF Session, Continue, Request, SendHeader, NoList, GetServers, SendRow,
           RowFails, SendEnd, Connect, SendPush, PushSent, OtherPacket, HangUp, Leave,
           Close, Send, SendPlain, TypeOK
  <1>5. queue'[c] = queue[c] /\ base'[c] = base[c]
    BY <1>1 DEF Session, Continue, Request, SendHeader, NoList, GetServers, SendRow,
           RowFails, SendEnd, Connect, SendPush, PushSent, OtherPacket, HangUp, Leave,
           TypeOK
  <1> QED BY <1>1, <1>2, <1>3, <1>4, <1>5, TrackKept DEF Tracking, TypeOK

(* A step of its own.                                                      *)
LEMMA TrackSession ==
  ASSUME BrowserInv, Tracking, NEW b \in Browsers, Session(b)
  PROVE  TrackInv(b)'
  <1>1. TypeOK /\ SessionInv(b) /\ TrackInv(b) /\ slots \in Seq(Browsers)
    BY DEF BrowserInv, Tracking, TypeOK
  <1>2. CASE step[b] # "live" /\ UNCHANGED <<slots, queue, base>>
    <2>1. base'[b] = None /\ (OnSlot(b)' <=> OnSlot(b))
      BY <1>1, <1>2 DEF TrackInv, OnSlot
    <2> QED BY <1>1, <1>2, <2>1 DEF TrackInv
  <1>3. CASE Leave(b)
    BY <1>1, <1>3 DEF Leave, TrackInv, TypeOK
  <1>4. CASE Connect(b)
    <2>1. step[b] = "end" /\ step'[b] = "live" /\ queue' = queue /\ table' = table
      BY <1>1, <1>4 DEF Connect, TypeOK
    <2>2. CASE UNCHANGED <<slots, base>>
      BY <1>2, <2>1, <2>2
    <2>3. CASE slots' = Append(slots, b) /\ base' = [base EXCEPT ![b] = table]
      <3>1. ~OnSlot(b) /\ queue[b] = <<>>
        BY <1>1, <2>1 DEF SessionInv, PushInv, TrackInv
      <3>2. OnSlot(b)'
        <4>1. slots'[Len(slots) + 1] = b /\ Len(slots) + 1 \in DOMAIN slots'
          BY <1>1, <2>3, AppendProperties
        <4> QED BY <4>1 DEF OnSlot
      <3>3. base'[b] = table /\ table \subseteq Servers
        BY <1>1, <2>3 DEF TypeOK
      <3>4. Known(b)' = table'
        BY <2>1, <3>1, <3>3 DEF Known
      <3> QED BY <2>1, <3>2, <3>4 DEF TrackInv
    <2> QED BY <1>4, <2>2, <2>3 DEF Connect
  <1>5. CASE SendPush(b)
    <2>1. queue[b] # <<>> /\ slots' = slots /\ base'[b] = None
      BY <1>1, <1>5 DEF SendPush, TypeOK
    <2>2. OnSlot(b)'
      BY <1>1, <2>1 DEF TrackInv, OnSlot
    <2> QED BY <2>1, <2>2 DEF TrackInv
  <1>6. CASE UNCHANGED <<table, slots, step, queue, base>> /\ deaf \subseteq deaf'
    <2>1. /\ table' = table /\ step'[b] = step[b] /\ queue'[b] = queue[b]
          /\ base'[b] = base[b] /\ (b \in deaf => b \in deaf')
          /\ OnSlot(b)' <=> OnSlot(b)
      BY <1>6 DEF OnSlot
    <2>2. \A c \in Browsers : Len(queue[c]) \in Nat
      BY <1>1 DEF TypeOK
    <2> QED BY <1>1, <2>1, <2>2, TrackKept
  <1> QED BY <1>1, <1>2, <1>3, <1>4, <1>5, <1>6
          DEF Session, Continue, Request, SendHeader, NoList, GetServers, SendRow,
              RowFails, SendEnd, Complete, PushSent, OtherPacket, HangUp

(* An update of the table, put into the channels with room of all those    *)
(* that keep track.                                                        *)
LEMMA TrackUpdate ==
  ASSUME BrowserInv, Tracking, NEW s \in Servers, UpdateTable(s), NEW b \in Browsers
  PROVE  TrackInv(b)'
  <1>1. /\ TypeOK /\ TrackInv(b) /\ queue[b] \in Seq(Updates)
        /\ Len(queue[b]) \in Nat /\ table \subseteq Servers
    BY DEF BrowserInv, Tracking, TypeOK
  <1>2. PICK u \in Updates :
          /\ Signal(u) /\ UNCHANGED <<slots, deaf>> /\ u.server = s
          /\ table' = IF u.what = "added" THEN table \cup {s} ELSE table \ {s}
    <2>1. /\ Update("added", s) \in Updates /\ Update("removed", s) \in Updates
          /\ Update("added", s).server = s /\ Update("removed", s).server = s
          /\ Update("added", s).what = "added" /\ Update("removed", s).what # "added"
      BY DEF Update, Updates
    <2> QED BY <2>1 DEF UpdateTable, AddOrUpdateServer, RemoveServer
  <1>3. step' = step /\ (OnSlot(b)' <=> OnSlot(b))
    BY <1>2 DEF Signal, OnSlot
  <1>4. ASSUME ~(b \in Called(u) /\ HasRoom(b)) PROVE queue'[b] = queue[b]
    BY <1>2, <1>4 DEF Signal
  <1>5. ~OnSlot(b)' => queue'[b] = <<>>
    BY <1>1, <1>3, <1>4 DEF TrackInv, Called, OnSlot
  <1>6. CASE base'[b] = None
    BY <1>5, <1>6 DEF TrackInv
  <1>7. CASE base'[b] # None
    <2>1. base'[b] = base[b] /\ b \in Called(u)
      <3>1. base'[b] = IF b \in Range(slots) \ Called(u) THEN None ELSE base[b]
        BY <1>2 DEF Signal, LoseTrack
      <3>2. base'[b] = base[b] /\ ~(b \in Range(slots) \ Called(u))
        BY <1>7, <3>1
      <3>3. b \in Range(slots)
        BY <1>1, <1>7, <3>2 DEF TrackInv, OnSlot, Range
      <3> QED BY <3>2, <3>3
    <2>2. OnSlot(b)' /\ step'[b] = "live"
      BY <1>1, <1>3, <1>7, <2>1 DEF TrackInv
    <2>3. CASE ~HasRoom(b)
      <3>1. ~HasRoom(b)'
        BY <1>2, <1>3, <1>4, <2>3 DEF HasRoom
      <3> QED BY <1>5, <2>2, <3>1 DEF TrackInv
    <2>4. CASE HasRoom(b)
      <3>1. queue'[b] = Append(queue[b], u)
        BY <1>2, <2>1, <2>4 DEF Signal, Queued
      <3>2. Known(b) = table
        BY <1>1, <1>7, <2>1, <2>4 DEF TrackInv
      <3> DEFINE q == queue[b]
                 x == queue'[b]
      <3>3. ASSUME NEW t \in Servers PROVE t \in Known(b)' <=> t \in table'
        <4>1. q \in Seq(Updates) /\ x = Append(q, u) /\ u.server = s
          BY <1>1, <1>2, <3>1
        <4>2. t \in Known(b)' <=>
                \/ t \in base[b] /\ \A i \in DOMAIN x : x[i].server # t
                \/ \E i \in DOMAIN x : LastWord(x, t, i) /\ x[i].what = "added"
          BY <2>1 DEF Known
        <4>3. t \in table <=>
                \/ t \in base[b] /\ \A i \in DOMAIN q : q[i].server # t
                \/ \E i \in DOMAIN q : LastWord(q, t, i) /\ q[i].what = "added"
          BY <3>2 DEF Known
        <4> HIDE DEF q, x
        <4>4. /\ (\A i \in DOMAIN x : x[i].server # t) <=>
                   u.server # t /\ \A i \in DOMAIN q : q[i].server # t
              /\ (\E i \in DOMAIN x : LastWord(x, t, i) /\ x[i].what = "added") <=>
                   IF u.server = t THEN u.what = "added"
                   ELSE \E i \in DOMAIN q : LastWord(q, t, i) /\ q[i].what = "added"
          BY <4>1, LastOfQueue DEF LastWord
        <4>5. CASE s = t
          BY <1>2, <4>2, <4>5, <4>4
        <4>6. CASE s # t
          BY <1>2, <4>2, <4>3, <4>6, <4>4
        <4> QED BY <4>5, <4>6
      <3>4. Known(b)' \subseteq Servers /\ table' \subseteq Servers
        BY <1>1, <1>2 DEF Known
      <3>5. Known(b)' = table'
        BY <3>3, <3>4
      <3> QED BY <1>5, <2>2, <3>5 DEF TrackInv
    <2> QED BY <2>3, <2>4
  <1> QED BY <1>6, <1>7

LEMMA TrackStep == BrowserInv /\ Tracking /\ [Next]_vars => Tracking'
  <1> SUFFICES ASSUME BrowserInv, Tracking, [Next]_vars, NEW b \in Browsers
               PROVE  TrackInv(b)'
    BY DEF Tracking
  <1>1. CASE UNCHANGED vars
    BY <1>1, TrackKept DEF vars, OnSlot, BrowserInv, TypeOK, Tracking
  <1>2. ASSUME NEW c \in Browsers, Session(c) PROVE TrackInv(b)'
    BY <1>2, TrackOthers, TrackSession
  <1> QED BY <1>1, <1>2, TrackUpdate DEF Next

(* As long as its channel has had room and no slot threw, what a session   *)
(* has queued since its slots were connected leads to the table as it is.  *)
THEOREM QueueLeadsToTableHolds == Spec => []QueueLeadsToTable
  <1>1. Init => Tracking
    <2>1. Init => \A b \in Browsers : base[b] = None /\ queue[b] = <<>>
      BY DEF Init
    <2> QED BY <2>1 DEF Tracking, TrackInv
  <1>2. Tracking => QueueLeadsToTable
    BY DEF Tracking, TrackInv, QueueLeadsToTable
  <1> QED BY <1>1, <1>2, Invariant, TrackStep, PTL DEF Spec

=============================================================================
