---------------------------- MODULE PacketsProofs ----------------------------
(***************************************************************************)
(* Theorems about packets: packet_reader cuts them from a connection, for  *)
(* every size of the buffer, every stream of bytes and every way the bytes *)
(* arrive (PacketReader); and what is said in the packets of the game      *)
(* servers is read from them, for packets of every length (Packets).       *)
(***************************************************************************)
EXTENDS Packets, PacketReader, SequenceTheorems, TLAPS

(* The reader: what is at the place of the next packet.                    *)
LEMMA StreamTypes ==
  ASSUME stream \in Streams, base \in Nat, offset \in Nat,
         base + offset <= stream.size
  PROVE  Length \in Nat /\ stream.known[Here] \in BOOLEAN /\ Here \in Nat
  BY StreamsAssumption DEF Length, Here

(* The last of the packets handed out, after one more.                     *)
LEMMA AppendPacket ==
  ASSUME NEW ps \in Seq(Packet), NEW p \in Packet
  PROVE  /\ Append(ps, p) \in Seq(Packet)
         /\ Append(ps, p) # <<>>
         /\ Len(Append(ps, p)) = Len(ps) + 1
         /\ Append(ps, p)[Len(Append(ps, p))] = p
         /\ \A i \in 1..Len(ps) : Append(ps, p)[i] = ps[i]
         /\ EndOf(Append(ps, p)) = p.at + p.len
  <1>1. /\ Append(ps, p) \in Seq(Packet)
        /\ Len(Append(ps, p)) = Len(ps) + 1
        /\ Append(ps, p)[Len(ps) + 1] = p
        /\ \A i \in 1..Len(ps) : Append(ps, p)[i] = ps[i]
    OBVIOUS
  <1>2. Append(ps, p) # <<>>
    BY AppendProperties
  <1> QED BY <1>1, <1>2 DEF EndOf

LEMMA ReaderInit == Init => ReaderInv
  <1> SUFFICES ASSUME Init PROVE ReaderInv
    OBVIOUS
  <1>1. stream \in Streams /\ stream.size \in Nat
    BY StreamsAssumption DEF Init
  <1>2. packets = <<>> /\ packets \in Seq(Packet) /\ Len(packets) = 0
    BY DEF Init
  <1> QED
    BY <1>1, <1>2, BufferAssumption DEF Init, ReaderInv, TypeOK, PacketsAreStream, EndOf,
         RoomToRead, PacketReceived, NothingWithheld, HEADER

(* Reading fills the room that is there.                                   *)
LEMMA ReadKeeps ==
  ASSUME ReaderInv, NEW n \in 0..BUFFER, Read(n)
  PROVE  ReaderInv'
  <1> USE BufferAssumption DEF ReaderInv, TypeOK, Read
  <1>1. n \in 0..(BUFFER - available)
    BY DEF Readable
  <1>2. available' \in 0..BUFFER /\ base' + available' <= stream'.size
    BY <1>1
  <1>3. offset' = 0 /\ 0 <= available' /\ base + 0 = base /\ Here' = base
    BY <1>2 DEF Here
  <1>4. PacketsAreStream'
    BY DEF PacketsAreStream
  <1>5. EndOf(packets') = Here'
    BY <1>3 DEF EndOf
  <1> QED
    BY <1>2, <1>3, <1>4, <1>5 DEF RoomToRead, PacketReceived, NothingWithheld

(* A packet handed out begins where the one before it ended.               *)
LEMMA YieldKeeps ==
  ASSUME ReaderInv, Yield
  PROVE  ReaderInv'
  <1> USE BufferAssumption DEF ReaderInv, TypeOK, Yield
  <1> DEFINE p == [at |-> Here, len |-> Length]
  <1>1. base + offset <= stream.size
    BY StreamsAssumption
  <1>2. Length \in Nat /\ Here \in Nat
    BY <1>1, StreamTypes
  <1>3. p \in Packet /\ p.at = Here /\ p.len = Length
    BY <1>2 DEF Packet
  <1>4. Here' = Here /\ Length' = Length
    BY DEF Here, Length
  <1> HIDE DEF p
  <1>5. /\ packets' = Append(packets, p)
        /\ packets' \in Seq(Packet)
        /\ packets' # <<>>
        /\ Len(packets') = Len(packets) + 1
        /\ packets'[Len(packets')] = p
        /\ \A i \in 1..Len(packets) : packets'[i] = packets[i]
    BY <1>3, AppendPacket DEF p
  <1>6. PacketsAreStream'
    <2> SUFFICES ASSUME NEW i \in 1..Len(packets')
                 PROVE  /\ packets'[i].at = IF i = 1 THEN 0
                             ELSE packets'[i - 1].at + packets'[i - 1].len
                        /\ packets'[i].len = stream'.length[packets'[i].at]
      BY DEF PacketsAreStream
    <2>1. CASE i \in 1..Len(packets)
      BY <2>1, <1>5 DEF PacketsAreStream
    <2>2. CASE i = Len(packets) + 1
      <3>1. packets'[i] = p /\ stream' = stream
        BY <2>2, <1>5
      <3>2. p.at = EndOf(packets)
        BY <1>3
      <3>3. EndOf(packets) = IF i = 1 THEN 0
                           ELSE packets'[i - 1].at + packets'[i - 1].len
        BY <2>2, <1>5 DEF EndOf
      <3> QED BY <3>1, <3>2, <3>3, <1>3 DEF Length
    <2> QED BY <2>1, <2>2, <1>5
  <1>7. PacketReceived'
    <2>1. HEADER <= Length /\ offset + Length <= available
      BY <1>2 DEF Malformed, Incomplete, HEADER
    <2> QED BY <2>1, <1>4, <1>5 DEF PacketReceived, p
  <1> QED
    BY <1>5, <1>6, <1>7 DEF RoomToRead, NothingWithheld

(* Going on behind the packet stays within what was received.              *)
LEMMA ResumeKeeps ==
  ASSUME ReaderInv, Resume
  PROVE  ReaderInv'
  <1> USE BufferAssumption DEF ReaderInv, TypeOK, Resume, Advance
  <1>1. packets # <<>> /\ packets[Len(packets)] = [at |-> Here, len |-> Length]
        /\ offset + Length <= available /\ HEADER <= Length
    BY DEF PacketReceived
  <1>2. Length \in Nat /\ Here \in Nat
    BY StreamTypes, StreamsAssumption
  <1>3. offset' \in Nat /\ offset' <= available'
    BY <1>1, <1>2
  <1>4. EndOf(packets') = Here'
    BY <1>1, <1>2 DEF EndOf, Here
  <1>5. PacketsAreStream'
    BY DEF PacketsAreStream
  <1> QED
    BY <1>3, <1>4, <1>5 DEF RoomToRead, PacketReceived, NothingWithheld

(* What is left when the reader goes back to reading is less than a packet *)
(* that fits the buffer.                                                   *)
LEMMA WaitKeeps ==
  ASSUME ReaderInv, WaitForMore
  PROVE  ReaderInv'
  <1> USE BufferAssumption DEF ReaderInv, TypeOK, WaitForMore, Compact
  <1>1. Length \in Nat /\ Here \in Nat /\ stream.size \in Nat
    BY StreamTypes, StreamsAssumption
  <1>2. /\ base' = Here /\ base' \in Nat
        /\ available' = available - offset /\ available' \in 0..BUFFER
        /\ base' + available' <= stream'.size
    BY <1>1 DEF Here
  <1>3. available' < BUFFER
    BY <1>1 DEF HasHeader, Oversized, Incomplete, HEADER
  <1>4. available' < HEADER \/ available' < stream'.length[base']
    BY <1>1, <1>2 DEF HasHeader, Incomplete, HEADER, Length
  <1>5. PacketsAreStream' /\ EndOf(packets') = base'
    BY <1>2 DEF PacketsAreStream, EndOf
  <1> QED
    BY <1>2, <1>3, <1>4, <1>5 DEF RoomToRead, PacketReceived, NothingWithheld

LEMMA EndKeeps ==
  ASSUME ReaderInv, ReadFails \/ Reject \/ Abandon \/ UNCHANGED vars
  PROVE  ReaderInv'
  <1>1. CASE ReadFails \/ Reject \/ Abandon
    BY <1>1 DEF ReaderInv, TypeOK, PacketsAreStream, ReadFails, Reject,
                Abandon, RoomToRead, PacketReceived, NothingWithheld
  <1>2. CASE UNCHANGED vars
    BY <1>2 DEF ReaderInv, TypeOK, PacketsAreStream, vars, RoomToRead,
                PacketReceived, NothingWithheld, Here, Length, EndOf
  <1> QED BY <1>1, <1>2

LEMMA ReaderNext == ReaderInv /\ [Next]_vars => ReaderInv'
  BY ReadKeeps, YieldKeeps, ResumeKeeps, WaitKeeps, EndKeeps DEF Next, ParsePacket

(* The inductive invariant, from which the next four follow: the reader is *)
(* where the last packet it handed out ends.                               *)
THEOREM ReaderCorrect == Spec => []ReaderInv
  BY ReaderInit, ReaderNext, PTL DEF Spec

(* The reader never waits with a full buffer, for any size of it.          *)
THEOREM RoomToReadHolds == Spec => []RoomToRead
  <1>1. ReaderInv => RoomToRead
    BY DEF ReaderInv
  <1> QED BY <1>1, ReaderCorrect, PTL

(* A packet handed out has been received to its last byte.                 *)
THEOREM PacketReceivedHolds == Spec => []PacketReceived
  <1>1. ReaderInv => PacketReceived
    BY DEF ReaderInv
  <1> QED BY <1>1, ReaderCorrect, PTL

(* The packets are those of the stream, however its bytes arrive.          *)
THEOREM PacketsAreStreamHolds == Spec => []PacketsAreStream
  <1>1. ReaderInv => PacketsAreStream
    BY DEF ReaderInv
  <1> QED BY <1>1, ReaderCorrect, PTL

(* No complete packet is kept back while the reader waits.                 *)
THEOREM NothingWithheldHolds == Spec => []NothingWithheld
  <1>1. ReaderInv => NothingWithheld
    BY DEF ReaderInv
  <1> QED BY <1>1, ReaderCorrect, PTL

-----------------------------------------------------------------------------
(* How texts are joined.                                                   *)
Concat(context, r, s) == r \o s

Flat == INSTANCE Folding WITH Op <- Concat

-----------------------------------------------------------------------------
(* Parts of sequences.                                                     *)
LEMMA Parts ==
  ASSUME NEW T, NEW a \in Seq(T), NEW b \in Seq(T)
  PROVE  /\ SubSeq(a \o b, 1, Len(a)) = a
         /\ SubSeq(a \o b, Len(a) + 1, Len(a \o b)) = b
  <1>1. /\ a \o b \in Seq(T) /\ Len(a \o b) = Len(a) + Len(b)
        /\ Len(a) \in Nat /\ Len(b) \in Nat
    BY ConcatProperties, LenProperties
  <1>2. SubSeq(a \o b, 1, Len(a)) = a
    <2>1. CASE Len(a) = 0
      <3>1. a = <<>>
        BY <2>1, EmptySeq
      <3> QED BY <2>1, <3>1, <1>1, SubSeqEmpty
    <2>2. CASE Len(a) # 0
      <3>1. 1 \in 1..Len(a) /\ Len(a) \in 1..Len(a)
        BY <1>1, <2>2
      <3>2. SubSeq(a \o b, 1, Len(a)) = SubSeq(a, 1, Len(a))
        BY <3>1, SubSeqOfConcat1
      <3> QED BY <3>2, SubSeqFull
    <2> QED BY <2>1, <2>2
  <1>3. SubSeq(a \o b, Len(a) + 1, Len(a \o b)) = b
    <2>1. CASE Len(b) = 0
      <3>1. b = <<>>
        BY <2>1, EmptySeq
      <3>2. Len(a) + 1 \in Int /\ Len(a \o b) \in Int /\ Len(a \o b) < Len(a) + 1
        BY <1>1, <2>1
      <3> QED BY <3>1, <3>2, SubSeqEmpty
    <2>2. CASE Len(b) # 0
      <3>1. /\ Len(a) + 1 \in Len(a) + 1..Len(a) + Len(b)
            /\ Len(a) + Len(b) \in Len(a) + 1..Len(a) + Len(b)
            /\ Len(a) + 1 - Len(a) = 1 /\ Len(a) + Len(b) - Len(a) = Len(b)
        BY <1>1, <2>2
      <3>2. SubSeq(a \o b, Len(a) + 1, Len(a) + Len(b)) = SubSeq(b, Len(a) + 1 - Len(a), Len(a) + Len(b) - Len(a))
        BY <3>1, SubSeqOfConcat2
      <3>3. SubSeq(b, 1, Len(b)) = b
        BY SubSeqFull
      <3> QED BY <1>1, <3>1, <3>2, <3>3
    <2> QED BY <2>1, <2>2
  <1> QED BY <1>2, <1>3

LEMMA Middle ==
  ASSUME NEW T, NEW a \in Seq(T), NEW b \in Seq(T), NEW c \in Seq(T)
  PROVE  SubSeq((a \o b) \o c, Len(a) + 1, Len(a \o b)) = b
  <1> DEFINE ab == a \o b
  <1>1. /\ ab \in Seq(T) /\ Len(ab) = Len(a) + Len(b)
        /\ SubSeq(ab, Len(a) + 1, Len(ab)) = b
    BY ConcatProperties, Parts
  <1>2. Len(a) \in Nat /\ Len(b) \in Nat
    BY LenProperties
  <1> HIDE DEF ab
  <1>3. CASE b = <<>>
    <2>1. Len(ab) < Len(a) + 1 /\ Len(ab) \in Int /\ Len(a) + 1 \in Int
      BY <1>1, <1>2, <1>3
    <2>2. SubSeq(ab \o c, Len(a) + 1, Len(ab)) = <<>>
      BY <2>1, SubSeqEmpty
    <2> QED BY <1>3, <2>2 DEF ab
  <1>4. CASE b # <<>>
    <2>1. Len(b) # 0
      BY <1>4, EmptySeq
    <2>2. Len(a) + 1 \in 1..Len(ab) /\ Len(ab) \in 1..Len(ab)
      BY <1>1, <1>2, <2>1
    <2>3. SubSeq(ab \o c, Len(a) + 1, Len(ab)) = SubSeq(ab, Len(a) + 1, Len(ab))
      BY <1>1, <2>2, SubSeqOfConcat1
    <2> QED BY <1>1, <2>3 DEF ab
  <1> QED BY <1>3, <1>4

LEMMA ConcatAt ==
  ASSUME NEW T, NEW a \in Seq(T), NEW b \in Seq(T)
  PROVE  /\ \A i \in 1..Len(a) : (a \o b)[i] = a[i]
         /\ \A i \in 1..Len(b) : (a \o b)[Len(a) + i] = b[i]
  <1>1. Len(a) \in Nat /\ Len(b) \in Nat
    BY LenProperties
  <1>2. \A i \in 1..Len(a) + Len(b) : (a \o b)[i] = IF i <= Len(a) THEN a[i] ELSE b[i - Len(a)]
    BY ConcatProperties
  <1>3. ASSUME NEW i \in 1..Len(a) PROVE (a \o b)[i] = a[i]
    <2>1. i \in 1..Len(a) + Len(b) /\ i <= Len(a)
      BY <1>1
    <2> QED BY <1>2, <2>1
  <1>4. ASSUME NEW i \in 1..Len(b) PROVE (a \o b)[Len(a) + i] = b[i]
    <2>1. /\ Len(a) + i \in 1..Len(a) + Len(b) /\ ~(Len(a) + i <= Len(a))
          /\ Len(a) + i - Len(a) = i
      BY <1>1
    <2> QED BY <1>2, <2>1
  <1> QED BY <1>3, <1>4

LEMMA FreeConcat ==
  ASSUME NEW T, NEW a \in Seq(T), NEW b \in Seq(T), NEW token, Free(a, token), Free(b, token)
  PROVE  Free(a \o b, token)
  <1>1. Len(a) \in Nat /\ Len(b) \in Nat /\ Len(a \o b) = Len(a) + Len(b)
    BY LenProperties, ConcatProperties
  <1> SUFFICES ASSUME NEW i \in 1..Len(a) + Len(b) PROVE (a \o b)[i] # token
    BY <1>1 DEF Free
  <1>2. CASE i \in 1..Len(a)
    BY <1>2, ConcatAt DEF Free
  <1>3. CASE i \notin 1..Len(a)
    <2>1. i - Len(a) \in 1..Len(b) /\ Len(a) + (i - Len(a)) = i
      BY <1>1, <1>3
    <2>2. (a \o b)[Len(a) + (i - Len(a))] = b[i - Len(a)]
      BY <2>1, ConcatAt
    <2> QED BY <2>1, <2>2 DEF Free
  <1> QED BY <1>2, <1>3

LEMMA FirstIs ==
  ASSUME NEW T, NEW q \in Seq(T), NEW token, NEW i \in 1..Len(q), q[i] = token,
         \A j \in 1..Len(q) : q[j] = token => i <= j
  PROVE  First(q, token) = i
  <1> DEFINE at == {k \in DOMAIN q : q[k] = token}
             Least(k) == \A j \in at : k <= j
  <1>1. i \in at /\ Least(i) /\ \A k \in at : k \in Nat /\ i <= k
    BY LenProperties
  <1>2. (CHOOSE k \in at : Least(k)) \in at /\ Least(CHOOSE k \in at : Least(k))
    <2> HIDE DEF Least, at
    <2> QED BY <1>1
  <1>3. First(q, token) = CHOOSE k \in at : Least(k)
    <2>1. at # {}
      BY <1>1
    <2> QED BY <2>1 DEF First
  <1>4. i \in Nat
    OBVIOUS
  <1> DEFINE first == CHOOSE k \in at : Least(k)
  <1>5. first \in at /\ first <= i /\ i <= first /\ first \in Nat
    <2>1. first \in at /\ Least(first)
      BY <1>2
    <2> HIDE DEF first
    <2> QED BY <1>1, <2>1
  <1> HIDE DEF first
  <1>6. first = i
    BY <1>4, <1>5
  <1> QED BY <1>3, <1>6 DEF first

LEMMA FirstBehind ==
  ASSUME NEW T, NEW a \in Seq(T), NEW b \in Seq(T), NEW token,
         Free(a, token), b # <<>>, b[1] = token
  PROVE  First(a \o b, token) = Len(a) + 1
  <1> DEFINE q == a \o b
  <1>1. q \in Seq(T) /\ Len(q) = Len(a) + Len(b) /\ Len(a) \in Nat /\ Len(b) \in Nat /\ Len(b) # 0
    BY LenProperties, ConcatProperties, EmptySeq
  <1>2. /\ \A i \in 1..Len(a) : q[i] # token
        /\ q[Len(a) + 1] = token
    <2>1. 1 \in 1..Len(b)
      BY <1>1
    <2> QED BY <2>1, ConcatAt DEF Free
  <1> HIDE DEF q
  <1>3. Len(a) + 1 \in 1..Len(q)
    BY <1>1
  <1>4. \A j \in 1..Len(q) : q[j] = token => Len(a) + 1 <= j
    <2> SUFFICES ASSUME NEW j \in 1..Len(q), j \notin 1..Len(a) PROVE Len(a) + 1 <= j
      BY <1>2
    <2> QED BY <1>1
  <1>5. First(q, token) = Len(a) + 1
    BY <1>1, <1>2, <1>3, <1>4, FirstIs
  <1> QED BY <1>5 DEF q

LEMMA FirstAmong ==
  ASSUME NEW T, NEW q \in Seq(T), NEW token, First(q, token) # 0
  PROVE  First(q, token) \in 1..Len(q) /\ q[First(q, token)] = token
  <1> DEFINE at == {k \in DOMAIN q : q[k] = token}
             Least(k) == \A j \in at : k <= j
  <1>1. at # {} /\ at \subseteq Nat
    BY LenProperties DEF First
  <1>2. \E k \in at : Least(k)
    <2> HIDE DEF at
    <2> QED BY <1>1, Flat!LeastNumber
  <1>3. First(q, token) = CHOOSE k \in at : Least(k)
    BY <1>1 DEF First
  <1>4. First(q, token) \in at
    <2> HIDE DEF Least, at
    <2> QED BY <1>2, <1>3
  <1> QED BY <1>4, LenProperties

-----------------------------------------------------------------------------
(* One sequence is two others.                                             *)
Joined(T, w, a, b) == a \in Seq(T) /\ b \in Seq(T) /\ w = a \o b

LEMMA JoinedParts ==
  ASSUME NEW T, NEW w, NEW a, NEW b, Joined(T, w, a, b)
  PROVE  /\ w \in Seq(T) /\ Len(w) = Len(a) + Len(b)
         /\ Len(a) \in Nat /\ Len(b) \in Nat
  <1>1. a \in Seq(T) /\ b \in Seq(T) /\ w = a \o b
    BY DEF Joined
  <1>2. Len(a) \in Nat /\ Len(b) \in Nat
    BY <1>1, LenProperties
  <1>3. w \in Seq(T) /\ Len(w) = Len(a) + Len(b)
    BY <1>1, ConcatProperties
  <1> QED BY <1>2, <1>3

LEMMA JoinedCut ==
  ASSUME NEW T, NEW w, NEW a, NEW b, Joined(T, w, a, b)
  PROVE  /\ SubSeq(w, 1, Len(a)) = a
         /\ SubSeq(w, Len(a) + 1, Len(w)) = b
  BY Parts DEF Joined

LEMMA JoinedAt ==
  ASSUME NEW T, NEW w, NEW a, NEW b, Joined(T, w, a, b), NEW i \in 1..Len(a)
  PROVE  w[i] = a[i]
  <1>1. a \in Seq(T) /\ b \in Seq(T) /\ w = a \o b
    BY DEF Joined
  <1>2. \A k \in 1..Len(a) : w[k] = a[k]
    BY <1>1, ConcatAt
  <1> QED BY <1>2

LEMMA JoinedFree ==
  ASSUME NEW T, NEW w, NEW a, NEW b, Joined(T, w, a, b), NEW token, Free(a, token), Free(b, token)
  PROVE  Free(w, token)
  BY FreeConcat DEF Joined

LEMMA JoinedFirst ==
  ASSUME NEW T, NEW w, NEW a, NEW b, Joined(T, w, a, b), NEW token,
         Free(a, token), Len(b) # 0, b[1] = token
  PROVE  First(w, token) = Len(a) + 1
  <1>1. a \in Seq(T) /\ b \in Seq(T) /\ w = a \o b
    BY DEF Joined
  <1>2. b # <<>>
    BY <1>1, EmptySeq
  <1> QED BY <1>1, <1>2, FirstBehind

(* A sequence of one element.                                              *)
Only(a, token) == Len(a) = 1 /\ a[1] = token

LEMMA JoinedFront ==
  ASSUME NEW T, NEW w, NEW a, NEW b, Joined(T, w, a, b), NEW token, Only(a, token)
  PROVE  First(w, token) = 1 /\ SubSeq(w, 2, Len(w)) = b
  <1>1. w \in Seq(T) /\ Len(w) = Len(a) + Len(b) /\ Len(b) \in Nat
    BY JoinedParts
  <1>2. SubSeq(w, Len(a) + 1, Len(w)) = b
    BY JoinedCut
  <1>3. Len(a) = 1 /\ a[1] = token
    BY DEF Only
  <1>4. 1 \in 1..Len(a)
    BY <1>3
  <1>5. w[1] = a[1]
    BY <1>4, JoinedAt
  <1>6. 1 \in 1..Len(w) /\ \A j \in 1..Len(w) : 1 <= j
    BY <1>1, <1>3
  <1>7. First(w, token) = 1
    BY <1>1, <1>3, <1>5, <1>6, FirstIs
  <1>8. Len(a) + 1 = 2
    BY <1>3
  <1> QED BY <1>2, <1>7, <1>8

LEMMA Regrouped ==
  ASSUME NEW T, NEW ab, NEW bc, NEW abc, NEW a, NEW b, NEW c,
         Joined(T, ab, a, b), Joined(T, bc, b, c), Joined(T, abc, ab, c)
  PROVE  Joined(T, abc, a, bc)
  <1>1. a \in Seq(T) /\ b \in Seq(T) /\ c \in Seq(T) /\ ab = a \o b /\ bc = b \o c /\ abc = ab \o c
    BY DEF Joined
  <1>2. bc \in Seq(T)
    BY JoinedParts
  <1>3. (a \o b) \o c = a \o (b \o c)
    BY <1>1, ConcatAssociative
  <1> QED BY <1>1, <1>2, <1>3 DEF Joined

LEMMA JoinedMiddle ==
  ASSUME NEW T, NEW ab, NEW abc, NEW a, NEW b, NEW c, Joined(T, ab, a, b), Joined(T, abc, ab, c)
  PROVE  SubSeq(abc, Len(a) + 1, Len(ab)) = b
  BY Middle DEF Joined


-----------------------------------------------------------------------------
(* Strings of a packet, which may have been cut.                           *)

(* A packet is the beginning of another, and holds all of it up to a place.*)
Begins(p, a) == Len(a) <= Len(p) /\ \A i \in 1..Len(a) : p[i] = a[i]

CutOf(T, p, whole, n) == whole \in Seq(T) /\ n \in 0..Len(whole) /\ p = SubSeq(whole, 1, n)

LEMMA BeginsWhole ==
  ASSUME NEW T, NEW p \in Seq(T)
  PROVE  Begins(p, p)
  <1>1. Len(p) \in Nat
    BY LenProperties
  <1> QED BY <1>1 DEF Begins

LEMMA BeginsJoined ==
  ASSUME NEW T, NEW p, NEW w, NEW a, NEW b, Joined(T, w, a, b), p \in Seq(T), Begins(p, w)
  PROVE  Begins(p, a)
  <1>1. Len(w) = Len(a) + Len(b) /\ Len(a) \in Nat /\ Len(b) \in Nat
    BY JoinedParts
  <1>2. \A i \in 1..Len(a) : w[i] = a[i]
    BY JoinedAt
  <1>3. Len(w) <= Len(p) /\ \A i \in 1..Len(w) : p[i] = w[i]
    BY DEF Begins
  <1>4. Len(p) \in Nat
    BY LenProperties
  <1>5. \A i \in 1..Len(a) : i \in 1..Len(w)
    BY <1>1
  <1> QED BY <1>1, <1>2, <1>3, <1>4, <1>5 DEF Begins

LEMMA JoinedRest ==
  ASSUME NEW T, NEW w, NEW a, NEW b, Joined(T, w, a, b), NEW i \in 1..Len(b)
  PROVE  w[Len(a) + i] = b[i]
  <1>1. a \in Seq(T) /\ b \in Seq(T) /\ w = a \o b
    BY DEF Joined
  <1>2. \A k \in 1..Len(b) : w[Len(a) + k] = b[k]
    BY <1>1, ConcatAt
  <1> QED BY <1>2

LEMMA BeginsCut ==
  ASSUME NEW T, NEW p \in Seq(T), NEW a \in Seq(T), Begins(p, a), NEW m \in Nat
  PROVE  SubSeq(p, m + 1, Len(a)) = SubSeq(a, m + 1, Len(a))
  <1> DEFINE s == SubSeq(p, m + 1, Len(a))
             t == SubSeq(a, m + 1, Len(a))
             l == IF m + 1 <= Len(a) THEN Len(a) - (m + 1) + 1 ELSE 0
  <1>1. /\ Len(a) \in Nat /\ Len(p) \in Nat /\ Len(a) <= Len(p)
        /\ \A i \in 1..Len(a) : p[i] = a[i]
    BY LenProperties DEF Begins
  <1>2. \A i \in m + 1..Len(a) : i \in 1..Len(a)
    BY <1>1
  <1>3. \A i \in m + 1..Len(a) : a[i] \in T
    BY <1>2, ElementOfSeq
  <1>4. \A i \in m + 1..Len(a) : p[i] \in T
    BY <1>1, <1>2, <1>3
  <1>5. m + 1 \in Int /\ Len(a) \in Int
    BY <1>1
  <1>6. s \in Seq(T) /\ Len(s) = l
    BY <1>4, <1>5, SubSeqProperties
  <1>7. t \in Seq(T) /\ Len(t) = l
    BY <1>3, <1>5, SubSeqProperties
  <1>8. \A i \in 1..(Len(a) - (m + 1) + 1) : s[i] = p[m + 1 + i - 1]
    BY <1>4, <1>5, SubSeqProperties
  <1>9. \A i \in 1..(Len(a) - (m + 1) + 1) : t[i] = a[m + 1 + i - 1]
    BY <1>3, <1>5, SubSeqProperties
  <1> HIDE DEF s, t
  <1>10. \A i \in 1..Len(s) : s[i] = t[i]
    <2> SUFFICES ASSUME NEW i \in 1..Len(s) PROVE s[i] = t[i]
      OBVIOUS
    <2>1. i \in 1..(Len(a) - (m + 1) + 1) /\ m + 1 + i - 1 \in 1..Len(a)
      BY <1>1, <1>6
    <2> QED BY <1>1, <1>8, <1>9, <2>1
  <1>11. s = t
    BY <1>6, <1>7, <1>10, SeqEqual
  <1> QED BY <1>11 DEF s, t

LEMMA CutFields ==
  ASSUME NEW T, NEW p, NEW whole, NEW n, CutOf(T, p, whole, n)
  PROVE  /\ p \in Seq(T) /\ Len(p) = n /\ n \in Nat /\ n <= Len(whole) /\ Len(whole) \in Nat
         /\ \A i \in 1..n : p[i] = whole[i]
  <1>1. whole \in Seq(T) /\ n \in 0..Len(whole) /\ p = SubSeq(whole, 1, n)
    BY DEF CutOf
  <1>2. Len(whole) \in Nat
    BY <1>1, LenProperties
  <1>3. n \in Nat /\ n <= Len(whole)
    BY <1>1, <1>2
  <1>4. \A i \in 1..n : whole[i] \in T
    <2>1. \A i \in 1..n : i \in 1..Len(whole)
      BY <1>2, <1>3
    <2> QED BY <1>1, <2>1, ElementOfSeq
  <1>5. SubSeq(whole, 1, n) \in Seq(T)
    BY <1>3, <1>4, SubSeqProperties
  <1>6. Len(SubSeq(whole, 1, n)) = n
    BY <1>3, SubSeqProperties
  <1>7. \A i \in 1..n : SubSeq(whole, 1, n)[i] = whole[i]
    BY <1>3, SubSeqProperties
  <1> QED BY <1>1, <1>2, <1>3, <1>5, <1>6, <1>7

LEMMA CutBegins ==
  ASSUME NEW T, NEW p, NEW whole, NEW n, CutOf(T, p, whole, n), NEW a, Len(a) \in Nat,
         Begins(whole, a), Len(a) <= n
  PROVE  Begins(p, a)
  <1>1. Len(p) = n /\ n \in Nat /\ \A i \in 1..n : p[i] = whole[i]
    BY CutFields
  <1>2. \A i \in 1..Len(a) : i \in 1..n
    BY <1>1
  <1> QED BY <1>1, <1>2 DEF Begins

LEMMA FrontAndTail ==
  ASSUME NEW T, NEW s \in Seq(T), s # <<>>
  PROVE  s = <<s[1]>> \o Tail(s) /\ Tail(s) \in Seq(T) /\ s[1] \in T
  <1> DEFINE front == <<s[1]>>
             tail == Tail(s)
             w == front \o tail
  <1>1. Len(s) \in Nat /\ Len(s) # 0
    BY LenProperties, EmptySeq
  <1>2. s[1] \in T
    BY <1>1, ElementOfSeq
  <1>3. front \in Seq(T) /\ Len(front) = 1 /\ front[1] = s[1]
    BY <1>2
  <1>4. tail \in Seq(T) /\ Len(tail) = Len(s) - 1 /\ \A i \in 1..Len(tail) : tail[i] = s[i + 1]
    BY HeadTailProperties
  <1> HIDE DEF front, tail
  <1>5. Joined(T, w, front, tail)
    BY <1>3, <1>4 DEF Joined
  <1> HIDE DEF w
  <1>6. w \in Seq(T) /\ Len(w) = Len(front) + Len(tail)
    BY <1>5, JoinedParts
  <1>7. w[1] = s[1]
    <2>1. 1 \in 1..Len(front)
      BY <1>3
    <2>2. w[1] = front[1]
      BY <1>5, <2>1, JoinedAt
    <2> QED BY <1>3, <2>2
  <1>8. \A i \in 1..Len(tail) : w[Len(front) + i] = tail[i]
    BY <1>5, JoinedRest
  <1>9. ASSUME NEW i \in 1..Len(s) PROVE w[i] = s[i]
    <2>1. CASE i = 1
      BY <1>7, <2>1
    <2>2. CASE i # 1
      <3>1. i - 1 \in 1..Len(tail) /\ 1 + (i - 1) = i /\ (i - 1) + 1 = i
        BY <1>1, <1>4, <2>2
      <3>2. w[1 + (i - 1)] = tail[i - 1]
        BY <1>3, <1>8, <3>1
      <3>3. tail[i - 1] = s[(i - 1) + 1]
        BY <1>4, <3>1
      <3> QED BY <3>1, <3>2, <3>3
    <2> QED BY <2>1, <2>2
  <1>10. Len(w) = Len(s)
    BY <1>1, <1>3, <1>4, <1>6
  <1>11. s = w
    BY <1>6, <1>9, <1>10, SeqEqual
  <1> QED BY <1>2, <1>4, <1>11 DEF w, front, tail
LEMMA RegroupedBack ==
  ASSUME NEW T, NEW ab, NEW bc, NEW abc, NEW a, NEW b, NEW c,
         Joined(T, ab, a, b), Joined(T, bc, b, c), Joined(T, abc, a, bc)
  PROVE  Joined(T, abc, ab, c)
  <1>1. a \in Seq(T) /\ b \in Seq(T) /\ c \in Seq(T) /\ ab = a \o b /\ bc = b \o c /\ abc = a \o bc
    BY DEF Joined
  <1>2. ab \in Seq(T)
    BY JoinedParts
  <1>3. (a \o b) \o c = a \o (b \o c)
    BY <1>1, ConcatAssociative
  <1> QED BY <1>1, <1>2, <1>3 DEF Joined

-----------------------------------------------------------------------------
(* The strings of a packet.                                                *)
Pieces(strings, text) == [strings |-> strings, text |-> text]

PieceStep(context, r, c) ==
  IF c = 0 THEN [strings |-> Append(r.strings, r.text), text |-> <<>>]
  ELSE [strings |-> r.strings, text |-> Append(r.text, c)]

Piece == INSTANCE Folding WITH Op <- PieceStep

TermStep(context, bytes, text) == bytes \o Zero(text)

Term == INSTANCE Folding WITH Op <- TermStep

LEMMA JoinedAppend ==
  ASSUME NEW T, NEW w, NEW a, NEW b, Joined(T, w, a, b), NEW x \in T
  PROVE  Joined(T, Append(w, x), a, Append(b, x))
  <1> DEFINE one == <<x>>
  <1>1. a \in Seq(T) /\ b \in Seq(T) /\ w = a \o b /\ w \in Seq(T)
    BY JoinedParts DEF Joined
  <1>2. one \in Seq(T)
    OBVIOUS
  <1>3. Append(b, x) = b \o one /\ Append(w, x) = w \o one
    BY <1>1, AppendIsConcat
  <1>4. (a \o b) \o one = a \o (b \o one)
    BY <1>1, <1>2, ConcatAssociative
  <1>5. Append(b, x) \in Seq(T)
    BY <1>1, AppendProperties
  <1> QED BY <1>1, <1>3, <1>4, <1>5 DEF Joined

LEMMA StringsFold ==
  ASSUME NEW p
  PROVE  Strings(p) = Piece!Fold(0, Pieces(<<>>, <<>>), p).strings
  BY DEF Strings, Pieces, Piece!Fold, PieceStep, FoldLeft, MapThenFoldSet, Max, Piece!MapThenFoldSet, Piece!Greatest

LEMMA TermsFold ==
  ASSUME NEW texts
  PROVE  Terms(texts) = Term!Fold(0, <<>>, texts)
  BY DEF Terms, Term!Fold, TermStep, FoldLeft, MapThenFoldSet, Max, Term!MapThenFoldSet, Term!Greatest

LEMMA ZeroIs ==
  ASSUME NEW text \in Seq(Nat)
  PROVE  Zero(text) \in Seq(Nat) /\ Len(Zero(text)) = Len(text) + 1 /\ Zero(text) = text \o <<0>>
  <1>1. 0 \in Nat
    OBVIOUS
  <1> QED BY <1>1, AppendProperties, AppendIsConcat DEF Zero

LEMMA TermsAppend ==
  ASSUME NEW ts \in Seq(Seq(Nat)), NEW t \in Seq(Nat)
  PROVE  Terms(Append(ts, t)) = Terms(ts) \o Zero(t)
  <1>1. Term!Fold(0, <<>>, Append(ts, t)) = TermStep(0, Term!Fold(0, <<>>, ts), t)
    BY Term!FoldAppend
  <1> QED BY <1>1, TermsFold DEF TermStep

LEMMA TermsOfNone == Terms(<<>>) = <<>>
  BY TermsFold, Term!FoldEmpty

LEMMA TermsTypes ==
  ASSUME NEW ts \in Seq(Seq(Nat))
  PROVE  Terms(ts) \in Seq(Nat)
  <1> DEFINE P == {s \in Seq(Seq(Nat)) : Terms(s) \in Seq(Nat)}
  <1>1. <<>> \in P
    <2>1. <<>> \in Seq(Seq(Nat)) /\ <<>> \in Seq(Nat)
      OBVIOUS
    <2> QED BY <2>1, TermsOfNone
  <1>2. ASSUME NEW s \in Seq(Seq(Nat)), NEW t \in Seq(Nat), s \in P PROVE Append(s, t) \in P
    <2>1. Terms(Append(s, t)) = Terms(s) \o Zero(t) /\ Zero(t) \in Seq(Nat)
      BY TermsAppend, ZeroIs
    <2>2. Append(s, t) \in Seq(Seq(Nat))
      OBVIOUS
    <2>3. Terms(s) \in Seq(Nat)
      BY <1>2
    <2>4. Terms(s) \o Zero(t) \in Seq(Nat)
      BY <2>1, <2>3, ConcatProperties
    <2> QED BY <2>1, <2>2, <2>4
  <1> HIDE DEF P
  <1>3. ts \in P
    BY <1>1, <1>2, Term!InductionAppend
  <1> QED BY <1>3 DEF P

LEMMA TermsLength ==
  ASSUME NEW ts \in Seq(Seq(Nat)), NEW t \in Seq(Nat)
  PROVE  /\ Len(Terms(Append(ts, t))) = Len(Terms(ts)) + Len(t) + 1
         /\ Len(Terms(ts)) \in Nat /\ Len(t) \in Nat /\ Terms(Append(ts, t)) \in Seq(Nat)
  <1> DEFINE a == Terms(ts)
             b == Zero(t)
             w == Terms(Append(ts, t))
  <1>1. a \in Seq(Nat) /\ b \in Seq(Nat) /\ Len(b) = Len(t) + 1 /\ w = a \o b
    BY TermsTypes, ZeroIs, TermsAppend
  <1>2. Len(t) \in Nat /\ Len(a) \in Nat
    BY <1>1, LenProperties
  <1> HIDE DEF a, b, w
  <1>3. w \in Seq(Nat) /\ Len(w) = Len(a) + Len(b)
    BY <1>1, ConcatProperties
  <1>4. Len(w) = Len(a) + Len(t) + 1
    BY <1>1, <1>2, <1>3
  <1> QED BY <1>2, <1>3, <1>4 DEF a, w

(* More bytes add strings to those that are read.                          *)
Grown(r, e) == \E z \in Seq(Seq(Nat)), t \in Seq(Nat) : r = Pieces(e \o z, t)

LEMMA PiecesGrow ==
  ASSUME NEW e \in Seq(Seq(Nat)), NEW u \in Seq(Nat), NEW b \in Seq(Nat)
  PROVE  Grown(Piece!Fold(0, Pieces(e, u), b), e)
  <1> DEFINE P == {s \in Seq(Nat) : Grown(Piece!Fold(0, Pieces(e, u), s), e)}
  <1>1. <<>> \in P
    <2>1. e \o <<>> = e /\ <<>> \in Seq(Seq(Nat)) /\ <<>> \in Seq(Nat)
      BY ConcatEmptySeq
    <2>2. Piece!Fold(0, Pieces(e, u), <<>>) = Pieces(e, u)
      BY Piece!FoldEmpty
    <2> QED BY <2>1, <2>2 DEF Grown
  <1>2. ASSUME NEW s \in Seq(Nat), NEW c \in Nat, s \in P PROVE Append(s, c) \in P
    <2> DEFINE r == Piece!Fold(0, Pieces(e, u), s)
    <2>1. PICK z \in Seq(Seq(Nat)), t \in Seq(Nat) : r = Pieces(e \o z, t)
      BY <1>2 DEF Grown
    <2>2. Piece!Fold(0, Pieces(e, u), Append(s, c)) = PieceStep(0, r, c)
      BY Piece!FoldAppend
    <2> HIDE DEF r
    <2>3. Append(e \o z, t) = e \o Append(z, t) /\ Append(z, t) \in Seq(Seq(Nat))
      <3> DEFINE S == Seq(Nat)
                 w == e \o z
      <3>1. t \in S /\ Joined(S, w, e, z)
        BY DEF Joined
      <3> HIDE DEF S, w
      <3>2. Joined(S, Append(w, t), e, Append(z, t))
        BY <3>1, JoinedAppend
      <3> QED BY <3>2 DEF Joined, S, w
    <2>4. Append(t, c) \in Seq(Nat) /\ <<>> \in Seq(Nat)
      OBVIOUS
    <2>5. PieceStep(0, r, c) = IF c = 0 THEN Pieces(Append(e \o z, t), <<>>) ELSE Pieces(e \o z, Append(t, c))
      BY <2>1 DEF PieceStep, Pieces
    <2>6. Grown(PieceStep(0, r, c), e)
      BY <2>3, <2>4, <2>5 DEF Grown
    <2> QED BY <2>2, <2>6
  <1> HIDE DEF P
  <1>3. b \in P
    BY <1>1, <1>2, Piece!InductionAppend
  <1> QED BY <1>3 DEF P

LEMMA StringsOfMore ==
  ASSUME NEW b \in Seq(Nat), NEW c \in Seq(Nat)
  PROVE  /\ Strings(b) \in Seq(Seq(Nat))
         /\ \E z \in Seq(Seq(Nat)) : Strings(b \o c) = Strings(b) \o z
  <1> DEFINE start == Pieces(<<>>, <<>>)
             r == Piece!Fold(0, start, b)
  <1>1. <<>> \in Seq(Seq(Nat)) /\ <<>> \in Seq(Nat)
    OBVIOUS
  <1>2. PICK e \in Seq(Seq(Nat)), t \in Seq(Nat) : r = Pieces(<<>> \o e, t)
    BY <1>1, PiecesGrow DEF Grown
  <1>3. <<>> \o e = e
    BY ConcatEmptySeq
  <1>4. Strings(b) = e
    BY <1>2, <1>3, StringsFold DEF Pieces
  <1>5. Piece!Fold(0, start, b \o c) = Piece!Fold(0, r, c)
    BY Piece!FoldConcat
  <1> HIDE DEF r, start
  <1>6. PICK z \in Seq(Seq(Nat)), v \in Seq(Nat) : Piece!Fold(0, r, c) = Pieces(e \o z, v)
    BY <1>2, <1>3, PiecesGrow DEF Grown
  <1>7. Strings(b \o c) = e \o z
    <2>1. Piece!Fold(0, start, b \o c) = Pieces(e \o z, v)
      BY <1>5, <1>6
    <2>2. Strings(b \o c) = Piece!Fold(0, start, b \o c).strings
      BY StringsFold DEF start
    <2> QED BY <2>1, <2>2 DEF Pieces
  <1> QED BY <1>4, <1>7

(* The bytes up to the last zero are the strings with their terminators.   *)
PiecesOf(r, b) ==
  \E e \in Seq(Seq(Nat)), t \in Seq(Nat) : r = Pieces(e, t) /\ Free(t, 0) /\ b = Terms(e) \o t

LEMMA PiecesAreWhole ==
  ASSUME NEW b \in Seq(Nat)
  PROVE  PiecesOf(Piece!Fold(0, Pieces(<<>>, <<>>), b), b)
  <1> DEFINE start == Pieces(<<>>, <<>>)
             P == {s \in Seq(Nat) : PiecesOf(Piece!Fold(0, start, s), s)}
  <1>1. <<>> \in P
    <2>1. <<>> \in Seq(Seq(Nat)) /\ <<>> \in Seq(Nat) /\ <<>> = Terms(<<>>) \o <<>> /\ Free(<<>>, 0)
      BY TermsOfNone DEF Free
    <2>2. Piece!Fold(0, start, <<>>) = start
      BY Piece!FoldEmpty
    <2> QED BY <2>1, <2>2 DEF PiecesOf
  <1>2. ASSUME NEW s \in Seq(Nat), NEW c \in Nat, s \in P PROVE Append(s, c) \in P
    <2> DEFINE r == Piece!Fold(0, start, s)
    <2>1. PICK e \in Seq(Seq(Nat)), t \in Seq(Nat) : r = Pieces(e, t) /\ Free(t, 0) /\ s = Terms(e) \o t
      BY <1>2 DEF PiecesOf
    <2>2. Piece!Fold(0, start, Append(s, c)) = PieceStep(0, r, c)
      BY Piece!FoldAppend
    <2> HIDE DEF r, start
    <2>3. Append(s, c) = Terms(e) \o Append(t, c)
      <3>1. Terms(e) \in Seq(Nat)
        BY TermsTypes
      <3>2. Append(Terms(e) \o t, c) = Terms(e) \o Append(t, c)
        <4> DEFINE a == Terms(e)
                   w == a \o t
        <4>1. Joined(Nat, w, a, t)
          BY <3>1 DEF Joined
        <4> HIDE DEF w, a
        <4>2. Joined(Nat, Append(w, c), a, Append(t, c))
          BY <4>1, JoinedAppend
        <4> QED BY <4>2 DEF Joined, w, a
      <3> QED BY <2>1, <3>2
    <2>4. CASE c = 0
      <3>1. PieceStep(0, r, c) = Pieces(Append(e, t), <<>>)
        BY <2>1, <2>4 DEF PieceStep, Pieces
      <3>2. Append(e, t) \in Seq(Seq(Nat)) /\ <<>> \in Seq(Nat) /\ Free(<<>>, 0)
        BY DEF Free
      <3>3. Terms(Append(e, t)) = Append(s, c)
        BY <2>3, <2>4, TermsAppend DEF Zero
      <3>4. Terms(Append(e, t)) \o <<>> = Append(s, c)
        BY <3>2, <3>3, TermsTypes, ConcatEmptySeq
      <3>5. PiecesOf(PieceStep(0, r, c), Append(s, c))
        BY <3>1, <3>2, <3>4 DEF PiecesOf
      <3> QED BY <2>2, <3>5
    <2>5. CASE c # 0
      <3>1. PieceStep(0, r, c) = Pieces(e, Append(t, c))
        BY <2>1, <2>5 DEF PieceStep, Pieces
      <3>2. Append(t, c) \in Seq(Nat) /\ Free(Append(t, c), 0)
        BY <2>1, <2>5 DEF Free
      <3>3. PiecesOf(PieceStep(0, r, c), Append(s, c))
        BY <2>3, <3>1, <3>2 DEF PiecesOf
      <3> QED BY <2>2, <3>3
    <2> QED BY <2>4, <2>5
  <1> HIDE DEF P
  <1>3. b \in P
    BY <1>1, <1>2, Piece!InductionAppend
  <1> QED BY <1>3 DEF P, start

(* A packet, or the rest of one, that ends with a zero if with anything.   *)
Terminated(b) == b \in Seq(Nat) /\ (b # <<>> => b[Len(b)] = 0)

LEMMA StringsBack ==
  ASSUME NEW b, Terminated(b)
  PROVE  b \in Seq(Nat) /\ Strings(b) \in Seq(Seq(Nat)) /\ Terms(Strings(b)) = b
  <1>1. b \in Seq(Nat)
    BY DEF Terminated
  <1>2. PICK e \in Seq(Seq(Nat)), t \in Seq(Nat) :
          Piece!Fold(0, Pieces(<<>>, <<>>), b) = Pieces(e, t) /\ Free(t, 0) /\ b = Terms(e) \o t
    BY <1>1, PiecesAreWhole DEF PiecesOf
  <1>3. Strings(b) = e
    BY <1>2, StringsFold DEF Pieces
  <1>4. Terms(e) \in Seq(Nat)
    BY TermsTypes
  <1>5. t = <<>>
    <2> SUFFICES ASSUME t # <<>> PROVE FALSE
      OBVIOUS
    <2>1. Len(t) \in Nat /\ Len(t) # 0 /\ Len(t) \in 1..Len(t)
      BY EmptySeq
    <2> DEFINE a == Terms(e)
    <2>2. Joined(Nat, b, a, t)
      BY <1>2, <1>4 DEF Joined
    <2> HIDE DEF a
    <2>3. b[Len(a) + Len(t)] = t[Len(t)] /\ Len(b) = Len(a) + Len(t) /\ Len(a) \in Nat
      BY <2>1, <2>2, JoinedRest, JoinedParts
    <2>4. t[Len(t)] # 0
      BY <1>2, <2>1 DEF Free
    <2>5. b # <<>>
      BY <2>1, <2>3
    <2> QED BY <2>3, <2>4, <2>5 DEF Terminated
  <1>6. b = Terms(e)
    BY <1>2, <1>4, <1>5, ConcatEmptySeq
  <1> QED BY <1>1, <1>3, <1>6

(* The strings of what a game server writes.                               *)
AllFree(ts) == \A i \in 1..Len(ts) : Free(ts[i], 0)

LEMMA TextIsOnePiece ==
  ASSUME NEW e \in Seq(Seq(Nat)), NEW t \in Seq(Nat), Free(t, 0)
  PROVE  Piece!Fold(0, Pieces(e, <<>>), t) = Pieces(e, t)
  <1> DEFINE start == Pieces(e, <<>>)
             P == {s \in Seq(Nat) : Free(s, 0) => Piece!Fold(0, start, s) = Pieces(e, s)}
  <1>1. <<>> \in P
    <2>1. <<>> \in Seq(Nat)
      OBVIOUS
    <2> QED BY <2>1, Piece!FoldEmpty
  <1>2. ASSUME NEW s \in Seq(Nat), NEW c \in Nat, s \in P PROVE Append(s, c) \in P
    <2> SUFFICES ASSUME Free(Append(s, c), 0)
                 PROVE  Piece!Fold(0, start, Append(s, c)) = Pieces(e, Append(s, c))
      OBVIOUS
    <2>1. Free(s, 0) /\ c # 0
      <3>1. /\ Len(Append(s, c)) = Len(s) + 1 /\ Append(s, c)[Len(s) + 1] = c
            /\ \A i \in 1..Len(s) : Append(s, c)[i] = s[i]
            /\ Len(s) \in Nat
        BY AppendProperties, LenProperties
      <3>2. \A i \in 1..(Len(s) + 1) : Append(s, c)[i] # 0
        BY <3>1 DEF Free
      <3> HIDE DEF P
      <3> QED BY <3>1, <3>2 DEF Free
    <2>2. Piece!Fold(0, start, Append(s, c)) = PieceStep(0, Piece!Fold(0, start, s), c)
      BY Piece!FoldAppend
    <2>3. Piece!Fold(0, start, s) = Pieces(e, s)
      BY <1>2, <2>1
    <2>4. PieceStep(0, Pieces(e, s), c) = Pieces(e, Append(s, c))
      BY <2>1 DEF PieceStep, Pieces
    <2> HIDE DEF start
    <2> QED BY <2>2, <2>3, <2>4
  <1> HIDE DEF P
  <1>3. t \in P
    BY <1>1, <1>2, Piece!InductionAppend
  <1> QED BY <1>3 DEF P

LEMMA TermsArePieces ==
  ASSUME NEW ts \in Seq(Seq(Nat)), AllFree(ts)
  PROVE  Strings(Terms(ts)) = ts
  <1> DEFINE start == Pieces(<<>>, <<>>)
             P == {s \in Seq(Seq(Nat)) : AllFree(s) => Piece!Fold(0, start, Terms(s)) = Pieces(s, <<>>)}
  <1>1. <<>> \in P
    <2>1. <<>> \in Seq(Seq(Nat))
      OBVIOUS
    <2> QED BY <2>1, TermsOfNone, Piece!FoldEmpty
  <1>2. ASSUME NEW s \in Seq(Seq(Nat)), NEW t \in Seq(Nat), s \in P PROVE Append(s, t) \in P
    <2> SUFFICES ASSUME AllFree(Append(s, t))
                 PROVE  Piece!Fold(0, start, Terms(Append(s, t))) = Pieces(Append(s, t), <<>>)
      OBVIOUS
    <2>1. AllFree(s) /\ Free(t, 0)
      <3>1. /\ Len(Append(s, t)) = Len(s) + 1 /\ Append(s, t)[Len(s) + 1] = t
            /\ \A i \in 1..Len(s) : Append(s, t)[i] = s[i]
            /\ Len(s) \in Nat
        BY AppendProperties, LenProperties
      <3>2. \A i \in 1..(Len(s) + 1) : Free(Append(s, t)[i], 0)
        BY <3>1 DEF AllFree
      <3> HIDE DEF P
      <3>3. Len(s) + 1 \in 1..(Len(s) + 1) /\ \A i \in 1..Len(s) : i \in 1..(Len(s) + 1)
        BY <3>1
      <3> QED BY <3>1, <3>2, <3>3 DEF AllFree
    <2> DEFINE a == Terms(s)
               z == Zero(t)
    <2>2. a \in Seq(Nat) /\ z \in Seq(Nat) /\ z = Append(t, 0) /\ Terms(Append(s, t)) = a \o z
      BY TermsTypes, ZeroIs, TermsAppend DEF Zero
    <2>3. Piece!Fold(0, start, a) = Pieces(s, <<>>)
      BY <1>2, <2>1
    <2> HIDE DEF a, z, P, start
    <2>4. Piece!Fold(0, start, a \o z) = Piece!Fold(0, Pieces(s, <<>>), z)
      <3>1. Piece!Fold(0, start, a \o z) = Piece!Fold(0, Piece!Fold(0, start, a), z)
        <4>1. a \in Seq(Nat) /\ z \in Seq(Nat)
          BY <2>2
        <4> QED BY <4>1, Piece!FoldConcat
      <3> QED BY <2>3, <3>1
    <2>5. Piece!Fold(0, Pieces(s, <<>>), Append(t, 0)) = PieceStep(0, Piece!Fold(0, Pieces(s, <<>>), t), 0)
      <3>1. 0 \in Nat
        OBVIOUS
      <3> QED BY <3>1, Piece!FoldAppend
    <2>6. Piece!Fold(0, Pieces(s, <<>>), t) = Pieces(s, t)
      BY <2>1, TextIsOnePiece
    <2>7. PieceStep(0, Pieces(s, t), 0) = Pieces(Append(s, t), <<>>)
      BY DEF PieceStep, Pieces
    <2> QED BY <2>2, <2>4, <2>5, <2>6, <2>7
  <1> HIDE DEF P
  <1>3. ts \in P
    BY <1>1, <1>2, Piece!InductionAppend
  <1>4. Piece!Fold(0, start, Terms(ts)) = Pieces(ts, <<>>)
    BY <1>3 DEF P
  <1> QED BY <1>4, StringsFold DEF Pieces

LEMMA StringsOfTerms ==
  ASSUME NEW ts \in Seq(Seq(Nat)), AllFree(ts), NEW b \in Seq(Nat)
  PROVE  \E z \in Seq(Seq(Nat)) : Strings(Terms(ts) \o b) = ts \o z
  <1> DEFINE t == Terms(ts)
  <1>1. t \in Seq(Nat)
    BY TermsTypes
  <1>2. Strings(t) = ts
    BY TermsArePieces
  <1> HIDE DEF t
  <1>3. \E z \in Seq(Seq(Nat)) : Strings(t \o b) = Strings(t) \o z
    BY <1>1, StringsOfMore
  <1> QED BY <1>2, <1>3 DEF t

-----------------------------------------------------------------------------
(* What was said first of a key.                                           *)
LEMMA FirstValueIs ==
  ASSUME NEW pairs, NEW k, NEW i \in 1..Len(pairs), pairs[i].key = k, Len(pairs) \in Nat,
         \A j \in 1..Len(pairs) : pairs[j].key = k => i <= j
  PROVE  k \in KeysOf(pairs) /\ FirstValue(pairs, k) = pairs[i].value
  <1> DEFINE at == {j \in 1..Len(pairs) : pairs[j].key = k}
             Least(j) == \A l \in at : j <= l
             least == CHOOSE j \in at : Least(j)
  <1>1. i \in at /\ Least(i) /\ \A j \in at : j \in Nat
    OBVIOUS
  <1>2. least \in at /\ Least(least)
    <2> HIDE DEF at, Least
    <2> QED BY <1>1
  <1>3. FirstValue(pairs, k) = pairs[least].value
    BY DEF FirstValue
  <1>4. i <= least /\ least <= i /\ least \in Nat /\ i \in Nat
    <2> HIDE DEF least
    <2> QED BY <1>1, <1>2
  <1>5. k \in KeysOf(pairs)
    BY DEF KeysOf
  <1> HIDE DEF least
  <1> QED BY <1>3, <1>4, <1>5

LEMMA FirstPair ==
  ASSUME NEW pairs, Len(pairs) \in Nat, NEW k \in KeysOf(pairs)
  PROVE  \E i \in 1..Len(pairs) :
           pairs[i].key = k /\ \A j \in 1..Len(pairs) : pairs[j].key = k => i <= j
  <1> DEFINE at == {i \in 1..Len(pairs) : pairs[i].key = k}
  <1>1. at # {} /\ at \subseteq Nat
    BY DEF KeysOf
  <1>2. \E i \in at : \A j \in at : i <= j
    <2> HIDE DEF at
    <2> QED BY <1>1, Flat!LeastNumber
  <1> QED BY <1>2

LEMMA FirstValueAppend ==
  ASSUME NEW T, NEW pairs \in Seq(T), NEW x \in T
  PROVE  /\ KeysOf(Append(pairs, x)) = KeysOf(pairs) \cup {x.key}
         /\ \A k \in KeysOf(pairs) : FirstValue(Append(pairs, x), k) = FirstValue(pairs, k)
         /\ x.key \notin KeysOf(pairs) => FirstValue(Append(pairs, x), x.key) = x.value
  <1> DEFINE more == Append(pairs, x)
             n == Len(pairs)
  <1>1. /\ n \in Nat /\ Len(more) = n + 1 /\ more[n + 1] = x
        /\ \A i \in 1..n : more[i] = pairs[i]
    BY AppendProperties, LenProperties
  <1> HIDE DEF more
  <1>2. KeysOf(more) = KeysOf(pairs) \cup {x.key}
    <2>1. \A i \in 1..(n + 1) : i \in 1..n \/ i = n + 1
      BY <1>1
    <2>2. n + 1 \in 1..(n + 1) /\ \A i \in 1..n : i \in 1..(n + 1)
      BY <1>1
    <2>3. ASSUME NEW k \in KeysOf(more) PROVE k \in KeysOf(pairs) \cup {x.key}
      <3>1. PICK i \in 1..(n + 1) : k = more[i].key
        BY <1>1 DEF KeysOf
      <3> QED BY <1>1, <2>1, <3>1 DEF KeysOf
    <2>4. ASSUME NEW k \in KeysOf(pairs) PROVE k \in KeysOf(more)
      <3>1. PICK i \in 1..n : k = pairs[i].key
        BY DEF KeysOf
      <3>2. i \in 1..(n + 1) /\ more[i].key = k
        BY <1>1, <2>2, <3>1
      <3> QED BY <1>1, <3>2 DEF KeysOf
    <2>5. x.key \in KeysOf(more)
      BY <1>1, <2>2 DEF KeysOf
    <2> QED BY <2>3, <2>4, <2>5
  <1>3. ASSUME NEW k \in KeysOf(pairs) PROVE FirstValue(more, k) = FirstValue(pairs, k)
    <2>1. PICK i \in 1..n : pairs[i].key = k /\ \A j \in 1..n : pairs[j].key = k => i <= j
      BY <1>1, FirstPair
    <2>2. FirstValue(pairs, k) = pairs[i].value
      BY <1>1, <2>1, FirstValueIs
    <2>3. i \in 1..Len(more) /\ more[i] = pairs[i] /\ Len(more) \in Nat
      BY <1>1
    <2>4. ASSUME NEW j \in 1..Len(more), more[j].key = k PROVE i <= j
      <3>1. CASE j \in 1..n
        BY <1>1, <2>1, <2>4, <3>1
      <3>2. CASE j \notin 1..n
        BY <1>1, <3>2
      <3> QED BY <3>1, <3>2
    <2>5. FirstValue(more, k) = more[i].value
      BY <2>1, <2>3, <2>4, FirstValueIs
    <2> QED BY <2>2, <2>3, <2>5
  <1>4. ASSUME x.key \notin KeysOf(pairs) PROVE FirstValue(more, x.key) = x.value
    <2>1. n + 1 \in 1..Len(more) /\ Len(more) \in Nat
      BY <1>1
    <2>2. ASSUME NEW j \in 1..Len(more), more[j].key = x.key PROVE n + 1 <= j
      <3>1. CASE j \in 1..n
        BY <1>1, <1>4, <2>2, <3>1 DEF KeysOf
      <3>2. CASE j \notin 1..n
        BY <1>1, <3>2
      <3> QED BY <3>1, <3>2
    <2>3. FirstValue(more, x.key) = more[n + 1].value
      BY <1>1, <2>1, <2>2, FirstValueIs
    <2> QED BY <1>1, <2>3
  <1> QED BY <1>2, <1>3, <1>4 DEF more

-----------------------------------------------------------------------------
(* The map of a heartbeat.                                                 *)
MappingStep(context, m, text) == MapStep(m, text)

Mapping == INSTANCE Folding WITH Op <- MappingStep

LEMMA MapFolds ==
  ASSUME NEW d
  PROVE  Map(d) = Mapping!Fold(0, NoMap, Strings(d))
  BY DEF Map, Mapping!Fold, MappingStep, FoldLeft, MapThenFoldSet, Max, Mapping!MapThenFoldSet, Mapping!Greatest

IsMapState(m) ==
  DOMAIN m = {"data", "key", "after", "over"} /\ m.after \in Nat /\ m.over \in BOOLEAN

LEMMA MapSteps ==
  ASSUME NEW m, IsMapState(m), NEW text \in Seq(Nat)
  PROVE  LET s == MapStep(m, text)
         IN /\ IsMapState(s)
            /\ m.over => s = m
            /\ ~m.over => s.after = m.after + Len(text) + 1
            /\ ~m.over /\ m.key = <<>> => s.key = text /\ s.data = m.data /\ (s.over <=> text = <<>>)
            /\ ~m.over /\ m.key # <<>> =>
                 s.key = <<>> /\ s.data = Emplace(m.data, m.key, text) /\ ~s.over
  <1> DEFINE s == MapStep(m, text)
             F == {"data", "key", "after", "over"}
  <1>1. DOMAIN m = F /\ m.after \in Nat /\ m.over \in BOOLEAN
    BY DEF IsMapState
  <1>2. m.after + Len(text) + 1 \in Nat
    BY <1>1, LenProperties
  <1>3. CASE m.over
    BY <1>1, <1>3 DEF MapStep
  <1>4. CASE ~m.over /\ m.key = <<>> /\ text = <<>>
    <2>1. /\ DOMAIN s = F /\ s.data = m.data /\ s.key = text /\ s.after = m.after + Len(text) + 1
          /\ s.over = TRUE
      BY <1>1, <1>4 DEF MapStep, EndOfMap
    <2> HIDE DEF s
    <2> QED BY <1>2, <1>4, <2>1 DEF IsMapState, s
  <1>5. CASE ~m.over /\ m.key = <<>> /\ text # <<>>
    <2>1. /\ DOMAIN s = F /\ s.data = m.data /\ s.key = text /\ s.after = m.after + Len(text) + 1
          /\ s.over = m.over
      BY <1>1, <1>5 DEF MapStep, EndOfMap
    <2> HIDE DEF s
    <2> QED BY <1>1, <1>2, <1>5, <2>1 DEF IsMapState, s
  <1>6. CASE ~m.over /\ m.key # <<>>
    <2>1. /\ DOMAIN s = F /\ s.data = Emplace(m.data, m.key, text) /\ s.key = <<>>
          /\ s.after = m.after + Len(text) + 1 /\ s.over = m.over
      BY <1>1, <1>6 DEF MapStep, EndOfMap
    <2> HIDE DEF s
    <2> QED BY <1>1, <1>2, <1>6, <2>1 DEF IsMapState, s
  <1> QED BY <1>1, <1>3, <1>4, <1>5, <1>6

(* What is in the map stays there.                                         *)
Kept(data, more) == \A k \in DOMAIN data : k \in DOMAIN more /\ more[k] = data[k]

LEMMA EmplaceKeeps ==
  ASSUME NEW data, NEW key, NEW text
  PROVE  Kept(data, Emplace(data, key, text))
  BY DEF Kept, Emplace

LEMMA KeptKept ==
  ASSUME NEW a, NEW b, NEW c, Kept(a, b), Kept(b, c)
  PROVE  Kept(a, c)
  BY DEF Kept

LEMMA MapStepKeeps ==
  ASSUME NEW m, IsMapState(m), NEW text \in Seq(Nat)
  PROVE  /\ IsMapState(MapStep(m, text))
         /\ Kept(m.data, MapStep(m, text).data)
         /\ ~MapStep(m, text).over => ~m.over
         /\ ~m.over => MapStep(m, text).after = m.after + Len(Zero(text))
         /\ m.over => MapStep(m, text) = m
  <1> DEFINE s == MapStep(m, text)
  <1>1. /\ IsMapState(s)
        /\ m.over => s = m
        /\ ~m.over => s.after = m.after + Len(text) + 1
        /\ s.data \in {m.data, Emplace(m.data, m.key, text)}
    <2>1. m.over \in BOOLEAN
      BY DEF IsMapState
    <2> QED BY <2>1, MapSteps
  <1> HIDE DEF s
  <1>2. m.after + Len(text) + 1 = m.after + Len(Zero(text))
    <2>1. Len(text) \in Nat /\ Len(Zero(text)) = Len(text) + 1
      BY ZeroIs, LenProperties
    <2>2. m.after \in Nat
      BY DEF IsMapState
    <2> QED BY <2>1, <2>2
  <1>3. Kept(m.data, s.data)
    BY <1>1, EmplaceKeeps DEF Kept
  <1> QED BY <1>1, <1>2, <1>3 DEF s

LEMMA MapKeeps ==
  ASSUME NEW m, IsMapState(m), NEW ts \in Seq(Seq(Nat))
  PROVE  /\ IsMapState(Mapping!Fold(0, m, ts))
         /\ Kept(m.data, Mapping!Fold(0, m, ts).data)
         /\ ~Mapping!Fold(0, m, ts).over => Mapping!Fold(0, m, ts).after = m.after + Len(Terms(ts))
         /\ m.after <= Mapping!Fold(0, m, ts).after
         /\ Mapping!Fold(0, m, ts).after <= m.after + Len(Terms(ts))
         /\ m.over => Mapping!Fold(0, m, ts) = m
  <1> DEFINE Good(r, s) ==
               /\ IsMapState(r) /\ Kept(m.data, r.data)
               /\ ~r.over => r.after = m.after + Len(Terms(s))
               /\ m.after <= r.after /\ r.after <= m.after + Len(Terms(s))
               /\ m.over => r = m
             P == {s \in Seq(Seq(Nat)) : Good(Mapping!Fold(0, m, s), s)}
  <1>1. <<>> \in P
    <2>1. <<>> \in Seq(Seq(Nat)) /\ Len(Terms(<<>>)) = 0
      BY TermsOfNone
    <2>2. m.after + 0 = m.after /\ m.after <= m.after
      BY DEF IsMapState
    <2>3. Mapping!Fold(0, m, <<>>) = m /\ Kept(m.data, m.data)
      BY Mapping!FoldEmpty DEF Kept
    <2> QED BY <2>1, <2>2, <2>3
  <1>2. ASSUME NEW s \in Seq(Seq(Nat)), NEW t \in Seq(Nat), s \in P PROVE Append(s, t) \in P
    <2> DEFINE r == Mapping!Fold(0, m, s)
               q == MapStep(r, t)
    <2>1. Mapping!Fold(0, m, Append(s, t)) = q
      BY Mapping!FoldAppend DEF MappingStep
    <2>2. Good(r, s)
      BY <1>2
    <2> HIDE DEF r, P
    <2>3. /\ IsMapState(q) /\ Kept(r.data, q.data)
          /\ ~q.over => ~r.over
          /\ ~r.over => q.after = r.after + Len(Zero(t))
          /\ r.over => q = r
      BY <2>2, MapStepKeeps
    <2> HIDE DEF q
    <2>4. Len(Terms(Append(s, t))) = Len(Terms(s)) + Len(Zero(t)) /\ Len(Terms(s)) \in Nat /\ Len(Zero(t)) \in Nat
      BY TermsAppend, TermsTypes, ZeroIs, ConcatProperties, LenProperties
    <2>5. m.after \in Nat /\ r.after \in Nat /\ q.after \in Nat /\ r.over \in BOOLEAN
      BY <2>2, <2>3 DEF IsMapState
    <2>6. Kept(m.data, q.data)
      BY <2>2, <2>3, KeptKept
    <2>7. /\ ~q.over => q.after = m.after + Len(Terms(Append(s, t)))
          /\ m.after <= q.after /\ q.after <= m.after + Len(Terms(Append(s, t)))
      <3>1. CASE r.over
        BY <2>2, <2>3, <2>4, <2>5, <3>1
      <3>2. CASE ~r.over
        BY <2>2, <2>3, <2>4, <2>5, <3>2
      <3> QED BY <3>1, <3>2
    <2>8. m.over => q = m
      BY <2>2, <2>3
    <2>9. Good(q, Append(s, t))
      BY <2>3, <2>6, <2>7, <2>8
    <2>10. Append(s, t) \in Seq(Seq(Nat))
      OBVIOUS
    <2> HIDE DEF Good
    <2> QED BY <2>1, <2>9, <2>10 DEF P
  <1> HIDE DEF P
  <1>3. ts \in P
    BY <1>1, <1>2, Mapping!InductionAppend
  <1> QED BY <1>3 DEF P

(* The map of the pairs a game server sends.                               *)
PairStep(context, texts, x) == texts \o <<x.key, x.value>>

Paired == INSTANCE Folding WITH Op <- PairStep

LEMMA MapTextsFold ==
  ASSUME NEW pairs
  PROVE  MapTexts(pairs) = Paired!Fold(0, <<>>, pairs)
  BY DEF MapTexts, Paired!Fold, PairStep, FoldLeft, MapThenFoldSet, Max, Paired!MapThenFoldSet, Paired!Greatest

NamedPairs(pairs) ==
  \A i \in 1..Len(pairs) :
    pairs[i].key # <<>> /\ Free(pairs[i].key, 0) /\ Free(pairs[i].value, 0)

(* The map when it has read some pairs.                                    *)
MapOf(m, pairs) ==
  /\ IsMapState(m) /\ ~m.over /\ m.key = <<>>
  /\ m.data = [k \in KeysOf(pairs) |-> FirstValue(pairs, k)]

LEMMA MapTextsAppend ==
  ASSUME NEW pairs \in Seq(Pair), NEW x \in Pair
  PROVE  MapTexts(Append(pairs, x)) = MapTexts(pairs) \o <<x.key, x.value>>
  <1>1. Paired!Fold(0, <<>>, Append(pairs, x)) = PairStep(0, Paired!Fold(0, <<>>, pairs), x)
    BY Paired!FoldAppend
  <1> QED BY <1>1, MapTextsFold DEF PairStep

LEMMA PairIsRead ==
  ASSUME NEW m, NEW pairs \in Seq(Pair), MapOf(m, pairs), NEW x \in Pair, x.key # <<>>
  PROVE  MapOf(MapStep(MapStep(m, x.key), x.value), Append(pairs, x))
  <1> DEFINE n == MapStep(m, x.key)
             s == MapStep(n, x.value)
             more == Append(pairs, x)
  <1>1. x.key \in Seq(Nat) /\ x.value \in Seq(Nat)
    BY DEF Pair
  <1>2. IsMapState(m) /\ ~m.over /\ m.key = <<>>
    BY DEF MapOf
  <1>3. IsMapState(n) /\ ~n.over /\ n.key = x.key /\ n.data = m.data
    BY <1>1, <1>2, MapSteps
  <1> HIDE DEF n
  <1>4. IsMapState(s) /\ ~s.over /\ s.key = <<>> /\ s.data = Emplace(m.data, x.key, x.value)
    BY <1>1, <1>3, MapSteps
  <1> HIDE DEF s
  <1>5. /\ KeysOf(more) = KeysOf(pairs) \cup {x.key}
        /\ \A k \in KeysOf(pairs) : FirstValue(more, k) = FirstValue(pairs, k)
        /\ x.key \notin KeysOf(pairs) => FirstValue(more, x.key) = x.value
    BY FirstValueAppend
  <1>6. m.data = [k \in KeysOf(pairs) |-> FirstValue(pairs, k)]
    BY DEF MapOf
  <1> HIDE DEF more
  <1>7. Emplace(m.data, x.key, x.value) = [k \in KeysOf(more) |-> FirstValue(more, k)]
    BY <1>5, <1>6 DEF Emplace
  <1> QED BY <1>4, <1>7 DEF MapOf, n, s, more

LEMMA PairsAreRead ==
  ASSUME NEW pairs \in Seq(Pair), NamedPairs(pairs)
  PROVE  /\ MapTexts(pairs) \in Seq(Seq(Nat)) /\ AllFree(MapTexts(pairs))
         /\ MapOf(Mapping!Fold(0, NoMap, MapTexts(pairs)), pairs)
  <1> DEFINE Good(s) == /\ MapTexts(s) \in Seq(Seq(Nat)) /\ AllFree(MapTexts(s))
                        /\ MapOf(Mapping!Fold(0, NoMap, MapTexts(s)), s)
             P == {s \in Seq(Pair) : NamedPairs(s) => Good(s)}
  <1>1. <<>> \in P
    <2>1. <<>> \in Seq(Pair) /\ <<>> \in Seq(Seq(Nat)) /\ MapTexts(<<>>) = <<>> /\ AllFree(<<>>)
      BY MapTextsFold, Paired!FoldEmpty DEF AllFree
    <2>2. Mapping!Fold(0, NoMap, <<>>) = NoMap
      BY Mapping!FoldEmpty
    <2>3. KeysOf(<<>>) = {}
      BY DEF KeysOf
    <2>4. MapOf(NoMap, <<>>)
      BY <2>3 DEF MapOf, NoMap, IsMapState
    <2> QED BY <2>1, <2>2, <2>4
  <1>2. ASSUME NEW s \in Seq(Pair), NEW x \in Pair, s \in P PROVE Append(s, x) \in P
    <2> DEFINE more == Append(s, x)
               a == MapTexts(s)
               two == <<x.key, x.value>>
               m == Mapping!Fold(0, NoMap, a)
    <2> SUFFICES ASSUME NamedPairs(more) PROVE Good(more)
      <3>1. Append(s, x) \in Seq(Pair)
        OBVIOUS
      <3> HIDE DEF Good
      <3> QED BY <3>1
    <2>1. NamedPairs(s) /\ x.key # <<>> /\ Free(x.key, 0) /\ Free(x.value, 0)
      <3>1. /\ Len(more) = Len(s) + 1 /\ more[Len(s) + 1] = x
            /\ \A i \in 1..Len(s) : more[i] = s[i]
            /\ Len(s) \in Nat
        BY AppendProperties, LenProperties
      <3> HIDE DEF more, P
      <3>2. Len(s) + 1 \in 1..Len(more) /\ \A i \in 1..Len(s) : i \in 1..Len(more)
        BY <3>1
      <3> QED BY <3>1, <3>2 DEF NamedPairs
    <2>2. Good(s)
      BY <1>2, <2>1
    <2>3. x.key \in Seq(Nat) /\ x.value \in Seq(Nat)
      BY DEF Pair
    <2>4. MapTexts(more) = a \o two
      BY MapTextsAppend
    <2>5. a \in Seq(Seq(Nat)) /\ AllFree(a) /\ MapOf(m, s)
      BY <2>2
    <2> HIDE DEF a, m, P
    <2>6. two \in Seq(Seq(Nat)) /\ AllFree(two) /\ two = Append(Append(<<>>, x.key), x.value)
      BY <2>1, <2>3 DEF AllFree
    <2>7. Joined(Seq(Nat), MapTexts(more), a, two)
      BY <2>4, <2>5, <2>6 DEF Joined
    <2>8. MapTexts(more) \in Seq(Seq(Nat)) /\ AllFree(MapTexts(more))
      <3> DEFINE w == MapTexts(more)
                 S == Seq(Nat)
      <3>1. Joined(S, w, a, two)
        BY <2>7
      <3> HIDE DEF w, two, S
      <3>2. /\ w \in Seq(S) /\ Len(w) = Len(a) + Len(two) /\ Len(a) \in Nat /\ Len(two) \in Nat
            /\ \A i \in 1..Len(a) : w[i] = a[i]
            /\ \A i \in 1..Len(two) : w[Len(a) + i] = two[i]
        BY <3>1, JoinedParts, JoinedAt, JoinedRest
      <3>3. ASSUME NEW i \in 1..Len(w) PROVE Free(w[i], 0)
        <4>1. CASE i \in 1..Len(a)
          BY <2>5, <3>2, <4>1 DEF AllFree
        <4>2. CASE i \notin 1..Len(a)
          <5>1. i - Len(a) \in 1..Len(two) /\ Len(a) + (i - Len(a)) = i
            BY <3>2, <4>2
          <5> QED BY <2>6, <3>2, <5>1 DEF AllFree
        <4> QED BY <4>1, <4>2
      <3> QED BY <3>2, <3>3 DEF AllFree, w, S
    <2>9. Mapping!Fold(0, NoMap, a \o two) = Mapping!Fold(0, m, two)
      <3>1. Mapping!Fold(0, NoMap, a \o two) = Mapping!Fold(0, Mapping!Fold(0, NoMap, a), two)
        <4>1. a \in Seq(Seq(Nat)) /\ two \in Seq(Seq(Nat))
          BY <2>5, <2>6
        <4> HIDE DEF two
        <4> QED BY <4>1, Mapping!FoldConcat
      <3> QED BY <3>1 DEF m
    <2>10. Mapping!Fold(0, m, two) = MapStep(MapStep(m, x.key), x.value)
      <3> DEFINE one == Append(<<>>, x.key)
                 none == <<>>
      <3>1. one \in Seq(Seq(Nat)) /\ none \in Seq(Seq(Nat))
        BY <2>3
      <3>2. Mapping!Fold(0, m, none) = m
        BY Mapping!FoldEmpty
      <3>3. Mapping!Fold(0, m, Append(none, x.key)) = MapStep(Mapping!Fold(0, m, none), x.key)
        <4> HIDE DEF none
        <4> QED BY <2>3, <3>1, Mapping!FoldAppend DEF MappingStep
      <3>4. Mapping!Fold(0, m, Append(one, x.value)) = MapStep(Mapping!Fold(0, m, one), x.value)
        <4> HIDE DEF one
        <4> QED BY <2>3, <3>1, Mapping!FoldAppend DEF MappingStep
      <3> QED BY <2>6, <3>2, <3>3, <3>4
    <2>11. MapOf(MapStep(MapStep(m, x.key), x.value), more)
      BY <2>1, <2>5, PairIsRead
    <2> HIDE DEF two, more
    <2> QED BY <2>4, <2>8, <2>9, <2>10, <2>11
  <1> HIDE DEF P
  <1>3. pairs \in P
    BY <1>1, <1>2, Paired!InductionAppend
  <1> QED BY <1>3 DEF P

LEMMA NoMapIs == IsMapState(NoMap) /\ ~NoMap.over /\ NoMap.after = 1
  BY DEF IsMapState, NoMap

MapPart(pairs) == Terms(MapTexts(pairs) \o <<<<>>>>)

LEMMA MapIsRead ==
  ASSUME NEW pairs \in Seq(Pair), NamedPairs(pairs), NEW rest \in Seq(Nat)
  PROVE  /\ MapPart(pairs) \in Seq(Nat)
         /\ Map(MapPart(pairs) \o rest).over
         /\ Map(MapPart(pairs) \o rest).after = Len(MapPart(pairs)) + 1
         /\ Map(MapPart(pairs) \o rest).data = [k \in KeysOf(pairs) |-> FirstValue(pairs, k)]
  <1> DEFINE S == Seq(Nat)
             mt == MapTexts(pairs)
             none == <<>>
             ts == Append(mt, none)
             m == Mapping!Fold(0, NoMap, mt)
             w == MapStep(m, none)
  <1>1. mt \in Seq(S) /\ AllFree(mt) /\ MapOf(m, pairs)
    BY PairsAreRead
  <1>2. none \in S /\ Free(none, 0) /\ Len(none) = 0
    BY DEF Free
  <1>3. MapPart(pairs) = Terms(ts)
    <2>1. mt \o <<none>> = Append(mt, none)
      <3> HIDE DEF mt, none, S
      <3> QED BY <1>1, <1>2, AppendIsConcat
    <2> QED BY <2>1 DEF MapPart
  <1>4. ts \in Seq(S) /\ AllFree(ts)
    <2> HIDE DEF mt, S, none
    <2>1. /\ ts \in Seq(S) /\ Len(ts) = Len(mt) + 1 /\ ts[Len(mt) + 1] = none
          /\ \A i \in 1..Len(mt) : ts[i] = mt[i]
          /\ Len(mt) \in Nat
      BY <1>1, <1>2, AppendProperties, LenProperties
    <2>2. \A i \in 1..Len(ts) : i \in 1..Len(mt) \/ i = Len(mt) + 1
      BY <2>1
    <2> QED BY <1>1, <1>2, <2>1, <2>2 DEF AllFree
  <1>5. Mapping!Fold(0, NoMap, ts) = w
    <2>1. Mapping!Fold(0, NoMap, Append(mt, none)) = MappingStep(0, m, none)
      <3> HIDE DEF mt, none, S
      <3> QED BY <1>1, <1>2, Mapping!FoldAppend
    <2> QED BY <2>1 DEF MappingStep
  <1>6. IsMapState(m) /\ ~m.over /\ m.after = 1 + Len(Terms(mt))
    <2>1. ~m.over
      BY <1>1 DEF MapOf
    <2> HIDE DEF mt
    <2> QED BY <1>1, <2>1, NoMapIs, MapKeeps
  <1>7. Len(Terms(ts)) = Len(Terms(mt)) + 1 /\ Len(Terms(mt)) \in Nat /\ Terms(ts) \in Seq(Nat)
    <2>1. mt \in Seq(Seq(Nat)) /\ none \in Seq(Nat)
      BY <1>1
    <2> HIDE DEF mt, none
    <2>2. Len(Terms(ts)) = Len(Terms(mt)) + Len(none) + 1 /\ Len(Terms(mt)) \in Nat /\ Terms(ts) \in Seq(Nat)
      BY <2>1, TermsLength
    <2> HIDE DEF ts
    <2> QED BY <1>2, <2>2
  <1>8. /\ IsMapState(w) /\ w.over /\ w.after = Len(Terms(ts)) + 1
        /\ w.data = [k \in KeysOf(pairs) |-> FirstValue(pairs, k)]
    <2>1. m.key = <<>> /\ m.data = [k \in KeysOf(pairs) |-> FirstValue(pairs, k)]
      BY <1>1 DEF MapOf
    <2> HIDE DEF m, mt, ts
    <2>2. IsMapState(w) /\ w.data = m.data /\ w.over /\ w.after = m.after + Len(none) + 1
      BY <1>2, <1>6, <2>1, MapSteps
    <2> QED BY <1>2, <1>6, <1>7, <2>1, <2>2
  <1> HIDE DEF w, m, mt, none, ts
  <1>9. PICK z \in Seq(S) : Strings(Terms(ts) \o rest) = ts \o z
    BY <1>4, StringsOfTerms
  <1>10. Mapping!Fold(0, NoMap, ts \o z) = Mapping!Fold(0, Mapping!Fold(0, NoMap, ts), z)
    <2> HIDE DEF S
    <2> QED BY <1>4, Mapping!FoldConcat
  <1>11. Map(Terms(ts) \o rest) = w
    BY <1>5, <1>8, <1>9, <1>10, MapFolds, MapKeeps
  <1> QED BY <1>3, <1>7, <1>8, <1>11

LEMMA MapIsCut ==
  ASSUME NEW b, Terminated(b), NEW c \in Seq(Nat)
  PROVE  /\ Kept(Map(b).data, Map(b \o c).data)
         /\ Map(b).over => Map(b \o c) = Map(b)
         /\ ~Map(b).over => Map(b).after = Len(b) + 1
         /\ Map(b).after \in 1..(Len(b) + 1)
  <1> DEFINE S == Seq(Nat)
             ts == Strings(b)
             m == Mapping!Fold(0, NoMap, ts)
  <1>1. b \in Seq(Nat) /\ ts \in Seq(S) /\ Terms(ts) = b
    BY StringsBack
  <1>2. Map(b) = m
    BY MapFolds
  <1>3. Len(b) \in Nat
    BY <1>1, LenProperties
  <1> HIDE DEF ts
  <1>4. /\ IsMapState(m) /\ 1 <= m.after /\ m.after <= 1 + Len(b)
        /\ ~m.over => m.after = 1 + Len(b)
    BY <1>1, NoMapIs, MapKeeps
  <1>5. PICK z \in Seq(S) : Strings(b \o c) = ts \o z
    BY <1>1, StringsOfMore DEF ts
  <1> HIDE DEF S
  <1>6. Map(b \o c) = Mapping!Fold(0, m, z)
    <2>1. Mapping!Fold(0, NoMap, ts \o z) = Mapping!Fold(0, m, z)
      BY <1>1, Mapping!FoldConcat
    <2> QED BY <1>5, <2>1, MapFolds
  <1> HIDE DEF m
  <1>7. Kept(m.data, Mapping!Fold(0, m, z).data) /\ (m.over => Mapping!Fold(0, m, z) = m)
    BY <1>4, MapKeeps DEF S
  <1>8. m.after \in Nat
    BY <1>4 DEF IsMapState
  <1> QED BY <1>2, <1>3, <1>4, <1>6, <1>7, <1>8

-----------------------------------------------------------------------------
(* The tables of a heartbeat.                                              *)
Bytes == Seq(Nat)

Wanted(count, end) == [count |-> count, headerEnd |-> end]

ReadingStep(wanted, t, text) == TableStep(t, text, wanted)

Reading == INSTANCE Folding WITH Op <- ReadingStep

RowsStep(context, texts, row) == texts \o row

Celled == INSTANCE Folding WITH Op <- RowsStep

LEMMA CellsFold ==
  ASSUME NEW rows
  PROVE  Cells(rows) = Celled!Fold(0, <<>>, rows)
  BY DEF Cells, Celled!Fold, RowsStep, FoldLeft, MapThenFoldSet, Max, Celled!MapThenFoldSet, Celled!Greatest

ReadTable(d, i, end) ==
  Reading!Fold(Wanted(256 * d[i] + d[i + 1], end), EmptyTable(i + 2), Strings(SubSeq(d, i + 2, Len(d))))

LEMMA TableFolds ==
  ASSUME NEW d, NEW i, NEW end
  PROVE  LET t == ReadTable(d, i, end)
         IN Table(d, i, end) =
              [headers |-> t.headers, rows |-> t.rows, after |-> t.after,
               whole |-> /\ i + 1 <= Len(d) /\ ~t.bad
                         /\ Len(t.rows) >= 256 * d[i] + d[i + 1]
                         /\ t.rows = <<>> \/ Len(Last(t.rows)) = Len(t.headers)]
  <1> DEFINE wanted == Wanted(256 * d[i] + d[i + 1], end)
  <1>1. ReadTable(d, i, end) =
          FoldLeft(LAMBDA r, text : TableStep(r, text, wanted),
                   EmptyTable(i + 2), Strings(SubSeq(d, i + 2, Len(d))))
    BY DEF ReadTable, ReadingStep, Reading!Fold, FoldLeft, MapThenFoldSet, Max, Reading!MapThenFoldSet, Reading!Greatest
  <1>2. wanted.count = 256 * d[i] + d[i + 1]
    BY DEF Wanted
  <1> QED BY <1>1, <1>2 DEF Table, Wanted

IsTable(t) ==
  /\ DOMAIN t = {"headers", "rows", "parsed", "over", "bad", "after"}
  /\ t.headers \in Seq(Bytes) /\ t.rows \in Seq(Seq(Bytes))
  /\ t.parsed \in BOOLEAN /\ t.over \in BOOLEAN /\ t.bad \in BOOLEAN /\ t.after \in Nat

(* A cell opens a row or is added to the last one.                         *)
LEMMA RowOpens ==
  ASSUME NEW T, NEW rows \in Seq(Seq(T)), NEW headers, NEW text \in T, OpensRow(rows, headers)
  PROVE  LET more == AddCell(rows, headers, text)
         IN /\ more \in Seq(Seq(T)) /\ more = Append(rows, <<text>>)
            /\ Len(more) = Len(rows) + 1 /\ Last(more) = <<text>> /\ Len(Last(more)) = 1
  <1> DEFINE row == <<text>>
             more == Append(rows, row)
  <1>1. AddCell(rows, headers, text) = more
    BY DEF AddCell
  <1>2. row \in Seq(T) /\ Len(row) = 1
    OBVIOUS
  <1> HIDE DEF row
  <1>3. more \in Seq(Seq(T)) /\ Len(more) = Len(rows) + 1 /\ more[Len(rows) + 1] = row
    BY <1>2, AppendProperties
  <1> HIDE DEF more
  <1> QED BY <1>1, <1>2, <1>3 DEF Last, more, row

LEMMA RowGrows ==
  ASSUME NEW T, NEW rows \in Seq(Seq(T)), NEW headers, NEW text \in T, ~OpensRow(rows, headers)
  PROVE  LET more == AddCell(rows, headers, text)
         IN /\ more \in Seq(Seq(T)) /\ Len(more) = Len(rows) /\ Last(rows) \in Seq(T)
            /\ Last(more) = Append(Last(rows), text) /\ Len(Last(more)) = Len(Last(rows)) + 1
            /\ \A i \in 1..(Len(rows) - 1) : more[i] = rows[i]
  <1> DEFINE n == Len(rows)
             row == Append(rows[n], text)
             more == [rows EXCEPT ![n] = row]
  <1>1. AddCell(rows, headers, text) = more /\ rows # <<>>
    BY DEF AddCell, OpensRow
  <1>2. n \in Nat /\ n # 0 /\ n \in 1..n /\ DOMAIN rows = 1..n
    BY <1>1, EmptySeq, LenProperties
  <1>3. rows[n] \in Seq(T)
    BY <1>2, ElementOfSeq
  <1>4. row \in Seq(T) /\ Len(row) = Len(rows[n]) + 1
    BY <1>3, AppendProperties
  <1> HIDE DEF row
  <1>5. more \in Seq(Seq(T)) /\ Len(more) = n
    BY <1>2, <1>4, ExceptSeq
  <1>6. more[n] = row /\ \A i \in 1..(n - 1) : more[i] = rows[i]
    BY <1>2
  <1> HIDE DEF more, n
  <1> QED BY <1>1, <1>3, <1>4, <1>5, <1>6 DEF Last, row, n

(* One string of a table.                                                  *)
Continues(t) == ~t.over /\ ~t.bad

Full(rows, headers) == Len(Last(rows)) = Len(headers)

LEMMA HeaderStep ==
  ASSUME NEW t, IsTable(t), Continues(t), NEW w, NEW text \in Bytes, ~t.parsed, EndsWith(text, w.headerEnd)
  PROVE  LET s == TableStep(t, text, w)
         IN /\ IsTable(s) /\ Continues(s) /\ ~s.parsed
            /\ s.headers = Append(t.headers, text) /\ s.rows = t.rows
            /\ s.after = t.after + Len(text) + 1
  <1> DEFINE s == TableStep(t, text, w)
             F == {"headers", "rows", "parsed", "over", "bad", "after"}
             more == Append(t.headers, text)
  <1>1. /\ DOMAIN t = F /\ t.headers \in Seq(Bytes) /\ t.after \in Nat
        /\ ~t.over /\ ~t.bad
    BY DEF IsTable, Continues
  <1>2. t.after + Len(text) + 1 \in Nat
    BY <1>1, LenProperties DEF Bytes
  <1>3. more \in Seq(Bytes)
    BY <1>1, AppendProperties
  <1>4. /\ DOMAIN s = F /\ s.headers = more /\ s.rows = t.rows /\ s.parsed = t.parsed
        /\ s.over = t.over /\ s.bad = t.bad /\ s.after = t.after + Len(text) + 1
    BY <1>1 DEF TableStep
  <1> HIDE DEF s, more
  <1> QED BY <1>2, <1>3, <1>4 DEF IsTable, Continues, s, more

LEMMA BadStep ==
  ASSUME NEW t, IsTable(t), Continues(t), NEW w, NEW text \in Bytes,
         t.parsed \/ ~EndsWith(text, w.headerEnd), t.headers = <<>>
  PROVE  LET s == TableStep(t, text, w)
         IN /\ IsTable(s) /\ s.bad /\ ~s.over
            /\ s.headers = t.headers /\ s.rows = t.rows /\ s.after = t.after
  <1> DEFINE s == TableStep(t, text, w)
             F == {"headers", "rows", "parsed", "over", "bad", "after"}
  <1>1. DOMAIN t = F /\ ~t.over /\ ~t.bad
    BY DEF IsTable, Continues
  <1>2. s = [t EXCEPT !.bad = TRUE]
    BY <1>1 DEF TableStep
  <1>3. /\ DOMAIN s = F /\ s.headers = t.headers /\ s.rows = t.rows /\ s.parsed = t.parsed
        /\ s.over = t.over /\ s.bad = TRUE /\ s.after = t.after
    BY <1>1, <1>2
  <1> HIDE DEF s
  <1> QED BY <1>3 DEF IsTable, Continues, s

LEMMA BlankStep ==
  ASSUME NEW t, IsTable(t), Continues(t), NEW w, NEW text \in Bytes,
         t.parsed \/ ~EndsWith(text, w.headerEnd), t.headers # <<>>, text = <<>>
  PROVE  LET s == TableStep(t, text, w)
         IN /\ IsTable(s) /\ s.parsed /\ ~s.bad /\ (s.over <=> w.count = 0)
            /\ s.headers = t.headers /\ s.rows = t.rows /\ s.after = t.after + Len(text) + 1
  <1> DEFINE s == TableStep(t, text, w)
             F == {"headers", "rows", "parsed", "over", "bad", "after"}
             over == (w.count = 0)
             next == [t EXCEPT !.after = @ + Len(text) + 1]
  <1>1. DOMAIN t = F /\ ~t.over /\ ~t.bad /\ t.after \in Nat
    BY DEF IsTable, Continues
  <1>2. t.after + Len(text) + 1 \in Nat
    BY <1>1, LenProperties DEF Bytes
  <1>3. s = [next EXCEPT !.parsed = TRUE, !.over = over]
    BY <1>1 DEF TableStep, Cell
  <1>4. over \in BOOLEAN
    OBVIOUS
  <1>5. /\ DOMAIN s = F /\ s.headers = t.headers /\ s.rows = t.rows /\ s.parsed = TRUE
        /\ s.over = over /\ s.bad = t.bad /\ s.after = t.after + Len(text) + 1
    <2> HIDE DEF over
    <2> QED BY <1>1, <1>3
  <1> HIDE DEF s
  <1> QED BY <1>2, <1>4, <1>5 DEF IsTable, Continues, s

LEMMA CellStep ==
  ASSUME NEW t, IsTable(t), Continues(t), NEW w, NEW text \in Bytes,
         t.parsed \/ ~EndsWith(text, w.headerEnd), t.headers # <<>>, text # <<>>
  PROVE  LET s == TableStep(t, text, w)
             rows == AddCell(t.rows, t.headers, text)
         IN /\ IsTable(s) /\ s.parsed = t.parsed /\ ~s.bad
            /\ s.over <=> Len(rows) = w.count /\ Full(rows, t.headers)
            /\ s.headers = t.headers /\ s.rows = rows /\ s.after = t.after + Len(text) + 1
  <1> DEFINE s == TableStep(t, text, w)
             F == {"headers", "rows", "parsed", "over", "bad", "after"}
             rows == AddCell(t.rows, t.headers, text)
             over == (Len(rows) = w.count /\ Len(Last(rows)) = Len(t.headers))
             next == [t EXCEPT !.after = @ + Len(text) + 1]
  <1>1. DOMAIN t = F /\ ~t.over /\ ~t.bad /\ t.after \in Nat /\ t.rows \in Seq(Seq(Bytes))
    BY DEF IsTable, Continues
  <1>2. t.after + Len(text) + 1 \in Nat
    BY <1>1, LenProperties DEF Bytes
  <1>3. s = [next EXCEPT !.rows = rows, !.over = over]
    <2>1. next.rows = t.rows /\ next.headers = t.headers
      BY <1>1
    <2>2. s = Cell(next, text, w.count)
      BY <1>1 DEF TableStep
    <2> HIDE DEF next
    <2> QED BY <2>1, <2>2 DEF Cell
  <1>4. over \in BOOLEAN
    OBVIOUS
  <1>5. /\ DOMAIN s = F /\ s.headers = t.headers /\ s.rows = rows /\ s.parsed = t.parsed
        /\ s.over = over /\ s.bad = t.bad /\ s.after = t.after + Len(text) + 1
    <2> HIDE DEF over, rows
    <2> QED BY <1>1, <1>3
  <1>6. rows \in Seq(Seq(Bytes))
    BY <1>1, RowOpens, RowGrows
  <1> HIDE DEF s, rows
  <1> QED BY <1>2, <1>4, <1>5, <1>6 DEF IsTable, Continues, Full, s, rows

LEMMA StoppedStep ==
  ASSUME NEW t, ~Continues(t), NEW w, NEW text
  PROVE  TableStep(t, text, w) = t
  BY DEF TableStep, Continues

(* Of a table that is not over the last row is not full, if it is the last *)
(* that is wanted.                                                         *)
Open(t, w) ==
  Continues(t) /\ t.rows # <<>> =>
    /\ Len(Last(t.rows)) <= Len(t.headers)
    /\ Len(t.rows) = w.count => Len(Last(t.rows)) < Len(t.headers)

(* What a string does to a table, whatever it is.                          *)
GoesOn(t, s, n) ==
  /\ IsTable(s)
  /\ Len(t.rows) <= Len(s.rows) /\ Begins(s.headers, t.headers)
  /\ t.after <= s.after /\ s.after <= t.after + n
  /\ Continues(s) => s.after = t.after + n
  /\ ~Continues(t) => s = t

LEMMA LastLength ==
  ASSUME NEW t, IsTable(t), t.rows # <<>>
  PROVE  Len(Last(t.rows)) \in Nat
  <1>1. Len(t.rows) \in 1..Len(t.rows) /\ t.rows \in Seq(Seq(Bytes))
    BY EmptySeq, LenProperties DEF IsTable
  <1>2. t.rows[Len(t.rows)] \in Seq(Bytes)
    BY <1>1, ElementOfSeq
  <1> QED BY <1>2, LenProperties DEF Last

LEMMA BeginsSame ==
  ASSUME NEW T, NEW a \in Seq(T)
  PROVE  Begins(a, a)
  BY BeginsWhole

LEMMA BeginsAppend ==
  ASSUME NEW T, NEW a \in Seq(T), NEW x \in T
  PROVE  Begins(Append(a, x), a)
  <1>1. /\ Len(Append(a, x)) = Len(a) + 1 /\ Len(a) \in Nat
        /\ \A i \in 1..Len(a) : Append(a, x)[i] = a[i]
    BY AppendProperties, LenProperties
  <1> QED BY <1>1 DEF Begins

LEMMA BeginsBegins ==
  ASSUME NEW T, NEW a \in Seq(T), NEW b \in Seq(T), NEW c \in Seq(T), Begins(b, a), Begins(c, b)
  PROVE  Begins(c, a)
  <1>1. Len(a) \in Nat /\ Len(b) \in Nat /\ Len(c) \in Nat
    BY LenProperties
  <1> QED BY <1>1 DEF Begins

LEMMA TableStepGrows ==
  ASSUME NEW t, IsTable(t), NEW w, Open(t, w), NEW text \in Bytes
  PROVE  LET s == TableStep(t, text, w)
         IN GoesOn(t, s, Len(text) + 1) /\ Open(s, w)
  <1> DEFINE s == TableStep(t, text, w)
             m == Len(text) + 1
  <1>1. /\ t.headers \in Seq(Bytes) /\ t.rows \in Seq(Seq(Bytes)) /\ t.after \in Nat
        /\ Len(t.headers) \in Nat /\ Len(t.rows) \in Nat
    BY LenProperties DEF IsTable
  <1>2. m \in Nat /\ t.after + Len(text) + 1 = t.after + m
    <2>1. Len(text) \in Nat
      BY LenProperties DEF Bytes
    <2> QED BY <1>1, <2>1
  <1>3. Begins(t.headers, t.headers)
    BY <1>1, BeginsWhole
  <1>4. CASE ~Continues(t)
    <2>1. s = t
      BY <1>4, StoppedStep
    <2> HIDE DEF s, m
    <2> QED BY <1>1, <1>2, <1>3, <1>4, <2>1 DEF GoesOn, s, m
  <1>5. CASE Continues(t) /\ ~t.parsed /\ EndsWith(text, w.headerEnd)
    <2>1. /\ IsTable(s) /\ Continues(s) /\ s.headers = Append(t.headers, text) /\ s.rows = t.rows
          /\ s.after = t.after + Len(text) + 1
      BY <1>5, HeaderStep
    <2>2. Begins(s.headers, t.headers) /\ Len(s.headers) = Len(t.headers) + 1
      <3>1. Begins(Append(t.headers, text), t.headers) /\ Len(Append(t.headers, text)) = Len(t.headers) + 1
        BY <1>1, BeginsAppend, AppendProperties
      <3> QED BY <2>1, <3>1
    <2>3. s.after = t.after + m
      BY <1>2, <2>1
    <2> HIDE DEF s, m
    <2>4. GoesOn(t, s, m)
      BY <1>1, <1>2, <1>5, <2>1, <2>2, <2>3 DEF GoesOn
    <2>5. Open(s, w)
      <3> SUFFICES ASSUME t.rows # <<>>
                   PROVE  /\ Len(Last(t.rows)) <= Len(s.headers)
                          /\ Len(t.rows) = w.count => Len(Last(t.rows)) < Len(s.headers)
        BY <2>1 DEF Open
      <3>1. Len(Last(t.rows)) \in Nat
        BY LastLength
      <3>2. Len(Last(t.rows)) <= Len(t.headers)
        BY <1>5 DEF Open
      <3> QED BY <1>1, <2>2, <3>1, <3>2
    <2> QED BY <2>4, <2>5 DEF s, m
  <1>6. CASE Continues(t) /\ (t.parsed \/ ~EndsWith(text, w.headerEnd)) /\ t.headers = <<>>
    <2>1. IsTable(s) /\ s.bad /\ s.headers = t.headers /\ s.rows = t.rows /\ s.after = t.after
      BY <1>6, BadStep
    <2> HIDE DEF s, m
    <2>2. ~Continues(s)
      BY <2>1 DEF Continues
    <2>3. GoesOn(t, s, m)
      BY <1>1, <1>2, <1>3, <1>6, <2>1, <2>2 DEF GoesOn
    <2> QED BY <2>2, <2>3 DEF Open, s, m
  <1>7. CASE Continues(t) /\ (t.parsed \/ ~EndsWith(text, w.headerEnd)) /\ t.headers # <<>> /\ text = <<>>
    <2>1. /\ IsTable(s) /\ s.headers = t.headers /\ s.rows = t.rows
          /\ s.after = t.after + Len(text) + 1
      BY <1>7, BlankStep
    <2>2. s.after = t.after + m
      BY <1>2, <2>1
    <2> HIDE DEF s, m
    <2>3. GoesOn(t, s, m)
      BY <1>1, <1>2, <1>3, <1>7, <2>1, <2>2 DEF GoesOn
    <2>4. Open(s, w)
      BY <1>7, <2>1 DEF Open
    <2> QED BY <2>3, <2>4 DEF s, m
  <1>8. CASE Continues(t) /\ (t.parsed \/ ~EndsWith(text, w.headerEnd)) /\ t.headers # <<>> /\ text # <<>>
    <2> DEFINE rows == AddCell(t.rows, t.headers, text)
    <2>1. /\ IsTable(s) /\ s.headers = t.headers /\ s.rows = rows
          /\ s.after = t.after + Len(text) + 1
          /\ s.over <=> Len(rows) = w.count /\ Full(rows, t.headers)
      BY <1>8, CellStep
    <2>2. s.after = t.after + m
      BY <1>2, <2>1
    <2>3. Len(t.rows) <= Len(rows) /\ Len(Last(rows)) <= Len(t.headers)
      <3>1. CASE OpensRow(t.rows, t.headers)
        <4>1. Len(rows) = Len(t.rows) + 1 /\ Len(Last(rows)) = 1
          BY <1>1, <3>1, RowOpens
        <4>2. Len(t.headers) # 0
          BY <1>1, <1>8, EmptySeq
        <4> HIDE DEF rows
        <4> QED BY <1>1, <4>1, <4>2
      <3>2. CASE ~OpensRow(t.rows, t.headers)
        <4>1. Len(rows) = Len(t.rows) /\ Len(Last(rows)) = Len(Last(t.rows)) + 1
          BY <1>1, <3>2, RowGrows
        <4>2. t.rows # <<>> /\ Len(Last(t.rows)) # Len(t.headers)
          BY <3>2 DEF OpensRow
        <4>3. Len(Last(t.rows)) \in Nat /\ Len(Last(t.rows)) <= Len(t.headers)
          BY <1>8, <4>2, LastLength DEF Open
        <4> HIDE DEF rows
        <4> QED BY <1>1, <4>1, <4>2, <4>3
      <3> QED BY <3>1, <3>2
    <2> HIDE DEF s, m, rows
    <2>4. GoesOn(t, s, m)
      BY <1>1, <1>2, <1>3, <1>8, <2>1, <2>2, <2>3 DEF GoesOn
    <2>5. Open(s, w)
      <3> SUFFICES ASSUME Continues(s), rows # <<>>
                   PROVE  /\ Len(Last(rows)) <= Len(t.headers)
                          /\ Len(rows) = w.count => Len(Last(rows)) < Len(t.headers)
        BY <2>1 DEF Open
      <3>1. Len(Last(rows)) \in Nat
        BY <2>1, LastLength
      <3>2. ~s.over
        BY DEF Continues
      <3>3. Len(rows) = w.count => Len(Last(rows)) # Len(t.headers)
        BY <2>1, <3>2 DEF Full
      <3> QED BY <1>1, <2>3, <3>1, <3>3
    <2> QED BY <2>4, <2>5 DEF s, m
  <1>9. t.parsed \in BOOLEAN
    BY DEF IsTable
  <1> QED BY <1>4, <1>5, <1>6, <1>7, <1>8, <1>9

LEMMA GrowsGrows ==
  ASSUME NEW t, IsTable(t), NEW s, NEW r, NEW n \in Nat, NEW m \in Nat, GoesOn(t, s, n), GoesOn(s, r, m)
  PROVE  GoesOn(t, r, n + m)
  <1>1. /\ IsTable(s) /\ IsTable(r) /\ t.after \in Nat /\ s.after \in Nat /\ r.after \in Nat
        /\ t.headers \in Seq(Bytes) /\ s.headers \in Seq(Bytes) /\ r.headers \in Seq(Bytes)
        /\ Len(t.rows) \in Nat /\ Len(s.rows) \in Nat /\ Len(r.rows) \in Nat
    BY LenProperties DEF GoesOn, IsTable
  <1>2. Begins(r.headers, t.headers)
    BY <1>1, BeginsBegins DEF GoesOn
  <1>3. Len(t.rows) <= Len(r.rows) /\ t.after <= r.after /\ r.after <= t.after + (n + m)
    <2>1. /\ Len(t.rows) <= Len(s.rows) /\ Len(s.rows) <= Len(r.rows)
          /\ t.after <= s.after /\ s.after <= t.after + n
          /\ s.after <= r.after /\ r.after <= s.after + m
      BY DEF GoesOn
    <2>2. \A a, b, c \in Nat : a <= b /\ b <= c => a <= c
      OBVIOUS
    <2>3. \A a, b, c \in Nat : b <= a + n /\ c <= b + m => c <= a + (n + m)
      OBVIOUS
    <2> QED BY <1>1, <2>1, <2>2, <2>3
  <1>4. Continues(r) => r.after = t.after + (n + m)
    BY <1>1 DEF GoesOn
  <1>5. ~Continues(t) => r = t
    BY DEF GoesOn
  <1> QED BY <1>1, <1>2, <1>3, <1>4, <1>5 DEF GoesOn

LEMMA TableGrows ==
  ASSUME NEW t, IsTable(t), NEW w, Open(t, w), NEW ts \in Seq(Seq(Nat))
  PROVE  LET s == Reading!Fold(w, t, ts)
         IN GoesOn(t, s, Len(Terms(ts))) /\ Open(s, w)
  <1> DEFINE Good(r, s) == GoesOn(t, r, Len(Terms(s))) /\ Open(r, w)
             P == {s \in Seq(Seq(Nat)) : Good(Reading!Fold(w, t, s), s)}
  <1>1. <<>> \in P
    <2>1. <<>> \in Seq(Seq(Nat)) /\ Len(Terms(<<>>)) = 0
      BY TermsOfNone
    <2>2. Reading!Fold(w, t, <<>>) = t
      BY Reading!FoldEmpty
    <2>3. t.after \in Nat /\ Len(t.rows) \in Nat /\ Begins(t.headers, t.headers)
      BY BeginsWhole, LenProperties DEF IsTable
    <2>4. GoesOn(t, t, 0)
      BY <2>3 DEF GoesOn
    <2> QED BY <2>1, <2>2, <2>4
  <1>2. ASSUME NEW s \in Seq(Seq(Nat)), NEW x \in Seq(Nat), s \in P PROVE Append(s, x) \in P
    <2> DEFINE r == Reading!Fold(w, t, s)
               q == TableStep(r, x, w)
               m == Len(Terms(s))
               n == Len(x) + 1
    <2>1. Reading!Fold(w, t, Append(s, x)) = q
      BY Reading!FoldAppend DEF ReadingStep
    <2>2. GoesOn(t, r, m) /\ Open(r, w)
      BY <1>2
    <2>3. Len(Terms(Append(s, x))) = m + n /\ m \in Nat /\ n \in Nat
      <3>1. Len(Terms(Append(s, x))) = m + Len(x) + 1 /\ m \in Nat /\ Len(x) \in Nat
        BY TermsLength
      <3> HIDE DEF m
      <3> QED BY <3>1
    <2> HIDE DEF r, P
    <2>4. IsTable(r)
      BY <2>2 DEF GoesOn
    <2>5. GoesOn(r, q, n) /\ Open(q, w)
      BY <2>2, <2>4, TableStepGrows DEF Bytes
    <2> HIDE DEF q, m, n
    <2>6. GoesOn(t, q, m + n)
      BY <2>2, <2>3, <2>5, GrowsGrows
    <2>7. Append(s, x) \in Seq(Seq(Nat))
      OBVIOUS
    <2> QED BY <2>1, <2>3, <2>5, <2>6, <2>7 DEF P
  <1> HIDE DEF P
  <1>3. ts \in P
    BY <1>1, <1>2, Reading!InductionAppend
  <1> QED BY <1>3 DEF P

LEMMA EmptyTableIs ==
  ASSUME NEW j \in Nat, NEW w
  PROVE  IsTable(EmptyTable(j)) /\ Open(EmptyTable(j), w) /\ EmptyTable(j).after = j
  <1> DEFINE none == <<>>
  <1>1. /\ EmptyTable(j).headers = none /\ EmptyTable(j).rows = none /\ EmptyTable(j).after = j
        /\ EmptyTable(j).parsed = FALSE /\ EmptyTable(j).over = FALSE /\ EmptyTable(j).bad = FALSE
        /\ DOMAIN EmptyTable(j) = {"headers", "rows", "parsed", "over", "bad", "after"}
    BY DEF EmptyTable
  <1>2. none \in Seq(Bytes) /\ none \in Seq(Seq(Bytes))
    OBVIOUS
  <1>3. IsTable(EmptyTable(j))
    <2> HIDE DEF none
    <2> QED BY <1>1, <1>2 DEF IsTable
  <1> QED BY <1>1, <1>3 DEF Open

(* A sequence is what is cut of it and the rest.                           *)
LEMMA CutRest ==
  ASSUME NEW T, NEW p \in Seq(T), NEW n \in 0..Len(p)
  PROVE  Joined(T, p, SubSeq(p, 1, n), SubSeq(p, n + 1, Len(p)))
  <1> DEFINE a == SubSeq(p, 1, n)
             b == SubSeq(p, n + 1, Len(p))
             w == a \o b
  <1>1. Len(p) \in Nat /\ n \in Nat /\ n <= Len(p)
    BY LenProperties
  <1>2. a \in Seq(T) /\ Len(a) = n /\ \A i \in 1..n : a[i] = p[i]
    <2>1. CutOf(T, a, p, n)
      BY DEF CutOf
    <2> HIDE DEF a
    <2>2. a \in Seq(T) /\ Len(a) = n
      BY <2>1, CutFields
    <2>3. \A i \in 1..n : a[i] = p[i]
      BY <2>1, CutFields
    <2> QED BY <2>2, <2>3
  <1>3. b \in Seq(T) /\ Len(b) = Len(p) - n /\ \A i \in 1..Len(b) : b[i] = p[n + i]
    <2>1. \A i \in (n + 1)..Len(p) : p[i] \in T
      BY <1>1, ElementOfSeq
    <2>2. b \in Seq(T)
      BY <1>1, <2>1, SubSeqProperties
    <2>3. Len(b) = IF n + 1 <= Len(p) THEN Len(p) - (n + 1) + 1 ELSE 0
      BY <1>1, SubSeqProperties
    <2>4. \A i \in 1..(Len(p) - (n + 1) + 1) : b[i] = p[(n + 1) + i - 1]
      BY <1>1, SubSeqProperties
    <2> HIDE DEF b
    <2>5. Len(b) = Len(p) - n /\ Len(p) - (n + 1) + 1 = Len(p) - n
      BY <1>1, <2>3
    <2>6. \A i \in 1..Len(b) : (n + 1) + i - 1 = n + i
      BY <1>1, <2>5
    <2> QED BY <2>2, <2>4, <2>5, <2>6
  <1>4. Joined(T, w, a, b)
    BY <1>2, <1>3 DEF Joined
  <1> HIDE DEF a, b, w
  <1>5. w \in Seq(T) /\ Len(w) = Len(p)
    <2>1. w \in Seq(T) /\ Len(w) = Len(a) + Len(b)
      BY <1>4, JoinedParts
    <2> QED BY <1>1, <1>2, <1>3, <2>1
  <1>6. ASSUME NEW i \in 1..Len(w) PROVE w[i] = p[i]
    <2>1. CASE i <= n
      <3>1. i \in 1..n /\ i \in 1..Len(a)
        BY <1>1, <1>2, <1>5, <2>1
      <3>2. w[i] = a[i]
        BY <1>4, <3>1, JoinedAt
      <3> QED BY <1>2, <3>1, <3>2
    <2>2. CASE ~(i <= n)
      <3> DEFINE j == i - n
      <3>1. j \in 1..Len(b) /\ n + j = i
        BY <1>1, <1>3, <1>5, <2>2
      <3> HIDE DEF j
      <3>2. w[Len(a) + j] = b[j]
        BY <1>4, <3>1, JoinedRest
      <3> QED BY <1>2, <1>3, <3>1, <3>2
    <2> QED BY <2>1, <2>2
  <1>7. w = p
    BY <1>5, <1>6, SeqEqual
  <1> QED BY <1>4, <1>7 DEF a, b

(* The rest of a packet that is cut, and of the whole one.                 *)
LEMMA RestOfCut ==
  ASSUME NEW b, Terminated(b), NEW c \in Seq(Nat), NEW j \in 1..(Len(b) + 1)
  PROVE  LET rest == SubSeq(b, j, Len(b))
         IN /\ Terminated(rest) /\ Len(rest) = Len(b) - j + 1
            /\ SubSeq(b \o c, j, Len(b \o c)) = rest \o c
  <1> DEFINE rest == SubSeq(b, j, Len(b))
             front == SubSeq(b, 1, j - 1)
             w == b \o c
  <1>1. b \in Seq(Nat) /\ Len(b) \in Nat /\ j \in Nat /\ j - 1 \in 0..Len(b)
    BY LenProperties DEF Terminated
  <1>4. Joined(Nat, b, front, rest)
    <2>1. Joined(Nat, b, SubSeq(b, 1, j - 1), SubSeq(b, (j - 1) + 1, Len(b)))
      BY <1>1, CutRest
    <2>2. (j - 1) + 1 = j
      BY <1>1
    <2> QED BY <2>1, <2>2
  <1>3. Len(front) = j - 1
    <2>1. CutOf(Nat, front, b, j - 1)
      BY <1>1 DEF CutOf
    <2> HIDE DEF front
    <2> QED BY <2>1, CutFields
  <1> HIDE DEF rest, front
  <1>2. rest \in Seq(Nat) /\ Len(rest) = Len(b) - j + 1 /\ Len(rest) \in Nat
    <2>1. rest \in Seq(Nat) /\ Len(b) = Len(front) + Len(rest) /\ Len(rest) \in Nat
      BY <1>4, JoinedParts DEF Joined
    <2> QED BY <1>1, <1>3, <2>1
  <1>5. Joined(Nat, w, b, c)
    BY <1>1 DEF Joined
  <1> DEFINE tail == rest \o c
  <1>6. Joined(Nat, tail, rest, c)
    BY <1>2 DEF Joined
  <1> HIDE DEF w, tail
  <1>7. Joined(Nat, w, front, tail)
    BY <1>4, <1>5, <1>6, Regrouped
  <1>8. SubSeq(w, j, Len(w)) = tail
    <2>1. Len(front) + 1 = j
      BY <1>1, <1>3
    <2>2. SubSeq(w, Len(front) + 1, Len(w)) = tail
      BY <1>7, JoinedCut
    <2> QED BY <2>1, <2>2
  <1>9. Terminated(rest)
    <2> SUFFICES ASSUME rest # <<>> PROVE rest[Len(rest)] = 0
      BY <1>2 DEF Terminated
    <2>1. Len(rest) # 0
      BY <1>2, EmptySeq
    <2>2. Len(rest) \in 1..Len(rest) /\ Len(front) + Len(rest) = Len(b) /\ Len(b) # 0
      BY <1>1, <1>2, <1>3, <2>1
    <2>3. b[Len(front) + Len(rest)] = rest[Len(rest)]
      BY <1>4, <2>2, JoinedRest
    <2>4. b # <<>>
      BY <2>2
    <2> QED BY <2>2, <2>3, <2>4 DEF Terminated
  <1> QED BY <1>2, <1>8, <1>9 DEF rest, w, tail

(* A table that is cut is the one that was sent; or it is without rows, as *)
(* that one is, and some of its headers may be missing.                    *)
CutShort(w, r, n) ==
  /\ r.after \in 1..n
  /\ \/ w = r
     \/ /\ r.after = n /\ r.rows = <<>> /\ w.rows = <<>>
        /\ r.headers \in Seq(Seq(Nat)) /\ w.headers \in Seq(Seq(Nat))
        /\ Begins(w.headers, r.headers)

LEMMA TableIsCut ==
  ASSUME NEW b, Terminated(b), NEW c, NEW d, Joined(Nat, d, b, c), NEW i \in 1..(Len(b) + 1), NEW end,
         Table(b, i, end).whole, Table(d, i, end).whole,
         Len(Table(d, i, end).rows) <= 256 * d[i] + d[i + 1]
  PROVE  CutShort(Table(d, i, end), Table(b, i, end), Len(b) + 1)
  <1> DEFINE w == Table(d, i, end)
             r == Table(b, i, end)
             rest == SubSeq(b, i + 2, Len(b))
             count == 256 * b[i] + b[i + 1]
             form == Wanted(count, end)
             start == EmptyTable(i + 2)
             s == Reading!Fold(form, start, Strings(rest))
             t == ReadTable(d, i, end)
  <1>0. r.whole /\ w.whole /\ Len(w.rows) <= 256 * d[i] + d[i + 1]
    OBVIOUS
  <1>1. b \in Seq(Nat) /\ Len(b) \in Nat /\ i \in Nat /\ c \in Seq(Nat) /\ d = b \o c
    BY LenProperties DEF Terminated, Joined
  <1>2. /\ r.headers = s.headers /\ r.rows = s.rows /\ r.after = s.after
        /\ r.whole <=> /\ i + 1 <= Len(b) /\ ~s.bad
                       /\ Len(s.rows) >= count
                       /\ s.rows = <<>> \/ Len(Last(s.rows)) = Len(s.headers)
        /\ r = [headers |-> s.headers, rows |-> s.rows, after |-> s.after, whole |-> r.whole]
    <2>1. s = ReadTable(b, i, end)
      BY DEF ReadTable
    <2> HIDE DEF s
    <2> HIDE DEF count
    <2> QED BY <2>1, TableFolds DEF count
  <1>3. /\ w.headers = t.headers /\ w.rows = t.rows /\ w.after = t.after
        /\ w = [headers |-> t.headers, rows |-> t.rows, after |-> t.after, whole |-> w.whole]
    <2> HIDE DEF t
    <2> QED BY TableFolds DEF t
  <1>4. i + 2 \in 1..(Len(b) + 1) /\ i \in 1..Len(b) /\ i + 1 \in 1..Len(b) /\ i + 2 \in Nat
    <2>1. i + 1 <= Len(b)
      BY <1>0, <1>2
    <2> QED BY <1>1, <2>1
  <1>5. d[i] = b[i] /\ d[i + 1] = b[i + 1] /\ count \in Nat
    <2>2. b[i] \in Nat /\ b[i + 1] \in Nat
      BY <1>1, <1>4, ElementOfSeq
    <2> QED BY <1>4, <2>2, JoinedAt
  <1>6. /\ Terminated(rest) /\ Len(rest) = Len(b) - (i + 2) + 1
        /\ SubSeq(d, i + 2, Len(d)) = rest \o c
    BY <1>1, <1>4, RestOfCut
  <1>7. rest \in Seq(Nat) /\ Strings(rest) \in Seq(Seq(Nat)) /\ Terms(Strings(rest)) = rest
    BY <1>6, StringsBack
  <1> HIDE DEF rest
  <1>8. PICK z \in Seq(Seq(Nat)) : Strings(rest \o c) = Strings(rest) \o z
    BY <1>1, <1>7, StringsOfMore
  <1>9. t = Reading!Fold(form, s, z)
    <2>1. t = Reading!Fold(form, start, Strings(rest) \o z)
      <3>1. Strings(SubSeq(d, i + 2, Len(d))) = Strings(rest) \o z
        BY <1>6, <1>8
      <3> QED BY <1>5, <3>1 DEF ReadTable
    <2> HIDE DEF t, form, start
    <2>2. Reading!Fold(form, start, Strings(rest) \o z) = Reading!Fold(form, Reading!Fold(form, start, Strings(rest)), z)
      BY <1>7, Reading!FoldConcat
    <2> QED BY <2>1, <2>2
  <1>10. form.count = count
    BY DEF Wanted
  <1>11. IsTable(start) /\ Open(start, form) /\ start.after = i + 2
    <2> HIDE DEF form
    <2> QED BY <1>4, EmptyTableIs
  <1> HIDE DEF form, start, w, r
  <1>12. GoesOn(start, s, Len(rest)) /\ Open(s, form)
    BY <1>7, <1>11, TableGrows
  <1> HIDE DEF s, t
  <1>13. IsTable(s)
    BY <1>12 DEF GoesOn
  <1>14. \E n \in Nat : GoesOn(s, t, n)
    <2>1. Terms(z) \in Seq(Nat)
      BY TermsTypes
    <2> QED BY <1>9, <1>12, <1>13, <2>1, TableGrows, LenProperties
  <1>15. /\ s.after \in Nat /\ i + 2 <= s.after /\ s.after <= Len(b) + 1
         /\ Continues(s) => s.after = Len(b) + 1
    <2>1. /\ start.after <= s.after /\ s.after <= start.after + Len(rest)
          /\ Continues(s) => s.after = start.after + Len(rest)
      BY <1>12 DEF GoesOn
    <2>2. s.after \in Nat
      BY <1>13 DEF IsTable
    <2>3. (i + 2) + Len(rest) = Len(b) + 1
      BY <1>1, <1>6
    <2> QED BY <1>11, <2>1, <2>2, <2>3
  <1>16. CASE ~Continues(s)
    <2>1. t = s
      BY <1>14, <1>16 DEF GoesOn
    <2>2. w = [headers |-> s.headers, rows |-> s.rows, after |-> s.after, whole |-> w.whole]
      BY <1>3, <2>1
    <2>3. w.whole = TRUE /\ r.whole = TRUE
      <3>1. w.whole \in BOOLEAN /\ r.whole \in BOOLEAN
        BY DEF Table, w, r
      <3> QED BY <1>0, <3>1
    <2>4. w = r
      BY <1>2, <2>2, <2>3
    <2>5. CutShort(w, r, Len(b) + 1)
      BY <1>1, <1>2, <1>15, <2>4 DEF CutShort
    <2> QED BY <2>5 DEF w, r
  <1>17. CASE Continues(s)
    <2>1. Len(s.rows) <= Len(t.rows) /\ Begins(t.headers, s.headers) /\ IsTable(t)
      BY <1>14 DEF GoesOn
    <2>2. Len(s.rows) \in Nat /\ Len(t.rows) \in Nat
      BY <1>13, <2>1, LenProperties DEF IsTable
    <2>3. Len(s.rows) = count /\ Len(t.rows) = count
      <3>1. Len(t.rows) <= count /\ Len(s.rows) >= count
        BY <1>0, <1>2, <1>3, <1>5
      <3> QED BY <1>5, <2>1, <2>2, <3>1
    <2>4. s.rows = <<>>
      <3> SUFFICES ASSUME s.rows # <<>> PROVE FALSE
        OBVIOUS
      <3>1. Len(Last(s.rows)) = Len(s.headers)
        BY <1>0, <1>2
      <3>2. Len(Last(s.rows)) < Len(s.headers)
        BY <1>10, <1>12, <1>17, <2>3 DEF Open
      <3>3. Len(s.headers) \in Nat
        BY <1>13, LenProperties DEF IsTable
      <3> QED BY <3>1, <3>2, <3>3
    <2>5. t.rows = <<>>
      <3>1. Len(t.rows) = 0
        BY <2>3, <2>4
      <3>2. t.rows \in Seq(Seq(Bytes))
        BY <2>1 DEF IsTable
      <3> QED BY <3>1, <3>2, EmptySeq
    <2>6. s.headers \in Seq(Seq(Nat)) /\ t.headers \in Seq(Seq(Nat))
      BY <1>13, <2>1 DEF IsTable, Bytes
    <2>7. CutShort(w, r, Len(b) + 1)
      BY <1>1, <1>2, <1>3, <1>15, <1>17, <2>1, <2>4, <2>5, <2>6 DEF CutShort
    <2> QED BY <2>7 DEF w, r
  <1> QED BY <1>16, <1>17

LEMMA TermsConcatLength ==
  ASSUME NEW a \in Seq(Seq(Nat)), NEW b \in Seq(Seq(Nat))
  PROVE  Len(Terms(a \o b)) = Len(Terms(a)) + Len(Terms(b))
  <1> DEFINE Good(s) == Len(Terms(a \o s)) = Len(Terms(a)) + Len(Terms(s))
             P == {s \in Seq(Seq(Nat)) : Good(s)}
  <1>1. Len(Terms(a)) \in Nat
    BY TermsTypes, LenProperties
  <1>2. <<>> \in P
    <2>1. a \o <<>> = a /\ <<>> \in Seq(Seq(Nat)) /\ Len(Terms(<<>>)) = 0
      BY ConcatEmptySeq, TermsOfNone
    <2> QED BY <1>1, <2>1
  <1>3. ASSUME NEW s \in Seq(Seq(Nat)), NEW x \in Seq(Nat), s \in P PROVE Append(s, x) \in P
    <2> DEFINE Q == Seq(Nat)
               w == a \o s
               l == Len(Terms(a))
               m == Len(Terms(s))
               n == Len(Terms(w))
               k == Len(x)
    <2>1. Joined(Q, w, a, s)
      BY DEF Joined
    <2>2. x \in Q
      OBVIOUS
    <2>3. n = l + m
      BY <1>3
    <2> HIDE DEF Q
    <2> HIDE DEF w
    <2>4. Append(w, x) = a \o Append(s, x)
      <3>1. Joined(Q, Append(w, x), a, Append(s, x))
        BY <2>1, <2>2, JoinedAppend
      <3> QED BY <3>1 DEF Joined
    <2>5. w \in Seq(Seq(Nat))
      BY <2>1, JoinedParts DEF Q
    <2>6. Len(Terms(Append(s, x))) = m + k + 1 /\ m \in Nat /\ k \in Nat
      BY TermsLength
    <2>7. Len(Terms(Append(w, x))) = n + k + 1 /\ n \in Nat
      BY <2>5, TermsLength
    <2>8. l \in Nat
      BY <1>1
    <2> HIDE DEF l, m, n, k
    <2>9. n + k + 1 = l + (m + k + 1)
      BY <2>3, <2>6, <2>7, <2>8
    <2>10. Append(s, x) \in Seq(Seq(Nat))
      OBVIOUS
    <2> QED BY <2>4, <2>6, <2>7, <2>9, <2>10 DEF l, m
  <1> HIDE DEF P
  <1>4. b \in P
    BY <1>2, <1>3, Term!InductionAppend
  <1> QED BY <1>4 DEF P

HeadersOf(t, hs, a) ==
  IsTable(t) /\ Continues(t) /\ ~t.parsed /\ t.headers = hs /\ t.rows = <<>> /\ t.after = a

LEMMA HeadersAreRead ==
  ASSUME NEW w, NEW j \in Nat, NEW hs \in Seq(Seq(Nat)),
         \A i \in 1..Len(hs) : EndsWith(hs[i], w.headerEnd)
  PROVE  HeadersOf(Reading!Fold(w, EmptyTable(j), hs), hs, j + Len(Terms(hs)))
  <1> DEFINE start == EmptyTable(j)
             Ends(s) == \A i \in 1..Len(s) : EndsWith(s[i], w.headerEnd)
             Good(s) == Ends(s) => HeadersOf(Reading!Fold(w, start, s), s, j + Len(Terms(s)))
             P == {s \in Seq(Seq(Nat)) : Good(s)}
             none == <<>>
  <1>1. none \in P
    <2>1. Reading!Fold(w, start, none) = start /\ none \in Seq(Seq(Nat)) /\ Len(Terms(none)) = 0
      BY Reading!FoldEmpty, TermsOfNone
    <2>2. IsTable(start) /\ start.after = j
      BY EmptyTableIs
    <2>3. start.headers = none /\ start.rows = <<>> /\ start.parsed = FALSE /\ start.over = FALSE /\ start.bad = FALSE
      BY DEF EmptyTable
    <2>4. j + 0 = j
      OBVIOUS
    <2> HIDE DEF start, none
    <2>5. HeadersOf(start, none, j)
      BY <2>2, <2>3 DEF HeadersOf, Continues
    <2> QED BY <2>1, <2>4, <2>5
  <1>2. ASSUME NEW s \in Seq(Seq(Nat)), NEW x \in Seq(Nat), s \in P PROVE Append(s, x) \in P
    <2> DEFINE more == Append(s, x)
               t == Reading!Fold(w, start, s)
               u == TableStep(t, x, w)
               m == Len(Terms(s))
    <2>1. /\ more \in Seq(Seq(Nat)) /\ Len(more) = Len(s) + 1 /\ Len(s) \in Nat
          /\ more[Len(s) + 1] = x /\ \A i \in 1..Len(s) : more[i] = s[i]
      BY AppendProperties, LenProperties
    <2>2. Reading!Fold(w, start, more) = u
      BY Reading!FoldAppend DEF ReadingStep
    <2>3. Len(Terms(more)) = m + Len(x) + 1 /\ m \in Nat /\ Len(x) \in Nat
      BY TermsLength
    <2>4. Good(s)
      BY <1>2
    <2> HIDE DEF more, t, start
    <2>5. ASSUME Ends(more) PROVE HeadersOf(u, more, j + Len(Terms(more)))
      <3>1. Ends(s) /\ EndsWith(x, w.headerEnd)
        <4>1. Len(s) + 1 \in 1..Len(more) /\ \A i \in 1..Len(s) : i \in 1..Len(more)
          BY <2>1
        <4> QED BY <2>1, <2>5, <4>1
      <3>2. HeadersOf(t, s, j + m)
        BY <2>4, <3>1 DEF t
      <3>3. IsTable(t) /\ Continues(t) /\ ~t.parsed /\ x \in Bytes
        BY <3>2 DEF HeadersOf, Bytes
      <3>4. /\ IsTable(u) /\ Continues(u) /\ ~u.parsed
            /\ u.headers = Append(t.headers, x) /\ u.rows = t.rows
            /\ u.after = t.after + Len(x) + 1
        BY <3>1, <3>3, HeaderStep
      <3>5. (j + m) + Len(x) + 1 = j + (m + Len(x) + 1)
        BY <2>3
      <3> HIDE DEF u, m
      <3>6. u.after = j + Len(Terms(more)) /\ u.headers = more /\ u.rows = <<>>
        BY <2>3, <3>2, <3>4, <3>5 DEF HeadersOf, more
      <3> QED BY <3>4, <3>6 DEF HeadersOf
    <2> HIDE DEF u
    <2> QED BY <2>1, <2>2, <2>5 DEF more
  <1> HIDE DEF P
  <1>3. hs \in P
    BY <1>1, <1>2, Reading!InductionAppend
  <1> QED BY <1>3 DEF P

LEMMA BlankIsNoHeader ==
  ASSUME NEW end \in Seq(Nat), end # <<>>
  PROVE  ~EndsWith(<<>>, end)
  <1>1. Len(end) \in Nat /\ Len(end) # 0
    BY EmptySeq, LenProperties
  <1>2. Len(Reverse(end)) = Len(end)
    BY <1>1 DEF Reverse
  <1>3. Len(Reverse(<<>>)) = 0
    BY DEF Reverse
  <1> QED BY <1>1, <1>2, <1>3 DEF EndsWith, IsSuffix, IsPrefix

(* The cells of a row, as far as they are read.                            *)
RowsHeld(t, hs, rows, a) ==
  IsTable(t) /\ t.parsed /\ ~t.bad /\ t.headers = hs /\ t.rows = rows /\ t.after = a

LEMMA TermsLengthBytes ==
  ASSUME NEW ts \in Seq(Bytes), NEW t \in Bytes
  PROVE  /\ Len(Terms(Append(ts, t))) = Len(Terms(ts)) + Len(t) + 1
         /\ Len(Terms(ts)) \in Nat /\ Len(t) \in Nat
  BY TermsLength DEF Bytes

(* The rows that are full, and the cells of the next one.                  *)
Filled(t, w, hs, rows, row, a) ==
  /\ RowsHeld(t, hs, Append(rows, row), a)
  /\ t.over <=> Len(rows) + 1 = w.count /\ Len(row) = Len(hs)

LEMMA CellOpensRow ==
  ASSUME NEW w, NEW hs \in Seq(Bytes), hs # <<>>, NEW rows \in Seq(Seq(Bytes)), NEW a \in Nat,
         NEW t, RowsHeld(t, hs, rows, a), ~t.over, OpensRow(rows, hs), NEW x \in Bytes, x # <<>>
  PROVE  Filled(TableStep(t, x, w), w, hs, rows, <<x>>, a + Len(x) + 1)
  <1> DEFINE u == TableStep(t, x, w)
             next == AddCell(t.rows, t.headers, x)
  <1>1. /\ IsTable(t) /\ Continues(t) /\ t.headers = hs /\ t.rows = rows /\ t.after = a
        /\ t.parsed
    BY DEF RowsHeld, Continues
  <1>2. IsTable(t) /\ Continues(t) /\ (t.parsed \/ ~EndsWith(x, w.headerEnd))
    BY <1>1
  <1>3. t.headers # <<>>
    BY <1>1
  <1>4. /\ IsTable(u) /\ u.parsed = t.parsed /\ ~u.bad
        /\ u.over <=> Len(next) = w.count /\ Full(next, t.headers)
        /\ u.headers = t.headers /\ u.rows = next /\ u.after = t.after + Len(x) + 1
    BY <1>2, <1>3, CellStep
  <1>5. /\ next = Append(rows, <<x>>) /\ Len(next) = Len(rows) + 1 /\ Len(Last(next)) = 1
    BY <1>1, RowOpens
  <1>6. Len(<<x>>) = 1
    OBVIOUS
  <1> HIDE DEF u, next
  <1> QED BY <1>1, <1>4, <1>5, <1>6 DEF RowsHeld, Filled, Full, u

LEMMA CellGrowsRow ==
  ASSUME NEW w, NEW hs \in Seq(Bytes), hs # <<>>, NEW rows \in Seq(Seq(Bytes)), NEW a \in Nat,
         NEW s \in Seq(Bytes), Len(s) # Len(hs),
         NEW t, Filled(t, w, hs, rows, s, a), NEW x \in Bytes, x # <<>>
  PROVE  Filled(TableStep(t, x, w), w, hs, rows, Append(s, x), a + Len(x) + 1)
  <1> DEFINE u == TableStep(t, x, w)
             next == AddCell(t.rows, t.headers, x)
             upto == Append(rows, s)
             more == Append(s, x)
             all == Append(rows, more)
             n == Len(rows)
  <1>1. /\ IsTable(t) /\ Continues(t) /\ t.headers = hs /\ t.rows = upto /\ t.after = a
        /\ t.parsed
    BY DEF RowsHeld, Filled, Continues
  <1>2. IsTable(t) /\ Continues(t) /\ (t.parsed \/ ~EndsWith(x, w.headerEnd))
    BY <1>1
  <1>3. t.headers # <<>>
    BY <1>1
  <1>4. /\ IsTable(u) /\ u.parsed = t.parsed /\ ~u.bad
        /\ u.over <=> Len(next) = w.count /\ Full(next, t.headers)
        /\ u.headers = t.headers /\ u.rows = next /\ u.after = t.after + Len(x) + 1
    BY <1>2, <1>3, CellStep
  <1>5. more \in Seq(Bytes) /\ Len(more) = Len(s) + 1
    BY AppendProperties
  <1>6. /\ upto \in Seq(Seq(Bytes)) /\ Len(upto) = n + 1 /\ n \in Nat /\ upto[n + 1] = s
        /\ \A i \in 1..n : upto[i] = rows[i]
    BY AppendProperties, LenProperties
  <1>7. /\ all \in Seq(Seq(Bytes)) /\ Len(all) = n + 1 /\ all[n + 1] = more
        /\ \A i \in 1..n : all[i] = rows[i]
    <2> HIDE DEF more
    <2> QED BY <1>5, AppendProperties, LenProperties
  <1> HIDE DEF upto, all, u, next
  <1>8. Last(upto) = s /\ upto # <<>>
    <2>1. Len(upto) # 0
      BY <1>6
    <2> QED BY <1>6, <2>1 DEF Last
  <1>9. ~OpensRow(upto, hs)
    BY <1>8 DEF OpensRow
  <1>10. next = AddCell(upto, hs, x)
    BY <1>1 DEF next
  <1>11. /\ next \in Seq(Seq(Bytes)) /\ Len(next) = Len(upto)
         /\ Last(next) = Append(Last(upto), x)
         /\ \A i \in 1..(Len(upto) - 1) : next[i] = upto[i]
    <2>1. upto \in Seq(Seq(Bytes))
      BY <1>6
    <2> QED BY <1>9, <1>10, <2>1, RowGrows
  <1>12. Last(next) = more
    BY <1>8, <1>11
  <1> HIDE DEF more, n
  <1>13. next[n + 1] = more
    BY <1>6, <1>11, <1>12 DEF Last
  <1>14. ASSUME NEW i \in 1..Len(next) PROVE next[i] = all[i]
    <2>1. CASE i = n + 1
      BY <1>7, <1>13, <2>1
    <2>2. CASE i # n + 1
      <3>1. i \in 1..n /\ i \in 1..(Len(upto) - 1)
        BY <1>6, <1>11, <2>2
      <3> QED BY <1>6, <1>7, <1>11, <3>1
    <2> QED BY <2>1, <2>2
  <1>15. next = all
    BY <1>6, <1>7, <1>11, <1>14, SeqEqual
  <1>16. Len(next) = n + 1
    BY <1>6, <1>11
  <1> QED BY <1>1, <1>4, <1>5, <1>12, <1>15, <1>16 DEF RowsHeld, Filled, Full, u, n, all, more

(* The cells of a row, as far as they are read.                            *)
LEMMA CellsOfRow ==
  ASSUME NEW w, NEW hs \in Seq(Bytes), hs # <<>>, NEW rows \in Seq(Seq(Bytes)), NEW a \in Nat,
         NEW t, RowsHeld(t, hs, rows, a), ~t.over, OpensRow(rows, hs),
         NEW row \in Seq(Bytes), row # <<>>, Len(row) <= Len(hs),
         \A i \in 1..Len(row) : row[i] # <<>>
  PROVE  Filled(Reading!Fold(w, t, row), w, hs, rows, row, a + Len(Terms(row)))
  <1> DEFINE Given(s) == s # <<>> /\ Len(s) <= Len(hs) /\ \A i \in 1..Len(s) : s[i] # <<>>
             Good(s) == Given(s) => Filled(Reading!Fold(w, t, s), w, hs, rows, s, a + Len(Terms(s)))
             P == {s \in Seq(Bytes) : Good(s)}
  <1>1. <<>> \in P
    OBVIOUS
  <1>2. Len(rows) \in Nat /\ Len(hs) \in Nat
    BY LenProperties
  <1>3. ASSUME NEW s \in Seq(Bytes), NEW x \in Bytes, s \in P PROVE Append(s, x) \in P
    <2> DEFINE more == Append(s, x)
               r == Reading!Fold(w, t, s)
               u == TableStep(r, x, w)
               m == Len(Terms(s))
    <2>1. /\ more \in Seq(Bytes) /\ Len(more) = Len(s) + 1 /\ Len(s) \in Nat
          /\ more[Len(s) + 1] = x /\ \A i \in 1..Len(s) : more[i] = s[i]
      BY AppendProperties, LenProperties
    <2>2. Reading!Fold(w, t, more) = u
      BY Reading!FoldAppend DEF ReadingStep
    <2>3. Len(Terms(more)) = m + Len(x) + 1 /\ m \in Nat /\ Len(x) \in Nat
      BY TermsLengthBytes
    <2>4. Good(s)
      BY <1>3
    <2>5. ASSUME Given(more) PROVE Filled(u, w, hs, rows, more, a + Len(Terms(more)))
      <3>1. x # <<>> /\ Len(s) + 1 <= Len(hs)
        BY <2>1, <2>5
      <3>2. (a + m) + Len(x) + 1 = a + (m + Len(x) + 1)
        BY <2>3
      <3>3. CASE s = <<>>
        <4>1. r = t /\ m = 0 /\ more = <<x>>
          BY <3>3, Reading!FoldEmpty, TermsOfNone
        <4>2. Filled(TableStep(t, x, w), w, hs, rows, <<x>>, a + Len(x) + 1)
          BY <3>1, CellOpensRow
        <4>3. a + Len(x) + 1 = a + Len(Terms(more))
          BY <2>3, <4>1
        <4> HIDE DEF more, m, r
        <4> QED BY <4>1, <4>2, <4>3
      <3>4. CASE s # <<>>
        <4>1. Given(s)
          BY <2>1, <2>5, <3>4, <1>2
        <4>2. Filled(r, w, hs, rows, s, a + m)
          BY <2>4, <4>1
        <4>3. Len(s) # Len(hs) /\ x # <<>>
          BY <1>2, <2>1, <3>1
        <4> DEFINE b == a + m
        <4>4. b \in Nat /\ Filled(r, w, hs, rows, s, b)
          BY <2>3, <4>2
        <4> HIDE DEF r, m, b
        <4>5. Filled(u, w, hs, rows, Append(s, x), b + Len(x) + 1)
          BY <4>3, <4>4, CellGrowsRow
        <4>6. b + Len(x) + 1 = a + Len(Terms(more))
          BY <2>3, <3>2 DEF b
        <4> HIDE DEF u
        <4> QED BY <4>5, <4>6
      <3> QED BY <3>3, <3>4
    <2> HIDE DEF u
    <2> QED BY <2>1, <2>2, <2>5 DEF more
  <1> HIDE DEF P
  <1>4. row \in P
    BY <1>1, <1>3, Reading!InductionAppend
  <1> QED BY <1>4 DEF P

(* The rows that are read; if they are all that is wanted the table ends.  *)
RowsDone(t, w, hs, rows, a) == RowsHeld(t, hs, rows, a) /\ (t.over <=> Len(rows) = w.count)

FullRow(row, hs) == Len(row) = Len(hs) /\ \A j \in 1..Len(row) : row[j] # <<>>

FullRows(rows, hs) == \A i \in 1..Len(rows) : FullRow(rows[i], hs)

LEMMA RowIsRead ==
  ASSUME NEW w, NEW hs \in Seq(Bytes), hs # <<>>, NEW rows \in Seq(Seq(Bytes)), NEW a \in Nat,
         NEW t, RowsDone(t, w, hs, rows, a), OpensRow(rows, hs), Len(rows) # w.count,
         NEW row \in Seq(Bytes), FullRow(row, hs)
  PROVE  RowsDone(Reading!Fold(w, t, row), w, hs, Append(rows, row), a + Len(Terms(row)))
  <1> DEFINE u == Reading!Fold(w, t, row)
             b == a + Len(Terms(row))
             more == Append(rows, row)
  <1>1. RowsHeld(t, hs, rows, a) /\ ~t.over
    BY DEF RowsDone
  <1>2. Len(row) = Len(hs) /\ (\A i \in 1..Len(row) : row[i] # <<>>) /\ Len(hs) \in Nat
    BY LenProperties DEF FullRow
  <1>3. row # <<>> /\ Len(row) <= Len(hs)
    BY <1>2, EmptySeq
  <1>4. Filled(u, w, hs, rows, row, b)
    BY <1>1, <1>2, <1>3, CellsOfRow
  <1>5. Len(more) = Len(rows) + 1
    BY AppendProperties
  <1> HIDE DEF u, b
  <1>6. RowsHeld(u, hs, more, b) /\ (u.over <=> Len(rows) + 1 = w.count)
    BY <1>2, <1>4 DEF Filled
  <1> HIDE DEF more
  <1>7. RowsDone(u, w, hs, more, b)
    BY <1>5, <1>6 DEF RowsDone
  <1> QED BY <1>7 DEF u, b, more

LEMMA CellsAppend ==
  ASSUME NEW T, NEW rows \in Seq(Seq(T)), NEW row \in Seq(T)
  PROVE  Cells(Append(rows, row)) = Cells(rows) \o row
  <1>1. Celled!Fold(0, <<>>, Append(rows, row)) = RowsStep(0, Celled!Fold(0, <<>>, rows), row)
    BY Celled!FoldAppend
  <1> QED BY <1>1, CellsFold DEF RowsStep

LEMMA CellsTypes ==
  ASSUME NEW T, NEW rows \in Seq(Seq(T))
  PROVE  Cells(rows) \in Seq(T)
  <1> DEFINE P == {s \in Seq(Seq(T)) : Cells(s) \in Seq(T)}
  <1>1. <<>> \in P
    <2>1. Cells(<<>>) = <<>>
      BY CellsFold, Celled!FoldEmpty
    <2>2. <<>> \in Seq(T) /\ <<>> \in Seq(Seq(T))
      BY EmptySeq
    <2>3. Cells(<<>>) \in Seq(T)
      BY <2>1, <2>2
    <2> QED BY <2>2, <2>3
  <1>2. ASSUME NEW s \in Seq(Seq(T)), NEW x \in Seq(T), s \in P PROVE Append(s, x) \in P
    <2>1. Cells(Append(s, x)) = Cells(s) \o x /\ Cells(s) \in Seq(T)
      BY <1>2, CellsAppend
    <2>2. Cells(s) \o x \in Seq(T)
      BY <2>1, ConcatProperties
    <2>3. Append(s, x) \in Seq(Seq(T))
      BY AppendProperties
    <2> QED BY <2>1, <2>2, <2>3
  <1> HIDE DEF P
  <1>3. rows \in P
    BY <1>1, <1>2, Celled!InductionAppend
  <1> QED BY <1>3 DEF P

LEMMA AllFreeConcat ==
  ASSUME NEW a \in Seq(Bytes), NEW b \in Seq(Bytes), AllFree(a), AllFree(b)
  PROVE  AllFree(a \o b)
  <1> DEFINE w == a \o b
  <1>1. Joined(Bytes, w, a, b)
    BY DEF Joined
  <1> HIDE DEF w
  <1>2. Len(w) = Len(a) + Len(b) /\ Len(a) \in Nat /\ Len(b) \in Nat
    BY <1>1, JoinedParts
  <1>3. ASSUME NEW i \in 1..Len(w) PROVE Free(w[i], 0)
    <2>1. CASE i <= Len(a)
      <3>1. i \in 1..Len(a)
        BY <1>2, <2>1
      <3>2. w[i] = a[i]
        BY <1>1, <3>1, JoinedAt
      <3> QED BY <3>1, <3>2 DEF AllFree
    <2>2. CASE ~(i <= Len(a))
      <3> DEFINE j == i - Len(a)
      <3>1. j \in 1..Len(b) /\ Len(a) + j = i
        BY <1>2, <2>2
      <3> HIDE DEF j
      <3>2. w[Len(a) + j] = b[j]
        BY <1>1, <3>1, JoinedRest
      <3> QED BY <3>1, <3>2 DEF AllFree
    <2> QED BY <2>1, <2>2
  <1> QED BY <1>3 DEF AllFree, w

LEMMA CellsFree ==
  ASSUME NEW rows \in Seq(Seq(Bytes)), \A i \in 1..Len(rows) : AllFree(rows[i])
  PROVE  AllFree(Cells(rows))
  <1> DEFINE Q == Seq(Bytes)
             Given(s) == \A i \in 1..Len(s) : AllFree(s[i])
             P == {s \in Seq(Q) : Given(s) => AllFree(Cells(s))}
  <1>1. <<>> \in P
    <2>1. Cells(<<>>) = <<>>
      BY CellsFold, Celled!FoldEmpty
    <2>2. AllFree(<<>>)
      BY DEF AllFree
    <2> QED BY <2>1, <2>2
  <1>2. ASSUME NEW s \in Seq(Q), NEW x \in Q, s \in P PROVE Append(s, x) \in P
    <2> DEFINE more == Append(s, x)
    <2>1. Cells(more) = Cells(s) \o x /\ Cells(s) \in Seq(Bytes)
      BY CellsAppend, CellsTypes
    <2>2. /\ more \in Seq(Q) /\ Len(more) = Len(s) + 1 /\ Len(s) \in Nat
          /\ more[Len(s) + 1] = x /\ \A i \in 1..Len(s) : more[i] = s[i]
      <3> HIDE DEF Q
      <3> QED BY AppendProperties, LenProperties
    <2>3. x \in Seq(Bytes)
      OBVIOUS
    <2>4. Given(s) => AllFree(Cells(s))
      BY <1>2
    <2> HIDE DEF more, P
    <2>5. ASSUME Given(more) PROVE AllFree(Cells(more))
      <3>1. Len(s) + 1 \in 1..Len(more) /\ \A i \in 1..Len(s) : i \in 1..Len(more)
        BY <2>2
      <3>2. AllFree(x) /\ Given(s)
        BY <2>2, <2>5, <3>1
      <3>3. AllFree(Cells(s) \o x)
        BY <2>1, <2>3, <2>4, <3>2, AllFreeConcat
      <3> QED BY <2>1, <3>3
    <2> QED BY <2>2, <2>5 DEF P, more
  <1>3. rows \in Seq(Q)
    OBVIOUS
  <1> HIDE DEF P, Q
  <1>4. rows \in P
    BY <1>1, <1>2, <1>3, Celled!InductionAppend
  <1> QED BY <1>4 DEF P

LEMMA TableRowsAreRead ==
  ASSUME NEW w, w.count \in Nat, NEW hs \in Seq(Bytes), hs # <<>>, NEW a \in Nat,
         NEW t, RowsDone(t, w, hs, <<>>, a),
         NEW rows \in Seq(Seq(Bytes)), FullRows(rows, hs), Len(rows) <= w.count
  PROVE  RowsDone(Reading!Fold(w, t, Cells(rows)), w, hs, rows, a + Len(Terms(Cells(rows))))
  <1> DEFINE Q == Seq(Bytes)
             Given(s) == FullRows(s, hs) /\ Len(s) <= w.count
             Done(s) == RowsDone(Reading!Fold(w, t, Cells(s)), w, hs, s, a + Len(Terms(Cells(s))))
             P == {s \in Seq(Q) : Given(s) => Done(s)}
             none == <<>>
  <1>1. none \in P
    <2>1. Cells(none) = none /\ none \in Seq(Q)
      BY CellsFold, Celled!FoldEmpty
    <2>2. Reading!Fold(w, t, none) = t
      BY Reading!FoldEmpty
    <2>3. a + Len(Terms(none)) = a
      BY TermsOfNone
    <2>4. RowsDone(t, w, hs, none, a)
      OBVIOUS
    <2> HIDE DEF none
    <2> QED BY <2>1, <2>2, <2>3, <2>4
  <1>2. ASSUME NEW s \in Seq(Q), NEW x \in Q, s \in P PROVE Append(s, x) \in P
    <2> DEFINE more == Append(s, x)
               c == Cells(s)
               r == Reading!Fold(w, t, c)
               m == Len(Terms(c))
               n == Len(Terms(x))
    <2>1. Cells(more) = c \o x /\ c \in Seq(Bytes) /\ x \in Seq(Bytes) /\ s \in Seq(Seq(Bytes))
      BY CellsAppend, CellsTypes
    <2>2. /\ more \in Seq(Q) /\ Len(more) = Len(s) + 1 /\ Len(s) \in Nat
          /\ more[Len(s) + 1] = x /\ \A i \in 1..Len(s) : more[i] = s[i]
      <3> HIDE DEF Q
      <3> QED BY AppendProperties, LenProperties
    <2>3. Reading!Fold(w, t, c \o x) = Reading!Fold(w, r, x)
      <3> HIDE DEF c
      <3> QED BY <2>1, Reading!FoldConcat
    <2>4. Given(s) => Done(s)
      BY <1>2
    <2>5. Len(Terms(c \o x)) = m + n /\ m \in Nat /\ n \in Nat
      <3>1. c \in Seq(Seq(Nat)) /\ x \in Seq(Seq(Nat))
        BY <2>1 DEF Bytes
      <3> HIDE DEF c
      <3>2. Len(Terms(c \o x)) = m + n
        BY <3>1, TermsConcatLength
      <3> QED BY <3>1, <3>2, TermsTypes, LenProperties
    <2> HIDE DEF P, more, c
    <2>6. ASSUME Given(more) PROVE Done(more)
      <3>1. Len(s) + 1 \in 1..Len(more) /\ \A i \in 1..Len(s) : i \in 1..Len(more)
        BY <2>2
      <3>2. FullRow(x, hs) /\ Given(s) /\ Len(s) # w.count
        <4>1. FullRow(x, hs)
          BY <2>2, <2>6, <3>1 DEF FullRows
        <4>2. FullRows(s, hs)
          BY <2>2, <2>6, <3>1 DEF FullRows
        <4>3. Len(s) <= w.count /\ Len(s) # w.count
          BY <2>2, <2>6
        <4> QED BY <4>1, <4>2, <4>3
      <3> DEFINE b == a + m
      <3>3. RowsDone(r, w, hs, s, b)
        BY <2>4, <3>2 DEF c
      <3>4. OpensRow(s, hs)
        <4> SUFFICES ASSUME s # <<>> PROVE Len(Last(s)) = Len(hs)
          BY DEF OpensRow
        <4>1. Len(s) \in 1..Len(s)
          BY <2>1, <2>2, EmptySeq
        <4> QED BY <3>2, <4>1 DEF FullRows, FullRow, Last
      <3>5. b \in Nat
        BY <2>5
      <3> HIDE DEF b, r, m, n
      <3>6. RowsDone(Reading!Fold(w, r, x), w, hs, Append(s, x), b + Len(Terms(x)))
        BY <2>1, <3>2, <3>3, <3>4, <3>5, RowIsRead
      <3>7. b + Len(Terms(x)) = a + Len(Terms(Cells(more)))
        BY <2>1, <2>5 DEF b, n
      <3>8. Reading!Fold(w, r, x) = Reading!Fold(w, t, Cells(more))
        BY <2>1, <2>3
      <3> QED BY <3>6, <3>7, <3>8 DEF more
    <2> QED BY <2>2, <2>6 DEF P, more
  <1>3. rows \in Seq(Q)
    OBVIOUS
  <1> HIDE DEF P, Q
  <1>4. rows \in P
    BY <1>1, <1>2, <1>3, Reading!InductionAppend
  <1> QED BY <1>4 DEF P

(* The strings of a table.                                                 *)
SheetTexts(t) == t.headers \o <<<<>>>> \o Cells(t.rows)

Counted(t) == <<Len(t.rows) \div 256, Len(t.rows) % 256>>

LEMMA SheetTextsAre ==
  ASSUME NEW t, NEW end, IsSheet(t, end)
  PROVE  /\ t.headers \in Seq(Bytes) /\ t.headers # <<>> /\ t.rows \in Seq(Seq(Bytes))
         /\ \A i \in 1..Len(t.headers) : EndsWith(t.headers[i], end)
         /\ FullRows(t.rows, t.headers)
         /\ SheetTexts(t) = Append(t.headers, <<>>) \o Cells(t.rows)
         /\ SheetTexts(t) \in Seq(Bytes) /\ AllFree(SheetTexts(t))
  <1> DEFINE hs == t.headers
             rows == t.rows
             none == <<>>
             a == Append(hs, none)
             c == Cells(rows)
  <1>1. hs \in Seq(Bytes) /\ hs # <<>> /\ rows \in Seq(Seq(Bytes))
    BY DEF IsSheet, Bytes
  <1>2. none \in Bytes /\ Free(none, 0)
    BY DEF Bytes, Free
  <1>3. /\ \A i \in 1..Len(hs) : EndsWith(hs[i], end)
        /\ \A i \in 1..Len(hs) : Free(hs[i], 0)
    BY DEF IsSheet, IsHeader
  <1>4. FullRows(rows, hs)
    BY DEF IsSheet, IsRow, FullRows, FullRow
  <1>5. \A i \in 1..Len(rows) : AllFree(rows[i])
    BY DEF IsSheet, IsRow, AllFree
  <1> HIDE DEF none, hs, rows
  <1>6. hs \o <<none>> = a /\ a \in Seq(Bytes)
    BY <1>1, <1>2, AppendIsConcat, AppendProperties
  <1>7. AllFree(a)
    <2>1. /\ Len(a) = Len(hs) + 1 /\ Len(hs) \in Nat
          /\ a[Len(hs) + 1] = none /\ \A i \in 1..Len(hs) : a[i] = hs[i]
      BY <1>1, <1>2, AppendProperties, LenProperties
    <2> HIDE DEF a
    <2>2. ASSUME NEW i \in 1..Len(a) PROVE Free(a[i], 0)
      <3>1. i = Len(hs) + 1 \/ i \in 1..Len(hs)
        BY <2>1
      <3> QED BY <1>2, <1>3, <2>1, <3>1
    <2> QED BY <2>2 DEF AllFree
  <1>8. c \in Seq(Bytes) /\ AllFree(c)
    BY <1>1, <1>5, CellsTypes, CellsFree
  <1> HIDE DEF a, c
  <1>9. AllFree(a \o c) /\ a \o c \in Seq(Bytes)
    BY <1>6, <1>7, <1>8, AllFreeConcat, ConcatProperties
  <1>10. SheetTexts(t) = a \o c
    BY <1>6 DEF SheetTexts, c, hs, rows, none
  <1> QED BY <1>1, <1>3, <1>4, <1>9, <1>10 DEF a, c, hs, rows, none

(* The strings of a table, read from an empty one.                         *)
LEMMA SheetIsRead ==
  ASSUME NEW t, NEW end \in Seq(Nat), end # <<>>, IsSheet(t, end), NEW j \in Nat, NEW w,
         w.headerEnd = end, w.count = Len(t.rows)
  PROVE  LET u == Reading!Fold(w, EmptyTable(j), SheetTexts(t))
         IN RowsHeld(u, t.headers, t.rows, j + Len(Terms(SheetTexts(t)))) /\ u.over
  <1> DEFINE hs == t.headers
             rows == t.rows
             none == <<>>
             start == EmptyTable(j)
             a == Append(hs, none)
             c == Cells(rows)
             h == Reading!Fold(w, start, hs)
             v == TableStep(h, none, w)
             m == j + Len(Terms(hs))
  <1>1. /\ hs \in Seq(Bytes) /\ hs # <<>> /\ rows \in Seq(Seq(Bytes))
        /\ \A i \in 1..Len(hs) : EndsWith(hs[i], end)
        /\ FullRows(rows, hs)
        /\ SheetTexts(t) = a \o c
    BY SheetTextsAre
  <1>2. none \in Bytes /\ ~EndsWith(none, w.headerEnd) /\ Len(none) = 0
    BY BlankIsNoHeader DEF Bytes
  <1>3. none = <<>>
    OBVIOUS
  <1> HIDE DEF hs, rows, none
  <1>4. HeadersOf(h, hs, m)
    <2>1. hs \in Seq(Seq(Nat))
      BY <1>1 DEF Bytes
    <2> QED BY <1>1, <2>1, HeadersAreRead
  <1>5. m \in Nat /\ Len(Terms(a)) = Len(Terms(hs)) + Len(none) + 1 /\ Len(Terms(hs)) \in Nat
    BY <1>1, <1>2, TermsLengthBytes
  <1>6. a \in Seq(Bytes) /\ c \in Seq(Bytes)
    BY <1>1, <1>2, AppendProperties, CellsTypes
  <1>7. Reading!Fold(w, start, a) = v
    BY <1>1, <1>2, Reading!FoldAppend DEF ReadingStep
  <1> HIDE DEF h, start, m
  <1>8. RowsDone(v, w, hs, <<>>, m + 1)
    <2>1. IsTable(h) /\ Continues(h) /\ h.headers = hs /\ h.rows = <<>> /\ h.after = m
      BY <1>4 DEF HeadersOf
    <2>2. h.headers # <<>> /\ (h.parsed \/ ~EndsWith(none, w.headerEnd)) /\ IsTable(h) /\ Continues(h)
      BY <1>1, <1>2, <2>1
    <2>3. /\ IsTable(v) /\ v.parsed /\ ~v.bad /\ (v.over <=> w.count = 0)
          /\ v.headers = h.headers /\ v.rows = h.rows /\ v.after = h.after + Len(none) + 1
      BY <1>2, <1>3, <2>2, BlankStep
    <2> HIDE DEF v
    <2>4. v.after = m + 1
      BY <1>2, <1>5, <2>1, <2>3
    <2>5. RowsHeld(v, hs, <<>>, m + 1)
      BY <2>1, <2>3, <2>4 DEF RowsHeld
    <2>6. v.over <=> Len(<<>>) = w.count
      BY <2>3
    <2> QED BY <2>5, <2>6 DEF RowsDone
  <1> DEFINE u == Reading!Fold(w, v, c)
             n == m + 1
  <1>9. Reading!Fold(w, start, a \o c) = u
    <2> HIDE DEF a, c, v
    <2>1. Reading!Fold(w, start, a \o c) = Reading!Fold(w, Reading!Fold(w, start, a), c)
      BY <1>6, Reading!FoldConcat
    <2> QED BY <1>7, <2>1
  <1>10. n \in Nat /\ RowsDone(v, w, hs, <<>>, n)
    BY <1>5, <1>8
  <1>11. w.count \in Nat /\ Len(rows) <= w.count /\ w.count = Len(rows)
    BY <1>1, LenProperties DEF rows
  <1> HIDE DEF v, n
  <1>12. RowsDone(u, w, hs, rows, n + Len(Terms(c)))
    BY <1>1, <1>10, <1>11, TableRowsAreRead
  <1>13. n + Len(Terms(c)) = j + Len(Terms(a \o c))
    <2>1. a \in Seq(Seq(Nat)) /\ c \in Seq(Seq(Nat))
      BY <1>6 DEF Bytes
    <2> HIDE DEF a, c
    <2>2. Len(Terms(a \o c)) = Len(Terms(a)) + Len(Terms(c)) /\ Len(Terms(c)) \in Nat
      BY <2>1, TermsConcatLength, TermsTypes, LenProperties
    <2> QED BY <1>2, <1>5, <2>2 DEF n, m
  <1> HIDE DEF u, a, c
  <1>14. RowsHeld(u, hs, rows, j + Len(Terms(a \o c))) /\ u.over
    BY <1>11, <1>12, <1>13 DEF RowsDone
  <1> QED BY <1>1, <1>9, <1>14 DEF hs, rows, start

LEMMA SheetIs ==
  ASSUME NEW t, NEW end, IsSheet(t, end)
  PROVE  LET c == Counted(t)
             b == Terms(SheetTexts(t))
         IN /\ Joined(Nat, Sheet(t), c, b)
            /\ Len(c) = 2 /\ 256 * c[1] + c[2] = Len(t.rows) /\ Len(t.rows) \in Nat
  <1> DEFINE n == Len(t.rows)
             c == Counted(t)
             b == Terms(SheetTexts(t))
  <1>1. t.rows \in Seq(Seq(Bytes)) /\ SheetTexts(t) \in Seq(Bytes)
    BY SheetTextsAre
  <1>2. n \in Nat
    BY <1>1, LenProperties
  <1>3. b \in Seq(Nat)
    BY <1>1, TermsTypes DEF Bytes
  <1> HIDE DEF n, b
  <1>4. n \div 256 \in Nat /\ n % 256 \in Nat /\ 256 * (n \div 256) + (n % 256) = n
    BY <1>2
  <1>5. c = <<n \div 256, n % 256>>
    BY DEF Counted, n
  <1>6. c \in Seq(Nat) /\ Len(c) = 2 /\ c[1] = n \div 256 /\ c[2] = n % 256
    BY <1>4, <1>5
  <1>7. Sheet(t) = c \o b
    BY DEF Sheet, SheetTexts, Counted, b
  <1> HIDE DEF c
  <1>8. Joined(Nat, Sheet(t), c, b)
    BY <1>3, <1>6, <1>7 DEF Joined
  <1>9. 256 * c[1] + c[2] = n
    BY <1>4, <1>6
  <1> QED BY <1>2, <1>6, <1>8, <1>9 DEF c, b, n

(* A table is read from where it is, whatever follows it.                  *)
LEMMA TableIsRead ==
  ASSUME NEW t, NEW end \in Seq(Nat), end # <<>>, IsSheet(t, end),
         NEW a, NEW rest, NEW more, NEW d, Joined(Nat, more, Sheet(t), rest), Joined(Nat, d, a, more)
  PROVE  LET r == Table(d, Len(a) + 1, end)
         IN /\ r.headers = t.headers /\ r.rows = t.rows /\ r.whole
            /\ r.after = Len(a) + Len(Sheet(t)) + 1
            /\ 256 * d[Len(a) + 1] + d[(Len(a) + 1) + 1] = Len(t.rows)
  <1> DEFINE c == Counted(t)
             ts == SheetTexts(t)
             b == Terms(ts)
             tail == b \o rest
             front == a \o c
             i == Len(a) + 1
             n == Len(t.rows)
             w == Wanted(n, end)
             start == EmptyTable(i + 2)
             s == ReadTable(d, i, end)
             u == Reading!Fold(w, start, ts)
  <1>1. /\ Joined(Nat, Sheet(t), c, b)
        /\ Len(c) = 2 /\ 256 * c[1] + c[2] = n /\ n \in Nat
    BY SheetIs
  <1>2. /\ ts \in Seq(Bytes) /\ AllFree(ts) /\ t.rows \in Seq(Seq(Bytes)) /\ FullRows(t.rows, t.headers)
        /\ t.headers \in Seq(Bytes)
    BY SheetTextsAre
  <1>3. /\ c \in Seq(Nat) /\ b \in Seq(Nat) /\ a \in Seq(Nat) /\ rest \in Seq(Nat)
        /\ Len(a) \in Nat /\ Len(b) \in Nat /\ Len(rest) \in Nat
    BY <1>1, LenProperties DEF Joined
  <1>4. Joined(Nat, tail, b, rest) /\ Joined(Nat, front, a, c)
    BY <1>3 DEF Joined
  <1> HIDE DEF tail, front, b, c, ts, n
  <1>5. Joined(Nat, more, c, tail)
    BY <1>1, <1>4, Regrouped
  <1>6. Joined(Nat, d, front, tail)
    BY <1>4, <1>5, RegroupedBack
  <1>7. /\ Len(front) = Len(a) + 2 /\ Len(d) = Len(front) + Len(tail) /\ Len(tail) \in Nat
        /\ Len(Sheet(t)) = 2 + Len(b)
    <2>1. Len(front) = Len(a) + Len(c)
      BY <1>4, JoinedParts
    <2>2. Len(d) = Len(front) + Len(tail) /\ Len(tail) \in Nat
      BY <1>6, JoinedParts
    <2>3. Len(Sheet(t)) = Len(c) + Len(b)
      <3>1. Joined(Nat, Sheet(t), c, b)
        BY <1>1
      <3> QED BY <3>1, JoinedParts
    <2> QED BY <1>1, <2>1, <2>2, <2>3
  <1>8. d[Len(a) + 1] = c[1] /\ d[Len(a) + 2] = c[2]
    <2>1. 1 \in 1..Len(c) /\ 2 \in 1..Len(c)
      BY <1>1
    <2>2. front[Len(a) + 1] = c[1] /\ front[Len(a) + 2] = c[2]
      BY <1>4, <2>1, JoinedRest
    <2>3. Len(a) + 1 \in 1..Len(front) /\ Len(a) + 2 \in 1..Len(front)
      BY <1>3, <1>7
    <2>4. d[Len(a) + 1] = front[Len(a) + 1] /\ d[Len(a) + 2] = front[Len(a) + 2]
      BY <1>6, <2>3, JoinedAt
    <2> QED BY <2>2, <2>4
  <1>9. i \in Nat /\ i + 2 \in Nat /\ i + 1 = Len(a) + 2 /\ i + 2 = Len(front) + 1 /\ i + 1 <= Len(d)
    BY <1>3, <1>7
  <1>10. 256 * d[i] + d[i + 1] = n
    BY <1>1, <1>8, <1>9
  <1>11. SubSeq(d, i + 2, Len(d)) = tail
    BY <1>6, <1>9, JoinedCut
  <1>12. PICK z \in Seq(Seq(Nat)) : Strings(tail) = ts \o z
    <2>1. ts \in Seq(Seq(Nat))
      BY <1>2 DEF Bytes
    <2> QED BY <1>2, <1>3, <2>1, StringsOfTerms DEF tail, b
  <1>13. s = Reading!Fold(w, start, ts \o z)
    BY <1>10, <1>11, <1>12 DEF ReadTable
  <1>14. w.count = n /\ w.headerEnd = end
    BY DEF Wanted
  <1> HIDE DEF w, i
  <1>15. RowsHeld(u, t.headers, t.rows, (i + 2) + Len(b)) /\ u.over
    BY <1>9, <1>14, SheetIsRead DEF n, b, ts
  <1>16. s = Reading!Fold(w, u, z)
    <2>1. ts \in Seq(Seq(Nat))
      BY <1>2 DEF Bytes
    <2> HIDE DEF start, s
    <2>2. Reading!Fold(w, start, ts \o z) = Reading!Fold(w, Reading!Fold(w, start, ts), z)
      BY <2>1, Reading!FoldConcat
    <2> QED BY <1>13, <2>2
  <1> HIDE DEF u, start, s
  <1>17. s = u
    <2>1. IsTable(u) /\ ~Continues(u) /\ Open(u, w)
      BY <1>15 DEF RowsHeld, Continues, Open
    <2>2. GoesOn(u, s, Len(Terms(z)))
      BY <1>16, <2>1, TableGrows
    <2> QED BY <2>1, <2>2 DEF GoesOn
  <1>18. /\ s.headers = t.headers /\ s.rows = t.rows /\ ~s.bad /\ s.after = (i + 2) + Len(b)
    BY <1>15, <1>17 DEF RowsHeld
  <1> DEFINE r == Table(d, i, end)
  <1>19. /\ r.headers = s.headers /\ r.rows = s.rows /\ r.after = s.after
         /\ r.whole <=> /\ i + 1 <= Len(d) /\ ~s.bad
                        /\ Len(s.rows) >= 256 * d[i] + d[i + 1]
                        /\ s.rows = <<>> \/ Len(Last(s.rows)) = Len(s.headers)
    BY TableFolds DEF s
  <1>20. t.rows = <<>> \/ Len(Last(t.rows)) = Len(t.headers)
    <2> SUFFICES ASSUME t.rows # <<>> PROVE Len(Last(t.rows)) = Len(t.headers)
      OBVIOUS
    <2>1. n \in 1..n
      BY <1>1, <1>2, EmptySeq DEF n
    <2> QED BY <1>2, <2>1 DEF FullRows, FullRow, Last, n
  <1>21. Len(s.rows) >= 256 * d[i] + d[i + 1]
    <2>1. Len(s.rows) = n
      BY <1>18 DEF n
    <2> QED BY <1>1, <1>10, <2>1
  <1> HIDE DEF r
  <1>22. r.whole
    BY <1>9, <1>18, <1>19, <1>20, <1>21
  <1>23. r.after = Len(a) + Len(Sheet(t)) + 1
    BY <1>3, <1>7, <1>18, <1>19 DEF i
  <1> QED BY <1>10, <1>18, <1>19, <1>22, <1>23 DEF r, i, n

-----------------------------------------------------------------------------
(* The map and the tables together.                                        *)
LEMMA TermsEnd ==
  ASSUME NEW ts \in Seq(Seq(Nat))
  PROVE  Terminated(Terms(ts))
  <1> DEFINE P == {s \in Seq(Seq(Nat)) : Terminated(Terms(s))}
  <1>1. <<>> \in P
    <2>1. Terms(<<>>) = <<>> /\ <<>> \in Seq(Seq(Nat))
      BY TermsOfNone
    <2>2. Terminated(<<>>)
      BY DEF Terminated
    <2> QED BY <2>1, <2>2
  <1>2. ASSUME NEW s \in Seq(Seq(Nat)), NEW x \in Seq(Nat), s \in P PROVE Append(s, x) \in P
    <2> DEFINE a == Terms(s)
               z == Zero(x)
               w == Terms(Append(s, x))
    <2>1. /\ a \in Seq(Nat) /\ z \in Seq(Nat) /\ w = a \o z /\ Len(z) = Len(x) + 1 /\ Len(x) \in Nat
          /\ z[Len(x) + 1] = 0
      <3>1. z[Len(x) + 1] = 0
        BY AppendProperties DEF Zero
      <3> QED BY <3>1, TermsTypes, ZeroIs, TermsAppend, LenProperties
    <2> HIDE DEF a, z, w
    <2>2. Joined(Nat, w, a, z)
      BY <2>1 DEF Joined
    <2>3. w \in Seq(Nat) /\ Len(w) = Len(a) + Len(z)
      BY <2>2, JoinedParts
    <2>4. Len(z) \in 1..Len(z)
      BY <2>1
    <2>5. w[Len(a) + Len(z)] = z[Len(z)]
      BY <2>2, <2>4, JoinedRest
    <2>6. Terminated(w)
      BY <2>1, <2>3, <2>5 DEF Terminated
    <2>7. Append(s, x) \in Seq(Seq(Nat))
      OBVIOUS
    <2> QED BY <2>6, <2>7 DEF w
  <1> HIDE DEF P
  <1>3. ts \in P
    BY <1>1, <1>2, Term!InductionAppend
  <1> QED BY <1>3 DEF P

LEMMA TerminatedBehind ==
  ASSUME NEW w, NEW a, NEW b, Joined(Nat, w, a, b), Terminated(b), b # <<>>
  PROVE  Terminated(w) /\ w # <<>> /\ w[Len(w)] = 0
  <1>1. w \in Seq(Nat) /\ Len(w) = Len(a) + Len(b) /\ Len(a) \in Nat /\ Len(b) \in Nat
    BY JoinedParts
  <1>2. Len(b) # 0 /\ b[Len(b)] = 0
    BY EmptySeq DEF Terminated
  <1>3. Len(b) \in 1..Len(b) /\ Len(w) # 0
    BY <1>1, <1>2
  <1>4. w[Len(a) + Len(b)] = b[Len(b)]
    BY <1>3, JoinedRest
  <1>5. w # <<>>
    BY <1>3
  <1> QED BY <1>1, <1>2, <1>4, <1>5 DEF Terminated

(* The parts of a heartbeat.                                               *)
LEMMA BeatIs ==
  ASSUME NEW h, IsBeat(h)
  PROVE  LET m == MapPart(h.pairs)
             p == Sheet(h.players)
             t == Sheet(h.teams)
             d == (m \o p) \o t
         IN /\ Beat(h) \in Seq(Nat) /\ QRPacket(Beat(h)) /\ Data(Beat(h)) = d /\ d # <<>>
            /\ Joined(Nat, m \o p, m, p) /\ Joined(Nat, p \o t, p, t)
            /\ Joined(Nat, d, m \o p, t) /\ Joined(Nat, d, m, p \o t)
  <1> DEFINE m == MapPart(h.pairs)
             p == Sheet(h.players)
             t == Sheet(h.teams)
             mp == m \o p
             pt == p \o t
             d == mp \o t
             front == <<HEARTBEAT, 1, 2, 3, 4>>
             all == front \o d
  <1>1. m \in Seq(Nat)
    <2>1. h.pairs \in Seq(Pair) /\ NamedPairs(h.pairs) /\ <<>> \in Seq(Nat)
      BY DEF IsBeat, NamedPairs
    <2> QED BY <2>1, MapIsRead
  <1>2. p \in Seq(Nat)
    BY SheetIs, JoinedParts DEF IsBeat
  <1>3. Terminated(t) /\ t # <<>> /\ t \in Seq(Nat)
    <2> DEFINE c == Counted(h.teams)
               b == Terms(SheetTexts(h.teams))
    <2>1. IsSheet(h.teams, <<Underscore, Team>>)
      BY DEF IsBeat
    <2>2. Joined(Nat, t, c, b) /\ Len(c) = 2
      BY <2>1, SheetIs
    <2>3. SheetTexts(h.teams) \in Seq(Seq(Nat))
      BY <2>1, SheetTextsAre DEF Bytes
    <2>4. Terminated(b)
      BY <2>3, TermsEnd
    <2>5. b # <<>>
      <3> DEFINE hs == Append(h.teams.headers, <<>>)
                 cells == Cells(h.teams.rows)
      <3>1. /\ SheetTexts(h.teams) = hs \o cells /\ h.teams.headers \in Seq(Bytes)
            /\ h.teams.rows \in Seq(Seq(Bytes))
        BY <2>1, SheetTextsAre
      <3>2. h.teams.headers \in Seq(Seq(Nat)) /\ cells \in Seq(Seq(Nat)) /\ <<>> \in Seq(Nat)
        BY <3>1, CellsTypes DEF Bytes
      <3>3. hs \in Seq(Seq(Nat)) /\ Len(Terms(hs)) = Len(Terms(h.teams.headers)) + Len(<<>>) + 1
            /\ Len(Terms(h.teams.headers)) \in Nat
        BY <3>2, TermsLength, AppendProperties
      <3> HIDE DEF hs, cells
      <3>4. Len(Terms(hs \o cells)) = Len(Terms(hs)) + Len(Terms(cells)) /\ Len(Terms(cells)) \in Nat
        BY <3>2, <3>3, TermsConcatLength, TermsTypes, LenProperties
      <3>5. Len(Terms(hs)) > 0 /\ Len(Terms(hs)) \in Nat
        BY <3>3
      <3>6. Len(b) # 0
        BY <3>1, <3>4, <3>5
      <3> QED BY <3>6
    <2> HIDE DEF t, c, b
    <2> QED BY <2>2, <2>4, <2>5, TerminatedBehind, JoinedParts
  <1>4. front \in Seq(Nat) /\ Len(front) = 5 /\ front[1] = HEARTBEAT
    BY DEF HEARTBEAT
  <1> HIDE DEF m, p, t, front
  <1>5. Joined(Nat, mp, m, p) /\ Joined(Nat, pt, p, t)
    BY <1>1, <1>2, <1>3 DEF Joined
  <1>6. Joined(Nat, d, mp, t)
    <2>1. mp \in Seq(Nat)
      BY <1>5, JoinedParts
    <2> QED BY <1>3, <2>1 DEF Joined
  <1>7. d \in Seq(Nat)
    BY <1>6, JoinedParts
  <1> HIDE DEF mp, pt, d
  <1>8. Joined(Nat, d, m, pt)
    BY <1>5, <1>6, Regrouped
  <1>9. Joined(Nat, all, front, d)
    BY <1>4, <1>7 DEF Joined
  <1>10. Beat(h) = all
    <2> DEFINE fm == front \o m
               fmp == fm \o p
    <2>1. Joined(Nat, fm, front, m)
      BY <1>1, <1>4 DEF Joined
    <2>2. fm \in Seq(Nat)
      BY <2>1, JoinedParts
    <2> HIDE DEF fm
    <2>3. Joined(Nat, fmp, fm, p)
      BY <1>2, <2>2 DEF Joined
    <2>4. fmp \in Seq(Nat)
      BY <2>3, JoinedParts
    <2> HIDE DEF fmp
    <2>5. Joined(Nat, fmp, front, mp)
      BY <1>5, <2>1, <2>3, Regrouped
    <2>6. Joined(Nat, fmp \o t, fmp, t)
      BY <1>3, <2>4 DEF Joined
    <2>7. Joined(Nat, fmp \o t, front, d)
      BY <1>6, <2>5, <2>6, Regrouped
    <2>8. fmp \o t = all
      BY <2>7 DEF Joined
    <2>9. Beat(h) = fmp \o t
      BY DEF Beat, MapPart, m, p, t, front, fm, fmp
    <2> QED BY <2>8, <2>9
  <1> HIDE DEF all
  <1>11. d # <<>> /\ Terminated(d)
    BY <1>3, <1>6, TerminatedBehind
  <1>12. all \in Seq(Nat) /\ Len(all) = 5 + Len(d) /\ Len(d) \in Nat /\ all[1] = HEARTBEAT /\ all[Len(all)] = 0
    <2>1. all \in Seq(Nat) /\ Len(all) = Len(front) + Len(d) /\ Len(d) \in Nat
      BY <1>9, JoinedParts
    <2>2. all[Len(all)] = 0
      BY <1>9, <1>11, TerminatedBehind
    <2>3. 1 \in 1..Len(front)
      BY <1>4
    <2>4. all[1] = front[1]
      BY <1>9, <2>3, JoinedAt
    <2> QED BY <1>4, <2>1, <2>2, <2>4
  <1>13. QRPacket(all)
    BY <1>12, TypesAssumption DEF QRPacket
  <1>14. Data(all) = d
    <2>1. SubSeq(all, Len(front) + 1, Len(all)) = d
      BY <1>9, JoinedCut
    <2>2. Len(front) + 1 = 6
      BY <1>4
    <2> QED BY <2>1, <2>2 DEF Data
  <1> QED BY <1>5, <1>6, <1>8, <1>10, <1>11, <1>12, <1>13, <1>14 DEF m, p, t, mp, pt, d

Contents(t) == [headers |-> t.headers, rows |-> t.rows]

(* What is read of a packet, by what is read of its tables.                *)
LEMMA HeartbeatIs ==
  ASSUME NEW p, NEW d, d = Data(p), NEW map, map = Map(d),
         NEW players, players = Table(d, map.after, <<Underscore>>),
         NEW teams, teams = Table(d, players.after, <<Underscore, Team>>)
  PROVE  /\ Heartbeat(p) # None => QRPacket(p) /\ d # <<>>
         /\ QRPacket(p) /\ d # <<>> /\ ~players.whole =>
              Heartbeat(p) = [data |-> map.data, players |-> NoTable, teams |-> NoTable]
         /\ QRPacket(p) /\ d # <<>> /\ players.whole /\ ~teams.whole => Heartbeat(p) = None
         /\ QRPacket(p) /\ d # <<>> /\ players.whole /\ teams.whole =>
              Heartbeat(p) = [data |-> map.data, players |-> Contents(players), teams |-> Contents(teams)]
  BY DEF Heartbeat, Contents

LEMMA EndsAre ==
  /\ <<Underscore>> \in Seq(Nat) /\ <<Underscore>> # <<>>
  /\ <<Underscore, Team>> \in Seq(Nat) /\ <<Underscore, Team>> # <<>>
  BY DEF Underscore, Team

LEMMA SheetContents ==
  ASSUME NEW t, NEW end, IsSheet(t, end), NEW r, r.headers = t.headers, r.rows = t.rows
  PROVE  Contents(r) = t
  BY DEF IsSheet, Contents

(* What is read of the whole heartbeat, and where.                         *)
BeatRead(h, d) ==
  LET map == Map(d)
      players == Table(d, map.after, <<Underscore>>)
      teams == Table(d, players.after, <<Underscore, Team>>)
  IN /\ d \in Seq(Nat) /\ map.data = [k \in KeysOf(h.pairs) |-> FirstValue(h.pairs, k)]
     /\ players.whole /\ players.headers = h.players.headers /\ players.rows = h.players.rows
     /\ Len(players.rows) <= 256 * d[map.after] + d[map.after + 1]
     /\ teams.whole /\ teams.headers = h.teams.headers /\ teams.rows = h.teams.rows
     /\ Len(teams.rows) <= 256 * d[players.after] + d[players.after + 1]

LEMMA BeatIsRead ==
  ASSUME NEW h, IsBeat(h)
  PROVE  BeatRead(h, Data(Beat(h)))
  <1> DEFINE m == MapPart(h.pairs)
             p == Sheet(h.players)
             t == Sheet(h.teams)
             mp == m \o p
             pt == p \o t
             d == mp \o t
             one == <<Underscore>>
             two == <<Underscore, Team>>
             map == Map(d)
             players == Table(d, map.after, one)
             teams == Table(d, players.after, two)
             none == <<>>
  <1>1. /\ Data(Beat(h)) = d
        /\ Joined(Nat, mp, m, p) /\ Joined(Nat, pt, p, t)
        /\ Joined(Nat, d, mp, t) /\ Joined(Nat, d, m, pt)
    BY BeatIs
  <1>2. /\ h.pairs \in Seq(Pair) /\ NamedPairs(h.pairs)
        /\ IsSheet(h.players, one) /\ IsSheet(h.teams, two)
    BY DEF IsBeat, NamedPairs
  <1>3. one \in Seq(Nat) /\ one # <<>> /\ two \in Seq(Nat) /\ two # <<>>
    BY EndsAre
  <1> HIDE DEF one, two, mp, pt, d, p, t
  <1>4. /\ map.after = Len(m) + 1
        /\ map.data = [k \in KeysOf(h.pairs) |-> FirstValue(h.pairs, k)]
    <2>1. pt \in Seq(Nat) /\ d = m \o pt
      BY <1>1 DEF Joined
    <2> QED BY <1>2, <2>1, MapIsRead
  <1>5. d \in Seq(Nat) /\ Len(m) \in Nat /\ Len(mp) = Len(m) + Len(p) /\ Len(p) \in Nat
    BY <1>1, JoinedParts
  <1> HIDE DEF m, map
  <1>6. /\ players.headers = h.players.headers /\ players.rows = h.players.rows /\ players.whole
        /\ players.after = Len(m) + Len(p) + 1
        /\ 256 * d[map.after] + d[map.after + 1] = Len(h.players.rows)
    <2> DEFINE r == Table(d, Len(m) + 1, one)
    <2>1. /\ r.headers = h.players.headers /\ r.rows = h.players.rows /\ r.whole
          /\ r.after = Len(m) + Len(p) + 1
          /\ 256 * d[Len(m) + 1] + d[(Len(m) + 1) + 1] = Len(h.players.rows)
      BY <1>1, <1>2, <1>3, TableIsRead DEF p
    <2> HIDE DEF r
    <2>2. r = players
      BY <1>4 DEF r
    <2> HIDE DEF players
    <2> QED BY <1>4, <2>1, <2>2
  <1>7. players.after = Len(mp) + 1
    <2> HIDE DEF players
    <2> QED BY <1>5, <1>6
  <1> HIDE DEF players
  <1>8. /\ teams.headers = h.teams.headers /\ teams.rows = h.teams.rows /\ teams.whole
        /\ 256 * d[players.after] + d[players.after + 1] = Len(h.teams.rows)
    <2> DEFINE r == Table(d, Len(mp) + 1, two)
    <2>1. Joined(Nat, t, t, none)
      <3>1. t \in Seq(Nat)
        BY <1>1 DEF Joined
      <3>2. none \in Seq(Nat) /\ t = t \o none
        BY <3>1, ConcatEmptySeq
      <3> QED BY <3>1, <3>2 DEF Joined
    <2> HIDE DEF none
    <2>2. /\ r.headers = h.teams.headers /\ r.rows = h.teams.rows /\ r.whole
          /\ 256 * d[Len(mp) + 1] + d[(Len(mp) + 1) + 1] = Len(h.teams.rows)
      BY <1>1, <1>2, <1>3, <2>1, TableIsRead DEF t
    <2> HIDE DEF r
    <2>3. r = teams
      BY <1>7 DEF r
    <2> HIDE DEF teams
    <2> QED BY <1>7, <2>2, <2>3
  <1> HIDE DEF teams
  <1>9. Len(h.players.rows) \in Nat /\ Len(h.teams.rows) \in Nat
    BY <1>2, SheetIs
  <1>10. /\ Len(players.rows) <= 256 * d[map.after] + d[map.after + 1]
         /\ Len(teams.rows) <= 256 * d[players.after] + d[players.after + 1]
    BY <1>6, <1>8, <1>9
  <1>11. BeatRead(h, d)
    BY <1>4, <1>5, <1>6, <1>8, <1>10 DEF BeatRead, map, players, teams, one, two
  <1> QED BY <1>1, <1>11

LEMMA PrefixIs ==
  ASSUME NEW T, NEW a \in Seq(T), NEW b \in Seq(T), Begins(b, a)
  PROVE  IsPrefix(a, b)
  <1>1. SubSeq(b, 0 + 1, Len(a)) = SubSeq(a, 0 + 1, Len(a))
    BY BeginsCut
  <1> QED BY <1>1 DEF IsPrefix, Begins

(* What is cut of a heartbeat ends, if it is read, with a whole string.    *)
LEMMA CutOfBeat ==
  ASSUME NEW p \in Seq(Nat), NEW n \in 0..Len(p), NEW q, q = SubSeq(p, 1, n), QRPacket(q), Data(q) # <<>>
  PROVE  /\ Terminated(Data(q))
         /\ \E c \in Seq(Nat) : Data(p) = Data(q) \o c
  <1> DEFINE c == SubSeq(p, n + 1, Len(p))
  <1>1. Joined(Nat, p, q, c)
    BY CutRest
  <1>2. q \in Seq(Nat) /\ c \in Seq(Nat) /\ p = q \o c /\ Len(q) \in Nat
    BY <1>1, LenProperties DEF Joined
  <1> HIDE DEF c
  <1>3. Len(q) > 5
    <2> SUFFICES ASSUME ~(Len(q) > 5) PROVE FALSE
      OBVIOUS
    <2>1. Len(q) = 5
      BY <1>2 DEF QRPacket
    <2>2. SubSeq(q, 6, 5) = <<>>
      BY <1>2, SubSeqEmpty
    <2> QED BY <2>1, <2>2 DEF Data
  <1>4. Terminated(q)
    BY <1>2, <1>3 DEF Terminated, QRPacket
  <1>5. 6 \in 1..(Len(q) + 1)
    BY <1>2, <1>3
  <1>6. /\ Terminated(SubSeq(q, 6, Len(q)))
        /\ SubSeq(q \o c, 6, Len(q \o c)) = SubSeq(q, 6, Len(q)) \o c
    BY <1>2, <1>4, <1>5, RestOfCut
  <1> QED BY <1>2, <1>6 DEF Data

LEMMA NoTableAtEnd ==
  ASSUME NEW b \in Seq(Nat), NEW end
  PROVE  ~Table(b, Len(b) + 1, end).whole
  <1>1. Len(b) \in Nat
    BY LenProperties
  <1>2. ~((Len(b) + 1) + 1 <= Len(b))
    BY <1>1
  <1> QED BY <1>2 DEF Table

(* What is read of a heartbeat that is cut.                                *)
LEMMA CutIsRead ==
  ASSUME NEW h, IsBeat(h), NEW d, BeatRead(h, d), NEW b, Terminated(b), NEW c, Joined(Nat, d, b, c)
  PROVE  LET players == Table(b, Map(b).after, <<Underscore>>)
             teams == Table(b, players.after, <<Underscore, Team>>)
         IN players.whole /\ teams.whole =>
              Contents(players) = h.players /\ BeginningOf(Contents(teams), h.teams)
  <1> DEFINE one == <<Underscore>>
             two == <<Underscore, Team>>
             map == Map(b)
             players == Table(b, map.after, one)
             teams == Table(b, players.after, two)
             w == Table(d, map.after, one)
             v == Table(d, players.after, two)
  <1> SUFFICES ASSUME players.whole, teams.whole
               PROVE  Contents(players) = h.players /\ BeginningOf(Contents(teams), h.teams)
    OBVIOUS
  <1>1. IsSheet(h.players, one) /\ IsSheet(h.teams, two)
    BY DEF IsBeat
  <1>2. /\ map.over => Map(d) = map
        /\ ~map.over => map.after = Len(b) + 1
        /\ map.after \in 1..(Len(b) + 1)
    BY MapIsCut DEF Joined
  <1>3. b \in Seq(Nat)
    BY DEF Terminated
  <1>4. Map(d) = map
    BY <1>2, <1>3, NoTableAtEnd
  <1>5. /\ w.whole /\ w.headers = h.players.headers /\ w.rows = h.players.rows
        /\ Len(w.rows) <= 256 * d[map.after] + d[map.after + 1]
    BY <1>4 DEF BeatRead
  <1>6. CutShort(w, players, Len(b) + 1)
    <2> HIDE DEF map
    <2> QED BY <1>2, <1>5, TableIsCut
  <1>7. w = players
    <2>1. players.after # Len(b) + 1
      BY <1>3, NoTableAtEnd
    <2> HIDE DEF w, players
    <2> QED BY <1>6, <2>1 DEF CutShort
  <1>8. /\ v.whole /\ v.headers = h.teams.headers /\ v.rows = h.teams.rows
        /\ Len(v.rows) <= 256 * d[players.after] + d[players.after + 1]
    <2>1. LET pl == Table(d, Map(d).after, one)
              te == Table(d, pl.after, two)
          IN /\ te.whole /\ te.headers = h.teams.headers /\ te.rows = h.teams.rows
             /\ Len(te.rows) <= 256 * d[pl.after] + d[pl.after + 1]
      BY DEF BeatRead
    <2>2. Table(d, Map(d).after, one) = players
      BY <1>4, <1>7
    <2> QED BY <2>1, <2>2
  <1>9. CutShort(v, teams, Len(b) + 1)
    <2>1. players.after \in 1..(Len(b) + 1)
      BY <1>6 DEF CutShort
    <2> HIDE DEF players
    <2> QED BY <1>8, <2>1, TableIsCut
  <1> HIDE DEF w, v, players, teams
  <1>10. Contents(players) = h.players
    BY <1>1, <1>5, <1>7, SheetContents
  <1>11. CASE v = teams
    <2>1. Contents(teams) = h.teams
      BY <1>1, <1>8, <1>11, SheetContents
    <2> QED BY <1>10, <2>1 DEF BeginningOf
  <1>12. CASE /\ teams.rows = <<>> /\ v.rows = <<>>
              /\ teams.headers \in Seq(Seq(Nat)) /\ v.headers \in Seq(Seq(Nat))
              /\ Begins(v.headers, teams.headers)
    <2> DEFINE Q == Seq(Nat)
               a == teams.headers
               e == v.headers
    <2>1. a \in Seq(Q) /\ e \in Seq(Q) /\ Begins(e, a)
      BY <1>12
    <2> HIDE DEF Q, a, e
    <2>2. IsPrefix(a, e)
      BY <2>1, PrefixIs
    <2>3. Contents(teams).rows = <<>> /\ Contents(teams).headers = a /\ h.teams.rows = <<>> /\ h.teams.headers = e
      BY <1>8, <1>12 DEF Contents, a, e
    <2> QED BY <1>10, <2>2, <2>3 DEF BeginningOf
  <1> QED BY <1>9, <1>11, <1>12 DEF CutShort

(* QRHeartbeatPacket::Parse reads the map, the players and the teams of a  *)
(* heartbeat as the game server sent them.  Of a heartbeat that was cut it *)
(* takes no value that was not sent and no table with a part of its rows.  *)
THEOREM HeartbeatIsReadBack ==
  ASSUME NEW h, IsBeat(h)
  PROVE  HeartbeatReadBack(h)
  <1> DEFINE p == Beat(h)
             d == Data(p)
             said == [k \in KeysOf(h.pairs) |-> FirstValue(h.pairs, k)]
             map == Map(d)
             players == Table(d, map.after, <<Underscore>>)
             teams == Table(d, players.after, <<Underscore, Team>>)
  <1>1. p \in Seq(Nat) /\ QRPacket(p) /\ d # <<>>
    BY BeatIs
  <1>2. BeatRead(h, d)
    BY BeatIsRead
  <1>3. /\ map.data = said
        /\ players.whole /\ players.headers = h.players.headers /\ players.rows = h.players.rows
        /\ teams.whole /\ teams.headers = h.teams.headers /\ teams.rows = h.teams.rows
    BY <1>2 DEF BeatRead
  <1> HIDE DEF p, said
  <1>4. Heartbeat(p) = [data |-> said, players |-> h.players, teams |-> h.teams]
    <2>1. Heartbeat(p) = [data |-> map.data, players |-> Contents(players), teams |-> Contents(teams)]
      BY <1>1, <1>3, HeartbeatIs
    <2>2. IsSheet(h.players, <<Underscore>>) /\ IsSheet(h.teams, <<Underscore, Team>>)
      BY DEF IsBeat
    <2>3. Contents(players) = h.players /\ Contents(teams) = h.teams
      <3> HIDE DEF players, teams
      <3> QED BY <1>3, <2>2, SheetContents
    <2> HIDE DEF map, players, teams
    <2> QED BY <1>3, <2>1, <2>3
  <1>5. ASSUME NEW n \in 0..Len(p), NEW q, q = SubSeq(p, 1, n), NEW cut, cut = Heartbeat(q), cut # None
        PROVE  /\ \A k \in DOMAIN cut.data : k \in DOMAIN said /\ cut.data[k] = said[k]
               /\ cut.players \in {h.players, NoTable}
               /\ BeginningOf(cut.teams, h.teams)
    <2> DEFINE b == Data(q)
               m == Map(b)
               pl == Table(b, m.after, <<Underscore>>)
               te == Table(b, pl.after, <<Underscore, Team>>)
    <2>1. QRPacket(q) /\ b # <<>>
      BY <1>5, HeartbeatIs
    <2>2. Terminated(b) /\ \E c \in Seq(Nat) : d = b \o c
      BY <1>1, <1>5, <2>1, CutOfBeat
    <2>3. PICK c \in Seq(Nat) : d = b \o c
      BY <2>2
    <2>4. \A k \in DOMAIN m.data : k \in DOMAIN said /\ m.data[k] = said[k]
      <3>1. Kept(m.data, map.data)
        BY <2>2, <2>3, MapIsCut
      <3> HIDE DEF m, map
      <3> QED BY <1>3, <3>1 DEF Kept
    <2>5. /\ ~pl.whole => cut = [data |-> m.data, players |-> NoTable, teams |-> NoTable]
          /\ pl.whole /\ ~te.whole => cut = None
          /\ pl.whole /\ te.whole => cut = [data |-> m.data, players |-> Contents(pl), teams |-> Contents(te)]
      <3>1. /\ ~pl.whole => Heartbeat(q) = [data |-> m.data, players |-> NoTable, teams |-> NoTable]
            /\ pl.whole /\ ~te.whole => Heartbeat(q) = None
            /\ pl.whole /\ te.whole =>
                 Heartbeat(q) = [data |-> m.data, players |-> Contents(pl), teams |-> Contents(te)]
        BY <2>1, HeartbeatIs
      <3> HIDE DEF m, pl, te
      <3> QED BY <1>5, <3>1
    <2>6. pl.whole /\ te.whole => Contents(pl) = h.players /\ BeginningOf(Contents(te), h.teams)
      <3>1. Joined(Nat, d, b, c)
        BY <2>2, <2>3 DEF Joined, Terminated
      <3> HIDE DEF b, d
      <3> QED BY <1>2, <2>2, <3>1, CutIsRead
    <2> HIDE DEF m, pl, te
    <2>7. CASE ~pl.whole
      <3>1. cut.data = m.data /\ cut.players = NoTable /\ cut.teams = NoTable
        BY <2>5, <2>7
      <3> QED BY <2>4, <3>1 DEF BeginningOf
    <2>8. CASE pl.whole /\ te.whole
      <3>1. cut.data = m.data /\ cut.players = Contents(pl) /\ cut.teams = Contents(te)
        BY <2>5, <2>8
      <3> QED BY <2>4, <2>6, <2>8, <3>1
    <2> QED BY <1>5, <2>5, <2>7, <2>8
  <1> QED BY <1>4, <1>5 DEF HeartbeatReadBack, p, said

-----------------------------------------------------------------------------
(* The places where a key is found.                                        *)
KeyAt(w, k, i) == w[i] = Mark /\ w[i + 1] = k /\ w[i + 2] = Mark

KeyPlaces(w, k) == {i \in 1..(Len(w) - 2) : KeyAt(w, k, i)}

(* What follows a place, up to the next backslash.                         *)
ValueAt(w, i) ==
  LET rest == SubSeq(w, i + 3, Len(w))
      end == First(rest, Mark)
  IN IF end = 0 THEN None ELSE SubSeq(rest, 1, end - 1)

LEMMA PlacesAre ==
  ASSUME NEW T, NEW w \in Seq(T), NEW k \in T, Mark \in T
  PROVE  {i \in 1..(Len(w) - 3 + 1) : SubSeq(w, i, i + 3 - 1) = Marked(k)} = KeyPlaces(w, k)
  <1>1. Len(w) \in Nat /\ Len(w) - 3 + 1 = Len(w) - 2
    BY LenProperties
  <1>2. ASSUME NEW i \in 1..(Len(w) - 2) PROVE SubSeq(w, i, i + 3 - 1) = Marked(k) <=> KeyAt(w, k, i)
    <2> DEFINE s == SubSeq(w, i, i + 2)
               mark == Marked(k)
    <2>1. i \in Int /\ i + 2 \in Int /\ i <= i + 2 /\ i + 3 - 1 = i + 2 /\ (i + 2) - i + 1 = 3
      BY <1>1
    <2>2. \A j \in i..(i + 2) : j \in 1..Len(w)
      BY <1>1
    <2>3. \A j \in i..(i + 2) : w[j] \in T
      BY <2>2, ElementOfSeq
    <2>4. s \in Seq(T)
      BY <2>1, <2>3, SubSeqProperties
    <2>5. Len(s) = (i + 2) - i + 1
      BY <2>1, SubSeqProperties
    <2>6. \A j \in 1..((i + 2) - i + 1) : s[j] = w[i + j - 1]
      BY <2>1, SubSeqProperties
    <2>7. mark \in Seq(T) /\ Len(mark) = 3 /\ mark[1] = Mark /\ mark[2] = k /\ mark[3] = Mark
      BY DEF Marked
    <2> HIDE DEF s, mark
    <2>8. Len(s) = 3 /\ \A j \in 1..3 : s[j] = w[i + j - 1]
      BY <2>1, <2>5, <2>6
    <2>9. s[1] = w[i] /\ s[2] = w[i + 1] /\ s[3] = w[i + 2]
      <3>1. i + 1 - 1 = i /\ i + 2 - 1 = i + 1 /\ i + 3 - 1 = i + 2 /\ 1 \in 1..3 /\ 2 \in 1..3 /\ 3 \in 1..3
        BY <2>1
      <3> QED BY <2>8, <3>1
    <2>10. s = mark <=> s[1] = mark[1] /\ s[2] = mark[2] /\ s[3] = mark[3]
      <3>1. ASSUME s[1] = mark[1] /\ s[2] = mark[2] /\ s[3] = mark[3] PROVE s = mark
        <4>1. \A j \in 1..Len(s) : j = 1 \/ j = 2 \/ j = 3
          BY <2>8
        <4>2. \A j \in 1..Len(s) : s[j] = mark[j]
          BY <3>1, <4>1
        <4> QED BY <2>4, <2>7, <2>8, <4>2, SeqEqual
      <3> QED BY <3>1
    <2> QED BY <2>1, <2>7, <2>9, <2>10 DEF KeyAt, s, mark
  <1> QED BY <1>1, <1>2 DEF KeyPlaces

LEMMA ValueIs ==
  ASSUME NEW T, NEW w \in Seq(T), NEW k \in T, Mark \in T
  PROVE  /\ KeyPlaces(w, k) = {} => ValueForKey(w, k) = None
         /\ \A i \in KeyPlaces(w, k) :
              (\A j \in KeyPlaces(w, k) : i <= j) => ValueForKey(w, k) = ValueAt(w, i)
  <1> DEFINE mark == Marked(k)
             at == {i \in 1..(Len(w) - Len(mark) + 1) : SubSeq(w, i, i + Len(mark) - 1) = mark}
             first == CHOOSE i \in at : \A j \in at : i <= j
             rest == SubSeq(w, first + Len(mark), Len(w))
             end == First(rest, Mark)
  <1>1. Len(mark) = 3
    BY DEF Marked
  <1>2. at = KeyPlaces(w, k)
    BY <1>1, PlacesAre
  <1>3. ValueForKey(w, k) = IF at = {} \/ end = 0 THEN None ELSE SubSeq(rest, 1, end - 1)
    BY DEF ValueForKey
  <1>4. ASSUME NEW i \in KeyPlaces(w, k), \A j \in KeyPlaces(w, k) : i <= j PROVE ValueForKey(w, k) = ValueAt(w, i)
    <2>1. first = i
      <3> DEFINE S == KeyPlaces(w, k)
      <3>1. S \subseteq Int
        BY LenProperties DEF KeyPlaces
      <3>2. \A x, y \in S : x <= y /\ y <= x => x = y
        BY <3>1
      <3> HIDE DEF S
      <3>3. first = CHOOSE x \in S : \A y \in S : x <= y
        BY <1>2 DEF S
      <3>4. i \in S /\ \A y \in S : i <= y
        BY <1>4 DEF S
      <3> HIDE DEF first
      <3> QED BY <3>2, <3>3, <3>4
    <2>2. at # {}
      BY <1>2, <1>4
    <2> HIDE DEF at, first, mark
    <2> QED BY <1>1, <1>3, <2>1, <2>2 DEF ValueAt
  <1> HIDE DEF at
  <1> QED BY <1>2, <1>3, <1>4

LEMMA LeastPlace ==
  ASSUME NEW w, NEW k, Len(w) \in Nat, KeyPlaces(w, k) # {}
  PROVE  \E i \in KeyPlaces(w, k) : \A j \in KeyPlaces(w, k) : i <= j
  <1>1. KeyPlaces(w, k) \subseteq Nat
    BY DEF KeyPlaces
  <1> QED BY <1>1, Flat!LeastNumber

(* What is behind a part in which a key is not found.                      *)
LEMMA ValueBehind ==
  ASSUME NEW T, NEW w, NEW a, NEW b, Joined(T, w, a, b), NEW k \in T, Mark \in T,
         \A i \in KeyPlaces(w, k) : i > Len(a)
  PROVE  ValueForKey(w, k) = ValueForKey(b, k)
  <1> DEFINE n == Len(a)
  <1>1. /\ w \in Seq(T) /\ b \in Seq(T) /\ Len(w) = n + Len(b) /\ n \in Nat /\ Len(b) \in Nat
    BY JoinedParts DEF Joined
  <1>2. \A i \in 1..Len(b) : w[n + i] = b[i]
    BY JoinedRest
  <1> HIDE DEF n
  <1>3. ASSUME NEW i \in KeyPlaces(b, k) PROVE n + i \in KeyPlaces(w, k)
    <2>1. i \in 1..(Len(b) - 2) /\ KeyAt(b, k, i)
      BY DEF KeyPlaces
    <2>2. /\ i \in 1..Len(b) /\ i + 1 \in 1..Len(b) /\ i + 2 \in 1..Len(b)
          /\ n + i \in 1..(Len(w) - 2) /\ n + (i + 1) = (n + i) + 1 /\ n + (i + 2) = (n + i) + 2
      BY <1>1, <2>1
    <2>3. KeyAt(w, k, n + i)
      BY <1>2, <2>1, <2>2 DEF KeyAt
    <2> QED BY <2>2, <2>3 DEF KeyPlaces
  <1>4. ASSUME NEW j \in KeyPlaces(w, k) PROVE j - n \in KeyPlaces(b, k)
    <2> DEFINE i == j - n
    <2>1. j \in 1..(Len(w) - 2) /\ KeyAt(w, k, j) /\ j > n
      BY DEF KeyPlaces, n
    <2>2. /\ i \in 1..(Len(b) - 2) /\ i \in 1..Len(b) /\ i + 1 \in 1..Len(b) /\ i + 2 \in 1..Len(b)
          /\ n + i = j /\ n + (i + 1) = j + 1 /\ n + (i + 2) = j + 2
      BY <1>1, <2>1
    <2> HIDE DEF i
    <2>3. w[j] = b[i] /\ w[j + 1] = b[i + 1] /\ w[j + 2] = b[i + 2]
      BY <1>2, <2>2
    <2>4. KeyAt(b, k, i)
      BY <2>1, <2>3 DEF KeyAt
    <2>5. i \in KeyPlaces(b, k)
      BY <2>2, <2>4 DEF KeyPlaces
    <2> QED BY <2>5 DEF i
  <1>5. CASE KeyPlaces(b, k) = {}
    <2>1. KeyPlaces(w, k) = {}
      BY <1>4, <1>5
    <2> QED BY <1>1, <1>5, <2>1, ValueIs
  <1>6. CASE KeyPlaces(b, k) # {}
    <2>1. PICK i \in KeyPlaces(b, k) : \A j \in KeyPlaces(b, k) : i <= j
      BY <1>1, <1>6, LeastPlace
    <2>2. i \in 1..(Len(b) - 2)
      BY DEF KeyPlaces
    <2>3. \A j \in KeyPlaces(w, k) : j \in Int
      BY <1>1 DEF KeyPlaces
    <2>4. \A j \in KeyPlaces(w, k) : n + i <= j
      <3> SUFFICES ASSUME NEW j \in KeyPlaces(w, k) PROVE n + i <= j
        OBVIOUS
      <3>1. i <= j - n
        BY <1>4, <2>1
      <3> QED BY <1>1, <2>2, <2>3, <3>1
    <2>5. ValueForKey(w, k) = ValueAt(w, n + i)
      BY <1>1, <1>3, <2>4, ValueIs
    <2>6. ValueForKey(b, k) = ValueAt(b, i)
      BY <1>1, <2>1, ValueIs
    <2>7. SubSeq(w, (n + i) + 3, Len(w)) = SubSeq(b, i + 3, Len(b))
      <3> DEFINE m == i + 2
                 front == SubSeq(b, 1, m)
                 rest == SubSeq(b, m + 1, Len(b))
                 both == a \o front
      <3>1. m \in 0..Len(b) /\ m + 1 = i + 3 /\ (n + m) + 1 = (n + i) + 3
        BY <1>1, <2>2
      <3> HIDE DEF m
      <3>2. Joined(T, b, front, rest)
        BY <1>1, <3>1, CutRest
      <3>3. Len(front) = m
        <4>1. CutOf(T, front, b, m)
          BY <1>1, <3>1 DEF CutOf
        <4> HIDE DEF front
        <4> QED BY <4>1, CutFields
      <3> HIDE DEF front, rest
      <3>4. Joined(T, both, a, front)
        BY <3>2 DEF Joined
      <3> HIDE DEF both
      <3>5. Joined(T, w, both, rest)
        BY <3>2, <3>4, RegroupedBack
      <3>6. Len(both) = n + m
        BY <3>3, <3>4, JoinedParts DEF n
      <3>7. SubSeq(w, Len(both) + 1, Len(w)) = rest
        BY <3>5, JoinedCut
      <3> QED BY <3>1, <3>6, <3>7 DEF rest
    <2>8. ValueAt(w, n + i) = ValueAt(b, i)
      BY <2>7 DEF ValueAt
    <2> QED BY <2>5, <2>6, <2>8
  <1> QED BY <1>5, <1>6

(* A key between its backslashes.                                          *)
Opening(lead, key) == Len(lead) = 3 /\ lead[1] = Mark /\ lead[2] = key /\ lead[3] = Mark

(* A key with its value, before the rest of the packet.                    *)
LEMMA ValueIsFound ==
  ASSUME NEW T, NEW k \in T, Mark \in T, k # Mark,
         NEW key \in T, key # Mark, NEW value \in Seq(T), Free(value, Mark), value # <<k>>,
         NEW lead, NEW b, b \in Seq(T), b # <<>>, b[1] = Mark,
         Opening(lead, key),
         NEW rest, Joined(T, rest, value, b), NEW w, Joined(T, w, lead, rest)
  PROVE  ValueForKey(w, k) = IF key = k THEN value ELSE ValueForKey(b, k)
  <1>1. lead \in Seq(T) /\ Len(lead) = 3 /\ lead[1] = Mark /\ lead[2] = key /\ lead[3] = Mark
    BY DEF Opening, Joined
  <1> DEFINE n == Len(value)
  <1>2. n \in Nat /\ Len(b) \in Nat /\ Len(b) # 0
    BY LenProperties, EmptySeq
  <1>3. rest \in Seq(T) /\ Len(rest) = n + Len(b)
    BY JoinedParts
  <1>4. w \in Seq(T) /\ Len(w) = 3 + Len(rest)
    <2>1. w \in Seq(T) /\ Len(w) = Len(lead) + Len(rest)
      BY JoinedParts
    <2> QED BY <1>1, <2>1
  <1>5. w[1] = Mark /\ w[2] = key /\ w[3] = Mark
    <2>1. \A i \in 1..Len(lead) : w[i] = lead[i]
      BY JoinedAt
    <2>2. 1 \in 1..Len(lead) /\ 2 \in 1..Len(lead) /\ 3 \in 1..Len(lead)
      BY <1>1
    <2> QED BY <1>1, <2>1, <2>2
  <1>6. \A i \in 1..n : w[3 + i] = value[i]
    <2>1. \A i \in 1..n : rest[i] = value[i]
      BY JoinedAt
    <2>2. \A i \in 1..Len(rest) : w[Len(lead) + i] = rest[i]
      BY JoinedRest
    <2>3. \A i \in 1..n : i \in 1..Len(rest)
      BY <1>2, <1>3
    <2> QED BY <1>1, <2>1, <2>2, <2>3
  <1>7. w[4 + n] = Mark
    <2>1. 1 \in 1..Len(b) /\ n + 1 \in 1..Len(rest) /\ 3 + (n + 1) = 4 + n
      BY <1>2, <1>3
    <2>2. rest[n + 1] = b[1]
      BY <2>1, JoinedRest
    <2>3. w[Len(lead) + (n + 1)] = rest[n + 1]
      BY <2>1, JoinedRest
    <2> QED BY <1>1, <2>1, <2>2, <2>3
  <1> HIDE DEF n
  <1>8. CASE key = k
    <2>1. KeyAt(w, k, 1)
      BY <1>5, <1>8 DEF KeyAt
    <2>2. 1 \in KeyPlaces(w, k)
      <3>1. 1 \in 1..(Len(w) - 2)
        BY <1>2, <1>3, <1>4
      <3> QED BY <2>1, <3>1 DEF KeyPlaces
    <2>3. \A j \in KeyPlaces(w, k) : 1 <= j
      BY <1>2, <1>3, <1>4 DEF KeyPlaces
    <2>4. ValueForKey(w, k) = ValueAt(w, 1)
      BY <1>4, <2>2, <2>3, ValueIs
    <2>5. SubSeq(w, 1 + 3, Len(w)) = rest
      <3>1. SubSeq(w, Len(lead) + 1, Len(w)) = rest
        BY JoinedCut
      <3>2. Len(lead) + 1 = 1 + 3
        BY <1>1
      <3> QED BY <3>1, <3>2
    <2>6. First(rest, Mark) = n + 1
      BY <1>2, JoinedFirst DEF n
    <2>7. SubSeq(rest, 1, n) = value
      BY JoinedCut DEF n
    <2>8. n + 1 # 0 /\ (n + 1) - 1 = n
      BY <1>2
    <2>9. ValueAt(w, 1) = value
      BY <2>5, <2>6, <2>7, <2>8 DEF ValueAt
    <2> QED BY <1>8, <2>4, <2>9
  <1>9. CASE key # k
    <2> DEFINE front == lead \o value
    <2>1. Joined(T, front, lead, value)
      BY <1>1 DEF Joined
    <2> HIDE DEF front
    <2>2. Joined(T, w, front, b)
      BY <2>1, RegroupedBack
    <2>3. Len(front) = 3 + n
      <3>1. Len(front) = Len(lead) + Len(value)
        BY <2>1, JoinedParts
      <3> QED BY <1>1, <3>1 DEF n
    <2>4. ASSUME NEW i \in KeyPlaces(w, k) PROVE i > 3 + n
      <3> SUFFICES ASSUME ~(i > 3 + n) PROVE FALSE
        OBVIOUS
      <3>1. i \in 1..(Len(w) - 2) /\ w[i] = Mark /\ w[i + 1] = k /\ w[i + 2] = Mark
        BY DEF KeyPlaces, KeyAt
      <3>2. i # 1 /\ i # 2
        BY <1>5, <1>9, <3>1
      <3>3. CASE i = 3
        <4>1. w[4] = k /\ w[5] = Mark
          BY <3>1, <3>3
        <4>2. n # 0
          BY <1>7, <4>1
        <4>3. 1 \in 1..n /\ 3 + 1 = 4
          BY <1>2, <4>2
        <4>4. value[1] = k
          BY <1>6, <4>1, <4>3
        <4>5. n = 1
          <5> SUFFICES ASSUME n # 1 PROVE FALSE
            OBVIOUS
          <5>1. 2 \in 1..n /\ 3 + 2 = 5
            BY <1>2, <4>2
          <5>2. value[2] = Mark
            BY <1>6, <4>1, <5>1
          <5> QED BY <5>1, <5>2 DEF Free, n
        <4>6. value = <<k>>
          <5> DEFINE one == <<k>>
          <5>1. one \in Seq(T) /\ Len(one) = 1 /\ one[1] = k
            OBVIOUS
          <5> HIDE DEF one
          <5>2. \A j \in 1..Len(value) : value[j] = one[j]
            <6>1. \A j \in 1..Len(value) : j = 1
              BY <4>5 DEF n
            <6> QED BY <4>4, <5>1, <6>1
          <5>3. value = one
            BY <4>5, <5>1, <5>2, SeqEqual DEF n
          <5> QED BY <5>3 DEF one
        <4> QED BY <4>6
      <3>4. CASE i # 3
        <4> DEFINE j == i - 3
        <4>1. j \in 1..n /\ 3 + j = i
          BY <1>2, <1>3, <1>4, <3>1, <3>2, <3>4
        <4> HIDE DEF j
        <4>2. value[j] = Mark
          BY <1>6, <3>1, <4>1
        <4> QED BY <4>1, <4>2 DEF Free, n
      <3> QED BY <3>3, <3>4
    <2>5. ValueForKey(w, k) = ValueForKey(b, k)
      BY <2>2, <2>3, <2>4, ValueBehind
    <2> QED BY <1>9, <2>5
  <1> QED BY <1>8, <1>9
(* The keys and values of a packet, one after the other.                   *)
SayStep(context, s, x) == s \o <<Mark, x.key, Mark>> \o x.value

Say == INSTANCE Folding WITH Op <- SayStep

LEMMA TextFold ==
  ASSUME NEW pairs
  PROVE  Text(pairs) = Say!Fold(0, <<>>, pairs) \o <<Mark, "final", Mark>>
  BY DEF Text, Say!Fold, SayStep, FoldLeft, MapThenFoldSet, Max, Say!MapThenFoldSet, Say!Greatest

Said(W) == [key : W, value : Seq(W)]

(* The value of a key is the first that was said of it, or else it is      *)
(* looked for in the rest.                                                 *)
Told(s, said, T, k) ==
  /\ said \in Seq(T)
  /\ \A b \in Seq(T) : b # <<>> /\ b[1] = Mark =>
       ValueForKey(said \o b, k) = IF k \in KeysOf(s) THEN FirstValue(s, k) ELSE ValueForKey(b, k)

LEMMA MoreIsTold ==
  ASSUME NEW W, NEW k, Mark \notin W, k # Mark, NEW T, W \subseteq T, k \in T, Mark \in T,
         NEW s \in Seq(Said(W)), NEW said, Told(s, said, T, k), NEW x \in Said(W), x.value # <<k>>
  PROVE  Told(Append(s, x), SayStep(0, said, x), T, k)
  <1> DEFINE lead == <<Mark, x.key, Mark>>
             value == x.value
             front == said \o lead
             next == front \o value
             more == Append(s, x)
  <1>1. x.key \in T /\ x.key # Mark /\ value \in Seq(T) /\ k \in T /\ Mark \in T
    <2>1. x.key \in W /\ x.value \in Seq(W) /\ W \subseteq T
      BY DEF Said
    <2>2. x.value \in Seq(T)
      <3>1. \A i \in 1..Len(x.value) : x.value[i] \in T
        BY <2>1, ElementOfSeq
      <3>2. x.value \in [1..Len(x.value) -> T] /\ Len(x.value) \in Nat
        BY <2>1, <3>1, LenProperties
      <3> QED BY <3>2, SeqDef
    <2> QED BY <2>1, <2>2
  <1>2. Free(value, Mark)
    <2>1. value \in Seq(W)
      BY DEF Said
    <2>2. \A i \in 1..Len(value) : value[i] \in W
      BY <2>1, ElementOfSeq
    <2> QED BY <2>2 DEF Free
  <1>3. lead \in Seq(T) /\ Opening(lead, x.key)
    BY <1>1 DEF Opening
  <1>4. said \in Seq(T)
    BY DEF Told
  <1>5. value # <<k>>
    OBVIOUS
  <1>6. SayStep(0, said, x) = next
    BY DEF SayStep
  <1> HIDE DEF lead, value
  <1>7. Joined(T, front, said, lead)
    BY <1>3, <1>4 DEF Joined
  <1>8. front \in Seq(T)
    BY <1>7, JoinedParts
  <1> HIDE DEF front
  <1>9. Joined(T, next, front, value)
    BY <1>1, <1>8 DEF Joined
  <1>10. next \in Seq(T)
    BY <1>9, JoinedParts
  <1> HIDE DEF next
  <1>11. ASSUME NEW b \in Seq(T), b # <<>>, b[1] = Mark
         PROVE  ValueForKey(next \o b, k) =
                  IF k \in KeysOf(more) THEN FirstValue(more, k) ELSE ValueForKey(b, k)
    <2> DEFINE vb == value \o b
               lvb == lead \o vb
               all == next \o b
    <2>1. Joined(T, vb, value, b)
      BY <1>1 DEF Joined
    <2>2. vb \in Seq(T)
      BY <2>1, JoinedParts
    <2> HIDE DEF vb
    <2>3. Joined(T, lvb, lead, vb)
      BY <1>3, <2>2 DEF Joined
    <2>4. lvb \in Seq(T) /\ Len(lvb) = Len(lead) + Len(vb) /\ Len(lead) \in Nat /\ Len(vb) \in Nat
      <3> HIDE DEF lvb
      <3> QED BY <2>3, JoinedParts
    <2> HIDE DEF lvb
    <2>5. Joined(T, all, next, b)
      BY <1>10 DEF Joined
    <2> HIDE DEF all
    <2>6. Joined(T, all, front, vb)
      BY <1>9, <2>1, <2>5, Regrouped
    <2>7. Joined(T, all, said, lvb)
      BY <1>7, <2>3, <2>6, Regrouped
    <2>8. lvb # <<>> /\ lvb[1] = Mark
      <3>1. Len(lead) = 3 /\ lead[1] = Mark
        BY <1>3 DEF Opening
      <3>2. 1 \in 1..Len(lead)
        BY <3>1
      <3>3. lvb[1] = lead[1]
        BY <2>3, <3>2, JoinedAt
      <3>4. Len(lvb) # 0
        BY <2>4, <3>1
      <3> QED BY <3>1, <3>3, <3>4
    <2>9. ValueForKey(all, k) = IF k \in KeysOf(s) THEN FirstValue(s, k) ELSE ValueForKey(lvb, k)
      <3>1. all = said \o lvb
        BY <2>7 DEF Joined
      <3> QED BY <2>4, <2>8, <3>1 DEF Told
    <2>10. ValueForKey(lvb, k) = IF x.key = k THEN value ELSE ValueForKey(b, k)
      BY <1>1, <1>2, <1>3, <1>5, <1>11, <2>1, <2>3, ValueIsFound
    <2>11. /\ KeysOf(more) = KeysOf(s) \cup {x.key}
           /\ \A key \in KeysOf(s) : FirstValue(more, key) = FirstValue(s, key)
           /\ x.key \notin KeysOf(s) => FirstValue(more, x.key) = value
      BY FirstValueAppend DEF value
    <2> HIDE DEF more
    <2>12. ValueForKey(all, k) = IF k \in KeysOf(more) THEN FirstValue(more, k) ELSE ValueForKey(b, k)
      <3>1. CASE k \in KeysOf(s)
        BY <2>9, <2>11, <3>1
      <3>2. CASE k \notin KeysOf(s) /\ x.key = k
        BY <2>9, <2>10, <2>11, <3>2
      <3>3. CASE k \notin KeysOf(s) /\ x.key # k
        BY <2>9, <2>10, <2>11, <3>3
      <3> QED BY <3>1, <3>2, <3>3
    <2> QED BY <2>12 DEF all
  <1> QED BY <1>6, <1>10, <1>11 DEF Told

LEMMA NothingAtEnd ==
  ASSUME NEW T, NEW w \in Seq(T), NEW key, Opening(w, key), NEW k \in T, Mark \in T
  PROVE  ValueForKey(w, k) = None
  <1>1. Len(w) = 3
    BY DEF Opening
  <1>2. CASE KeyPlaces(w, k) = {}
    BY <1>2, ValueIs
  <1>3. CASE KeyPlaces(w, k) # {}
    <2>1. \A i \in KeyPlaces(w, k) : i = 1
      BY <1>1 DEF KeyPlaces
    <2>2. 1 \in KeyPlaces(w, k) /\ \A j \in KeyPlaces(w, k) : 1 <= j
      BY <1>3, <2>1
    <2>3. ValueForKey(w, k) = ValueAt(w, 1)
      BY <2>2, ValueIs
    <2>4. SubSeq(w, 1 + 3, Len(w)) = <<>>
      BY <1>1, SubSeqEmpty
    <2>5. First(<<>>, Mark) = 0
      BY DEF First
    <2> QED BY <2>3, <2>4, <2>5 DEF ValueAt
  <1> QED BY <1>2, <1>3

(* utils::value_for_key finds the first value that was sent of a key, and  *)
(* no value of a key that was not sent, unless some value is its name.     *)
THEOREM TextIsReadBack ==
  ASSUME NEW pairs, NEW asked, IsText(pairs, asked)
  PROVE  TextReadBack(pairs, asked)
  <1> DEFINE W == {pairs[i].key : i \in 1..Len(pairs)}
                    \cup UNION {Range(pairs[i].value) : i \in 1..Len(pairs)}
             end == "final"
             T == W \cup {Mark, asked, end}
             Given(s) == \A i \in 1..Len(s) : s[i].value # <<asked>>
             said(s) == Say!Fold(0, <<>>, s)
             Good(s) == Given(s) => Told(s, said(s), T, asked)
             P == {s \in Seq(Said(W)) : Good(s)}
             none == <<>>
             last == <<Mark, end, Mark>>
  <1>1. pairs \in Seq(Said(W)) /\ Mark \notin W /\ asked # Mark
    BY DEF IsText, Said
  <1>2. last \in Seq(T) /\ Opening(last, end) /\ last # <<>> /\ last[1] = Mark
    BY DEF Opening
  <1>3. W \subseteq T /\ asked \in T /\ Mark \in T
    OBVIOUS
  <1>4. Text(pairs) = said(pairs) \o last
    BY TextFold
  <1> HIDE DEF W, T, end, last
  <1>5. <<>> \in P
    <2>1. said(none) = none /\ none \in Seq(Said(W)) /\ none \in Seq(T)
      BY Say!FoldEmpty
    <2>2. KeysOf(none) = {}
      BY DEF KeysOf
    <2>3. \A b \in Seq(T) : none \o b = b
      BY ConcatEmptySeq
    <2>4. Told(none, none, T, asked)
      <3> HIDE DEF none
      <3> QED BY <2>1, <2>2, <2>3 DEF Told
    <2> QED BY <2>1, <2>4
  <1>6. ASSUME NEW s \in Seq(Said(W)), NEW x \in Said(W), s \in P PROVE Append(s, x) \in P
    <2> DEFINE more == Append(s, x)
    <2>1. said(more) = SayStep(0, said(s), x)
      BY Say!FoldAppend
    <2>2. /\ more \in Seq(Said(W)) /\ Len(more) = Len(s) + 1 /\ Len(s) \in Nat
          /\ more[Len(s) + 1] = x /\ \A i \in 1..Len(s) : more[i] = s[i]
      BY AppendProperties, LenProperties
    <2>3. Good(s)
      BY <1>6
    <2> HIDE DEF P, more
    <2>4. ASSUME Given(more) PROVE Told(more, said(more), T, asked)
      <3>1. Len(s) + 1 \in 1..Len(more) /\ \A i \in 1..Len(s) : i \in 1..Len(more)
        BY <2>2
      <3>2. Given(s) /\ x.value # <<asked>>
        BY <2>2, <2>4, <3>1
      <3>3. Told(s, said(s), T, asked)
        BY <2>3, <3>2
      <3> DEFINE r == said(s)
      <3> HIDE DEF r
      <3>4. Told(s, r, T, asked)
        BY <3>3 DEF r
      <3>5. Told(Append(s, x), SayStep(0, r, x), T, asked)
        BY <1>1, <1>3, <3>2, <3>4, MoreIsTold
      <3> QED BY <2>1, <3>5 DEF r, more
    <2> QED BY <2>2, <2>4 DEF P, more
  <1> HIDE DEF P
  <1>7. pairs \in P
    BY <1>1, <1>5, <1>6, Say!InductionAppend
  <1>8. ASSUME Given(pairs)
        PROVE  ValueForKey(Text(pairs), asked) =
                 IF asked \in KeysOf(pairs) THEN FirstValue(pairs, asked) ELSE None
    <2> DEFINE r == said(pairs)
    <2>1. Told(pairs, r, T, asked)
      BY <1>7, <1>8 DEF P
    <2> HIDE DEF r
    <2>2. ValueForKey(r \o last, asked) =
            IF asked \in KeysOf(pairs) THEN FirstValue(pairs, asked) ELSE ValueForKey(last, asked)
      BY <1>2, <2>1 DEF Told
    <2>3. ValueForKey(last, asked) = None
      BY <1>2, <1>3, NothingAtEnd
    <2> QED BY <1>4, <2>2, <2>3 DEF r
  <1> QED BY <1>8 DEF TextReadBack

=============================================================================
