---------------------------- MODULE FormatsProofs ----------------------------
(***************************************************************************)
(* Theorems about the formats, for inputs of every length.                 *)
(***************************************************************************)
EXTENDS Formats, PacketsProofs

(* Names.                                                                  *)
QuoteStep(context, s, t) == IF t = "quote" THEN s \o <<"quote", "quote">> ELSE Append(s, t)

Quote == INSTANCE Folding WITH Op <- QuoteStep

LiteralStep(context, r, t) ==
  IF r.over THEN r
  ELSE IF t = "quote" THEN
    IF r.pair THEN [r EXCEPT !.name = Append(@, t), !.pair = FALSE]
    ELSE [r EXCEPT !.pair = TRUE]
  ELSE IF r.pair \/ t = "end" THEN [r EXCEPT !.over = TRUE]
  ELSE [r EXCEPT !.name = Append(@, t)]

Lit == INSTANCE Folding WITH Op <- LiteralStep

(* What is read of a name while it goes on, and when it is over.           *)
Going(name) == [name |-> name, pair |-> FALSE, over |-> FALSE]
NameRead(name) == [name |-> name, pair |-> FALSE, over |-> TRUE]

LEMMA QuoteNameFolds ==
  ASSUME NEW name
  PROVE  QuoteName(name) = Quote!Fold(0, <<>>, name)
  BY DEF QuoteName, Quote!Fold, QuoteStep, FoldLeft, MapThenFoldSet, Max,
         Quote!MapThenFoldSet, Quote!Greatest

LEMMA LiteralFolds ==
  ASSUME NEW q
  PROVE  Literal(q) = Lit!Fold(0, Going(<<>>), SubSeq(q, First(q, "host") + 1, Len(q))).name
  BY DEF Literal, Going, Lit!Fold, LiteralStep, FoldLeft, MapThenFoldSet, Max,
         Lit!MapThenFoldSet, Lit!Greatest

(* What a name is looked for as is the name.                               *)
LEMMA QuotedIsRead ==
  ASSUME NEW T, NEW name \in Seq(T), "end" \notin T, "quote" \in T
  PROVE  /\ QuoteName(name) \in Seq(T)
         /\ Lit!Fold(0, Going(<<>>), QuoteName(name)) = Going(name)
  <1> DEFINE start == Going(<<>>)
             P == {s \in Seq(T) : /\ QuoteName(s) \in Seq(T)
                                  /\ Lit!Fold(0, start, QuoteName(s)) = Going(s)}
  <1>1. <<>> \in P
    <2>1. <<>> \in Seq(T)
      BY EmptySeq
    <2>2. QuoteName(<<>>) = <<>>
      BY QuoteNameFolds, Quote!FoldEmpty
    <2> QED BY <2>1, <2>2, Lit!FoldEmpty
  <1>2. ASSUME NEW s \in Seq(T), NEW t \in T, s \in P PROVE Append(s, t) \in P
    <2> DEFINE quoted == QuoteName(s)
    <2>1. quoted \in Seq(T) /\ Lit!Fold(0, start, quoted) = Going(s)
      BY <1>2
    <2>2. QuoteName(Append(s, t)) = QuoteStep(0, quoted, t)
      BY QuoteNameFolds, Quote!FoldAppend
    <2> HIDE DEF quoted
    <2>3. CASE t = "quote"
      <3> DEFINE once == Append(quoted, t)
                 twice == Append(once, t)
      <3>1. once \in Seq(T) /\ twice \in Seq(T)
        BY <2>1
      <3>2. QuoteName(Append(s, t)) = twice
        BY <2>1, <2>2, <2>3 DEF QuoteStep
      <3>3. Lit!Fold(0, start, once) = LiteralStep(0, Going(s), t)
        BY <2>1, Lit!FoldAppend
      <3> HIDE DEF once
      <3>4. Lit!Fold(0, start, twice) = LiteralStep(0, Lit!Fold(0, start, once), t)
        BY <3>1, Lit!FoldAppend
      <3>5. LiteralStep(0, LiteralStep(0, Going(s), t), t) = Going(Append(s, t))
        BY <2>3 DEF LiteralStep, Going, NameRead
      <3> HIDE DEF twice
      <3> QED BY <3>1, <3>2, <3>3, <3>4, <3>5
    <2>4. CASE t # "quote"
      <3>1. QuoteName(Append(s, t)) = Append(quoted, t) /\ Append(quoted, t) \in Seq(T)
        BY <2>1, <2>2, <2>4 DEF QuoteStep
      <3>2. Lit!Fold(0, start, Append(quoted, t)) = LiteralStep(0, Going(s), t)
        BY <2>1, Lit!FoldAppend
      <3>3. LiteralStep(0, Going(s), t) = Going(Append(s, t))
        BY <2>4 DEF LiteralStep, Going, NameRead
      <3>4. Append(s, t) \in Seq(T)
        OBVIOUS
      <3>5. Lit!Fold(0, start, QuoteName(Append(s, t))) = Going(Append(s, t))
        BY <3>1, <3>2, <3>3
      <3> QED BY <3>1, <3>4, <3>5
    <2> QED BY <2>3, <2>4
  <1> HIDE DEF P
  <1>3. name \in P
    BY <1>1, <1>2, Quote!InductionAppend
  <1> QED BY <1>3 DEF P

LEMMA OverStays ==
  ASSUME NEW T, NEW rest \in Seq(T), NEW name
  PROVE  Lit!Fold(0, NameRead(name), rest) = NameRead(name)
  <1> DEFINE over == NameRead(name)
             P == {s \in Seq(T) : Lit!Fold(0, over, s) = over}
  <1>1. <<>> \in P
    BY EmptySeq, Lit!FoldEmpty
  <1>2. ASSUME NEW s \in Seq(T), NEW t \in T, s \in P PROVE Append(s, t) \in P
    <2>1. Lit!Fold(0, over, Append(s, t)) = LiteralStep(0, Lit!Fold(0, over, s), t)
      BY Lit!FoldAppend
    <2>2. LiteralStep(0, over, t) = over
      BY DEF LiteralStep, Going, NameRead
    <2> QED BY <1>2, <2>1, <2>2
  <1> HIDE DEF P
  <1>3. rest \in P
    BY <1>1, <1>2, Lit!InductionAppend
  <1> QED BY <1>3 DEF P

(* Tokens, whose values no step but the last ones are about.               *)
Gametype == "gametype"
Host == "host"
EndOfName == "end"
Blank == "blank"
And == "and"
QuoteMark == "quote"

(* The rest of a query after the name, with what goes before a gametype.   *)
LEMMA Separated ==
  ASSUME NEW T, NEW q, NEW a, NEW more, Joined(T, q, a, more), Blank \in T, And \in T,
         Free(a, Gametype)
  PROVE  \E rest \in Seq(T) : Joined(T, SeparateGametype(q), a, rest)
  <1> DEFINE i == First(q, Gametype)
  <1>1. /\ q \in Seq(T) /\ Len(q) = Len(a) + Len(more)
        /\ Len(a) \in Nat /\ Len(more) \in Nat
    BY JoinedParts
  <1>6. SubSeq(q, 1, Len(a)) = a
    BY JoinedCut
  <1>7. \A j \in 1..Len(a) : q[j] = a[j]
    BY JoinedAt
  <1>2. Len(q) \in Nat
    BY <1>1, LenProperties
  <1>3. \A j \in 1..Len(a) : q[j] # Gametype
    BY <1>7 DEF Free
  <1>4. CASE SeparateGametype(q) = q
    BY <1>4 DEF Joined
  <1>5. CASE SeparateGametype(q) # q
    <2>1. /\ i > 1
          /\ SeparateGametype(q) = SubSeq(q, 1, i - 1) \o <<Blank, And, Blank>> \o SubSeq(q, i, Len(q))
      BY <1>5, Zenon DEF SeparateGametype, Gametype, Blank, And
    <2>2. i # 0
      BY <2>1
    <2>3. i \in 1..Len(q) /\ q[i] = Gametype
      BY <1>1, <2>2, FirstAmong
    <2>4. i \in Nat /\ i > Len(a) /\ i <= Len(q)
      <3>1. i \notin 1..Len(a)
        BY <1>3, <2>3
      <3>2. i \in 1..Len(q)
        BY <2>3
      <3> HIDE DEF i
      <3> QED BY <1>1, <1>2, <3>1, <3>2
    <2> HIDE DEF i
    <2> DEFINE ab == SubSeq(q, 1, i - 1)
               b == SubSeq(q, Len(a) + 1, i - 1)
               c == <<Blank, And, Blank>>
               d == SubSeq(q, i, Len(q))
               bc == b \o c
               abc == ab \o c
    <2>5. ab = a \o b
      <3>1. 1 \in 1..Len(q) + 1 /\ Len(a) \in 1 - 1..Len(q) /\ i - 1 \in Len(a)..Len(q)
        BY <1>1, <2>4
      <3>2. SubSeq(q, 1, Len(a)) \o SubSeq(q, Len(a) + 1, i - 1) = SubSeq(q, 1, i - 1)
        BY <1>1, <3>1, ConcatAdjacentSubSeq
      <3> QED BY <1>6, <3>2
    <2>6. b \in Seq(T) /\ d \in Seq(T)
      <3>1. \A j \in Len(a) + 1..i - 1 : q[j] \in T
        BY <1>1, <2>4
      <3>2. \A j \in i..Len(q) : q[j] \in T
        BY <1>1, <2>4
      <3>3. Len(a) + 1 \in Int /\ i - 1 \in Int /\ i \in Int /\ Len(q) \in Int
        BY <1>1, <2>4
      <3>4. SubSeq(q, Len(a) + 1, i - 1) \in Seq(T)
        BY <3>1, <3>3, SubSeqProperties
      <3>5. SubSeq(q, i, Len(q)) \in Seq(T)
        BY <3>2, <3>3, SubSeqProperties
      <3> QED BY <3>4, <3>5
    <2>7. c \in Seq(T)
      OBVIOUS
    <2>8. SeparateGametype(q) = abc \o d
      BY <2>1
    <2>9. a \in Seq(T)
      BY DEF Joined
    <2> HIDE DEF ab, b, c, d
    <2>10. Joined(T, ab, a, b) /\ Joined(T, bc, b, c)
      BY <2>5, <2>6, <2>7, <2>9 DEF Joined
    <2>11. ab \in Seq(T) /\ bc \in Seq(T)
      BY <2>10, JoinedParts
    <2> HIDE DEF bc
    <2>12. Joined(T, abc, ab, c)
      BY <2>7, <2>11 DEF Joined
    <2> HIDE DEF abc
    <2>13. Joined(T, abc, a, bc)
      BY <2>10, <2>12, Regrouped
    <2>14. abc \in Seq(T)
      BY <2>12, JoinedParts
    <2> DEFINE bcd == bc \o d
    <2>15. Joined(T, SeparateGametype(q), abc, d) /\ Joined(T, bcd, bc, d)
      BY <2>6, <2>8, <2>11, <2>14 DEF Joined
    <2> HIDE DEF bcd
    <2>16. Joined(T, SeparateGametype(q), a, bcd)
      BY <2>13, <2>15, Regrouped
    <2>17. bcd \in Seq(T)
      BY <2>15, JoinedParts
    <2> QED BY <2>16, <2>17
  <1> QED BY <1>4, <1>5

(* What follows the name does not change what is read.                     *)
LEMMA ReadToItsEnd ==
  ASSUME NEW T, NEW name, NEW quoted \in Seq(T), NEW rest \in Seq(T), EndOfName \in T,
         Lit!Fold(0, Going(<<>>), quoted) = Going(name)
  PROVE  Lit!Fold(0, Going(<<>>), quoted \o (<<EndOfName>> \o rest)) = NameRead(name)
  <1> DEFINE end == <<EndOfName>>
             behind == end \o rest
  <1>1. end \in Seq(T)
    OBVIOUS
  <1>2. Lit!Fold(0, Going(name), end) = NameRead(name)
    <2>1. Lit!Fold(0, Going(name), end) = LiteralStep(0, Going(name), EndOfName)
      BY Lit!FoldOne
    <2>2. LiteralStep(0, Going(name), EndOfName) = NameRead(name)
      BY DEF LiteralStep, Going, NameRead, EndOfName
    <2> QED BY <2>1, <2>2
  <1> HIDE DEF end
  <1>3. behind \in Seq(T)
    BY <1>1, ConcatProperties
  <1>4. Lit!Fold(0, Going(name), behind) = Lit!Fold(0, Lit!Fold(0, Going(name), end), rest)
    BY <1>1, Lit!FoldConcat
  <1> HIDE DEF behind
  <1>5. Lit!Fold(0, Going(<<>>), quoted \o behind) = Lit!Fold(0, Lit!Fold(0, Going(<<>>), quoted), behind)
    BY <1>3, Lit!FoldConcat
  <1>6. Lit!Fold(0, NameRead(name), rest) = NameRead(name)
    BY OverStays
  <1>7. Lit!Fold(0, Going(<<>>), quoted \o behind) = NameRead(name)
    BY <1>2, <1>4, <1>5, <1>6
  <1> QED BY <1>7 DEF behind, end

(* The query once its names are quoted.                                    *)
LEMMA Quoted ==
  ASSUME NEW T, NEW q, NEW host, NEW name, NEW hostName, NEW behind, NEW z,
         Joined(T, hostName, host, name), Joined(T, q, hostName, behind), Joined(T, z, name, behind),
         Only(host, Host), Len(behind) # 0, behind[1] = EndOfName, Free(name, EndOfName)
  PROVE  QuoteHostname(q) = (host \o QuoteName(name)) \o behind
  <1> DEFINE i == First(q, Host)
             n == First(SubSeq(q, i + 1, Len(q)), EndOfName)
  <1>1. Joined(T, q, host, z)
    BY Regrouped
  <1>2. i = 1 /\ SubSeq(q, 2, Len(q)) = z
    BY <1>1, JoinedFront
  <1>3. First(z, EndOfName) = Len(name) + 1
    BY JoinedFirst
  <1>4. Len(name) \in Nat /\ Len(hostName) = 1 + Len(name)
    <2>1. Len(name) \in Nat /\ Len(hostName) = Len(host) + Len(name)
      BY JoinedParts
    <2> QED BY <2>1 DEF Only
  <1>5. n = Len(name) + 1
    <2>1. i + 1 = 2
      BY <1>2
    <2> HIDE DEF i
    <2>2. n = First(SubSeq(q, 2, Len(q)), EndOfName)
      BY <2>1
    <2> QED BY <1>2, <1>3, <2>2
  <1>6. QuoteHostname(q) = IF i = 0 \/ n = 0 THEN q
          ELSE SubSeq(q, 1, i) \o QuoteName(SubSeq(q, i + 1, i + n - 1)) \o SubSeq(q, i + n, Len(q))
    BY Zenon DEF QuoteHostname, Host, EndOfName
  <1> HIDE DEF i, n
  <1>7. /\ ~(i = 0 \/ n = 0)
        /\ i + 1 = 2 /\ i + n - 1 = Len(name) + 1 /\ i + n = Len(name) + 2
    BY <1>2, <1>4, <1>5
  <1>8. QuoteHostname(q) = SubSeq(q, 1, 1) \o QuoteName(SubSeq(q, 2, Len(name) + 1)) \o SubSeq(q, Len(name) + 2, Len(q))
    BY <1>2, <1>6, <1>7
  <1>9. SubSeq(q, 2, Len(name) + 1) = name
    <2>1. SubSeq(q, Len(host) + 1, Len(hostName)) = name
      BY JoinedMiddle
    <2>2. Len(host) + 1 = 2 /\ Len(hostName) = Len(name) + 1
      BY <1>4 DEF Only
    <2> QED BY <2>1, <2>2
  <1>10. SubSeq(q, Len(name) + 2, Len(q)) = behind
    <2>1. SubSeq(q, Len(hostName) + 1, Len(q)) = behind
      BY JoinedCut
    <2>2. Len(hostName) + 1 = Len(name) + 2
      BY <1>4
    <2> QED BY <2>1, <2>2
  <1>11. SubSeq(q, 1, 1) = host
    <2>1. SubSeq(q, 1, Len(host)) = host
      BY <1>1, JoinedCut
    <2> QED BY <2>1 DEF Only
  <1> QED BY <1>8, <1>9, <1>10, <1>11

LEMMA NameReads ==
  ASSUME NEW T, NEW name \in Seq(T), NEW U, NEW more \in Seq(U), T \subseteq U,
         Host \in U, EndOfName \in U, Blank \in U, And \in U, Gametype \notin T,
         EndOfName \notin T, QuoteMark \in T, Host # Gametype, EndOfName # Gametype
  PROVE  Literal(Rewrite(((<<Host>> \o name) \o <<EndOfName>>) \o more)) = name
  <1> DEFINE host == <<Host>>
             end == <<EndOfName>>
             quoted == QuoteName(name)
             hostName == host \o name
             before == hostName \o end
             query == before \o more
  <1>1. /\ host \in Seq(U) /\ Len(host) = 1 /\ host[1] = Host
        /\ end \in Seq(U) /\ Len(end) = 1 /\ end[1] = EndOfName
    OBVIOUS
  <1>2. name \in Seq(U)
    BY SeqMonotonic
  <1>3. Free(name, EndOfName) /\ Free(name, Gametype)
    <2>1. \A k \in 1..Len(name) : name[k] \in T
      BY ElementOfSeq
    <2> QED BY <2>1 DEF Free
  <1>4. Free(host, Gametype) /\ Free(end, Gametype)
    BY <1>1 DEF Free
  <1>5. quoted \in Seq(U) /\ Lit!Fold(0, Going(<<>>), quoted) = Going(name)
    <2>1. quoted \in Seq(T) /\ Lit!Fold(0, Going(<<>>), quoted) = Going(name)
      BY QuotedIsRead DEF EndOfName, QuoteMark
    <2> HIDE DEF quoted
    <2>2. quoted \in Seq(U)
      BY <2>1, SeqMonotonic
    <2> QED BY <2>1, <2>2
  <1> HIDE DEF host, end, quoted
  <1>6. Joined(U, hostName, host, name)
    BY <1>1, <1>2 DEF Joined
  <1> HIDE DEF hostName
  <1>7. hostName \in Seq(U)
    BY <1>6, JoinedParts
  <1>8. Joined(U, before, hostName, end)
    BY <1>1, <1>7 DEF Joined
  <1> HIDE DEF before
  <1>9. Free(hostName, Gametype)
    BY <1>3, <1>4, <1>6, JoinedFree
  <1>10. Free(before, Gametype)
    BY <1>4, <1>8, <1>9, JoinedFree
  <1>11. before \in Seq(U)
    BY <1>8, JoinedParts
  <1>12. Joined(U, query, before, more)
    BY <1>11 DEF Joined
  <1> HIDE DEF query
  <1> DEFINE q == SeparateGametype(query)
  <1>13. PICK rest \in Seq(U) : Joined(U, q, before, rest)
    BY <1>10, <1>12, Separated
  <1> HIDE DEF q
  <1> DEFINE behind == end \o rest
             z == name \o behind
             looked == quoted \o behind
  <1>14. Joined(U, behind, end, rest)
    BY <1>1 DEF Joined
  <1> HIDE DEF behind
  <1>15. Joined(U, q, hostName, behind)
    BY <1>8, <1>13, <1>14, Regrouped
  <1>16. behind \in Seq(U) /\ Len(behind) # 0 /\ behind[1] = EndOfName
    <2>1. behind \in Seq(U) /\ Len(behind) = Len(end) + Len(rest) /\ Len(rest) \in Nat
      BY <1>14, JoinedParts
    <2>2. 1 \in 1..Len(end)
      BY <1>1
    <2>3. behind[1] = end[1]
      BY <1>14, <2>2, JoinedAt
    <2> QED BY <1>1, <2>1, <2>3
  <1>17. Joined(U, z, name, behind)
    BY <1>2, <1>16 DEF Joined
  <1> HIDE DEF z
  <1> DEFINE hostQuoted == host \o quoted
             final == hostQuoted \o behind
  <1>18. QuoteHostname(q) = final
    BY <1>1, <1>3, <1>6, <1>15, <1>16, <1>17, Quoted DEF quoted, Only
  <1>19. Joined(U, hostQuoted, host, quoted) /\ Joined(U, looked, quoted, behind)
    BY <1>1, <1>5, <1>16 DEF Joined
  <1> HIDE DEF hostQuoted
  <1>20. hostQuoted \in Seq(U)
    BY <1>19, JoinedParts
  <1>21. Joined(U, final, hostQuoted, behind)
    BY <1>16, <1>20 DEF Joined
  <1>22. Lit!Fold(0, Going(<<>>), looked) = NameRead(name)
    BY <1>5, ReadToItsEnd DEF behind, end
  <1> HIDE DEF looked, final
  <1>23. Joined(U, final, host, looked)
    BY <1>19, <1>21, Regrouped
  <1>24. First(final, Host) = 1 /\ SubSeq(final, 2, Len(final)) = looked
    BY <1>1, <1>23, JoinedFront DEF Only
  <1>25. SubSeq(final, First(final, Host) + 1, Len(final)) = looked
    BY <1>24
  <1>26. Literal(final) = Lit!Fold(0, Going(<<>>), SubSeq(final, First(final, Host) + 1, Len(final))).name
    BY LiteralFolds, Zenon DEF Host
  <1>27. Literal(final) = name
    <2>1. Literal(final) = NameRead(name).name
      BY <1>22, <1>25, <1>26
    <2> QED BY <2>1 DEF NameRead
  <1>28. Rewrite(query) = final
    BY <1>18 DEF Rewrite, q
  <1> QED BY <1>27, <1>28 DEF query, before, hostName, host, end

(* BF2::GetServers: SQLite looks for the name the client has asked for,    *)
(* whatever quotes are in it and whatever follows it.                      *)
THEOREM NameIsReadBack ==
  ASSUME NEW T, NEW name \in Seq(T), NEW more \in Seq(T \cup {"end", "gametype"}),
         T \cap {"host", "end", "gametype"} = {}, "quote" \in T, "blank" \in T, "and" \in T
  PROVE  NameReadBack(name, more)
  <1> DEFINE U == T \cup {"host", "end", "gametype"}
  <1>1. more \in Seq(U) /\ T \subseteq U
    BY SeqMonotonic
  <1>2. /\ Host \in U /\ EndOfName \in U /\ Blank \in U /\ And \in U
        /\ Gametype \notin T /\ EndOfName \notin T /\ QuoteMark \in T
        /\ Host # Gametype /\ EndOfName # Gametype
    BY DEF Host, EndOfName, Blank, And, Gametype, QuoteMark
  <1> HIDE DEF U
  <1>3. Literal(Rewrite(((<<Host>> \o name) \o <<EndOfName>>) \o more)) = name
    BY <1>1, <1>2, NameReads
  <1> QED BY <1>3, Zenon DEF NameReadBack, Host, EndOfName
LEMMA FilterIsReadBack ==
  ASSUME NEW name, NEW more, IsFilter(name, more)
  PROVE  NameReadBack(name, more)
  <1> DEFINE T == ({name[i] : i \in 1..Len(name)} \cup {more[i] : i \in 1..Len(more)}
                     \cup {"quote", "blank", "and"}) \ {"end", "gametype"}
  <1>1. name \in Seq(T) /\ more \in Seq(T \cup {"end", "gametype"}) /\ "host" \notin T
    BY Zenon DEF IsFilter
  <1>2. "quote" \in T /\ "blank" \in T /\ "and" \in T /\ "end" \notin T /\ "gametype" \notin T
    OBVIOUS
  <1> HIDE DEF T
  <1>3. T \cap {"host", "end", "gametype"} = {}
    BY <1>1, <1>2
  <1> QED BY <1>1, <1>2, <1>3, NameIsReadBack
LEMMA TerminatorIs ==
  ASSUME NEW p, NEW i, NEW j \in i..Len(p), p[j] = 0, i \in Nat, Len(p) \in Nat,
         \A k \in i..Len(p) : p[k] = 0 => j <= k
  PROVE  Terminator(p, i) = j
  <1> DEFINE zeros == {k \in i..Len(p) : p[k] = 0}
             Least(k) == \A l \in zeros : k <= l
  <1>1. j \in zeros /\ Least(j) /\ \A k \in zeros : k \in Nat
    OBVIOUS
  <1> DEFINE least == CHOOSE k \in zeros : Least(k)
  <1>2. Terminator(p, i) = least
    BY <1>1 DEF Terminator
  <1>3. least \in zeros /\ Least(least)
    <2> HIDE DEF zeros, Least
    <2> QED BY <1>1
  <1>4. j <= least /\ least <= j /\ least \in Nat /\ j \in Nat
    <2> HIDE DEF least
    <2> QED BY <1>1, <1>3
  <1> HIDE DEF least
  <1> QED BY <1>2, <1>4

LEMMA NoTerminator ==
  ASSUME NEW p, NEW i, \A k \in i..Len(p) : p[k] # 0
  PROVE  Terminator(p, i) = Len(p) + 1
  BY DEF Terminator

(* The place a text is looked for: behind what is before it, or beyond the *)
(* end.                                                                    *)
Place(n, i, a) == i \in Nat /\ (Len(a) <= n => i = Len(a) + 1) /\ (n < Len(a) => n + 1 < i)

LEMMA StringIsRead ==
  ASSUME NEW T, NEW p, NEW whole, NEW n, CutOf(T, p, whole, n),
         NEW a, NEW text, NEW w, NEW zero, NEW z,
         Joined(T, w, a, text), Joined(T, z, w, zero), Only(zero, 0), Free(text, 0), Begins(whole, z),
         NEW i, Place(n, i, a)
  PROVE  /\ Place(n, After(p, i), z)
         /\ Len(z) <= n => String(p, i) = text
  <1>1. p \in Seq(T) /\ Len(p) = n /\ n \in Nat /\ n <= Len(whole) /\ Len(whole) \in Nat
    BY CutFields
  <1>2. \A k \in 1..n : p[k] = whole[k]
    BY CutFields
  <1>3. Len(w) = Len(a) + Len(text) /\ Len(a) \in Nat /\ Len(text) \in Nat
    BY JoinedParts
  <1>4. Len(z) = Len(w) + Len(zero)
    BY JoinedParts
  <1>5. Len(zero) = 1 /\ zero[1] = 0
    BY DEF Only
  <1>6. Len(z) = Len(a) + Len(text) + 1
    BY <1>3, <1>4, <1>5
  <1>7. \A k \in 1..Len(z) : whole[k] = z[k]
    BY DEF Begins
  <1>8. /\ \A k \in 1..Len(w) : z[k] = w[k]
        /\ z[Len(w) + 1] = 0
    <2>1. \A k \in 1..Len(w) : z[k] = w[k]
      BY JoinedAt
    <2>2. 1 \in 1..Len(zero)
      BY <1>5
    <2>3. z[Len(w) + 1] = zero[1]
      <3>1. w \in Seq(T) /\ zero \in Seq(T) /\ z = w \o zero
        BY DEF Joined
      <3> QED BY <2>2, <3>1, ConcatAt
    <2> QED BY <1>5, <2>1, <2>3
  <1>9. \A k \in 1..Len(text) : w[Len(a) + k] = text[k]
    <2>1. a \in Seq(T) /\ text \in Seq(T) /\ w = a \o text
      BY DEF Joined
    <2> QED BY <2>1, ConcatAt
  <1>10. \A k \in Len(a) + 1..Len(z) - 1 : z[k] # 0
    <2> SUFFICES ASSUME NEW k \in Len(a) + 1..Len(z) - 1 PROVE z[k] # 0
      OBVIOUS
    <2>1. k - Len(a) \in 1..Len(text) /\ Len(a) + (k - Len(a)) = k /\ k \in 1..Len(w)
      BY <1>3, <1>6
    <2>2. w[Len(a) + (k - Len(a))] = text[k - Len(a)]
      BY <1>9, <2>1
    <2> QED BY <1>8, <2>1, <2>2 DEF Free
  <1>11. i \in Nat /\ (Len(a) <= n => i = Len(a) + 1) /\ (n < Len(a) => n + 1 < i)
    BY DEF Place
  <1>12. CASE Len(z) <= n
    <2>1. i = Len(a) + 1 /\ Len(z) \in i..Len(p)
      BY <1>1, <1>3, <1>6, <1>11, <1>12
    <2>2. \A k \in i..Len(z) : p[k] = z[k]
      <3>1. \A k \in i..Len(z) : k \in 1..n /\ k \in 1..Len(z)
        BY <1>1, <1>3, <1>6, <1>12, <2>1
      <3> QED BY <1>2, <1>7, <3>1
    <2>3. p[Len(z)] = 0
      <3>1. Len(z) \in i..Len(z) /\ Len(w) + 1 = Len(z)
        BY <1>3, <1>6, <2>1
      <3> QED BY <1>8, <2>2, <3>1
    <2>4. \A k \in i..Len(p) : p[k] = 0 => Len(z) <= k
      <3> SUFFICES ASSUME NEW k \in i..Len(p), ~(Len(z) <= k) PROVE p[k] # 0
        OBVIOUS
      <3>1. k \in Len(a) + 1..Len(z) - 1 /\ k \in i..Len(z)
        BY <1>1, <1>3, <1>6, <2>1
      <3> QED BY <1>10, <2>2, <3>1
    <2>5. Len(p) \in Nat
      BY <1>1
    <2>6. Terminator(p, i) = Len(z)
      BY <1>11, <2>1, <2>3, <2>4, <2>5, TerminatorIs
    <2>7. Place(n, After(p, i), z)
      BY <1>1, <1>3, <1>6, <1>12, <2>6 DEF Place, After
    <2>8. SubSeq(p, i, Len(z) - 1) = text
      <3> DEFINE s == SubSeq(p, i, Len(z) - 1)
      <3>1. i \in Nat /\ Len(z) - 1 \in Int /\ Len(z) - 1 = i + Len(text) - 1
        BY <1>3, <1>6, <1>11, <2>1
      <3>2. \A k \in i..Len(z) - 1 : p[k] \in T
        <4>1. \A k \in i..Len(z) - 1 : k \in 1..Len(p)
          BY <1>1, <1>3, <1>6, <1>12, <2>1
        <4> QED BY <1>1, <4>1, ElementOfSeq
      <3>3. s \in Seq(T)
        BY <3>1, <3>2, SubSeqProperties
      <3>4. Len(s) = Len(text)
        <4>1. Len(SubSeq(p, i, Len(z) - 1)) = IF i <= Len(z) - 1 THEN Len(z) - 1 - i + 1 ELSE 0
          BY <3>1, SubSeqProperties
        <4> HIDE DEF s
        <4> QED BY <1>3, <3>1, <4>1 DEF s
      <3>5. \A k \in 1..Len(text) : s[k] = p[i + k - 1]
        <4>1. \A k \in 1..Len(z) - 1 - i + 1 : SubSeq(p, i, Len(z) - 1)[k] = p[i + k - 1]
          BY <3>1, SubSeqProperties
        <4>2. Len(z) - 1 - i + 1 = Len(text)
          BY <1>3, <3>1
        <4> QED BY <4>1, <4>2
      <3>6. \A k \in 1..Len(text) : p[i + k - 1] = text[k]
        <4> SUFFICES ASSUME NEW k \in 1..Len(text) PROVE p[i + k - 1] = text[k]
          OBVIOUS
        <4>1. i + k - 1 = Len(a) + k /\ Len(a) + k \in i..Len(z) /\ Len(a) + k \in 1..Len(w)
          BY <1>3, <1>6, <2>1
        <4>2. p[Len(a) + k] = z[Len(a) + k]
          BY <2>2, <4>1
        <4> QED BY <1>8, <1>9, <4>1, <4>2
      <3>7. text \in Seq(T)
        BY DEF Joined
      <3> HIDE DEF s
      <3>8. s = text
        BY <3>3, <3>4, <3>5, <3>6, <3>7, SeqEqual
      <3> QED BY <3>8 DEF s
    <2> QED BY <2>6, <2>7, <2>8 DEF String
  <1>13. CASE n < Len(z)
    <2>1. \A k \in i..Len(p) : p[k] # 0
      <3> SUFFICES ASSUME NEW k \in i..Len(p) PROVE p[k] # 0
        OBVIOUS
      <3>1. /\ k \in 1..n /\ k \in 1..Len(z) /\ k \in Len(a) + 1..Len(z) - 1
        BY <1>1, <1>3, <1>6, <1>11, <1>13
      <3> QED BY <1>2, <1>7, <1>10, <3>1
    <2>2. Terminator(p, i) = n + 1
      BY <1>1, <2>1, NoTerminator
    <2>3. ~(Len(z) <= n)
      BY <1>1, <1>3, <1>6, <1>13
    <2> QED BY <1>1, <1>3, <1>6, <1>13, <2>2, <2>3 DEF Place, After
  <1>14. Len(z) <= n \/ n < Len(z)
    BY <1>1, <1>3, <1>6
  <1> QED BY <1>12, <1>13, <1>14

-----------------------------------------------------------------------------
(* The fields of a request.                                                *)
SplitStep(context, names, c) ==
  IF c = Backslash THEN Append(names, <<>>)
  ELSE [names EXCEPT ![Len(names)] = Append(@, c)]

Cut == INSTANCE Folding WITH Op <- SplitStep

ListStep(context, s, f) == s \o <<Backslash>> \o f

Listed == INSTANCE Folding WITH Op <- ListStep

LEMMA FieldListFolds ==
  ASSUME NEW fields
  PROVE  FieldList(fields) = Listed!Fold(0, <<>>, fields)
  BY DEF FieldList, Listed!Fold, ListStep, FoldLeft, MapThenFoldSet, Max,
         Listed!MapThenFoldSet, Listed!Greatest

LEMMA SplitFolds ==
  ASSUME NEW s
  PROVE  Split(s) = Cut!Fold(0, <<<<>>>>, Tail(s))
  BY DEF Split, Cut!Fold, SplitStep, FoldLeft, MapThenFoldSet, Max,
         Cut!MapThenFoldSet, Cut!Greatest

(* The last name goes on.                                                  *)
LEMMA LastGrows ==
  ASSUME NEW T, NEW names \in Seq(Seq(T)), NEW f \in Seq(T), NEW c \in T, c # Backslash
  PROVE  SplitStep(0, Append(names, f), c) = Append(names, Append(f, c))
  <1> DEFINE from == Append(names, f)
             to == Append(names, Append(f, c))
             n == Len(names) + 1
             step == SplitStep(0, from, c)
  <1>1. /\ from \in Seq(Seq(T)) /\ Len(from) = n /\ from[n] = f
        /\ \A i \in 1..Len(names) : from[i] = names[i]
    BY AppendProperties
  <1>2. Append(f, c) \in Seq(T)
    OBVIOUS
  <1>3. /\ to \in Seq(Seq(T)) /\ Len(to) = n /\ to[n] = Append(f, c)
        /\ \A i \in 1..Len(names) : to[i] = names[i]
    BY <1>2, AppendProperties
  <1>4. Len(names) \in Nat
    BY LenProperties
  <1> HIDE DEF from, to
  <1>5. step = [from EXCEPT ![n] = Append(f, c)]
    BY <1>1 DEF SplitStep
  <1> HIDE DEF step
  <1>6. step \in Seq(Seq(T)) /\ Len(step) = n /\ step[n] = Append(f, c)
    BY <1>1, <1>2, <1>4, <1>5
  <1>7. \A i \in 1..Len(names) : step[i] = names[i]
    BY <1>1, <1>4, <1>5
  <1>8. \A i \in 1..n : step[i] = to[i]
    <2> SUFFICES ASSUME NEW i \in 1..n PROVE step[i] = to[i]
      OBVIOUS
    <2>1. CASE i = n
      BY <1>3, <1>6, <2>1
    <2>2. CASE i # n
      <3>1. i \in 1..Len(names)
        BY <1>4, <2>2
      <3>2. step[i] = names[i]
        BY <1>7, <3>1
      <3>3. to[i] = names[i]
        BY <1>3, <3>1
      <3> QED BY <3>2, <3>3
    <2> QED BY <2>1, <2>2
  <1>9. step = to
    BY <1>3, <1>6, <1>8, SeqEqual
  <1> QED BY <1>9 DEF step, from, to

LEMMA NameIsSplit ==
  ASSUME NEW T, NEW names \in Seq(Seq(T)), NEW f \in Seq(T), Free(f, Backslash)
  PROVE  Cut!Fold(0, Append(names, <<>>), f) = Append(names, f)
  <1> DEFINE start == Append(names, <<>>)
             P == {g \in Seq(T) : Free(g, Backslash) => Cut!Fold(0, start, g) = Append(names, g)}
  <1>1. <<>> \in P
    BY EmptySeq, Cut!FoldEmpty
  <1>2. ASSUME NEW g \in Seq(T), NEW c \in T, g \in P PROVE Append(g, c) \in P
    <2> SUFFICES ASSUME Free(Append(g, c), Backslash)
                 PROVE  Cut!Fold(0, start, Append(g, c)) = Append(names, Append(g, c))
      OBVIOUS
    <2>1. Free(g, Backslash) /\ c # Backslash
      <3>1. /\ Len(Append(g, c)) = Len(g) + 1 /\ Len(g) \in Nat
            /\ Append(g, c)[Len(g) + 1] = c
            /\ \A i \in 1..Len(g) : Append(g, c)[i] = g[i]
        BY AppendProperties, LenProperties
      <3>2. Len(g) + 1 \in 1..Len(g) + 1 /\ \A i \in 1..Len(g) : i \in 1..Len(g) + 1
        BY <3>1
      <3> QED BY <3>1, <3>2 DEF Free
    <2>2. Cut!Fold(0, start, Append(g, c)) = SplitStep(0, Cut!Fold(0, start, g), c)
      BY Cut!FoldAppend
    <2>3. Cut!Fold(0, start, g) = Append(names, g)
      BY <1>2, <2>1
    <2>4. SplitStep(0, Append(names, g), c) = Append(names, Append(g, c))
      BY <2>1, LastGrows
    <2> QED BY <2>2, <2>3, <2>4
  <1> HIDE DEF P
  <1>3. f \in P
    BY <1>1, <1>2, Cut!InductionAppend
  <1> QED BY <1>3 DEF P

LEMMA FieldsAreSplit ==
  ASSUME NEW T, NEW fields \in Seq(Seq(T)), Backslash \in T, Plain(fields)
  PROVE  /\ FieldList(fields) \in Seq(T)
         /\ Free(FieldList(fields), 0)
         /\ Cut!Fold(0, <<>>, FieldList(fields)) = fields
  <1> DEFINE Good(fs) == /\ FieldList(fs) \in Seq(T)
                         /\ Free(FieldList(fs), 0)
                         /\ Cut!Fold(0, <<>>, FieldList(fs)) = fs
             P == {fs \in Seq(Seq(T)) : Plain(fs) => Good(fs)}
  <1>1. <<>> \in P
    <2>1. FieldList(<<>>) = <<>>
      BY FieldListFolds, Listed!FoldEmpty
    <2>2. Cut!Fold(0, <<>>, <<>>) = <<>>
      BY Cut!FoldEmpty
    <2>3. <<>> \in Seq(T) /\ <<>> \in Seq(Seq(T)) /\ Free(<<>>, 0)
      BY DEF Free
    <2> QED BY <2>1, <2>2, <2>3
  <1>2. ASSUME NEW fs \in Seq(Seq(T)), NEW f \in Seq(T), fs \in P PROVE Append(fs, f) \in P
    <2> SUFFICES ASSUME Plain(Append(fs, f)) PROVE Good(Append(fs, f))
      OBVIOUS
    <2>1. Plain(fs) /\ Free(f, 0) /\ Free(f, Backslash)
      <3>1. /\ Len(Append(fs, f)) = Len(fs) + 1 /\ Len(fs) \in Nat
            /\ Append(fs, f)[Len(fs) + 1] = f
            /\ \A i \in 1..Len(fs) : Append(fs, f)[i] = fs[i]
        BY AppendProperties, LenProperties
      <3>2. Len(fs) + 1 \in 1..Len(fs) + 1 /\ \A i \in 1..Len(fs) : i \in 1..Len(fs) + 1
        BY <3>1
      <3> QED BY <3>1, <3>2 DEF Plain
    <2> DEFINE s == FieldList(fs)
               mark == <<Backslash>>
               sm == s \o mark
               smf == sm \o f
    <2>2. s \in Seq(T) /\ Free(s, 0) /\ Cut!Fold(0, <<>>, s) = fs
      BY <1>2, <2>1
    <2>3. FieldList(Append(fs, f)) = smf
      <3>1. Listed!Fold(0, <<>>, Append(fs, f)) = ListStep(0, Listed!Fold(0, <<>>, fs), f)
        BY Listed!FoldAppend
      <3> QED BY <3>1, FieldListFolds DEF ListStep
    <2>4. mark \in Seq(T) /\ Free(mark, 0) /\ Cut!Fold(0, fs, mark) = Append(fs, <<>>)
      <3>1. Cut!Fold(0, fs, mark) = SplitStep(0, fs, Backslash)
        BY Cut!FoldOne
      <3>2. mark \in Seq(T) /\ Len(mark) = 1 /\ mark[1] # 0
        BY DEF Backslash
      <3> QED BY <3>1, <3>2 DEF SplitStep, Free
    <2> HIDE DEF s, mark
    <2>5. Joined(T, sm, s, mark)
      BY <2>2, <2>4 DEF Joined
    <2>6. Cut!Fold(0, <<>>, sm) = Append(fs, <<>>)
      <3>1. Cut!Fold(0, <<>>, s \o mark) = Cut!Fold(0, Cut!Fold(0, <<>>, s), mark)
        BY <2>2, <2>4, Cut!FoldConcat
      <3> QED BY <2>2, <2>4, <3>1
    <2> HIDE DEF sm
    <2>7. sm \in Seq(T)
      BY <2>5, JoinedParts
    <2>8. Free(sm, 0)
      BY <2>2, <2>4, <2>5, JoinedFree
    <2>9. Joined(T, smf, sm, f)
      BY <2>7 DEF Joined
    <2>10. Cut!Fold(0, <<>>, smf) = Append(fs, f)
      <3>1. Cut!Fold(0, <<>>, sm \o f) = Cut!Fold(0, Cut!Fold(0, <<>>, sm), f)
        BY <2>7, Cut!FoldConcat
      <3>2. Cut!Fold(0, Append(fs, <<>>), f) = Append(fs, f)
        BY <2>1, NameIsSplit
      <3> QED BY <2>6, <3>1, <3>2
    <2> HIDE DEF smf
    <2>11. smf \in Seq(T) /\ Free(smf, 0)
      BY <2>1, <2>8, <2>9, JoinedParts, JoinedFree
    <2> QED BY <2>3, <2>10, <2>11
  <1>3. \A fs \in Seq(Seq(T)), f \in Seq(T) : fs \in P => Append(fs, f) \in P
    BY <1>2
  <1>4. P \subseteq Seq(Seq(T))
    OBVIOUS
  <1> HIDE DEF P, Good
  <1>5. Seq(Seq(T)) \subseteq P
    BY <1>1, <1>3, Cut!InductionAppend
  <1>6. fields \in P
    BY <1>5
  <1> QED BY <1>6 DEF P, Good


(* A list that is not empty begins with a backslash.                       *)
LEMMA ListOpens ==
  ASSUME NEW T, NEW fields \in Seq(Seq(T)), Backslash \in T, FieldList(fields) # <<>>
  PROVE  FieldList(fields)[1] = Backslash
  <1> DEFINE Opens(s) == s \in Seq(T) /\ (s # <<>> => s[1] = Backslash)
             P == {fs \in Seq(Seq(T)) : Opens(FieldList(fs))}
  <1>1. <<>> \in P
    <2>1. FieldList(<<>>) = <<>>
      BY FieldListFolds, Listed!FoldEmpty
    <2>2. <<>> \in Seq(T) /\ <<>> \in Seq(Seq(T))
      BY EmptySeq
    <2> QED BY <2>1, <2>2
  <1>2. ASSUME NEW fs \in Seq(Seq(T)), NEW f \in Seq(T), fs \in P PROVE Append(fs, f) \in P
    <2> DEFINE s == FieldList(fs)
               mark == <<Backslash>>
               sm == s \o mark
               smf == sm \o f
    <2>1. FieldList(Append(fs, f)) = smf
      <3>1. Listed!Fold(0, <<>>, Append(fs, f)) = ListStep(0, Listed!Fold(0, <<>>, fs), f)
        BY Listed!FoldAppend
      <3> QED BY <3>1, FieldListFolds DEF ListStep
    <2>2. s \in Seq(T) /\ (s # <<>> => s[1] = Backslash)
      BY <1>2
    <2>3. mark \in Seq(T) /\ Len(mark) = 1 /\ mark[1] = Backslash
      OBVIOUS
    <2> HIDE DEF s, mark
    <2>4. Joined(T, sm, s, mark)
      BY <2>2, <2>3 DEF Joined
    <2>5. \A i \in 1..Len(mark) : sm[Len(s) + i] = mark[i]
      BY <2>2, <2>3, ConcatAt
    <2> HIDE DEF sm
    <2>6. sm \in Seq(T) /\ Len(sm) = Len(s) + Len(mark) /\ Len(s) \in Nat
      BY <2>4, JoinedParts
    <2>7. sm[1] = Backslash
      <3>1. CASE Len(s) = 0
        <4>1. sm[0 + 1] = mark[1]
          BY <2>3, <2>5, <3>1
        <4> QED BY <2>3, <4>1
      <3>2. CASE Len(s) # 0
        <4>1. 1 \in 1..Len(s) /\ s # <<>>
          BY <2>6, <3>2
        <4>2. sm[1] = s[1]
          BY <2>4, <4>1, JoinedAt
        <4> QED BY <2>2, <4>1, <4>2
      <3> QED BY <3>1, <3>2
    <2>8. Joined(T, smf, sm, f)
      BY <2>6 DEF Joined
    <2> HIDE DEF smf
    <2>9. smf[1] = sm[1]
      <3>1. 1 \in 1..Len(sm)
        BY <2>3, <2>6
      <3> QED BY <2>8, <3>1, JoinedAt
    <2>10. smf \in Seq(T)
      BY <2>8, JoinedParts
    <2>11. Append(fs, f) \in Seq(Seq(T))
      OBVIOUS
    <2> QED BY <2>1, <2>7, <2>9, <2>10, <2>11
  <1>3. \A fs \in Seq(Seq(T)), f \in Seq(T) : fs \in P => Append(fs, f) \in P
    BY <1>2
  <1> HIDE DEF P, Opens
  <1>5. Seq(Seq(T)) \subseteq P
    BY <1>1, <1>3, Cut!InductionAppend
  <1>6. fields \in P
    BY <1>5
  <1> QED BY <1>6 DEF P, Opens

(* The server splits the list into the fields it was made of.              *)
LEMMA ListIsSplit ==
  ASSUME NEW T, NEW fields \in Seq(Seq(T)), Backslash \in T, Plain(fields), FieldList(fields) # <<>>
  PROVE  Split(FieldList(fields)) = fields
  <1> DEFINE s == FieldList(fields)
             mark == <<Backslash>>
             rest == Tail(s)
  <1>1. s \in Seq(T) /\ Cut!Fold(0, <<>>, s) = fields
    BY FieldsAreSplit
  <1>2. s[1] = Backslash
    BY ListOpens
  <1>3. s = mark \o rest /\ rest \in Seq(T)
    <2> HIDE DEF s
    <2> QED BY <1>1, <1>2, FrontAndTail DEF s
  <1>4. mark \in Seq(T)
    OBVIOUS
  <1>5. Cut!Fold(0, <<>>, mark) = <<<<>>>>
    <2>1. Cut!Fold(0, <<>>, mark) = SplitStep(0, <<>>, Backslash)
      BY Cut!FoldOne
    <2>2. Append(<<>>, <<>>) = <<<<>>>>
      OBVIOUS
    <2> QED BY <2>1, <2>2 DEF SplitStep
  <1>6. Split(s) = Cut!Fold(0, <<<<>>>>, rest)
    BY SplitFolds
  <1> HIDE DEF s, mark, rest
  <1>7. Cut!Fold(0, <<>>, mark \o rest) = Cut!Fold(0, Cut!Fold(0, <<>>, mark), rest)
    BY <1>3, <1>4, Cut!FoldConcat
  <1>8. Split(s) = fields
    BY <1>1, <1>3, <1>5, <1>6, <1>7
  <1> QED BY <1>8 DEF s

-----------------------------------------------------------------------------
(* The beginnings of a request, up to the end of each of its parts.        *)
Kind == <<1, 3, 0, 0, 1, 0>>
Ending == <<0>>
OptionBytes(r) == <<0, 0, 0, r.options>>
FromText(r) == Kind \o r.from
FromPart(r) == FromText(r) \o Ending
ToText(r) == FromPart(r) \o r.to
ToPart(r) == ToText(r) \o Ending
ChallengePart(r) == ToPart(r) \o r.challenge
FilterText(r) == ChallengePart(r) \o r.filter
FilterPart(r) == FilterText(r) \o Ending
FieldsText(r) == FilterPart(r) \o FieldList(r.fields)
FieldsPart(r) == FieldsText(r) \o Ending
OptionsPart(r) == FieldsPart(r) \o OptionBytes(r)

(* Of the options that announce a word, a request has at most one.         *)
LEMMA WordsAnnounced ==
  ASSUME NEW options \in 0..MaxOptions
  PROVE  Words(options) = IF Has(options, AlternateSourceIP) \/ Has(options, LimitResultCount) THEN 4 ELSE 0
  <1>1. options \in 0..128
    BY DEF MaxOptions, LimitResultCount
  <1>2. Has(options, LimitResultCount) => options = 128
    BY <1>1, SMT DEF Has, LimitResultCount
  <1>3. options = 128 => ~Has(options, AlternateSourceIP)
    BY SMT DEF Has, AlternateSourceIP
  <1> QED BY <1>2, <1>3 DEF Words

LEMMA RequestTypes ==
  ASSUME NEW r, IsRequest(r)
  PROVE  /\ r.from \in Seq(Nat) /\ r.to \in Seq(Nat) /\ r.challenge \in Seq(Nat)
         /\ r.filter \in Seq(Nat) /\ r.fields \in Seq(Seq(Nat)) /\ r.words \in Seq(Nat)
         /\ r.options \in Nat /\ r.options <= MaxOptions
         /\ Kind \in Seq(Nat) /\ Ending \in Seq(Nat) /\ OptionBytes(r) \in Seq(Nat)
         /\ FieldList(r.fields) \in Seq(Nat)
         /\ Len(r.challenge) = CHALLENGE /\ Len(r.words) = Words(r.options)
  <1>1. /\ r.from \in Seq(Nat) /\ r.to \in Seq(Nat) /\ r.challenge \in Seq(Nat)
        /\ r.filter \in Seq(Nat) /\ r.fields \in Seq(Seq(Nat)) /\ r.words \in Seq(Nat)
        /\ r.options \in Nat /\ r.options <= MaxOptions
    <2>1. r \in [from : Seq(Nat), to : Seq(Nat), challenge : Seq(Nat), filter : Seq(Nat),
                 fields : Seq(Seq(Nat)), options : 0..MaxOptions, words : Seq(Nat)]
      BY DEF IsRequest
    <2>2. r.options \in 0..128
      BY <2>1 DEF MaxOptions, LimitResultCount
    <2>3. r.options \in Nat /\ r.options <= MaxOptions
      BY <2>2 DEF MaxOptions, LimitResultCount
    <2>4. /\ r.from \in Seq(Nat) /\ r.to \in Seq(Nat) /\ r.challenge \in Seq(Nat)
          /\ r.filter \in Seq(Nat) /\ r.fields \in Seq(Seq(Nat)) /\ r.words \in Seq(Nat)
      BY <2>1
    <2> QED BY <2>3, <2>4
  <1>2. Kind \in Seq(Nat) /\ Ending \in Seq(Nat)
    BY DEF Kind, Ending
  <1>3. OptionBytes(r) \in Seq(Nat)
    BY <1>1 DEF OptionBytes
  <1>4. FieldList(r.fields) \in Seq(Nat)
    <2>1. Plain(r.fields) /\ Backslash \in Nat
      BY DEF IsRequest, Backslash
    <2> QED BY <1>1, <2>1, FieldsAreSplit
  <1>5. Len(r.challenge) = CHALLENGE /\ Len(r.words) = Words(r.options)
    <2>1. r.options \in 0..MaxOptions
      <3>1. r \in [from : Seq(Nat), to : Seq(Nat), challenge : Seq(Nat), filter : Seq(Nat),
                   fields : Seq(Seq(Nat)), options : 0..MaxOptions, words : Seq(Nat)]
        BY DEF IsRequest
      <3> QED BY <3>1
    <2> QED BY <2>1, WordsAnnounced DEF IsRequest
  <1> QED BY <1>1, <1>2, <1>3, <1>4, <1>5

LEMMA RequestParts ==
  ASSUME NEW r, IsRequest(r)
  PROVE  /\ Joined(Nat, FromText(r), Kind, r.from)
         /\ Joined(Nat, FromPart(r), FromText(r), Ending)
         /\ Joined(Nat, ToText(r), FromPart(r), r.to)
         /\ Joined(Nat, ToPart(r), ToText(r), Ending)
         /\ Joined(Nat, ChallengePart(r), ToPart(r), r.challenge)
         /\ Joined(Nat, FilterText(r), ChallengePart(r), r.filter)
         /\ Joined(Nat, FilterPart(r), FilterText(r), Ending)
         /\ Joined(Nat, FieldsText(r), FilterPart(r), FieldList(r.fields))
         /\ Joined(Nat, FieldsPart(r), FieldsText(r), Ending)
         /\ Joined(Nat, OptionsPart(r), FieldsPart(r), OptionBytes(r))
         /\ Joined(Nat, Request(r), OptionsPart(r), r.words)
  <1>1. Joined(Nat, FromText(r), Kind, r.from)
    BY RequestTypes DEF Joined, FromText
  <1>2. Joined(Nat, FromPart(r), FromText(r), Ending)
    BY <1>1, RequestTypes, JoinedParts DEF Joined, FromPart
  <1>3. Joined(Nat, ToText(r), FromPart(r), r.to)
    BY <1>2, RequestTypes, JoinedParts DEF Joined, ToText
  <1>4. Joined(Nat, ToPart(r), ToText(r), Ending)
    BY <1>3, RequestTypes, JoinedParts DEF Joined, ToPart
  <1>5. Joined(Nat, ChallengePart(r), ToPart(r), r.challenge)
    BY <1>4, RequestTypes, JoinedParts DEF Joined, ChallengePart
  <1>6. Joined(Nat, FilterText(r), ChallengePart(r), r.filter)
    BY <1>5, RequestTypes, JoinedParts DEF Joined, FilterText
  <1>7. Joined(Nat, FilterPart(r), FilterText(r), Ending)
    BY <1>6, RequestTypes, JoinedParts DEF Joined, FilterPart
  <1>8. Joined(Nat, FieldsText(r), FilterPart(r), FieldList(r.fields))
    BY <1>7, RequestTypes, JoinedParts DEF Joined, FieldsText
  <1>9. Joined(Nat, FieldsPart(r), FieldsText(r), Ending)
    BY <1>8, RequestTypes, JoinedParts DEF Joined, FieldsPart
  <1>10. Joined(Nat, OptionsPart(r), FieldsPart(r), OptionBytes(r))
    BY <1>9, RequestTypes, JoinedParts DEF Joined, OptionsPart
  <1>11. Joined(Nat, Request(r), OptionsPart(r), r.words)
    <2> DEFINE tail == <<0, 0, 0, 0, r.options>>
    <2>1. Joined(Nat, tail, Ending, OptionBytes(r))
      BY RequestTypes DEF Joined, Ending, OptionBytes
    <2>2. Request(r) = (FieldsText(r) \o tail) \o r.words
      BY DEF Request, FieldsText, FilterPart, FilterText, ChallengePart, ToPart, ToText, FromPart, FromText, Kind, Ending
    <2> HIDE DEF tail
    <2> DEFINE all == FieldsText(r) \o tail
    <2>3. all = OptionsPart(r)
      <3>1. Joined(Nat, OptionsPart(r), FieldsText(r), tail)
        BY <1>9, <1>10, <2>1, Regrouped
      <3> QED BY <3>1 DEF Joined
    <2>4. OptionsPart(r) \in Seq(Nat)
      BY <1>10, JoinedParts
    <2>5. r.words \in Seq(Nat)
      BY RequestTypes
    <2> QED BY <2>2, <2>3, <2>4, <2>5 DEF Joined
  <1> QED BY <1>1, <1>2, <1>3, <1>4, <1>5, <1>6, <1>7, <1>8, <1>9, <1>10, <1>11

(* They are the beginnings.                                                *)
LEMMA RequestBegins ==
  ASSUME NEW r, IsRequest(r)
  PROVE  /\ Request(r) \in Seq(Nat)
         /\ Begins(Request(r), FromPart(r)) /\ Begins(Request(r), ToPart(r))
         /\ Begins(Request(r), ChallengePart(r)) /\ Begins(Request(r), FilterPart(r))
         /\ Begins(Request(r), FieldsPart(r)) /\ Begins(Request(r), OptionsPart(r))
         /\ Begins(Request(r), Kind)
  <1>1. Request(r) \in Seq(Nat)
    BY RequestParts, JoinedParts
  <1>2. Begins(Request(r), Request(r))
    BY <1>1, BeginsWhole
  <1>3. Begins(Request(r), OptionsPart(r))
    BY <1>1, <1>2, RequestParts, BeginsJoined
  <1>4. Begins(Request(r), FieldsPart(r))
    BY <1>1, <1>3, RequestParts, BeginsJoined
  <1>5. Begins(Request(r), FieldsText(r))
    BY <1>1, <1>4, RequestParts, BeginsJoined
  <1>6. Begins(Request(r), FilterPart(r))
    BY <1>1, <1>5, RequestParts, BeginsJoined
  <1>7. Begins(Request(r), FilterText(r))
    BY <1>1, <1>6, RequestParts, BeginsJoined
  <1>8. Begins(Request(r), ChallengePart(r))
    BY <1>1, <1>7, RequestParts, BeginsJoined
  <1>9. Begins(Request(r), ToPart(r))
    BY <1>1, <1>8, RequestParts, BeginsJoined
  <1>10. Begins(Request(r), ToText(r))
    BY <1>1, <1>9, RequestParts, BeginsJoined
  <1>11. Begins(Request(r), FromPart(r))
    BY <1>1, <1>10, RequestParts, BeginsJoined
  <1>12. Begins(Request(r), FromText(r))
    BY <1>1, <1>11, RequestParts, BeginsJoined
  <1>13. Begins(Request(r), Kind)
    BY <1>1, <1>12, RequestParts, BeginsJoined
  <1> QED BY <1>1, <1>3, <1>4, <1>6, <1>8, <1>9, <1>11, <1>13

(* Where the strings of a request, or of the beginning of one, are found.  *)
LEMMA RequestPlaces ==
  ASSUME NEW r, IsRequest(r), NEW p, NEW n, CutOf(Nat, p, Request(r), n)
  PROVE  /\ Place(n, 7, Kind)
         /\ Place(n, After(p, 7), FromPart(r))
         /\ Place(n, After(p, After(p, 7)), ToPart(r))
         /\ Place(n, After(p, After(p, 7)) + CHALLENGE, ChallengePart(r))
         /\ Place(n, After(p, After(p, After(p, 7)) + CHALLENGE), FilterPart(r))
         /\ Place(n, After(p, After(p, After(p, After(p, 7)) + CHALLENGE)), FieldsPart(r))
         /\ Len(FromPart(r)) <= n => String(p, 7) = r.from
         /\ Len(ToPart(r)) <= n => String(p, After(p, 7)) = r.to
         /\ Len(FilterPart(r)) <= n => String(p, After(p, After(p, 7)) + CHALLENGE) = r.filter
         /\ Len(FieldsPart(r)) <= n =>
              String(p, After(p, After(p, After(p, 7)) + CHALLENGE)) = FieldList(r.fields)
  <1> DEFINE to == After(p, 7)
             challenge == After(p, to)
             filter == challenge + CHALLENGE
             fields == After(p, filter)
             options == After(p, fields)
  <1>1. /\ n \in Nat /\ Only(Ending, 0)
        /\ Free(r.from, 0) /\ Free(r.to, 0) /\ Free(r.filter, 0) /\ Free(FieldList(r.fields), 0)
    <2>1. Plain(r.fields) /\ Backslash \in Nat /\ r.fields \in Seq(Seq(Nat))
      BY RequestTypes DEF IsRequest, Backslash
    <2>2. Free(FieldList(r.fields), 0)
      BY <2>1, FieldsAreSplit
    <2>3. Only(Ending, 0)
      BY DEF Only, Ending
    <2>4. n \in Nat
      BY CutFields
    <2> QED BY <2>2, <2>3, <2>4 DEF IsRequest
  <1>2. Place(n, 7, Kind)
    <2>1. Begins(Request(r), Kind) /\ Len(Kind) = 6
      BY RequestBegins DEF Kind
    <2>2. Request(r) \in Seq(Nat)
      BY RequestBegins
    <2> QED BY <1>1, <2>1 DEF Place
  <1>3. Place(n, to, FromPart(r)) /\ (Len(FromPart(r)) <= n => String(p, 7) = r.from)
    BY <1>1, <1>2, RequestParts, RequestBegins, StringIsRead
  <1> HIDE DEF to
  <1>4. Place(n, challenge, ToPart(r)) /\ (Len(ToPart(r)) <= n => String(p, to) = r.to)
    BY <1>1, <1>3, RequestParts, RequestBegins, StringIsRead
  <1> HIDE DEF challenge
  <1>5. Place(n, filter, ChallengePart(r))
    <2>1. Len(ChallengePart(r)) = Len(ToPart(r)) + Len(r.challenge) /\ Len(ToPart(r)) \in Nat
      <3>1. Joined(Nat, ChallengePart(r), ToPart(r), r.challenge)
        BY RequestParts
      <3> QED BY <3>1, JoinedParts
    <2>2. Len(r.challenge) = 8
      BY RequestTypes DEF CHALLENGE
    <2> QED BY <1>1, <1>4, <2>1, <2>2 DEF Place, CHALLENGE
  <1> HIDE DEF filter
  <1>6. Place(n, fields, FilterPart(r)) /\ (Len(FilterPart(r)) <= n => String(p, filter) = r.filter)
    BY <1>1, <1>5, RequestParts, RequestBegins, StringIsRead
  <1> HIDE DEF fields
  <1>7. Place(n, options, FieldsPart(r)) /\ (Len(FieldsPart(r)) <= n => String(p, fields) = FieldList(r.fields))
    BY <1>1, <1>6, RequestParts, RequestBegins, StringIsRead
  <1> QED BY <1>2, <1>3, <1>4, <1>5, <1>6, <1>7 DEF to, challenge, filter, fields

(* The options, where the server looks for them.                           *)
LEMMA OptionsAt ==
  ASSUME NEW r, IsRequest(r), NEW p, NEW n, CutOf(Nat, p, Request(r), n),
         NEW options, Place(n, options, FieldsPart(r))
  PROVE  /\ options + 3 <= n => /\ options = Len(FieldsPart(r)) + 1
                                /\ options + 3 = Len(OptionsPart(r))
                                /\ p[options] = 0 /\ p[options + 1] = 0 /\ p[options + 2] = 0
                                /\ p[options + 3] = r.options
         /\ Len(OptionsPart(r)) = Len(FieldsPart(r)) + 4
         /\ Len(FieldsPart(r)) \in Nat
         /\ n = Len(Request(r)) => options + 3 <= n
         /\ Len(Request(r)) = Len(OptionsPart(r)) + Words(r.options)
         /\ Words(r.options) \in Nat
         /\ options \in Nat
  <1> DEFINE m == Len(FieldsPart(r))
             flags == OptionBytes(r)
  <1>1. Len(flags) = 4 /\ flags[1] = 0 /\ flags[2] = 0 /\ flags[3] = 0 /\ flags[4] = r.options
    BY DEF OptionBytes
  <1>2. Joined(Nat, OptionsPart(r), FieldsPart(r), flags)
    BY RequestParts
  <1> HIDE DEF flags
  <1>3. Len(OptionsPart(r)) = m + Len(flags) /\ m \in Nat
    BY <1>2, JoinedParts
  <1>4. \A k \in 1..Len(flags) : OptionsPart(r)[m + k] = flags[k]
    <2>1. FieldsPart(r) \in Seq(Nat) /\ flags \in Seq(Nat) /\ OptionsPart(r) = FieldsPart(r) \o flags
      BY <1>2 DEF Joined
    <2> QED BY <2>1, ConcatAt
  <1>5. Joined(Nat, Request(r), OptionsPart(r), r.words)
    BY RequestParts
  <1>6. Len(Request(r)) = Len(OptionsPart(r)) + Len(r.words) /\ Len(r.words) \in Nat
    BY <1>5, JoinedParts
  <1>7. Len(r.words) = Words(r.options)
    BY RequestTypes
  <1>8. options \in Nat /\ (m <= n => options = m + 1) /\ (n < m => n + 1 < options)
    BY DEF Place
  <1>9. n \in Nat /\ n <= Len(Request(r)) /\ \A i \in 1..n : p[i] = Request(r)[i]
    BY CutFields
  <1>10. \A k \in 1..Len(OptionsPart(r)) : Request(r)[k] = OptionsPart(r)[k]
    BY RequestBegins DEF Begins
  <1> HIDE DEF m
  <1>11. ASSUME options + 3 <= n
         PROVE  /\ options = m + 1
                /\ p[options] = 0 /\ p[options + 1] = 0 /\ p[options + 2] = 0
                /\ p[options + 3] = r.options
    <2>1. options = m + 1 /\ m + 4 <= n
      BY <1>3, <1>8, <1>9, <1>11
    <2>2. ASSUME NEW k \in 1..4 PROVE p[m + k] = flags[k]
      <3>1. m + k \in 1..n /\ m + k \in 1..Len(OptionsPart(r)) /\ k \in 1..Len(flags)
        BY <1>1, <1>3, <1>9, <2>1
      <3> QED BY <1>4, <1>9, <1>10, <3>1
    <2>3. p[m + 1] = 0 /\ p[m + 2] = 0 /\ p[m + 3] = 0 /\ p[m + 4] = r.options
      <3>1. 1 \in 1..4 /\ 2 \in 1..4 /\ 3 \in 1..4 /\ 4 \in 1..4
        OBVIOUS
      <3> QED BY <1>1, <2>2, <3>1
    <2>4. options + 1 = m + 2 /\ options + 2 = m + 3 /\ options + 3 = m + 4
      BY <1>3, <2>1
    <2> QED BY <2>1, <2>3, <2>4
  <1>12. Len(OptionsPart(r)) = m + 4
    BY <1>1, <1>3
  <1>13. n = Len(Request(r)) => options + 3 <= n
    <2> SUFFICES ASSUME n = Len(Request(r)) PROVE options + 3 <= n
      OBVIOUS
    <2> DEFINE l == Len(r.words)
    <2>1. l \in Nat /\ n = (m + 4) + l /\ m \in Nat /\ options \in Nat /\ n \in Nat
      BY <1>3, <1>6, <1>8, <1>9, <1>12
    <2> HIDE DEF l
    <2>2. m <= n /\ m + 1 + 3 <= n
      BY <2>1
    <2>3. options = m + 1
      BY <1>8, <2>2
    <2> QED BY <2>2, <2>3
  <1>14. options = m + 1 => options + 3 = Len(OptionsPart(r))
    BY <1>3, <1>12
  <1>15. Len(Request(r)) = Len(OptionsPart(r)) + Words(r.options) /\ Words(r.options) \in Nat
    BY <1>6, <1>7
  <1> QED BY <1>3, <1>8, <1>11, <1>12, <1>13, <1>14, <1>15 DEF m

(* The server takes no part of a request for one.                          *)
LEMMA CutIsNone ==
  ASSUME NEW r, IsRequest(r), NEW n \in 0..(Len(Request(r)) - 1)
  PROVE  Parse(SubSeq(Request(r), 1, n)) = None
  <1> DEFINE p == SubSeq(Request(r), 1, n)
             fields == After(p, After(p, After(p, 7)) + CHALLENGE)
             options == After(p, fields)
             words == options + 4
  <1>1. CutOf(Nat, p, Request(r), n) /\ n < Len(Request(r)) /\ n \in Nat
    <2>1. Request(r) \in Seq(Nat)
      BY RequestBegins
    <2>2. Len(Request(r)) \in Nat
      BY <2>1, LenProperties
    <2> QED BY <2>1, <2>2 DEF CutOf
  <1> HIDE DEF p
  <1>2. Len(p) = n
    BY <1>1, CutFields
  <1>3. Place(n, options, FieldsPart(r))
    BY <1>1, RequestPlaces
  <1> SUFFICES ASSUME words - 1 <= n, words - 1 + Words(p[options + 3]) <= n PROVE FALSE
    BY <1>2, Zenon DEF Parse, p
  <1> HIDE DEF options
  <1>4. options + 3 <= n
    BY <1>1, <1>3, OptionsAt
  <1>5. p[options + 3] = r.options /\ options + 3 = Len(OptionsPart(r)) /\ Words(r.options) \in Nat
    BY <1>1, <1>3, <1>4, OptionsAt
  <1>6. Len(Request(r)) = Len(OptionsPart(r)) + Words(r.options) /\ options \in Nat
    BY <1>1, <1>3, OptionsAt
  <1> QED BY <1>1, <1>5, <1>6

(* The server reads the request the client has sent.                       *)
LEMMA WholeIsRead ==
  ASSUME NEW r, IsRequest(r)
  PROVE  Parse(Request(r)) = r
  <1> DEFINE p == Request(r)
             n == Len(p)
             to == After(p, 7)
             challenge == After(p, to)
             filter == challenge + CHALLENGE
             fields == After(p, filter)
             options == After(p, fields)
             words == options + 4
             result == [from |-> String(p, 7), to |-> String(p, to),
                        challenge |-> SubSeq(p, challenge, filter - 1),
                        filter |-> String(p, filter),
                        fields |-> Split(String(p, fields)),
                        options |-> p[options + 3],
                        words |-> SubSeq(p, words, words - 1 + Words(p[options + 3]))]
  <1>0. Parse(p) =
          IF /\ Len(p) >= MIN_SIZE
             /\ p[1] = 1 /\ p[2] = 3
             /\ words - 1 <= Len(p)
             /\ Len(String(p, filter)) <= FILTER_TOTAL
             /\ Len(String(p, fields)) \in 1..FIELDS_TOTAL
             /\ p[fields] = Backslash
             /\ \A i \in 0..2 : p[options + i] = 0
             /\ p[options + 3] <= MaxOptions
             /\ words - 1 + Words(p[options + 3]) <= Len(p)
          THEN result ELSE None
    BY Zenon DEF Parse
  <1> HIDE DEF result
  <1>1. p \in Seq(Nat) /\ n \in Nat
    BY RequestBegins, LenProperties
  <1>2. CutOf(Nat, p, p, n)
    <2> HIDE DEF p
    <2>1. SubSeq(p, 1, Len(p)) = p /\ n \in 0..Len(p)
      BY <1>1, SubSeqFull
    <2> QED BY <1>1, <2>1 DEF CutOf
  <1>3. /\ Len(Kind) <= n /\ Len(FromPart(r)) <= n /\ Len(ToPart(r)) <= n
        /\ Len(FilterPart(r)) <= n /\ Len(ChallengePart(r)) <= n /\ Len(FieldsPart(r)) <= n
    BY RequestBegins DEF Begins
  <1>4. /\ Place(n, to, FromPart(r)) /\ Place(n, challenge, ToPart(r))
        /\ Place(n, filter, ChallengePart(r)) /\ Place(n, fields, FilterPart(r))
        /\ Place(n, options, FieldsPart(r))
    BY <1>2, RequestPlaces
  <1>5. /\ String(p, 7) = r.from /\ String(p, to) = r.to
        /\ String(p, filter) = r.filter /\ String(p, fields) = FieldList(r.fields)
    BY <1>2, <1>3, RequestPlaces
  <1>6. /\ p[options] = 0 /\ p[options + 1] = 0 /\ p[options + 2] = 0
        /\ p[options + 3] = r.options
        /\ options + 3 = Len(OptionsPart(r)) /\ options + 3 <= n
        /\ n = Len(OptionsPart(r)) + Words(r.options)
        /\ Words(r.options) \in Nat /\ options \in Nat
    <2> HIDE DEF options, n
    <2>1. n = Len(Request(r))
      BY DEF n
    <2>2. options + 3 <= n
      BY <1>2, <1>4, <2>1, OptionsAt DEF p
    <2>3. CutOf(Nat, p, Request(r), n) /\ Place(n, options, FieldsPart(r))
      BY <1>2, <1>4 DEF p
    <2>4. /\ p[options] = 0 /\ p[options + 1] = 0 /\ p[options + 2] = 0
          /\ p[options + 3] = r.options /\ options + 3 = Len(OptionsPart(r))
      BY <2>2, <2>3, OptionsAt
    <2>5. Len(Request(r)) = Len(OptionsPart(r)) + Words(r.options) /\ Words(r.options) \in Nat /\ options \in Nat
      BY <2>3, OptionsAt
    <2> QED BY <2>1, <2>2, <2>4, <2>5
  <1> HIDE DEF p, n, to, challenge, filter, fields, options
  <1>7. p[1] = 1 /\ p[2] = 3
    <2>1. Len(Kind) = 6 /\ Kind[1] = 1 /\ Kind[2] = 3
      BY DEF Kind
    <2>2. \A k \in 1..Len(Kind) : p[k] = Kind[k]
      BY RequestBegins DEF Begins, p
    <2>3. 1 \in 1..Len(Kind) /\ 2 \in 1..Len(Kind)
      BY <2>1
    <2> QED BY <2>1, <2>2, <2>3
  <1>8. SubSeq(p, challenge, filter - 1) = r.challenge
    <2>1. Joined(Nat, ChallengePart(r), ToPart(r), r.challenge)
      BY RequestParts
    <2>2. SubSeq(ChallengePart(r), Len(ToPart(r)) + 1, Len(ChallengePart(r))) = r.challenge
      BY <2>1, JoinedCut
    <2>3. /\ Len(ToPart(r)) \in Nat /\ Len(ChallengePart(r)) \in Nat
          /\ ChallengePart(r) \in Seq(Nat)
      <3>1. Len(ChallengePart(r)) = Len(ToPart(r)) + Len(r.challenge) /\ Len(ToPart(r)) \in Nat
            /\ Len(r.challenge) \in Nat /\ ChallengePart(r) \in Seq(Nat)
        BY <2>1, JoinedParts
      <3> QED BY <3>1
    <2>4. challenge = Len(ToPart(r)) + 1 /\ filter - 1 = Len(ChallengePart(r))
      BY <1>3, <1>4, <2>3 DEF Place
    <2>5. SubSeq(p, Len(ToPart(r)) + 1, Len(ChallengePart(r))) = SubSeq(ChallengePart(r), Len(ToPart(r)) + 1, Len(ChallengePart(r)))
      <3>1. Begins(p, ChallengePart(r))
        BY RequestBegins DEF p
      <3> QED BY <1>1, <2>3, <3>1, BeginsCut
    <2> QED BY <2>2, <2>4, <2>5
  <1>9. SubSeq(p, words, words - 1 + Words(r.options)) = r.words
    <2>1. Joined(Nat, p, OptionsPart(r), r.words)
      BY RequestParts DEF p
    <2>2. SubSeq(p, Len(OptionsPart(r)) + 1, Len(p)) = r.words
      BY <2>1, JoinedCut
    <2>3. words = Len(OptionsPart(r)) + 1 /\ words - 1 + Words(r.options) = Len(p)
      BY <1>6 DEF n
    <2> QED BY <2>2, <2>3
  <1>10. FieldList(r.fields) # <<>> /\ Plain(r.fields) /\ Backslash \in Nat
         /\ r.fields \in Seq(Seq(Nat)) /\ FieldList(r.fields) \in Seq(Nat)
    <2>1. Len(FieldList(r.fields)) # 0
      BY RequestTypes DEF IsRequest
    <2> QED BY <2>1, RequestTypes, EmptySeq DEF IsRequest, Backslash
  <1>11. Split(FieldList(r.fields)) = r.fields
    BY <1>10, ListIsSplit
  <1>12. /\ Len(p) >= MIN_SIZE
         /\ Len(r.filter) <= FILTER_TOTAL /\ Len(FieldList(r.fields)) \in 1..FIELDS_TOTAL
         /\ r.options <= MaxOptions
    <2>1. MIN_SIZE <= Len(p) /\ MIN_SIZE \in Nat
      BY DEF IsRequest, p, MIN_SIZE, CHALLENGE
    <2>2. Len(p) >= MIN_SIZE
      BY <1>1, <2>1 DEF n
    <2> QED BY <2>2, RequestTypes DEF IsRequest
  <1>13. p[fields] = Backslash
    <2> DEFINE list == FieldList(r.fields)
    <2>1. Joined(Nat, FieldsText(r), FilterPart(r), list) /\ Joined(Nat, FieldsPart(r), FieldsText(r), Ending)
      BY RequestParts
    <2>2. list # <<>> /\ list \in Seq(Nat) /\ list[1] = Backslash
      BY <1>10, ListOpens
    <2> HIDE DEF list
    <2>3. Len(list) \in Nat /\ Len(list) # 0
      BY <2>2, LenProperties, EmptySeq
    <2>4. 1 \in 1..Len(list)
      BY <2>3
    <2>5. FieldsText(r)[Len(FilterPart(r)) + 1] = list[1]
      <3>1. FilterPart(r) \in Seq(Nat) /\ FieldsText(r) = FilterPart(r) \o list
        BY <2>1 DEF Joined
      <3> QED BY <2>2, <2>4, <3>1, ConcatAt
    <2>6. /\ Len(FieldsText(r)) = Len(FilterPart(r)) + Len(list) /\ Len(FilterPart(r)) \in Nat
          /\ Len(FieldsText(r)) \in Nat
      <3>1. Len(FieldsText(r)) = Len(FilterPart(r)) + Len(list) /\ Len(FilterPart(r)) \in Nat
        BY <2>1, JoinedParts
      <3> QED BY <2>3, <3>1
    <2>7. Begins(p, FieldsText(r))
      <3>1. p \in Seq(Nat) /\ Begins(p, FieldsPart(r))
        BY <1>1, RequestBegins DEF p
      <3> QED BY <2>1, <3>1, BeginsJoined
    <2>8. Len(FilterPart(r)) + 1 \in 1..Len(FieldsText(r))
      BY <2>3, <2>6
    <2>9. p[Len(FilterPart(r)) + 1] = FieldsText(r)[Len(FilterPart(r)) + 1]
      BY <2>7, <2>8 DEF Begins
    <2>10. fields = Len(FilterPart(r)) + 1
      BY <1>3, <1>4 DEF Place
    <2> QED BY <2>2, <2>5, <2>9, <2>10
  <1>14. /\ words - 1 <= Len(p) /\ words - 1 + Words(r.options) <= Len(p)
         /\ \A i \in 0..2 : p[options + i] = 0
    <2>1. words - 1 = options + 3
      BY <1>6
    <2>2. words - 1 + Words(r.options) = n /\ n \in Nat
      BY <1>1, <1>6, <2>1
    <2>3. \A i \in 0..2 : p[options + i] = 0
      <3> SUFFICES ASSUME NEW i \in 0..2 PROVE p[options + i] = 0
        OBVIOUS
      <3>1. i = 0 \/ i = 1 \/ i = 2
        OBVIOUS
      <3>2. options + 0 = options
        BY <1>6
      <3> QED BY <1>6, <3>1, <3>2
    <2> QED BY <1>1, <1>6, <2>1, <2>2, <2>3 DEF n
  <1>15. result = r
    <2>1. r \in [from : Seq(Nat), to : Seq(Nat), challenge : Seq(Nat), filter : Seq(Nat),
                 fields : Seq(Seq(Nat)), options : 0..MaxOptions, words : Seq(Nat)]
      BY DEF IsRequest
    <2>2. r = [from |-> r.from, to |-> r.to, challenge |-> r.challenge, filter |-> r.filter,
               fields |-> r.fields, options |-> r.options, words |-> r.words]
      BY <2>1
    <2>3. result = [from |-> r.from, to |-> r.to, challenge |-> r.challenge, filter |-> r.filter,
               fields |-> r.fields, options |-> r.options, words |-> r.words]
      BY <1>5, <1>6, <1>8, <1>9, <1>11 DEF result
    <2> QED BY <2>2, <2>3
  <1> HIDE DEF words
  <1>16. Parse(p) = result
    <2>1. /\ Len(p) >= MIN_SIZE
          /\ p[1] = 1 /\ p[2] = 3
          /\ words - 1 <= Len(p)
          /\ Len(String(p, filter)) <= FILTER_TOTAL
          /\ Len(String(p, fields)) \in 1..FIELDS_TOTAL
          /\ p[fields] = Backslash
          /\ \A i \in 0..2 : p[options + i] = 0
          /\ p[options + 3] <= MaxOptions
          /\ words - 1 + Words(p[options + 3]) <= Len(p)
      BY <1>5, <1>6, <1>7, <1>12, <1>13, <1>14
    <2> QED BY <1>0, <2>1, Zenon
  <1> QED BY <1>15, <1>16 DEF p

(* ServerListRequest::Parse: every request a client can send arrives as it *)
(* was sent, and no part of one is taken for a request.                    *)
THEOREM RequestIsReadBack ==
  ASSUME NEW r, IsRequest(r)
  PROVE  RequestReadBack(r)
  BY CutIsNone, WholeIsRead DEF RequestReadBack

-----------------------------------------------------------------------------
(* Joined texts.                                                           *)

Upto(n) == [i \in 1..n |-> i]

LEMMA UptoIs ==
  ASSUME NEW n \in Nat
  PROVE  Upto(n) \in Seq(Nat) /\ Len(Upto(n)) = n /\ \A k \in 1..n : Upto(n)[k] = k
  <1> DEFINE u == Upto(n)
  <1>1. DOMAIN u = 1..n /\ \A k \in 1..n : u[k] = k
    BY DEF Upto
  <1>2. u \in [1..n -> Nat]
    BY DEF Upto
  <1>3. u \in Seq(Nat) /\ Len(u) = n
    BY <1>1, <1>2, LenProperties
  <1> QED BY <1>1, <1>3

(* One more of what t gives.                                               *)
LEMMA OneMore ==
  ASSUME NEW t, NEW k \in Nat
  PROVE  Append([i \in 1..k |-> t[i]], t[k + 1]) = [i \in 1..(k + 1) |-> t[i]]
  <1> DEFINE S == {t[i] : i \in 1..(k + 1)}
             one == [i \in 1..k |-> t[i]]
             more == [i \in 1..(k + 1) |-> t[i]]
             longer == Append(one, t[k + 1])
  <1>1. one \in Seq(S) /\ Len(one) = k
    <2>1. one \in [1..k -> S]
      OBVIOUS
    <2> QED BY <2>1
  <1>2. more \in Seq(S) /\ Len(more) = k + 1
    <2>1. more \in [1..(k + 1) -> S] /\ k + 1 \in Nat
      OBVIOUS
    <2> QED BY <2>1
  <1>3. t[k + 1] \in S
    OBVIOUS
  <1>4. \A i \in 1..k : one[i] = t[i]
    OBVIOUS
  <1>5. \A i \in 1..(k + 1) : more[i] = t[i]
    OBVIOUS
  <1> HIDE DEF S, one, more
  <1>6. /\ longer \in Seq(S) /\ Len(longer) = k + 1
        /\ \A i \in 1..k : longer[i] = one[i]
        /\ longer[k + 1] = t[k + 1]
    BY <1>1, <1>3, AppendProperties
  <1> HIDE DEF longer
  <1>7. \A i \in 1..(k + 1) : longer[i] = more[i]
    <2> SUFFICES ASSUME NEW i \in 1..(k + 1) PROVE longer[i] = t[i]
      BY <1>5
    <2>1. i \in 1..k \/ i = k + 1
      OBVIOUS
    <2> QED BY <1>4, <1>6, <2>1
  <1>8. longer = more
    BY <1>2, <1>6, <1>7, SeqEqual
  <1> QED BY <1>8 DEF longer, more, one

(* The stages of writing: behind pre the first pieces.                     *)
Stages(n, pre, w, piece) ==
  /\ n \in Nat /\ pre \in Seq(Nat) /\ w[0] = <<>>
  /\ \A k \in 1..n : piece[k] \in Seq(Nat) /\ w[k] = w[k - 1] \o piece[k]

LEMMA StageTypes ==
  ASSUME NEW n, NEW pre, NEW w, NEW piece, Stages(n, pre, w, piece)
  PROVE  \A k \in 0..n : w[k] \in Seq(Nat)
  <1> DEFINE T == {k \in Nat : k <= n => w[k] \in Seq(Nat)}
  <1>1. n \in Nat /\ w[0] = <<>>
    BY DEF Stages
  <1>2. 0 \in T
    <2>1. <<>> \in Seq(Nat)
      BY EmptySeq
    <2> QED BY <1>1, <2>1
  <1>3. ASSUME NEW k \in Nat, k \in T PROVE k + 1 \in T
    <2> SUFFICES ASSUME k + 1 <= n PROVE w[k + 1] \in Seq(Nat)
      OBVIOUS
    <2>1. k + 1 \in 1..n /\ (k + 1) - 1 = k /\ k <= n
      BY <1>1
    <2>2. piece[k + 1] \in Seq(Nat) /\ w[k + 1] = w[(k + 1) - 1] \o piece[k + 1]
      BY <2>1 DEF Stages
    <2>3. w[k] \in Seq(Nat)
      BY <1>3, <2>1
    <2> QED BY <2>1, <2>2, <2>3, ConcatProperties
  <1> HIDE DEF T
  <1>4. \A k \in Nat : k \in T
    BY <1>2, <1>3, Flat!Induction
  <1> QED BY <1>1, <1>4 DEF T

LEMMA StageJoined ==
  ASSUME NEW n, NEW pre, NEW w, NEW piece, Stages(n, pre, w, piece), NEW k \in 1..n
  PROVE  Joined(Nat, pre \o w[k], pre \o w[k - 1], piece[k])
  <1> DEFINE before == w[k - 1]
             p == piece[k]
  <1>1. pre \in Seq(Nat) /\ p \in Seq(Nat) /\ w[k] = before \o p /\ n \in Nat
    BY DEF Stages
  <1>2. before \in Seq(Nat)
    <2>1. k - 1 \in 0..n
      BY <1>1
    <2> QED BY <2>1, StageTypes
  <1> HIDE DEF before, p
  <1> DEFINE one == before \o p
             first == pre \o before
             whole == pre \o one
  <1>3. Joined(Nat, one, before, p) /\ Joined(Nat, first, pre, before)
    BY <1>1, <1>2 DEF Joined
  <1> HIDE DEF one, first
  <1>4. one \in Seq(Nat)
    BY <1>3, JoinedParts
  <1>5. Joined(Nat, whole, pre, one)
    BY <1>1, <1>4 DEF Joined
  <1> HIDE DEF whole
  <1>6. Joined(Nat, whole, first, p)
    BY <1>3, <1>5, RegroupedBack
  <1>7. w[k] = one
    BY <1>1 DEF one
  <1> QED BY <1>6, <1>7 DEF whole, first, before, p

LEMMA StageBegins ==
  ASSUME NEW n, NEW pre, NEW w, NEW piece, Stages(n, pre, w, piece),
         NEW bytes \in Seq(Nat), Begins(bytes, pre \o w[n])
  PROVE  \A k \in 0..n : Begins(bytes, pre \o w[k])
  <1> DEFINE T == {d \in Nat : d <= n => Begins(bytes, pre \o w[n - d])}
  <1>1. n \in Nat
    BY DEF Stages
  <1>2. 0 \in T
    <2>1. n - 0 = n
      BY <1>1
    <2> QED BY <2>1
  <1>3. ASSUME NEW d \in Nat, d \in T PROVE d + 1 \in T
    <2> SUFFICES ASSUME d + 1 <= n PROVE Begins(bytes, pre \o w[n - (d + 1)])
      OBVIOUS
    <2>1. n - d \in 1..n /\ (n - d) - 1 = n - (d + 1) /\ d <= n
      BY <1>1
    <2>2. Joined(Nat, pre \o w[n - d], pre \o w[(n - d) - 1], piece[n - d])
      BY <2>1, StageJoined
    <2>3. Begins(bytes, pre \o w[n - d])
      BY <1>3, <2>1
    <2>4. Begins(bytes, pre \o w[(n - d) - 1])
      BY <2>2, <2>3, BeginsJoined
    <2> QED BY <2>1, <2>4
  <1> HIDE DEF T
  <1>4. \A d \in Nat : d \in T
    BY <1>2, <1>3, Flat!Induction
  <1>5. ASSUME NEW k \in 0..n PROVE Begins(bytes, pre \o w[k])
    <2>1. n - k \in Nat /\ n - k <= n /\ n - (n - k) = k
      BY <1>1
    <2>2. n - k \in T
      BY <1>4, <2>1
    <2> QED BY <2>1, <2>2 DEF T
  <1> QED BY <1>5

(* No piece of what can be sent is one that cannot.                        *)
LEMMA JoinedStages ==
  ASSUME NEW n \in Nat, NEW pre \in Seq(Nat), NEW w, NEW piece, w[0] = <<>>, w[n] # None,
         \A k \in 1..n : piece[k] = None \/ piece[k] \in Seq(Nat),
         \A k \in 1..n : w[k] = Join(w[k - 1], piece[k])
  PROVE  Stages(n, pre, w, piece) /\ \A k \in 1..n : piece[k] # None
  <1> DEFINE T == {d \in Nat : d <= n => w[n - d] # None}
  <1>1. 0 \in T
    <2>1. n - 0 = n
      OBVIOUS
    <2> QED BY <2>1
  <1>2. ASSUME NEW d \in Nat, d \in T PROVE d + 1 \in T
    <2> SUFFICES ASSUME d + 1 <= n PROVE w[n - (d + 1)] # None
      OBVIOUS
    <2>1. n - d \in 1..n /\ (n - d) - 1 = n - (d + 1) /\ d <= n
      OBVIOUS
    <2>2. w[n - d] = Join(w[(n - d) - 1], piece[n - d])
      BY <2>1
    <2>3. w[n - d] # None
      BY <1>2, <2>1
    <2> QED BY <2>1, <2>2, <2>3 DEF Join
  <1> HIDE DEF T
  <1>3. \A d \in Nat : d \in T
    BY <1>1, <1>2, Flat!Induction
  <1>4. ASSUME NEW k \in 1..n PROVE piece[k] # None /\ piece[k] \in Seq(Nat) /\ w[k] = w[k - 1] \o piece[k]
    <2>1. n - k \in Nat /\ n - k <= n /\ n - (n - k) = k
      OBVIOUS
    <2>2. n - k \in T
      BY <1>3, <2>1
    <2>3. w[k] # None
      BY <2>1, <2>2 DEF T
    <2>4. w[k] = Join(w[k - 1], piece[k])
      OBVIOUS
    <2>5. piece[k] # None /\ w[k] = w[k - 1] \o piece[k]
      BY <2>3, <2>4 DEF Join
    <2> QED BY <2>5
  <1> QED BY <1>4 DEF Stages

-----------------------------------------------------------------------------
(* The values of a record.                                                 *)
DigitStep(context, n, c) == 10 * n + (c - 48)

Digit == INSTANCE Folding WITH Op <- DigitStep

LEMMA NumberFolds ==
  ASSUME NEW v
  PROVE  Number(v) = Digit!Fold(0, 0, v)
  BY DEF Number, Digit!Fold, DigitStep, FoldLeft, MapThenFoldSet, Max,
         Digit!MapThenFoldSet, Digit!Greatest

LEMMA NumberIsNat ==
  ASSUME NEW v \in Seq(Nat), \A i \in DOMAIN v : v[i] \in Digits
  PROVE  Number(v) \in Nat
  <1> DEFINE P == {s \in Seq(Digits) : Digit!Fold(0, 0, s) \in Nat}
  <1>1. <<>> \in P
    BY EmptySeq, Digit!FoldEmpty
  <1>2. ASSUME NEW s \in Seq(Digits), NEW c \in Digits, s \in P PROVE Append(s, c) \in P
    <2>1. Digit!Fold(0, 0, Append(s, c)) = DigitStep(0, Digit!Fold(0, 0, s), c)
      BY Digit!FoldAppend
    <2>2. Append(s, c) \in Seq(Digits)
      OBVIOUS
    <2> DEFINE n == Digit!Fold(0, 0, s)
    <2>3. n \in Nat
      BY <1>2
    <2> HIDE DEF n
    <2>4. 10 * n + (c - 48) \in Nat
      BY <2>3 DEF Digits
    <2> QED BY <2>1, <2>2, <2>4 DEF DigitStep, n
  <1> HIDE DEF P
  <1>3. \A s \in Seq(Digits) : s \in P
    BY <1>1, <1>2, Digit!InductionAppend
  <1>4. v \in Seq(Digits)
    <2>1. \A i \in 1..Len(v) : v[i] \in Digits
      OBVIOUS
    <2> QED BY <2>1
  <1> QED BY <1>3, <1>4, NumberFolds DEF P

LEMMA SentTypes ==
  ASSUME NEW v \in Seq(Nat), NEW as
  PROVE  Sent(v, as) = None \/ Sent(v, as) \in Seq(Nat)
  <1>1. CASE as = "string"
    <2>1. Sent(v, as) = (<<255>> \o v) \o <<0>>
      BY <1>1 DEF Sent
    <2>2. <<255>> \in Seq(Nat) /\ <<0>> \in Seq(Nat)
      OBVIOUS
    <2>3. <<255>> \o v \in Seq(Nat)
      BY <2>2, ConcatProperties
    <2> QED BY <2>1, <2>2, <2>3, ConcatProperties
  <1>2. CASE as # "string" /\ v = <<>>
    BY <1>2 DEF Sent
  <1>3. CASE as # "string" /\ v # <<>>
    <2> SUFFICES ASSUME Sent(v, as) # None PROVE Sent(v, as) \in Seq(Nat)
      OBVIOUS
    <2>1. \A i \in DOMAIN v : v[i] \in Digits
      BY <1>3 DEF Sent, Fits
    <2> DEFINE n == Number(v)
    <2>2. n \in Nat
      BY <2>1, NumberIsNat
    <2>3. Sent(v, as) = <<n>> \/ Sent(v, as) = <<n \div 256, n % 256>>
      BY <1>3 DEF Sent
    <2> HIDE DEF n
    <2>4. n \div 256 \in Nat /\ n % 256 \in Nat
      BY <2>2
    <2>5. <<n>> \in Seq(Nat)
      BY <2>2
    <2> DEFINE high == n \div 256
               low == n % 256
    <2> HIDE DEF high, low
    <2>6. <<high, low>> \in Seq(Nat)
      BY <2>4 DEF high, low
    <2> QED BY <2>3, <2>5, <2>6 DEF high, low
  <1> QED BY <1>1, <1>2, <1>3

(* A piece is found where it was written.                                  *)
LEMMA PieceAt ==
  ASSUME NEW bytes \in Seq(Nat), NEW a, NEW b, NEW piece, Joined(Nat, b, a, piece), Begins(bytes, b)
  PROVE  /\ Len(b) = Len(a) + Len(piece) /\ Len(a) \in Nat /\ Len(piece) \in Nat
         /\ Len(b) <= Len(bytes) /\ Len(bytes) \in Nat
         /\ \A i \in 1..Len(piece) : bytes[Len(a) + i] = piece[i]
  <1>1. Len(b) = Len(a) + Len(piece) /\ Len(a) \in Nat /\ Len(piece) \in Nat
    BY JoinedParts
  <1>2. Len(b) <= Len(bytes) /\ \A i \in 1..Len(b) : bytes[i] = b[i]
    BY DEF Begins
  <1>3. \A i \in 1..Len(piece) : b[Len(a) + i] = piece[i]
    BY JoinedRest
  <1>4. \A i \in 1..Len(piece) : bytes[Len(a) + i] = piece[i]
    <2> SUFFICES ASSUME NEW i \in 1..Len(piece) PROVE bytes[Len(a) + i] = piece[i]
      OBVIOUS
    <2>1. Len(a) + i \in 1..Len(b)
      BY <1>1
    <2> QED BY <1>2, <1>3, <2>1
  <1> QED BY <1>1, <1>2, <1>4, LenProperties

(* A text with its terminator is read.                                     *)
LEMMA TextIsRead ==
  ASSUME NEW bytes \in Seq(Nat), NEW a, NEW w, NEW z, NEW text, NEW zero,
         Joined(Nat, w, a, text), Joined(Nat, z, w, zero), Only(zero, 0), Free(text, 0), Begins(bytes, z)
  PROVE  String(bytes, Len(a) + 1) = text /\ After(bytes, Len(a) + 1) = Len(z) + 1
  <1> DEFINE n == Len(bytes)
             i == Len(a) + 1
  <1>1. CutOf(Nat, bytes, bytes, n)
    <2>1. SubSeq(bytes, 1, n) = bytes /\ n \in 0..n
      BY SubSeqFull, LenProperties
    <2> QED BY <2>1 DEF CutOf
  <1>2. Len(z) <= n /\ n \in Nat
    BY LenProperties DEF Begins
  <1>3. Len(z) = Len(w) + Len(zero) /\ Len(zero) \in Nat
    BY JoinedParts
  <1>4. Len(w) = Len(a) + Len(text) /\ Len(text) \in Nat /\ Len(a) \in Nat
    BY JoinedParts
  <1> HIDE DEF n
  <1>5. Len(a) <= n /\ i \in Nat
    BY <1>2, <1>3, <1>4
  <1>6. Place(n, i, a)
    BY <1>2, <1>4, <1>5 DEF Place
  <1> HIDE DEF i
  <1>7. Place(n, After(bytes, i), z) /\ (Len(z) <= n => String(bytes, i) = text)
    BY <1>1, <1>6, StringIsRead
  <1>8. String(bytes, i) = text /\ After(bytes, i) = Len(z) + 1
    BY <1>2, <1>7 DEF Place
  <1> QED BY <1>8 DEF i

(* A byte, a text and its terminator.                                      *)
LEMMA MarkedTextIsRead ==
  ASSUME NEW bytes \in Seq(Nat), NEW a, NEW b, NEW piece, NEW mark, NEW x, NEW v, NEW mv, NEW zero,
         Joined(Nat, mv, mark, v), Joined(Nat, piece, mv, zero), Joined(Nat, b, a, piece),
         Only(mark, x), Only(zero, 0), Free(v, 0), Begins(bytes, b)
  PROVE  /\ bytes[Len(a) + 1] = x
         /\ String(bytes, Len(a) + 1 + 1) = v /\ After(bytes, Len(a) + 1 + 1) = Len(b) + 1
  <1> DEFINE am == a \o mark
             amv == am \o v
  <1>1. a \in Seq(Nat) /\ mark \in Seq(Nat) /\ v \in Seq(Nat)
    BY DEF Joined
  <1>2. Joined(Nat, am, a, mark)
    BY <1>1 DEF Joined
  <1> HIDE DEF am
  <1>3. am \in Seq(Nat)
    BY <1>2, JoinedParts
  <1>4. Joined(Nat, amv, am, v)
    BY <1>1, <1>3 DEF Joined
  <1> HIDE DEF amv
  <1>5. Joined(Nat, amv, a, mv)
    BY <1>2, <1>4, Regrouped
  <1>6. Joined(Nat, b, amv, zero)
    BY <1>5, RegroupedBack
  <1>7. String(bytes, Len(am) + 1) = v /\ After(bytes, Len(am) + 1) = Len(b) + 1
    BY <1>4, <1>6, TextIsRead
  <1>8. Len(am) = Len(a) + Len(mark)
    BY <1>2, JoinedParts
  <1>9. Len(mark) = 1 /\ mark[1] = x
    BY DEF Only
  <1>10. Begins(bytes, am)
    <2>1. Begins(bytes, amv)
      BY <1>6, BeginsJoined
    <2> QED BY <1>4, <2>1, BeginsJoined
  <1>11. \A i \in 1..Len(mark) : bytes[Len(a) + i] = mark[i]
    BY <1>2, <1>10, PieceAt
  <1>12. 1 \in 1..Len(mark)
    BY <1>9
  <1>13. bytes[Len(a) + 1] = x
    BY <1>9, <1>11, <1>12
  <1> QED BY <1>7, <1>8, <1>9, <1>13

LEMMA ByteValueIsRead ==
  ASSUME NEW bytes \in Seq(Nat), NEW a, NEW b, NEW x, Joined(Nat, b, a, <<x>>), Begins(bytes, b)
  PROVE  bytes[Len(a) + 1] = x /\ Len(b) = Len(a) + 1
  <1> DEFINE piece == <<x>>
  <1>1. Len(piece) = 1 /\ piece[1] = x
    OBVIOUS
  <1>0. Joined(Nat, b, a, piece)
    OBVIOUS
  <1> HIDE DEF piece
  <1>2. /\ Len(b) = Len(a) + Len(piece) /\ Len(a) \in Nat
        /\ \A i \in 1..Len(piece) : bytes[Len(a) + i] = piece[i]
    BY <1>0, PieceAt
  <1>3. 1 \in 1..Len(piece)
    BY <1>1
  <1> QED BY <1>1, <1>2, <1>3

LEMMA ShortValueIsRead ==
  ASSUME NEW bytes \in Seq(Nat), NEW a, NEW b, NEW x, NEW y, Joined(Nat, b, a, <<x, y>>), Begins(bytes, b)
  PROVE  /\ bytes[Len(a) + 1] = x /\ bytes[Len(a) + 1 + 1] = y
         /\ Len(a) + 1 + 2 = Len(b) + 1
  <1> DEFINE piece == <<x, y>>
  <1>1. Len(piece) = 2 /\ piece[1] = x /\ piece[2] = y
    OBVIOUS
  <1>0. Joined(Nat, b, a, piece)
    OBVIOUS
  <1> HIDE DEF piece
  <1>2. /\ Len(b) = Len(a) + Len(piece) /\ Len(a) \in Nat
        /\ \A i \in 1..Len(piece) : bytes[Len(a) + i] = piece[i]
    BY <1>0, PieceAt
  <1>3. 1 \in 1..Len(piece) /\ 2 \in 1..Len(piece)
    BY <1>1
  <1>4. Len(a) + 1 + 1 = Len(a) + 2 /\ Len(a) + 1 + 2 = Len(b) + 1
    BY <1>1, <1>2
  <1> QED BY <1>1, <1>2, <1>3, <1>4

(* What is shown of a text that was sent, and that a value is read.        *)
ShownAs(v, as) == IF as = "string" THEN v ELSE Number(v)

Reads(bytes, at, type, value, after) ==
  ReadValue(bytes, at, type) = [value |-> value, after |-> after]

(* A value is read as it was sent, where it was sent.                      *)
LEMMA ValueIsRead ==
  ASSUME NEW bytes \in Seq(Nat), NEW a, NEW b, NEW v \in Seq(Nat), NEW as \in Kinds,
         Joined(Nat, b, a, Sent(v, as)), Begins(bytes, b), Free(v, 0), Sent(v, as) # None
  PROVE  Reads(bytes, Len(a) + 1, TypeByte[as], ShownAs(v, as), Len(b) + 1)
  <1>1. CASE as = "string"
    <2> DEFINE mark == <<255>>
               zero == <<0>>
               mv == mark \o v
               piece == mv \o zero
    <2>1. mark \in Seq(Nat) /\ zero \in Seq(Nat) /\ Only(zero, 0) /\ Only(mark, 255)
      BY DEF Only
    <2>2. Joined(Nat, b, a, piece)
      BY <1>1 DEF Sent
    <2> HIDE DEF mark, zero
    <2>3. Joined(Nat, mv, mark, v)
      BY <2>1 DEF Joined
    <2> HIDE DEF mv
    <2>4. mv \in Seq(Nat)
      BY <2>3, JoinedParts
    <2>5. Joined(Nat, piece, mv, zero)
      BY <2>1, <2>4 DEF Joined
    <2> HIDE DEF piece
    <2> DEFINE i == Len(a) + 1
    <2>6. String(bytes, i + 1) = v /\ After(bytes, i + 1) = Len(b) + 1
      BY <2>1, <2>2, <2>3, <2>5, MarkedTextIsRead
    <2> HIDE DEF i
    <2>7. ReadValue(bytes, i, TypeByte[as]) = [value |-> String(bytes, i + 1), after |-> After(bytes, i + 1)]
      BY <1>1 DEF ReadValue, TypeByte
    <2> QED BY <1>1, <2>6, <2>7 DEF Reads, ShownAs, i
  <1>2. CASE as = "byte"
    <2> DEFINE x == Number(v)
               i == Len(a) + 1
    <2>1. Sent(v, as) = <<x>>
      <3>1. CASE v = <<>>
        BY <1>2, <3>1, NumberFolds, Digit!FoldEmpty DEF Sent
      <3>2. CASE v # <<>>
        BY <1>2, <3>2 DEF Sent
      <3> QED BY <3>1, <3>2
    <2> HIDE DEF x
    <2>2. Joined(Nat, b, a, <<x>>)
      BY <2>1
    <2>3. bytes[i] = x /\ Len(b) = i
      BY <2>2, ByteValueIsRead
    <2> HIDE DEF i
    <2>4. ReadValue(bytes, i, TypeByte[as]) = [value |-> bytes[i], after |-> i + 1]
      BY <1>2 DEF ReadValue, TypeByte
    <2> QED BY <1>2, <2>3, <2>4 DEF Reads, ShownAs, i, x
  <1>3. CASE as = "short"
    <2> DEFINE x == Number(v)
               i == Len(a) + 1
               high == x \div 256
               low == x % 256
    <2>1. x \in Nat /\ Sent(v, as) = <<high, low>>
      <3>1. CASE v = <<>>
        <4>1. x = 0
          BY <3>1, NumberFolds, Digit!FoldEmpty
        <4>2. Sent(v, as) = <<0, 0>>
          BY <1>3, <3>1 DEF Sent
        <4> HIDE DEF x
        <4>3. 0 \div 256 = 0 /\ 0 % 256 = 0
          OBVIOUS
        <4> QED BY <4>1, <4>2, <4>3
      <3>2. CASE v # <<>>
        <4>1. \A k \in DOMAIN v : v[k] \in Digits
          BY <1>3, <3>2 DEF Sent, Fits
        <4>2. x \in Nat
          BY <4>1, NumberIsNat
        <4>3. Sent(v, as) = <<high, low>>
          BY <1>3, <3>2 DEF Sent
        <4> QED BY <4>2, <4>3
      <3> QED BY <3>1, <3>2
    <2> HIDE DEF x
    <2>2. 256 * high + low = x
      BY <2>1
    <2> HIDE DEF high, low
    <2>3. Joined(Nat, b, a, <<high, low>>)
      BY <2>1
    <2>4. bytes[i] = high /\ bytes[i + 1] = low /\ i + 2 = Len(b) + 1
      BY <2>3, ShortValueIsRead
    <2> HIDE DEF i
    <2>5. ReadValue(bytes, i, TypeByte[as]) = [value |-> 256 * bytes[i] + bytes[i + 1], after |-> i + 2]
      BY <1>3 DEF ReadValue, TypeByte
    <2> QED BY <1>3, <2>2, <2>4, <2>5 DEF Reads, ShownAs, i, x
  <1> QED BY <1>1, <1>2, <1>3 DEF Kinds

-----------------------------------------------------------------------------
(* The header.                                                             *)
KeyStep(sendAs, bytes, k) == bytes \o Key(k, sendAs[k])

Keyed == INSTANCE Folding WITH Op <- KeyStep

KeyReadStep(bytes, r, i) ==
  [types |-> Append(r.types, bytes[r.at]), at |-> After(bytes, r.at + 1)]

KeyRead == INSTANCE Folding WITH Op <- KeyReadStep

(* One more value, for steps that are not about sequences.                 *)
Longer(s, x) == Append(s, x)

LEMMA KeyReadStepIs ==
  ASSUME NEW bytes, NEW types, NEW at, NEW i
  PROVE  KeyReadStep(bytes, [types |-> types, at |-> at], i)
           = [types |-> Longer(types, bytes[at]), at |-> After(bytes, at + 1)]
  BY DEF KeyReadStep, Longer

LEMMA KeysFold ==
  ASSUME NEW fields, NEW sendAs
  PROVE  Keys(fields, sendAs) = Keyed!Fold(sendAs, <<>>, fields)
  BY DEF Keys, Keyed!Fold, KeyStep, FoldLeft, MapThenFoldSet, Max,
         Keyed!MapThenFoldSet, Keyed!Greatest

LEMMA ReadKeysFolds ==
  ASSUME NEW bytes
  PROVE  ReadKeys(bytes) = KeyRead!Fold(bytes, [types |-> <<>>, at |-> 8], Upto(bytes[7]))
  BY DEF ReadKeys, Upto, KeyRead!Fold, KeyReadStep, FoldLeft, MapThenFoldSet, Max,
         KeyRead!MapThenFoldSet, KeyRead!Greatest

TypesOf(fields, sendAs) == [i \in 1..Len(fields) |-> TypeByte[sendAs[fields[i]]]]

LEMMA TypeIsNat ==
  ASSUME NEW as \in Kinds
  PROVE  TypeByte[as] \in Nat
  <1>1. CASE as = "string"
    BY <1>1 DEF TypeByte
  <1>2. CASE as = "byte"
    BY <1>2 DEF TypeByte
  <1>3. CASE as = "short"
    BY <1>3 DEF TypeByte
  <1> QED BY <1>1, <1>2, <1>3 DEF Kinds

LEMMA KeyIsRead ==
  ASSUME NEW bytes \in Seq(Nat), NEW a, NEW b, NEW k \in Seq(Nat), NEW as \in Kinds,
         Joined(Nat, b, a, Key(k, as)), Begins(bytes, b), Free(k, 0)
  PROVE  bytes[Len(a) + 1] = TypeByte[as] /\ After(bytes, Len(a) + 1 + 1) = Len(b) + 1
  <1> DEFINE x == TypeByte[as]
             mark == <<x>>
             zero == <<0>>
             mk == mark \o k
             piece == mk \o zero
  <1>1. x \in Nat
    BY TypeIsNat
  <1>2. Joined(Nat, b, a, piece)
    BY DEF Key
  <1> HIDE DEF x
  <1>3. mark \in Seq(Nat) /\ zero \in Seq(Nat) /\ Only(mark, x) /\ Only(zero, 0)
    BY <1>1 DEF Only
  <1> HIDE DEF mark, zero
  <1>4. Joined(Nat, mk, mark, k)
    BY <1>3 DEF Joined
  <1> HIDE DEF mk
  <1>5. mk \in Seq(Nat)
    BY <1>4, JoinedParts
  <1>6. Joined(Nat, piece, mk, zero)
    BY <1>3, <1>5 DEF Joined
  <1> HIDE DEF piece
  <1>7. bytes[Len(a) + 1] = x /\ After(bytes, Len(a) + 1 + 1) = Len(b) + 1
    BY <1>2, <1>3, <1>4, <1>6, MarkedTextIsRead
  <1> QED BY <1>7 DEF x

LEMMA KeyTypes ==
  ASSUME NEW k \in Seq(Nat), NEW as \in Kinds
  PROVE  Key(k, as) \in Seq(Nat)
  <1> DEFINE x == TypeByte[as]
             mark == <<x>>
             zero == <<0>>
             mk == mark \o k
  <1>1. x \in Nat
    BY TypeIsNat
  <1> HIDE DEF x
  <1>2. mark \in Seq(Nat) /\ zero \in Seq(Nat)
    BY <1>1
  <1> HIDE DEF mark
  <1>3. mk \in Seq(Nat)
    BY <1>2, ConcatProperties
  <1> HIDE DEF mk, zero
  <1>4. mk \o zero \in Seq(Nat)
    BY <1>2, <1>3, ConcatProperties
  <1> QED BY <1>4 DEF Key, mk, mark, zero, x

(* The keys, written one behind the other.                                 *)
KeyStages(fields, sendAs, pre, w) ==
  /\ Stages(Len(fields), pre, w, [k \in 1..Len(fields) |-> Key(fields[k], sendAs[fields[k]])])
  /\ w[Len(fields)] = Keys(fields, sendAs)

LEMMA KeysHaveStages ==
  ASSUME NEW fields, NEW sendAs, IsFields(fields, sendAs), NEW pre \in Seq(Nat)
  PROVE  \E w : KeyStages(fields, sendAs, pre, w)
  <1> DEFINE n == Len(fields)
             piece == [k \in 1..n |-> Key(fields[k], sendAs[fields[k]])]
  <1>1. fields \in Seq(Seq(Nat)) /\ n \in Nat
    BY LenProperties DEF IsFields
  <1>2. PICK w : Keyed!IsRun(sendAs, <<>>, fields, w)
    BY <1>1, Keyed!FoldRuns
  <1>3. w[0] = <<>> /\ w[n] = Keys(fields, sendAs)
    BY <1>2, KeysFold DEF Keyed!IsRun
  <1>4. ASSUME NEW k \in 1..n PROVE piece[k] \in Seq(Nat) /\ w[k] = w[k - 1] \o piece[k]
    <2>1. k - 1 \in Nat /\ k - 1 < n /\ (k - 1) + 1 = k
      BY <1>1
    <2>2. w[k] = KeyStep(sendAs, w[k - 1], fields[k])
      BY <1>2, <2>1 DEF Keyed!IsRun
    <2>3. fields[k] \in Seq(Nat) /\ sendAs[fields[k]] \in Kinds
      BY <1>1 DEF IsFields
    <2>4. Key(fields[k], sendAs[fields[k]]) \in Seq(Nat)
      BY <2>3, KeyTypes
    <2> QED BY <2>2, <2>4 DEF KeyStep
  <1>5. Stages(n, pre, w, piece)
    BY <1>1, <1>3, <1>4 DEF Stages
  <1> QED BY <1>3, <1>5 DEF KeyStages

(* What is ahead of the keys: an address, a port, and their number.        *)
Ahead(bytes, pre, fields) == Len(pre) + 1 = 8 /\ bytes[7] = Len(fields)

LEMMA KeysAreRead ==
  ASSUME NEW fields, NEW sendAs, IsFields(fields, sendAs),
         NEW bytes \in Seq(Nat), NEW pre \in Seq(Nat), NEW keyed,
         Joined(Nat, keyed, pre, Keys(fields, sendAs)), Begins(bytes, keyed),
         Ahead(bytes, pre, fields)
  PROVE  ReadKeys(bytes) = [types |-> TypesOf(fields, sendAs), at |-> Len(keyed) + 1]
  <1> DEFINE n == Len(fields)
             t == TypesOf(fields, sendAs)
             piece == [k \in 1..n |-> Key(fields[k], sendAs[fields[k]])]
  <1>1. PICK w : KeyStages(fields, sendAs, pre, w)
    BY KeysHaveStages
  <1>2. /\ n \in Nat /\ fields \in Seq(Seq(Nat)) /\ Len(fields) \in Nat
        /\ \A i \in 1..n : Free(fields[i], 0) /\ sendAs[fields[i]] \in Kinds
    BY LenProperties DEF IsFields
  <1>3. Stages(n, pre, w, piece) /\ pre \o w[n] = keyed /\ w[0] = <<>>
    BY <1>1 DEF KeyStages, Joined, Stages
  <1> DEFINE q == [k \in 0..n |-> [types |-> [i \in 1..k |-> t[i]], at |-> Len(pre \o w[k]) + 1]]
             up == Upto(n)
  <1>4. up \in Seq(Nat) /\ Len(up) = n /\ \A k \in 1..n : up[k] = k
    BY <1>2, UptoIs
  <1>5. q[0] = [types |-> <<>>, at |-> 8]
    <2>1. pre \o w[0] = pre
      BY <1>3, ConcatEmptySeq
    <2>2. [i \in 1..0 |-> t[i]] = <<>>
      OBVIOUS
    <2>3. 0 \in 0..n
      BY <1>2
    <2>4. q[0] = [types |-> [i \in 1..0 |-> t[i]], at |-> Len(pre \o w[0]) + 1]
      BY <2>3
    <2> DEFINE start == pre \o w[0]
    <2>6. start = pre
      BY <2>1
    <2> HIDE DEF start
    <2>7. Len(start) + 1 = 8
      BY <2>6 DEF Ahead
    <2>5. Len(pre \o w[0]) + 1 = 8
      BY <2>7 DEF start
    <2> HIDE DEF q
    <2> QED BY <2>2, <2>4, <2>5
  <1>6. ASSUME NEW k \in Nat, k < n PROVE q[k + 1] = KeyReadStep(bytes, q[k], up[k + 1])
    <2>1. k + 1 \in 1..n /\ (k + 1) - 1 = k /\ k \in 0..n /\ k + 1 \in 0..n
      BY <1>2, <1>6
    <2> DEFINE a == pre \o w[k]
               b == pre \o w[k + 1]
               f == fields[k + 1]
               as == sendAs[f]
    <2>2. Joined(Nat, b, a, Key(f, as))
      <3>1. Joined(Nat, pre \o w[k + 1], pre \o w[(k + 1) - 1], piece[k + 1])
        BY <1>3, <2>1, StageJoined
      <3>2. piece[k + 1] = Key(f, as)
        BY <2>1
      <3> QED BY <2>1, <3>1, <3>2
    <2>3. Begins(bytes, b)
      BY <1>3, <2>1, StageBegins
    <2>4. f \in Seq(Nat) /\ Free(f, 0) /\ as \in Kinds
      BY <1>2, <2>1
    <2>5. t[k + 1] = TypeByte[as]
      BY <2>1 DEF TypesOf
    <2>6. q[k] = [types |-> [i \in 1..k |-> t[i]], at |-> Len(a) + 1]
      BY <2>1
    <2>7. q[k + 1] = [types |-> [i \in 1..(k + 1) |-> t[i]], at |-> Len(b) + 1]
      BY <2>1
    <2>8. Append([i \in 1..k |-> t[i]], t[k + 1]) = [i \in 1..(k + 1) |-> t[i]]
      BY OneMore
    <2> HIDE DEF a, b, f, as
    <2>9. bytes[Len(a) + 1] = TypeByte[as] /\ After(bytes, Len(a) + 1 + 1) = Len(b) + 1
      BY <2>2, <2>3, <2>4, KeyIsRead
    <2> DEFINE one == [i \in 1..k |-> t[i]]
               more == [i \in 1..(k + 1) |-> t[i]]
               at == Len(a) + 1
    <2>10. q[k] = [types |-> one, at |-> at] /\ q[k + 1] = [types |-> more, at |-> Len(b) + 1]
      BY <2>6, <2>7
    <2>11. Longer(one, bytes[at]) = more /\ After(bytes, at + 1) = Len(b) + 1
      BY <2>5, <2>8, <2>9 DEF Longer
    <2> HIDE DEF q, t, one, more, at
    <2>12. KeyReadStep(bytes, [types |-> one, at |-> at], up[k + 1])
            = [types |-> Longer(one, bytes[at]), at |-> After(bytes, at + 1)]
      BY KeyReadStepIs
    <2> QED BY <2>10, <2>11, <2>12
  <1> HIDE DEF q
  <1>7. KeyRead!Fold(bytes, [types |-> <<>>, at |-> 8], up) = q[n]
    BY <1>4, <1>5, <1>6, KeyRead!FoldIs
  <1>8. q[n] = [types |-> t, at |-> Len(keyed) + 1]
    <2>1. n \in 0..n
      BY <1>2
    <2>2. [i \in 1..n |-> t[i]] = t
      BY DEF TypesOf
    <2> QED BY <1>3, <2>1, <2>2 DEF q
  <1>9. up = Upto(bytes[7])
    BY DEF Ahead
  <1> HIDE DEF up, t
  <1> QED BY <1>7, <1>8, <1>9, ReadKeysFolds DEF t

-----------------------------------------------------------------------------
(* The record of a server.                                                 *)
ValueStep(context, bytes, k) == Join(bytes, Value(context[1], k, context[2][k]))

Valued == INSTANCE Folding WITH Op <- ValueStep

ValueReadStep(bytes, r, type) ==
  LET v == ReadValue(bytes, r.after, type)
  IN [values |-> Append(r.values, v.value), after |-> v.after]

ValueRead == INSTANCE Folding WITH Op <- ValueReadStep

LEMMA ValuesFold ==
  ASSUME NEW data, NEW fields, NEW sendAs
  PROVE  Values(data, fields, sendAs) = Valued!Fold(<<data, sendAs>>, <<>>, fields)
  BY DEF Values, Valued!Fold, ValueStep, FoldLeft, MapThenFoldSet, Max,
         Valued!MapThenFoldSet, Valued!Greatest

ReadValues(bytes, after, types) ==
  ValueRead!Fold(bytes, [values |-> <<>>, after |-> after], types)

LEMMA ReadServerFolds ==
  ASSUME NEW bytes, NEW at, NEW types
  PROVE  ReadServer(bytes, at, types) =
           LET own == Has(bytes[at], NonStandardPort)
               r == ReadValues(bytes, IF own THEN at + 7 ELSE at + 5,
                                  IF Has(bytes[at], HasKeys) THEN types ELSE <<>>)
           IN [server |-> [ip |-> SubSeq(bytes, at + 1, at + 4),
                           port |-> IF own THEN SubSeq(bytes, at + 5, at + 6) ELSE QUERY_PORT,
                           natneg |-> Has(bytes[at], ConnectNegotiate),
                           values |-> r.values],
               after |-> r.after]
  BY DEF ReadServer, ReadValues, ValueRead!Fold, ValueReadStep, FoldLeft, MapThenFoldSet, Max,
         ValueRead!MapThenFoldSet, ValueRead!Greatest

(* What a server says of itself.                                           *)
Held(data, k) == IF k \in DOMAIN data THEN data[k] ELSE <<>>

LEMMA HeldIsText ==
  ASSUME NEW data, IsData(data), NEW k
  PROVE  Held(data, k) \in Seq(Nat) /\ Free(Held(data, k), 0)
  <1>1. <<>> \in Seq(Nat) /\ Free(<<>>, 0)
    BY DEF Free
  <1> QED BY <1>1 DEF IsData, Held

LEMMA ValueIsSent ==
  ASSUME NEW data, NEW k, NEW as
  PROVE  Value(data, k, as) = Sent(Held(data, k), as)
  BY DEF Value, Held

ShownOf(data, k, as) == ShownAs(Held(data, k), as)

ValuePieces(data, fields, sendAs) ==
  [k \in 1..Len(fields) |-> Value(data, fields[k], sendAs[fields[k]])]

ValueStages(data, fields, sendAs, pre, w) ==
  /\ Stages(Len(fields), pre, w, ValuePieces(data, fields, sendAs))
  /\ w[Len(fields)] = Values(data, fields, sendAs)
  /\ \A k \in 1..Len(fields) : Value(data, fields[k], sendAs[fields[k]]) # None

LEMMA ValuesHaveStages ==
  ASSUME NEW data, IsData(data), NEW fields, NEW sendAs, IsFields(fields, sendAs),
         Values(data, fields, sendAs) # None, NEW pre \in Seq(Nat)
  PROVE  \E w : ValueStages(data, fields, sendAs, pre, w)
  <1> DEFINE n == Len(fields)
             piece == ValuePieces(data, fields, sendAs)
             context == <<data, sendAs>>
  <1>1. fields \in Seq(Seq(Nat)) /\ n \in Nat
    BY LenProperties DEF IsFields
  <1>2. PICK w : Valued!IsRun(context, <<>>, fields, w)
    BY <1>1, Valued!FoldRuns
  <1>3. w[0] = <<>> /\ w[n] = Values(data, fields, sendAs)
    BY <1>2, ValuesFold DEF Valued!IsRun
  <1>4. ASSUME NEW k \in 1..n
        PROVE  (piece[k] = None \/ piece[k] \in Seq(Nat)) /\ w[k] = Join(w[k - 1], piece[k])
    <2>1. k - 1 \in Nat /\ k - 1 < n /\ (k - 1) + 1 = k
      BY <1>1
    <2>2. w[k] = ValueStep(context, w[k - 1], fields[k])
      BY <1>2, <2>1 DEF Valued!IsRun
    <2>3. piece[k] = Value(data, fields[k], sendAs[fields[k]])
      BY DEF ValuePieces
    <2>4. piece[k] = Sent(Held(data, fields[k]), sendAs[fields[k]])
      BY <2>3, ValueIsSent
    <2>5. piece[k] = None \/ piece[k] \in Seq(Nat)
      BY <2>4, HeldIsText, SentTypes
    <2>6. context[1] = data /\ context[2] = sendAs
      OBVIOUS
    <2> HIDE DEF context, piece
    <2>7. w[k] = Join(w[k - 1], piece[k])
      BY <2>2, <2>3, <2>6 DEF ValueStep
    <2> QED BY <2>5, <2>7
  <1>5. Stages(n, pre, w, piece) /\ \A k \in 1..n : piece[k] # None
    <2>1. w[n] # None
      BY <1>3
    <2> HIDE DEF n, piece
    <2> QED BY <1>1, <1>3, <1>4, <2>1, JoinedStages
  <1>6. \A k \in 1..n : piece[k] = Value(data, fields[k], sendAs[fields[k]])
    BY DEF ValuePieces
  <1> QED BY <1>3, <1>5, <1>6 DEF ValueStages

LEMMA ValueReadStepIs ==
  ASSUME NEW bytes, NEW values, NEW after, NEW type, NEW value, NEW next,
         Reads(bytes, after, type, value, next)
  PROVE  ValueReadStep(bytes, [values |-> values, after |-> after], type)
           = [values |-> Longer(values, value), after |-> next]
  BY DEF ValueReadStep, Reads, Longer

ShownAll(data, fields, sendAs) ==
  [j \in 1..Len(fields) |-> ShownOf(data, fields[j], sendAs[fields[j]])]

LEMMA TypesAre ==
  ASSUME NEW fields, NEW sendAs, IsFields(fields, sendAs)
  PROVE  /\ TypesOf(fields, sendAs) \in Seq(Nat) /\ Len(TypesOf(fields, sendAs)) = Len(fields)
         /\ \A k \in 1..Len(fields) : TypesOf(fields, sendAs)[k] = TypeByte[sendAs[fields[k]]]
  <1> DEFINE n == Len(fields)
             t == TypesOf(fields, sendAs)
  <1>1. n \in Nat /\ \A k \in 1..n : sendAs[fields[k]] \in Kinds
    BY LenProperties DEF IsFields
  <1>2. \A k \in 1..n : TypeByte[sendAs[fields[k]]] \in Nat
    BY <1>1, TypeIsNat
  <1>3. \A k \in 1..n : t[k] = TypeByte[sendAs[fields[k]]]
    BY DEF TypesOf
  <1>4. t \in [1..n -> Nat]
    BY <1>2 DEF TypesOf
  <1> HIDE DEF t, n
  <1>5. t \in Seq(Nat) /\ Len(t) = n
    BY <1>1, <1>4
  <1> QED BY <1>3, <1>5 DEF t, n

LEMMA ValuesAreRead ==
  ASSUME NEW data, IsData(data), NEW fields, NEW sendAs, IsFields(fields, sendAs),
         Values(data, fields, sendAs) # None,
         NEW bytes \in Seq(Nat), NEW pre \in Seq(Nat), NEW whole,
         Joined(Nat, whole, pre, Values(data, fields, sendAs)), Begins(bytes, whole)
  PROVE  ReadValues(bytes, Len(pre) + 1, TypesOf(fields, sendAs)) =
           [values |-> ShownAll(data, fields, sendAs), after |-> Len(whole) + 1]
  <1> DEFINE n == Len(fields)
             t == TypesOf(fields, sendAs)
             s == ShownAll(data, fields, sendAs)
             piece == ValuePieces(data, fields, sendAs)
  <1>1. PICK w : ValueStages(data, fields, sendAs, pre, w)
    BY ValuesHaveStages
  <1>2. /\ n \in Nat /\ fields \in Seq(Seq(Nat))
        /\ \A i \in 1..n : sendAs[fields[i]] \in Kinds
    BY LenProperties DEF IsFields
  <1>3. Stages(n, pre, w, piece) /\ pre \o w[n] = whole /\ w[0] = <<>>
    BY <1>1 DEF ValueStages, Joined, Stages
  <1> DEFINE q == [k \in 0..n |-> [values |-> [i \in 1..k |-> s[i]], after |-> Len(pre \o w[k]) + 1]]
             origin == [values |-> <<>>, after |-> Len(pre) + 1]
  <1>4. t \in Seq(Nat) /\ Len(t) = n /\ \A k \in 1..n : t[k] = TypeByte[sendAs[fields[k]]]
    BY TypesAre
  <1>5. q[0] = origin
    <2>1. pre \o w[0] = pre
      BY <1>3, ConcatEmptySeq
    <2>2. [i \in 1..0 |-> s[i]] = <<>>
      OBVIOUS
    <2>3. 0 \in 0..n
      BY <1>2
    <2>4. q[0] = [values |-> [i \in 1..0 |-> s[i]], after |-> Len(pre \o w[0]) + 1]
      BY <2>3
    <2> DEFINE start == pre \o w[0]
    <2>5. start = pre
      BY <2>1
    <2> HIDE DEF start
    <2>6. Len(start) + 1 = Len(pre) + 1
      BY <2>5
    <2>7. Len(pre \o w[0]) + 1 = Len(pre) + 1
      BY <2>6 DEF start
    <2> HIDE DEF q
    <2> QED BY <2>2, <2>4, <2>7
  <1>6. ASSUME NEW k \in Nat, k < n PROVE q[k + 1] = ValueReadStep(bytes, q[k], t[k + 1])
    <2>1. k + 1 \in 1..n /\ (k + 1) - 1 = k /\ k \in 0..n /\ k + 1 \in 0..n
      BY <1>2, <1>6
    <2> DEFINE a == pre \o w[k]
               b == pre \o w[k + 1]
               f == fields[k + 1]
               as == sendAs[f]
               v == Held(data, f)
    <2>2. Joined(Nat, b, a, piece[k + 1])
      <3>1. Joined(Nat, pre \o w[k + 1], pre \o w[(k + 1) - 1], piece[k + 1])
        BY <1>3, <2>1, StageJoined
      <3> QED BY <2>1, <3>1
    <2>3. Begins(bytes, b)
      BY <1>3, <2>1, StageBegins
    <2>4. piece[k + 1] = Sent(v, as)
      BY <2>1, ValueIsSent DEF ValuePieces
    <2>5. v \in Seq(Nat) /\ Free(v, 0) /\ as \in Kinds
      BY <1>2, <2>1, HeldIsText
    <2>6. Sent(v, as) # None
      BY <1>1, <2>1, ValueIsSent DEF ValueStages
    <2>7. t[k + 1] = TypeByte[as]
      BY <1>4, <2>1
    <2>8. s[k + 1] = ShownAs(v, as)
      BY <2>1 DEF ShownAll, ShownOf
    <2> DEFINE one == [i \in 1..k |-> s[i]]
               more == [i \in 1..(k + 1) |-> s[i]]
    <2>9. q[k] = [values |-> one, after |-> Len(a) + 1]
      BY <2>1
    <2>10. q[k + 1] = [values |-> more, after |-> Len(b) + 1]
      BY <2>1
    <2>11. Longer(one, s[k + 1]) = more
      BY OneMore DEF Longer
    <2> HIDE DEF a, b, f, as, v, one, more, q, s, t
    <2>12. Joined(Nat, b, a, Sent(v, as))
      BY <2>2, <2>4
    <2>13. Reads(bytes, Len(a) + 1, TypeByte[as], ShownAs(v, as), Len(b) + 1)
      BY <2>3, <2>5, <2>6, <2>12, ValueIsRead
    <2> DEFINE at == Len(a) + 1
               after == Len(b) + 1
               shown == ShownAs(v, as)
               type == TypeByte[as]
    <2>14. Reads(bytes, at, type, shown, after)
      BY <2>13
    <2>15. q[k] = [values |-> one, after |-> at] /\ q[k + 1] = [values |-> more, after |-> after]
      BY <2>9, <2>10
    <2>16. t[k + 1] = type /\ s[k + 1] = shown
      BY <2>7, <2>8
    <2> HIDE DEF at, after, shown, type
    <2>17. ValueReadStep(bytes, [values |-> one, after |-> at], type)
            = [values |-> Longer(one, shown), after |-> after]
      BY <2>14, ValueReadStepIs
    <2> QED BY <2>11, <2>15, <2>16, <2>17
  <1> HIDE DEF q, origin, t
  <1>7. ValueRead!Fold(bytes, origin, t) = q[n]
    <2>1. t \in Seq(Nat) /\ Len(t) = n
      BY <1>4
    <2> HIDE DEF n
    <2>2. \A k \in Nat : k < Len(t) => q[k + 1] = ValueReadStep(bytes, q[k], t[k + 1])
      BY <1>6, <2>1
    <2>3. ValueRead!Fold(bytes, origin, t) = q[Len(t)]
      BY <1>5, <2>1, <2>2, ValueRead!FoldIs
    <2> QED BY <2>1, <2>3
  <1>8. q[n] = [values |-> s, after |-> Len(whole) + 1]
    <2>1. n \in 0..n
      BY <1>2
    <2>2. [i \in 1..n |-> s[i]] = s
      BY DEF ShownAll
    <2> QED BY <1>3, <2>1, <2>2 DEF q
  <1> QED BY <1>7, <1>8 DEF ReadValues, origin, t

-----------------------------------------------------------------------------
LEMMA PieceRead ==
  ASSUME NEW bytes \in Seq(Nat), NEW a, NEW b, NEW piece, Joined(Nat, b, a, piece), Begins(bytes, b)
  PROVE  SubSeq(bytes, Len(a) + 1, Len(b)) = piece
  <1>1. b \in Seq(Nat) /\ Len(a) \in Nat
    BY JoinedParts
  <1>2. SubSeq(bytes, Len(a) + 1, Len(b)) = SubSeq(b, Len(a) + 1, Len(b))
    BY <1>1, BeginsCut
  <1>3. SubSeq(b, Len(a) + 1, Len(b)) = piece
    BY JoinedCut
  <1> QED BY <1>2, <1>3

LEMMA FlagsAreRead ==
  ASSUME NEW s, NEW natneg, IsServer(s)
  PROVE  /\ Flags(s, natneg) \in Nat
         /\ Has(Flags(s, natneg), NonStandardPort) = (s.port # QUERY_PORT)
         /\ Has(Flags(s, natneg), ConnectNegotiate) = Natneg(s.data, natneg)
         /\ Has(Flags(s, natneg), HasKeys)
  <1> DEFINE f == Flags(s, natneg)
             own == s.port # QUERY_PORT
             nat == Natneg(s.data, natneg)
  <1>1. DOMAIN s.data # {}
    BY DEF IsServer
  <1>2. /\ ~own /\ ~nat => f = 65
        /\ own /\ ~nat => f = 81
        /\ ~own /\ nat => f = 69
        /\ own /\ nat => f = 85
    BY <1>1 DEF Flags, UnsolicitedUDP, NonStandardPort, ConnectNegotiate, HasKeys
  <1>3. nat \in BOOLEAN
    BY DEF Natneg
  <1> HIDE DEF f, nat
  <1> DEFINE Right == f \in Nat /\ (Has(f, NonStandardPort) <=> own)
                      /\ (Has(f, ConnectNegotiate) <=> nat) /\ Has(f, HasKeys)
  <1>4. ASSUME ~own /\ ~nat PROVE Right
    <2>1. f = 65
      BY <1>2, <1>4
    <2>2. (65 \div 16) % 2 = 0 /\ (65 \div 4) % 2 = 0 /\ (65 \div 64) % 2 = 1
      OBVIOUS
    <2>3. ~Has(f, NonStandardPort) /\ ~Has(f, ConnectNegotiate) /\ Has(f, HasKeys)
      BY <2>1, <2>2 DEF Has, NonStandardPort, ConnectNegotiate, HasKeys
    <2> QED BY <1>4, <2>1, <2>3
  <1>5. ASSUME own /\ ~nat PROVE Right
    <2>1. f = 81
      BY <1>2, <1>5
    <2>2. (81 \div 16) % 2 = 1 /\ (81 \div 4) % 2 = 0 /\ (81 \div 64) % 2 = 1
      OBVIOUS
    <2>3. Has(f, NonStandardPort) /\ ~Has(f, ConnectNegotiate) /\ Has(f, HasKeys)
      BY <2>1, <2>2 DEF Has, NonStandardPort, ConnectNegotiate, HasKeys
    <2> QED BY <1>5, <2>1, <2>3
  <1>6. ASSUME ~own /\ nat PROVE Right
    <2>1. f = 69
      BY <1>2, <1>6
    <2>2. (69 \div 16) % 2 = 0 /\ (69 \div 4) % 2 = 1 /\ (69 \div 64) % 2 = 1
      OBVIOUS
    <2>3. ~Has(f, NonStandardPort) /\ Has(f, ConnectNegotiate) /\ Has(f, HasKeys)
      BY <2>1, <2>2 DEF Has, NonStandardPort, ConnectNegotiate, HasKeys
    <2> QED BY <1>6, <2>1, <2>3
  <1>7. ASSUME own /\ nat PROVE Right
    <2>1. f = 85
      BY <1>2, <1>7
    <2>2. (85 \div 16) % 2 = 1 /\ (85 \div 4) % 2 = 1 /\ (85 \div 64) % 2 = 1
      OBVIOUS
    <2>3. Has(f, NonStandardPort) /\ Has(f, ConnectNegotiate) /\ Has(f, HasKeys)
      BY <2>1, <2>2 DEF Has, NonStandardPort, ConnectNegotiate, HasKeys
    <2> QED BY <1>7, <2>1, <2>3
  <1>8. Right
    BY <1>4, <1>5, <1>6, <1>7
  <1>9. Has(f, NonStandardPort) \in BOOLEAN /\ Has(f, ConnectNegotiate) \in BOOLEAN
    BY DEF Has
  <1>10. Has(f, NonStandardPort) = own /\ Has(f, ConnectNegotiate) = nat
    BY <1>3, <1>8, <1>9
  <1> QED BY <1>8, <1>10 DEF f, nat

Row(s, fields, sendAs, natneg) ==
  [ip |-> s.ip, port |-> s.port, natneg |-> Natneg(s.data, natneg),
   values |-> ShownAll(s.data, fields, sendAs)]

(* A record is the flags, the address, the port and the values.            *)
Record(record, flags, fi, ip, front, port, values) ==
  /\ Joined(Nat, fi, flags, ip) /\ Joined(Nat, front, fi, port) /\ Joined(Nat, record, front, values)

LEMMA RecordHasParts ==
  ASSUME NEW s, IsServer(s), NEW fields, NEW sendAs, IsFields(fields, sendAs), NEW natneg,
         NEW record, record = PrepareServer(s, fields, sendAs, natneg), record # None
  PROVE  /\ Values(s.data, fields, sendAs) # None
         /\ \E fi, front : Record(record, <<Flags(s, natneg)>>, fi, s.ip, front, OwnPort(s),
                                  Values(s.data, fields, sendAs))
  <1> DEFINE fl == <<Flags(s, natneg)>>
             values == Values(s.data, fields, sendAs)
             ip == s.ip
             port == OwnPort(s)
             fi == fl \o ip
             front == fi \o port
  <1>1. fl \in Seq(Nat) /\ ip \in Seq(Nat) /\ port \in Seq(Nat)
    <2>1. fl \in Seq(Nat)
      BY FlagsAreRead
    <2>2. ip \in Seq(Nat) /\ s.port \in Seq(Nat) /\ <<>> \in Seq(Nat)
      BY DEF IsServer
    <2> QED BY <2>1, <2>2 DEF OwnPort
  <1>2. values # None /\ record = front \o values
    BY DEF PrepareServer, Join
  <1> HIDE DEF fl, ip, port
  <1>3. Joined(Nat, fi, fl, ip)
    BY <1>1 DEF Joined
  <1> HIDE DEF fi
  <1>4. fi \in Seq(Nat)
    BY <1>3, JoinedParts
  <1>5. Joined(Nat, front, fi, port)
    BY <1>1, <1>4 DEF Joined
  <1> HIDE DEF front
  <1>6. front \in Seq(Nat)
    BY <1>5, JoinedParts
  <1>7. values \in Seq(Nat)
    <2>1. IsData(s.data) /\ <<>> \in Seq(Nat) /\ Len(fields) \in Nat
      BY LenProperties DEF IsServer, IsFields
    <2>2. PICK w : ValueStages(s.data, fields, sendAs, <<>>, w)
      BY <1>2, <2>1, ValuesHaveStages
    <2>3. Stages(Len(fields), <<>>, w, ValuePieces(s.data, fields, sendAs)) /\ values = w[Len(fields)]
      BY <2>2 DEF ValueStages
    <2> HIDE DEF values
    <2> QED BY <2>1, <2>3, StageTypes
  <1>8. Joined(Nat, record, front, values)
    BY <1>2, <1>6, <1>7 DEF Joined
  <1>9. Record(record, fl, fi, ip, front, port, values)
    BY <1>3, <1>5, <1>8 DEF Record
  <1> QED BY <1>2, <1>9 DEF fl, ip, port

LEMMA RecordPlaces ==
  ASSUME NEW bytes \in Seq(Nat), NEW a, NEW b, NEW record, NEW flags, NEW fi, NEW ip, NEW front, NEW port, NEW values,
         Joined(Nat, b, a, record), Record(record, flags, fi, ip, front, port, values), Begins(bytes, b)
  PROVE  \E a1, a2, a3 : /\ Joined(Nat, a1, a, flags) /\ Begins(bytes, a1)
                         /\ Joined(Nat, a2, a1, ip) /\ Begins(bytes, a2)
                         /\ Joined(Nat, a3, a2, port) /\ Begins(bytes, a3)
                         /\ Joined(Nat, b, a3, values)
  <1>1. Joined(Nat, fi, flags, ip) /\ Joined(Nat, front, fi, port) /\ Joined(Nat, record, front, values)
    BY DEF Record
  <1>2. a \in Seq(Nat) /\ flags \in Seq(Nat) /\ fi \in Seq(Nat) /\ front \in Seq(Nat)
    BY <1>1 DEF Joined
  <1> DEFINE a1 == a \o flags
             a2 == a \o fi
             a3 == a \o front
  <1>3. Joined(Nat, a1, a, flags) /\ Joined(Nat, a2, a, fi) /\ Joined(Nat, a3, a, front)
    BY <1>2 DEF Joined
  <1> HIDE DEF a1, a2, a3
  <1>4. Joined(Nat, b, a3, values)
    BY <1>1, <1>3, RegroupedBack
  <1>5. Joined(Nat, a3, a2, port)
    BY <1>1, <1>3, RegroupedBack
  <1>6. Joined(Nat, a2, a1, ip)
    BY <1>1, <1>3, RegroupedBack
  <1>7. Begins(bytes, a3)
    BY <1>4, BeginsJoined
  <1>8. Begins(bytes, a2)
    BY <1>5, <1>7, BeginsJoined
  <1>9. Begins(bytes, a1)
    BY <1>6, <1>8, BeginsJoined
  <1> QED BY <1>3, <1>4, <1>5, <1>6, <1>7, <1>8, <1>9

Goes(bytes, at, types, row, after) ==
  ReadServer(bytes, at, types) = [server |-> row, after |-> after]

(* There is nothing to be read, or the address that ends a list.           *)
Stops(bytes, at) == at + 4 > Len(bytes) \/ AtEnd(bytes, at)

LEMMA ServerIsRead ==
  ASSUME NEW s, IsServer(s), NEW fields, NEW sendAs, IsFields(fields, sendAs), NEW natneg,
         NEW bytes \in Seq(Nat), NEW a, NEW b, NEW record, record = PrepareServer(s, fields, sendAs, natneg),
         record # None, Joined(Nat, b, a, record), Begins(bytes, b)
  PROVE  /\ Goes(bytes, Len(a) + 1, TypesOf(fields, sendAs), Row(s, fields, sendAs, natneg), Len(b) + 1)
         /\ ~Stops(bytes, Len(a) + 1)
  <1> DEFINE f == Flags(s, natneg)
             flags == <<f>>
             ip == s.ip
             port == OwnPort(s)
             values == Values(s.data, fields, sendAs)
             types == TypesOf(fields, sendAs)
             shown == ShownAll(s.data, fields, sendAs)
             own == Has(f, NonStandardPort)
  <1>1. PICK fi, front : Record(record, flags, fi, ip, front, port, values)
    BY RecordHasParts
  <1>2. values # None
    BY RecordHasParts
  <1> HIDE DEF flags, ip, port, values
  <1>3. PICK a1, a2, a3 :
          /\ Joined(Nat, a1, a, flags) /\ Begins(bytes, a1)
          /\ Joined(Nat, a2, a1, ip) /\ Begins(bytes, a2)
          /\ Joined(Nat, a3, a2, port) /\ Begins(bytes, a3)
          /\ Joined(Nat, b, a3, values)
    BY <1>1, RecordPlaces
  <1>4. Len(a1) = Len(a) + Len(flags) /\ Len(a) \in Nat /\ bytes[Len(a) + 1] = f
    <2>1. Len(a1) = Len(a) + Len(flags) /\ Len(a) \in Nat
      BY <1>3, JoinedParts
    <2>2. \A i \in 1..Len(flags) : bytes[Len(a) + i] = flags[i]
      BY <1>3, PieceAt
    <2>3. Len(flags) = 1 /\ flags[1] = f
      BY DEF flags
    <2>4. 1 \in 1..Len(flags)
      BY <2>3
    <2> QED BY <2>1, <2>2, <2>3, <2>4
  <1>5. Len(a2) = Len(a1) + Len(ip) /\ SubSeq(bytes, Len(a1) + 1, Len(a2)) = ip
    <2>1. Len(a2) = Len(a1) + Len(ip)
      BY <1>3, JoinedParts
    <2> QED BY <1>3, <2>1, PieceRead
  <1>6. Len(a3) = Len(a2) + Len(port) /\ SubSeq(bytes, Len(a2) + 1, Len(a3)) = port
    <2>1. Len(a3) = Len(a2) + Len(port)
      BY <1>3, JoinedParts
    <2> QED BY <1>3, <2>1, PieceRead
  <1>7. ReadValues(bytes, Len(a3) + 1, types) = [values |-> shown, after |-> Len(b) + 1]
    <2>1. a3 \in Seq(Nat) /\ IsData(s.data)
      BY <1>3, JoinedParts DEF IsServer
    <2>2. Joined(Nat, b, a3, Values(s.data, fields, sendAs)) /\ Values(s.data, fields, sendAs) # None
      BY <1>2, <1>3 DEF values
    <2> QED BY <2>1, <2>2, ValuesAreRead
  <1> DEFINE at == Len(a) + 1
             keys == IF own THEN at + 7 ELSE at + 5
  <1>8. /\ Has(f, NonStandardPort) = (s.port # QUERY_PORT)
        /\ Has(f, ConnectNegotiate) = Natneg(s.data, natneg)
        /\ Has(f, HasKeys)
    BY FlagsAreRead
  <1>9. SubSeq(bytes, at + 1, at + 4) = ip
    <2>1. Len(flags) = 1 /\ Len(ip) = 4
      BY DEF flags, ip, IsServer
    <2>2. at + 1 = Len(a1) + 1 /\ at + 4 = Len(a2)
      BY <1>4, <1>5, <2>1
    <2> QED BY <1>5, <2>2
  <1>10. keys = Len(a3) + 1 /\ (own => at + 5 = Len(a2) + 1 /\ at + 6 = Len(a3))
    <2>1. Len(flags) = 1 /\ Len(ip) = 4
      BY DEF flags, ip, IsServer
    <2>2. Len(port) = IF own THEN 2 ELSE 0
      BY <1>8 DEF port, OwnPort, IsServer
    <2> HIDE DEF own
    <2> QED BY <1>4, <1>5, <1>6, <2>1, <2>2
  <1>11. (IF own THEN SubSeq(bytes, at + 5, at + 6) ELSE QUERY_PORT) = s.port
    <2>1. CASE own
      <3>1. SubSeq(bytes, at + 5, at + 6) = port
        BY <1>6, <1>10, <2>1
      <3>2. port = s.port
        BY <1>8, <2>1 DEF port, OwnPort
      <3> QED BY <2>1, <3>1, <3>2
    <2>2. CASE ~own
      BY <1>8, <2>2
    <2> QED BY <2>1, <2>2
  <1> DEFINE r == ReadValues(bytes, keys, types)
             p == IF own THEN SubSeq(bytes, at + 5, at + 6) ELSE QUERY_PORT
             i == SubSeq(bytes, at + 1, at + 4)
             n == Has(f, ConnectNegotiate)
  <1>12. bytes[at] = f
    BY <1>4
  <1>13. ReadServer(bytes, at, types) =
           [server |-> [ip |-> i, port |-> p, natneg |-> n, values |-> r.values], after |-> r.after]
    <2> DEFINE flag == bytes[at]
               k == IF Has(flag, HasKeys) THEN types ELSE <<>>
    <2>1. k = types /\ flag = f
      BY <1>8, <1>12
    <2>2. ReadServer(bytes, at, types) =
           LET o == Has(flag, NonStandardPort)
               q == ReadValues(bytes, IF o THEN at + 7 ELSE at + 5, k)
           IN [server |-> [ip |-> SubSeq(bytes, at + 1, at + 4),
                           port |-> IF o THEN SubSeq(bytes, at + 5, at + 6) ELSE QUERY_PORT,
                           natneg |-> Has(flag, ConnectNegotiate),
                           values |-> q.values],
               after |-> q.after]
      BY ReadServerFolds, Zenon
    <2> HIDE DEF flag, k, f, types, at
    <2> QED BY <2>1, <2>2, Zenon
  <1>14. i = ip /\ p = s.port /\ n = Natneg(s.data, natneg)
    BY <1>8, <1>9, <1>11
  <1>15. r = [values |-> shown, after |-> Len(b) + 1]
    BY <1>7, <1>10
  <1> DEFINE after == Len(b) + 1
  <1>16. r.values = shown /\ r.after = after
    BY <1>15
  <1> HIDE DEF r, p, i, n, shown, after
  <1>17. ReadServer(bytes, at, types) =
           [server |-> [ip |-> ip, port |-> s.port, natneg |-> Natneg(s.data, natneg), values |-> shown],
            after |-> after]
    BY <1>13, <1>14, <1>16, Zenon
  <1>18. Goes(bytes, Len(a) + 1, types, Row(s, fields, sendAs, natneg), Len(b) + 1)
    BY <1>17, Zenon DEF Goes, Row, shown, ip, after, types, at
  <1>19. ~(at + 4 > Len(bytes))
    <2>1. Len(a2) <= Len(bytes) /\ Len(bytes) \in Nat
      BY <1>3, LenProperties DEF Begins
    <2>2. Len(flags) = 1 /\ Len(ip) = 4
      BY DEF flags, ip, IsServer
    <2> QED BY <1>4, <1>5, <2>1, <2>2
  <1>20. ip # Tail(End)
    BY DEF ip, IsServer
  <1>21. ~Stops(bytes, at)
    BY <1>9, <1>19, <1>20 DEF Stops, AtEnd
  <1> QED BY <1>18, <1>21

-----------------------------------------------------------------------------
(* The list.                                                               *)
ServerStep(context, bytes, s) == Join(bytes, PrepareServer(s, context[1], context[2], context[3]))

Served == INSTANCE Folding WITH Op <- ServerStep

Records(servers, fields, sendAs, natneg) == Served!Fold(<<fields, sendAs, natneg>>, <<>>, servers)

LEMMA ListFolds ==
  ASSUME NEW address, NEW servers, NEW fields, NEW sendAs, NEW natneg, NEW options
  PROVE  List(address, servers, fields, sendAs, natneg, options) =
           Join(ResponseHeader(address, fields, sendAs, options),
                IF Has(options, NoServerList) \/ Has(options, SendGroups) THEN <<>>
                ELSE Join(Records(servers, fields, sendAs, natneg), End))
  BY DEF List, Records, Served!Fold, ServerStep, FoldLeft, MapThenFoldSet, Max,
         Served!MapThenFoldSet, Served!Greatest

RowStep(context, r, i) ==
  IF r.after + 4 > Len(context[1]) \/ AtEnd(context[1], r.after) THEN r
  ELSE LET next == ReadServer(context[1], r.after, context[2])
       IN [servers |-> Append(r.servers, next.server), after |-> next.after]

RowRead == INSTANCE Folding WITH Op <- RowStep

ReadRows(bytes, keys, most) ==
  RowRead!Fold(<<bytes, keys.types>>, [servers |-> <<>>, after |-> keys.at + 1], Upto(most))

LEMMA ReadListFolds ==
  ASSUME NEW bytes, NEW most
  PROVE  ReadList(bytes, most) =
           LET r == ReadRows(bytes, ReadKeys(bytes), most)
           IN IF r.after + 4 = Len(bytes) /\ AtEnd(bytes, r.after) THEN r.servers ELSE None
  <1> DEFINE keys == ReadKeys(bytes)
             types == keys.types
             origin == [servers |-> <<>>, after |-> keys.at + 1]
             loop == FoldLeft(LAMBDA r, i :
                       IF r.after + 4 > Len(bytes) \/ AtEnd(bytes, r.after) THEN r
                       ELSE LET next == ReadServer(bytes, r.after, types)
                            IN [servers |-> Append(r.servers, next.server), after |-> next.after],
                       origin, [i \in 1..most |-> i])
  <1>1. ReadList(bytes, most) =
          IF loop.after + 4 = Len(bytes) /\ AtEnd(bytes, loop.after) THEN loop.servers ELSE None
    BY Zenon DEF ReadList
  <1>2. ReadRows(bytes, keys, most) = RowRead!Fold(<<bytes, types>>, origin, [i \in 1..most |-> i])
    BY Zenon DEF ReadRows, Upto
  <1> HIDE DEF keys, types, origin
  <1>3. loop = RowRead!Fold(<<bytes, types>>, origin, [i \in 1..most |-> i])
    BY DEF RowRead!Fold, RowStep, FoldLeft, MapThenFoldSet, Max,
           RowRead!MapThenFoldSet, RowRead!Greatest
  <1> HIDE DEF loop
  <1> QED BY <1>1, <1>2, <1>3, Zenon DEF keys

LEMMA RowGoes ==
  ASSUME NEW bytes, NEW types, NEW rows, NEW at, NEW row, NEW after, NEW i,
         Goes(bytes, at, types, row, after), ~Stops(bytes, at)
  PROVE  RowStep(<<bytes, types>>, [servers |-> rows, after |-> at], i)
           = [servers |-> Longer(rows, row), after |-> after]
  <1> DEFINE c == <<bytes, types>>
             r == [servers |-> rows, after |-> at]
  <1>1. c[1] = bytes /\ c[2] = types /\ r.servers = rows /\ r.after = at
    OBVIOUS
  <1> HIDE DEF c, r
  <1>2. ReadServer(c[1], r.after, c[2]) = [server |-> row, after |-> after]
    BY <1>1 DEF Goes
  <1>3. ~(r.after + 4 > Len(c[1]) \/ AtEnd(c[1], r.after))
    BY <1>1 DEF Stops
  <1>4. RowStep(c, r, i) = [servers |-> Longer(rows, row), after |-> after]
    <2> DEFINE next == ReadServer(c[1], r.after, c[2])
    <2>1. next.server = row /\ next.after = after
      BY <1>2
    <2>2. RowStep(c, r, i) = [servers |-> Append(r.servers, next.server), after |-> next.after]
      BY <1>3 DEF RowStep
    <2> HIDE DEF next
    <2>3. RowStep(c, r, i) = [servers |-> Append(rows, row), after |-> after]
      BY <1>1, <2>1, <2>2
    <2> QED BY <2>3 DEF Longer
  <1> QED BY <1>4 DEF c, r

LEMMA RowStays ==
  ASSUME NEW bytes, NEW types, NEW rows, NEW at, NEW i, Stops(bytes, at)
  PROVE  RowStep(<<bytes, types>>, [servers |-> rows, after |-> at], i)
           = [servers |-> rows, after |-> at]
  BY DEF RowStep, Stops

ServerPieces(servers, fields, sendAs, natneg) ==
  [k \in 1..Len(servers) |-> PrepareServer(servers[k], fields, sendAs, natneg)]

ServerStages(servers, fields, sendAs, natneg, pre, w) ==
  /\ Stages(Len(servers), pre, w, ServerPieces(servers, fields, sendAs, natneg))
  /\ w[Len(servers)] = Records(servers, fields, sendAs, natneg)
  /\ \A k \in 1..Len(servers) : PrepareServer(servers[k], fields, sendAs, natneg) # None

LEMMA ServersHaveStages ==
  ASSUME NEW servers, IsServers(servers), NEW fields, NEW sendAs, IsFields(fields, sendAs), NEW natneg,
         Records(servers, fields, sendAs, natneg) # None, NEW pre \in Seq(Nat)
  PROVE  \E w : ServerStages(servers, fields, sendAs, natneg, pre, w)
  <1> DEFINE n == Len(servers)
             piece == ServerPieces(servers, fields, sendAs, natneg)
             context == <<fields, sendAs, natneg>>
             S == {servers[i] : i \in 1..Len(servers)}
  <1>1. servers \in Seq(S)
    BY DEF IsServers
  <1> HIDE DEF S
  <1>2. n \in Nat
    BY <1>1, LenProperties
  <1>3. PICK w : Served!IsRun(context, <<>>, servers, w)
    BY <1>1, Served!FoldRuns
  <1>4. w[0] = <<>> /\ w[n] = Records(servers, fields, sendAs, natneg)
    BY <1>3 DEF Served!IsRun, Records
  <1>5. ASSUME NEW k \in 1..n
        PROVE  (piece[k] = None \/ piece[k] \in Seq(Nat)) /\ w[k] = Join(w[k - 1], piece[k])
    <2>1. k - 1 \in Nat /\ k - 1 < n /\ (k - 1) + 1 = k
      BY <1>2
    <2>2. w[k] = ServerStep(context, w[k - 1], servers[k])
      BY <1>3, <2>1 DEF Served!IsRun
    <2> DEFINE record == PrepareServer(servers[k], fields, sendAs, natneg)
    <2>3. piece[k] = record
      BY DEF ServerPieces
    <2>4. record = None \/ record \in Seq(Nat)
      <3> SUFFICES ASSUME record # None PROVE record \in Seq(Nat)
        OBVIOUS
      <3>1. IsServer(servers[k])
        BY DEF IsServers
      <3>2. PICK fi, front : Record(record, <<Flags(servers[k], natneg)>>, fi, servers[k].ip, front,
                                    OwnPort(servers[k]), Values(servers[k].data, fields, sendAs))
        BY <3>1, RecordHasParts
      <3>3. Joined(Nat, record, front, Values(servers[k].data, fields, sendAs))
        BY <3>2 DEF Record
      <3> HIDE DEF record
      <3> QED BY <3>3, JoinedParts
    <2>5. context[1] = fields /\ context[2] = sendAs /\ context[3] = natneg
      OBVIOUS
    <2> HIDE DEF context, piece
    <2>6. w[k] = Join(w[k - 1], piece[k])
      BY <2>2, <2>3, <2>5 DEF ServerStep
    <2> QED BY <2>3, <2>4, <2>6
  <1>6. Stages(n, pre, w, piece) /\ \A k \in 1..n : piece[k] # None
    <2>1. w[n] # None
      BY <1>4
    <2> HIDE DEF n, piece
    <2> QED BY <1>2, <1>4, <1>5, <2>1, JoinedStages
  <1>7. \A k \in 1..n : piece[k] = PrepareServer(servers[k], fields, sendAs, natneg)
    BY DEF ServerPieces
  <1> QED BY <1>4, <1>6, <1>7 DEF ServerStages

RowsOf(servers, fields, sendAs, natneg) ==
  [i \in 1..Len(servers) |-> Row(servers[i], fields, sendAs, natneg)]

LEMMA EndIsRead ==
  ASSUME NEW bytes \in Seq(Nat), NEW hr, Joined(Nat, bytes, hr, End)
  PROVE  Len(hr) + 1 + 4 = Len(bytes) /\ AtEnd(bytes, Len(hr) + 1)
  <1> DEFINE e == End
             front == <<e[1]>>
             tail == Tail(e)
             hf == hr \o front
  <1>1. e \in Seq(Nat) /\ Len(e) = 5
    BY DEF End
  <1>2. e # <<>>
    BY <1>1
  <1> HIDE DEF e
  <1>3. e = front \o tail /\ tail \in Seq(Nat) /\ e[1] \in Nat
    BY <1>1, <1>2, FrontAndTail
  <1>4. front \in Seq(Nat) /\ Len(front) = 1 /\ Len(tail) = 4
    BY <1>1, <1>3
  <1>5. hr \in Seq(Nat) /\ Joined(Nat, bytes, hr, e)
    BY DEF Joined, e
  <1> HIDE DEF front, tail
  <1>6. Joined(Nat, hf, hr, front)
    BY <1>4, <1>5 DEF Joined
  <1> HIDE DEF hf
  <1>7. Joined(Nat, e, front, tail)
    BY <1>3, <1>4 DEF Joined
  <1>8. Joined(Nat, bytes, hf, tail)
    BY <1>5, <1>6, <1>7, RegroupedBack
  <1>9. Begins(bytes, bytes)
    BY BeginsWhole
  <1>10. SubSeq(bytes, Len(hf) + 1, Len(bytes)) = tail
    BY <1>8, <1>9, PieceRead
  <1>11. Len(bytes) = Len(hf) + Len(tail)
    BY <1>8, JoinedParts
  <1>12. Len(hf) = Len(hr) + Len(front) /\ Len(hr) \in Nat
    BY <1>6, JoinedParts
  <1>13. Len(hf) + 1 = Len(hr) + 1 + 1 /\ Len(bytes) = Len(hr) + 1 + 4
    BY <1>4, <1>11, <1>12
  <1>14. SubSeq(bytes, Len(hr) + 1 + 1, Len(hr) + 1 + 4) = tail
    BY <1>10, <1>13
  <1> QED BY <1>13, <1>14 DEF tail, e, AtEnd

LEMMA RowsAreRead ==
  ASSUME NEW servers, IsServers(servers), NEW fields, NEW sendAs, IsFields(fields, sendAs), NEW natneg,
         Records(servers, fields, sendAs, natneg) # None,
         NEW bytes \in Seq(Nat), NEW head, NEW hr,
         Joined(Nat, hr, head, Records(servers, fields, sendAs, natneg)), Joined(Nat, bytes, hr, End),
         NEW keys, keys = [types |-> TypesOf(fields, sendAs), at |-> Len(head)]
  PROVE  ReadRows(bytes, keys, Len(servers) + 1) =
           [servers |-> RowsOf(servers, fields, sendAs, natneg), after |-> Len(hr) + 1]
  <1> DEFINE n == Len(servers)
             types == TypesOf(fields, sendAs)
             rows == RowsOf(servers, fields, sendAs, natneg)
             piece == ServerPieces(servers, fields, sendAs, natneg)
             S == {servers[i] : i \in 1..Len(servers)}
             context == <<bytes, types>>
             origin == [servers |-> <<>>, after |-> Len(head) + 1]
             up == Upto(n + 1)
  <1>1. n \in Nat /\ n + 1 \in Nat
    <2>1. servers \in Seq(S)
      BY DEF IsServers
    <2> HIDE DEF S
    <2> QED BY <2>1, LenProperties
  <1>2. head \in Seq(Nat) /\ hr \in Seq(Nat) /\ hr = head \o Records(servers, fields, sendAs, natneg)
    BY DEF Joined
  <1>3. Begins(bytes, hr)
    BY BeginsWhole, BeginsJoined
  <1>4. PICK w : ServerStages(servers, fields, sendAs, natneg, head, w)
    BY <1>2, ServersHaveStages
  <1>5. Stages(n, head, w, piece) /\ head \o w[n] = hr /\ w[0] = <<>>
    BY <1>2, <1>4 DEF ServerStages, Stages
  <1> DEFINE So(k) == [servers |-> [i \in 1..k |-> rows[i]], after |-> Len(head \o w[k]) + 1]
             q == [k \in 0..(n + 1) |-> IF k = n + 1 THEN So(n) ELSE So(k)]
  <1>6. up \in Seq(Nat) /\ Len(up) = n + 1
    BY <1>1, UptoIs
  <1>7. So(0) = origin
    <2>1. head \o w[0] = head
      BY <1>2, <1>5, ConcatEmptySeq
    <2>2. [i \in 1..0 |-> rows[i]] = <<>>
      OBVIOUS
    <2> DEFINE start == head \o w[0]
    <2>3. start = head
      BY <2>1
    <2> HIDE DEF start
    <2>4. Len(start) + 1 = Len(head) + 1
      BY <2>3
    <2> QED BY <2>2, <2>4 DEF start
  <1>8. So(n) = [servers |-> rows, after |-> Len(hr) + 1]
    <2>1. [i \in 1..n |-> rows[i]] = rows
      BY DEF RowsOf
    <2>2. Len(head \o w[n]) = Len(hr)
      BY <1>5
    <2> QED BY <2>1, <2>2
  <1>9. ASSUME NEW k \in Nat, k < n PROVE So(k + 1) = RowStep(context, So(k), up[k + 1])
    <2>1. k + 1 \in 1..n /\ (k + 1) - 1 = k /\ k \in 0..n /\ k + 1 \in 0..n
      BY <1>1, <1>9
    <2> DEFINE a == head \o w[k]
               b == head \o w[k + 1]
               s == servers[k + 1]
               record == PrepareServer(s, fields, sendAs, natneg)
    <2>2. Joined(Nat, b, a, record)
      <3>1. Joined(Nat, head \o w[k + 1], head \o w[(k + 1) - 1], piece[k + 1])
        BY <1>5, <2>1, StageJoined
      <3>2. piece[k + 1] = record
        BY <2>1 DEF ServerPieces
      <3> QED BY <2>1, <3>1, <3>2
    <2>3. Begins(bytes, b)
      BY <1>3, <1>5, <2>1, StageBegins
    <2>4. IsServer(s) /\ record # None
      BY <1>4, <2>1 DEF IsServers, ServerStages
    <2> DEFINE row == Row(s, fields, sendAs, natneg)
               one == [i \in 1..k |-> rows[i]]
               more == [i \in 1..(k + 1) |-> rows[i]]
               at == Len(a) + 1
               after == Len(b) + 1
    <2>5. Goes(bytes, at, types, row, after) /\ ~Stops(bytes, at)
      <3> HIDE DEF a, b, s
      <3> QED BY <2>2, <2>3, <2>4, ServerIsRead
    <2>6. rows[k + 1] = row
      BY <2>1 DEF RowsOf
    <2>7. Longer(one, rows[k + 1]) = more
      BY OneMore DEF Longer
    <2>8. So(k) = [servers |-> one, after |-> at] /\ So(k + 1) = [servers |-> more, after |-> after]
      OBVIOUS
    <2> HIDE DEF at, after, one, more, row, types, rows, So
    <2>9. RowStep(context, [servers |-> one, after |-> at], up[k + 1])
            = [servers |-> Longer(one, row), after |-> after]
      BY <2>5, RowGoes
    <2> QED BY <2>6, <2>7, <2>8, <2>9
  <1>10. RowStep(context, So(n), up[n + 1]) = So(n)
    <2> DEFINE at == Len(hr) + 1
    <2>1. Stops(bytes, at)
      BY EndIsRead DEF Stops
    <2> HIDE DEF at, rows, types, So
    <2>2. RowStep(context, [servers |-> rows, after |-> at], up[n + 1]) = [servers |-> rows, after |-> at]
      BY <2>1, RowStays
    <2> QED BY <1>8, <2>2 DEF at
  <1> HIDE DEF So, context, origin
  <1>11. q[0] = origin
    <2>1. 0 \in 0..(n + 1) /\ 0 # n + 1
      BY <1>1
    <2> QED BY <1>7, <2>1
  <1>12. ASSUME NEW k \in Nat, k < n + 1 PROVE q[k + 1] = RowStep(context, q[k], up[k + 1])
    <2>1. k \in 0..(n + 1) /\ k + 1 \in 0..(n + 1) /\ k # n + 1
      BY <1>1, <1>12
    <2>2. q[k] = So(k)
      BY <2>1
    <2>3. CASE k < n
      <3>1. k + 1 # n + 1
        BY <1>1, <2>3
      <3>2. q[k + 1] = So(k + 1)
        BY <2>1, <3>1
      <3> HIDE DEF q
      <3> QED BY <1>9, <2>2, <2>3, <3>2
    <2>4. CASE k = n
      <3>1. q[k + 1] = So(n)
        BY <2>1, <2>4
      <3> HIDE DEF q
      <3> QED BY <1>10, <2>2, <2>4, <3>1
    <2> QED BY <1>1, <1>12, <2>3, <2>4
  <1>13. q[n + 1] = So(n)
    <2>1. n + 1 \in 0..(n + 1)
      BY <1>1
    <2> QED BY <2>1
  <1> HIDE DEF q, up
  <1>14. RowRead!Fold(context, origin, up) = q[n + 1]
    <2>1. \A k \in Nat : k < Len(up) => q[k + 1] = RowStep(context, q[k], up[k + 1])
      BY <1>6, <1>12
    <2>2. RowRead!Fold(context, origin, up) = q[Len(up)]
      BY <1>6, <1>11, <2>1, RowRead!FoldIs
    <2> QED BY <1>6, <2>2
  <1>15. ReadRows(bytes, keys, n + 1) = RowRead!Fold(context, origin, up)
    <2>1. keys.types = types /\ keys.at = Len(head)
      OBVIOUS
    <2> HIDE DEF types
    <2> QED BY <2>1, Zenon DEF ReadRows, context, origin, up
  <1> QED BY <1>8, <1>13, <1>14, <1>15

LEMMA HeaderHasParts ==
  ASSUME NEW address, NEW servers, NEW fields, NEW sendAs, IsList(address, servers, fields, sendAs),
         NEW options, ~Has(options, NoServerList),
         NEW head, head = ResponseHeader(address, fields, sendAs, options)
  PROVE  \E pre, keyed, zero :
           /\ Joined(Nat, keyed, pre, Keys(fields, sendAs)) /\ Joined(Nat, head, keyed, zero)
           /\ Len(pre) + 1 = 8 /\ pre[7] = Len(fields) /\ Only(zero, 0)
  <1> DEFINE aq == address \o QUERY_PORT
             count == Count(fields)
             w == Keys(fields, sendAs)
             cw == count \o w
             zero == <<0>>
             body == cw \o zero
             pre == aq \o count
             keyed == aq \o cw
  <1>1. address \in Seq(Nat) /\ QUERY_PORT \in Seq(Nat) /\ Len(address) = 4 /\ Len(QUERY_PORT) = 2
    BY DEF IsList
  <1>2. IsFields(fields, sendAs) /\ Len(fields) \in Nat /\ Len(fields) < 256
    BY LenProperties DEF IsList, IsFields
  <1>3. Len(fields) % 256 = Len(fields)
    BY <1>2
  <1>4. count \in Seq(Nat) /\ Len(count) = 1 /\ count[1] = Len(fields)
    BY <1>2, <1>3 DEF Count
  <1>5. zero \in Seq(Nat) /\ Only(zero, 0)
    BY DEF Only
  <1>6. w \in Seq(Nat)
    <2>1. <<>> \in Seq(Nat)
      OBVIOUS
    <2>2. PICK v : KeyStages(fields, sendAs, <<>>, v)
      BY <1>2, <2>1, KeysHaveStages
    <2>3. Stages(Len(fields), <<>>, v, [k \in 1..Len(fields) |-> Key(fields[k], sendAs[fields[k]])])
            /\ w = v[Len(fields)]
      BY <2>2 DEF KeyStages
    <2> HIDE DEF w
    <2> QED BY <1>2, <2>3, StageTypes
  <1>7. Joined(Nat, aq, address, QUERY_PORT)
    BY <1>1 DEF Joined
  <1> HIDE DEF aq, count, w, zero
  <1>8. aq \in Seq(Nat) /\ Len(aq) = Len(address) + Len(QUERY_PORT)
    BY <1>7, JoinedParts
  <1>9. Joined(Nat, cw, count, w)
    BY <1>4, <1>6 DEF Joined
  <1>10. Joined(Nat, pre, aq, count)
    BY <1>4, <1>8 DEF Joined
  <1> HIDE DEF cw, pre
  <1>11. cw \in Seq(Nat)
    BY <1>9, JoinedParts
  <1>12. Joined(Nat, body, cw, zero)
    BY <1>5, <1>11 DEF Joined
  <1>13. Joined(Nat, keyed, aq, cw)
    BY <1>8, <1>11 DEF Joined
  <1> HIDE DEF body, keyed
  <1>14. body \in Seq(Nat)
    BY <1>12, JoinedParts
  <1>15. Joined(Nat, head, aq, body)
    <2>1. head = aq \o body
      BY Zenon DEF ResponseHeader, aq, body, cw, count, w, zero
    <2> QED BY <1>8, <1>14, <2>1 DEF Joined
  <1>16. Joined(Nat, head, keyed, zero)
    BY <1>12, <1>13, <1>15, RegroupedBack
  <1>17. Joined(Nat, keyed, pre, w)
    BY <1>9, <1>10, <1>13, RegroupedBack
  <1>18. Len(pre) = Len(aq) + Len(count)
    BY <1>10, JoinedParts
  <1>19. \A i \in 1..Len(count) : pre[Len(aq) + i] = count[i]
    BY <1>10, JoinedRest
  <1>20. Len(aq) = 6
    BY <1>1, <1>8
  <1>21. 1 \in 1..Len(count)
    BY <1>4
  <1>22. pre[Len(aq) + 1] = count[1]
    BY <1>19, <1>21
  <1>23. Len(aq) + 1 = 7 /\ Len(pre) + 1 = 8
    BY <1>4, <1>18, <1>20
  <1>24. pre[7] = Len(fields)
    BY <1>4, <1>22, <1>23
  <1> QED BY <1>5, <1>16, <1>17, <1>23, <1>24 DEF w

LEMMA HeaderIsRead ==
  ASSUME NEW address, NEW servers, NEW fields, NEW sendAs, IsList(address, servers, fields, sendAs),
         NEW options, ~Has(options, NoServerList),
         NEW head, head = ResponseHeader(address, fields, sendAs, options),
         NEW bytes \in Seq(Nat), Begins(bytes, head)
  PROVE  ReadKeys(bytes) = [types |-> TypesOf(fields, sendAs), at |-> Len(head)]
  <1>1. PICK pre, keyed, zero :
           /\ Joined(Nat, keyed, pre, Keys(fields, sendAs)) /\ Joined(Nat, head, keyed, zero)
           /\ Len(pre) + 1 = 8 /\ pre[7] = Len(fields) /\ Only(zero, 0)
    BY HeaderHasParts
  <1>2. Begins(bytes, keyed)
    BY <1>1, BeginsJoined
  <1>3. Begins(bytes, pre)
    BY <1>1, <1>2, BeginsJoined
  <1>4. pre \in Seq(Nat) /\ IsFields(fields, sendAs)
    BY <1>1 DEF Joined, IsList
  <1>5. bytes[7] = pre[7]
    <2>1. \A i \in 1..Len(pre) : bytes[i] = pre[i]
      BY <1>3 DEF Begins
    <2>2. 7 \in 1..Len(pre)
      <3>1. Len(pre) \in Nat /\ Len(pre) + 1 = 8
        BY <1>1, <1>4, LenProperties
      <3> QED BY <3>1
    <2> QED BY <2>1, <2>2
  <1>6. Ahead(bytes, pre, fields)
    BY <1>1, <1>5 DEF Ahead
  <1>7. ReadKeys(bytes) = [types |-> TypesOf(fields, sendAs), at |-> Len(keyed) + 1]
    BY <1>1, <1>2, <1>4, <1>6, KeysAreRead
  <1>8. Len(head) = Len(keyed) + 1
    <2>1. Len(head) = Len(keyed) + Len(zero)
      BY <1>1, JoinedParts
    <2>2. Len(zero) = 1
      BY <1>1 DEF Only
    <2> QED BY <2>1, <2>2
  <1> QED BY <1>7, <1>8

LEMMA FullListIsRead ==
  ASSUME NEW address, NEW servers, NEW fields, NEW sendAs, IsList(address, servers, fields, sendAs),
         NEW natneg, NEW options, ~Has(options, NoServerList), ~Has(options, SendGroups),
         NEW bytes, bytes = List(address, servers, fields, sendAs, natneg, options), bytes # None
  PROVE  ReadList(bytes, Len(servers) + 1) = RowsOf(servers, fields, sendAs, natneg)
  <1> DEFINE head == ResponseHeader(address, fields, sendAs, options)
             records == Records(servers, fields, sendAs, natneg)
             hr == head \o records
             tail == records \o End
  <1>1. head # None /\ records # None /\ bytes = head \o tail
    <2>1. bytes = Join(head, Join(records, End))
      BY ListFolds
    <2> HIDE DEF head, records
    <2>2. head # None /\ Join(records, End) # None /\ bytes = head \o Join(records, End)
      BY <2>1 DEF Join
    <2>3. records # None /\ Join(records, End) = records \o End
      BY <2>2 DEF Join
    <2> QED BY <2>2, <2>3
  <1>2. IsServers(servers) /\ IsFields(fields, sendAs)
    BY DEF IsList
  <1>3. head \in Seq(Nat)
    <2>1. PICK pre, keyed, zero :
            /\ Joined(Nat, keyed, pre, Keys(fields, sendAs)) /\ Joined(Nat, head, keyed, zero)
            /\ Len(pre) + 1 = 8 /\ pre[7] = Len(fields) /\ Only(zero, 0)
      BY HeaderHasParts
    <2> HIDE DEF head
    <2> QED BY <2>1, JoinedParts
  <1>4. records \in Seq(Nat)
    <2>1. PICK w : ServerStages(servers, fields, sendAs, natneg, head, w)
      BY <1>1, <1>2, <1>3, ServersHaveStages
    <2>2. Stages(Len(servers), head, w, ServerPieces(servers, fields, sendAs, natneg))
            /\ records = w[Len(servers)]
      BY <2>1 DEF ServerStages
    <2>3. Len(servers) \in Nat
      BY <2>2 DEF Stages
    <2> HIDE DEF records, head
    <2> QED BY <2>2, <2>3, StageTypes
  <1>5. End \in Seq(Nat)
    BY DEF End
  <1> HIDE DEF head, records
  <1>6. Joined(Nat, hr, head, records) /\ Joined(Nat, tail, records, End)
    BY <1>3, <1>4, <1>5 DEF Joined
  <1>7. tail \in Seq(Nat)
    BY <1>6, JoinedParts
  <1>8. Joined(Nat, bytes, head, tail)
    BY <1>1, <1>3, <1>7 DEF Joined
  <1> HIDE DEF hr, tail
  <1>9. Joined(Nat, bytes, hr, End)
    BY <1>6, <1>8, RegroupedBack
  <1>10. bytes \in Seq(Nat)
    BY <1>8, JoinedParts
  <1>11. Begins(bytes, head)
    <2>1. Begins(bytes, bytes)
      BY <1>10, BeginsWhole
    <2> QED BY <1>8, <1>10, <2>1, BeginsJoined
  <1> DEFINE keys == ReadKeys(bytes)
             rows == RowsOf(servers, fields, sendAs, natneg)
             r == ReadRows(bytes, keys, Len(servers) + 1)
  <1>12. keys = [types |-> TypesOf(fields, sendAs), at |-> Len(head)]
    BY <1>10, <1>11, HeaderIsRead DEF head
  <1> HIDE DEF keys
  <1>13. r = [servers |-> rows, after |-> Len(hr) + 1]
    <2>1. Joined(Nat, hr, head, Records(servers, fields, sendAs, natneg))
            /\ Records(servers, fields, sendAs, natneg) # None
      BY <1>1, <1>6 DEF records
    <2> QED BY <1>2, <1>9, <1>10, <1>12, <2>1, RowsAreRead
  <1>14. Len(hr) + 1 + 4 = Len(bytes) /\ AtEnd(bytes, Len(hr) + 1)
    BY <1>9, <1>10, EndIsRead
  <1> HIDE DEF r
  <1>15. ReadList(bytes, Len(servers) + 1) =
           IF r.after + 4 = Len(bytes) /\ AtEnd(bytes, r.after) THEN r.servers ELSE None
    BY ReadListFolds, Zenon DEF keys, r
  <1> DEFINE after == Len(hr) + 1
  <1>16. r.after = after /\ r.servers = rows /\ after + 4 = Len(bytes) /\ AtEnd(bytes, after)
    BY <1>13, <1>14
  <1> HIDE DEF after, rows
  <1>17. ReadList(bytes, Len(servers) + 1) = rows
    BY <1>15, <1>16
  <1> QED BY <1>17 DEF rows

(* HandleServerListRequest: whatever servers, fields and options, what the *)
(* client reads are the rows of the list, or nothing was sent.             *)
THEOREM ListIsReadBack ==
  ASSUME NEW address, NEW servers, NEW fields, NEW sendAs, IsList(address, servers, fields, sendAs),
         NEW natneg, NEW options
  PROVE  ListReadBackFor(address, servers, fields, sendAs, natneg, options)
  <1> DEFINE bytes == List(address, servers, fields, sendAs, natneg, options)
             header == ResponseHeader(address, fields, sendAs, options)
             rows == [i \in DOMAIN servers |->
                       [ip |-> servers[i].ip, port |-> servers[i].port,
                        natneg |-> Natneg(servers[i].data, natneg),
                        values |-> [j \in DOMAIN fields |-> Shown(servers[i], fields[j], sendAs)]]]
  <1>1. ASSUME bytes # None, Has(options, NoServerList) PROVE bytes = address \o QUERY_PORT
    <2>1. bytes = Join(header, <<>>)
      BY <1>1, ListFolds
    <2> HIDE DEF header
    <2>2. bytes = header \o <<>>
      BY <1>1, <2>1 DEF Join
    <2>3. header = address \o QUERY_PORT \o <<>>
      BY <1>1, Zenon DEF ResponseHeader, header
    <2>4. address \in Seq(Nat) /\ QUERY_PORT \in Seq(Nat)
      BY DEF IsList
    <2> DEFINE aq == address \o QUERY_PORT
    <2>5. aq \in Seq(Nat)
      BY <2>4, ConcatProperties
    <2> HIDE DEF aq
    <2>6. aq \o <<>> = aq
      BY <2>5, ConcatEmptySeq
    <2>7. header = aq
      BY <2>3, <2>6 DEF aq
    <2> QED BY <2>2, <2>6, <2>7 DEF aq
  <1>2. ASSUME bytes # None, ~Has(options, NoServerList), Has(options, SendGroups)
        PROVE  ReadKeys(bytes).at = Len(bytes)
    <2>1. bytes = Join(header, <<>>)
      BY <1>2, ListFolds
    <2>2. PICK pre, keyed, zero :
            /\ Joined(Nat, keyed, pre, Keys(fields, sendAs)) /\ Joined(Nat, header, keyed, zero)
            /\ Len(pre) + 1 = 8 /\ pre[7] = Len(fields) /\ Only(zero, 0)
      BY <1>2, HeaderHasParts
    <2> HIDE DEF header, bytes
    <2>3. header \in Seq(Nat)
      BY <2>2, JoinedParts
    <2>4. bytes = header
      <3>1. bytes = header \o <<>>
        BY <1>2, <2>1 DEF Join
      <3> QED BY <2>3, <3>1, ConcatEmptySeq
    <2>5. Begins(header, header)
      BY <2>3, BeginsWhole
    <2>6. ReadKeys(header) = [types |-> TypesOf(fields, sendAs), at |-> Len(header)]
      BY <1>2, <2>3, <2>5, HeaderIsRead DEF header
    <2> QED BY <2>4, <2>6
  <1>3. ASSUME bytes # None, ~Has(options, NoServerList), ~Has(options, SendGroups)
        PROVE  ReadList(bytes, Len(servers) + 1) = rows
    <2>1. ReadList(bytes, Len(servers) + 1) = RowsOf(servers, fields, sendAs, natneg)
      BY <1>3, FullListIsRead
    <2>2. DOMAIN servers = 1..Len(servers) /\ DOMAIN fields = 1..Len(fields)
      <3>1. servers \in Seq({servers[i] : i \in 1..Len(servers)}) /\ fields \in Seq(Seq(Nat))
        BY DEF IsList, IsServers, IsFields
      <3> DEFINE S == {servers[i] : i \in 1..Len(servers)}
      <3> HIDE DEF S
      <3> QED BY <3>1, LenProperties DEF S
    <2>3. \A s, k : Shown(s, k, sendAs) = ShownOf(s.data, k, sendAs[k])
      BY DEF Shown, ShownOf, ShownAs, Held
    <2>4. RowsOf(servers, fields, sendAs, natneg) = rows
      BY <2>2, <2>3 DEF RowsOf, Row, ShownAll
    <2> QED BY <2>1, <2>4
  <1> HIDE DEF bytes
  <1> QED BY <1>1, <1>2, <1>3, Zenon DEF ListReadBackFor, bytes

-----------------------------------------------------------------------------
(* Video modes.                                                            *)
LEMMA ModeFields ==
  ASSUME NEW m \in Mode
  PROVE  m[1] \in Nat /\ m[2] \in Nat /\ m[3] \in Rate /\ m[3] \in Nat /\ m # <<>>
  <1>1. m[1] \in Nat /\ m[2] \in Nat /\ m[3] \in Rate
    BY DEF Mode
  <1>2. PICK w \in Nat, h \in Nat, r \in Rate : m = <<w, h, r>>
    BY DEF Mode
  <1> QED BY <1>1, <1>2 DEF Rate

LEMMA DistanceIsNat ==
  ASSUME NEW a \in Nat, NEW b \in Nat
  PROVE  Distance(a, b) \in Nat /\ (Distance(a, b) = 0 <=> a = b)
  BY DEF Distance

LEMMA SizeDistanceIsNat ==
  ASSUME NEW a \in Mode, NEW b \in Mode
  PROVE  SizeDistance(a, b) \in Nat
  <1>1. a[1] \in Nat /\ a[2] \in Nat /\ b[1] \in Nat /\ b[2] \in Nat
    BY ModeFields
  <1>2. Distance(a[1], b[1]) \in Nat /\ Distance(a[2], b[2]) \in Nat
    BY <1>1, DistanceIsNat
  <1> QED BY <1>2 DEF SizeDistance

LEMMA RateDistance ==
  ASSUME NEW a \in Rate, NEW b \in Rate
  PROVE  Distance(a, b) \in Nat /\ Distance(a, b) * 2 + 1 < 100000
  BY SMT DEF Rate, Distance

LEMMA ScoreIsNat ==
  ASSUME NEW m \in Mode, NEW wanted \in Mode
  PROVE  Score(m, wanted) \in Nat
  <1>1. SizeDistance(m, wanted) \in Nat /\ Distance(m[3], wanted[3]) \in Nat
    BY SizeDistanceIsNat, DistanceIsNat, ModeFields
  <1> QED BY <1>1, SMT DEF Score

(* What is closer in the words of the comment has the lower score.         *)
LEMMA CloserScoresLower ==
  ASSUME NEW a \in Mode, NEW b \in Mode, NEW wanted \in Mode, Closer(a, b, wanted)
  PROVE  Score(a, wanted) < Score(b, wanted)
  <1> DEFINE sa == SizeDistance(a, wanted)
             sb == SizeDistance(b, wanted)
             da == Distance(a[3], wanted[3])
             db == Distance(b[3], wanted[3])
             above(m) == IF m[3] > wanted[3] THEN 1 ELSE 0
  <1>1. a[3] \in Nat /\ b[3] \in Nat /\ wanted[3] \in Nat
    BY ModeFields
  <1>2. sa \in Nat /\ sb \in Nat
    BY SizeDistanceIsNat
  <1>3. da \in Nat /\ db \in Nat /\ da * 2 + 1 < 100000 /\ db * 2 + 1 < 100000
    <2>1. a[3] \in Rate /\ b[3] \in Rate /\ wanted[3] \in Rate
      BY ModeFields
    <2> QED BY <2>1, RateDistance
  <1>4. above(a) \in {0, 1} /\ above(b) \in {0, 1}
    OBVIOUS
  <1>5. da = db /\ a[3] < b[3] => above(a) = 0 /\ above(b) = 1
    BY <1>1, SMT DEF Distance
  <1>6. /\ Score(a, wanted) = sa * 100000 + da * 2 + above(a)
        /\ Score(b, wanted) = sb * 100000 + db * 2 + above(b)
    BY SMT DEF Score
  <1>7. sa < sb \/ (sa = sb /\ (da < db \/ (da = db /\ a[3] < b[3])))
    BY DEF Closer
  <1> HIDE DEF sa, sb, da, db, above
  <1>8. CASE sa < sb
    BY <1>2, <1>3, <1>4, <1>6, <1>8, SMT
  <1>9. CASE sa = sb /\ da < db
    BY <1>2, <1>3, <1>4, <1>6, <1>9, SMT
  <1>10. CASE sa = sb /\ da = db /\ a[3] < b[3]
    BY <1>2, <1>3, <1>5, <1>6, <1>10, SMT
  <1> QED BY <1>7, <1>8, <1>9, <1>10

(* There is a first mode with the lowest score.                            *)
LEMMA FirstOfLowest ==
  ASSUME NEW modes \in Seq(Mode), modes # <<>>, NEW wanted \in Mode
  PROVE  \E i \in DOMAIN modes : \A j \in DOMAIN modes :
           \/ Score(modes[i], wanted) < Score(modes[j], wanted)
           \/ Score(modes[i], wanted) = Score(modes[j], wanted) /\ i <= j
  <1> DEFINE S(i) == Score(modes[i], wanted)
             scores == {S(i) : i \in DOMAIN modes}
  <1>1. \A i \in DOMAIN modes : S(i) \in Nat /\ i \in Nat
    <2> SUFFICES ASSUME NEW i \in DOMAIN modes PROVE S(i) \in Nat /\ i \in Nat
      OBVIOUS
    <2>1. modes[i] \in Mode /\ i \in Nat
      OBVIOUS
    <2>2. Score(modes[i], wanted) \in Nat
      BY <2>1, ScoreIsNat
    <2> QED BY <2>1, <2>2
  <1>2. 1 \in DOMAIN modes
    <2>1. Len(modes) \in Nat /\ Len(modes) # 0
      BY EmptySeq
    <2> QED BY <2>1
  <1> HIDE DEF S
  <1>3. PICK least \in scores : \A s \in scores : least <= s
    <2>1. scores \subseteq Nat /\ scores # {}
      BY <1>1, <1>2
    <2> QED BY <2>1, Flat!LeastNumber
  <1> DEFINE T == {i \in DOMAIN modes : S(i) = least}
  <1>4. PICK i \in T : \A j \in T : i <= j
    <2>1. T \subseteq Nat /\ T # {}
      BY <1>1, <1>3
    <2> HIDE DEF T
    <2> QED BY <2>1, Flat!LeastNumber
  <1>5. ASSUME NEW j \in DOMAIN modes PROVE S(i) < S(j) \/ (S(i) = S(j) /\ i <= j)
    <2>1. S(i) = least /\ i \in DOMAIN modes
      BY <1>4
    <2>2. S(j) \in scores /\ S(j) \in Nat /\ S(i) \in Nat
      BY <1>1, <2>1
    <2>3. least <= S(j)
      BY <1>3, <2>2
    <2>4. S(j) = least => i <= j
      BY <1>4
    <2> QED BY <2>1, <2>2, <2>3, <2>4
  <1>6. i \in DOMAIN modes
    BY <1>4
  <1> QED BY <1>5, <1>6 DEF S

(* closest_resolution, setDynamicOption: whatever modes the renderer knows *)
(* and whatever is asked for, it is given a mode it knows, none is closer, *)
(* and a mode it knows is left as it is.                                   *)
THEOREM ClosestModeChosen ==
  ASSUME NEW modes \in Seq(Mode), NEW requested \in Mode \cup {<<>>},
         NEW desktop \in Mode \cup {<<>>}
  PROVE  KnownAndClosest(modes, requested, desktop)
  <1> SUFFICES ASSUME modes # <<>> PROVE KnownAndClosest(modes, requested, desktop)
    BY DEF KnownAndClosest
  <1> DEFINE set == SetResolution(modes, requested, desktop)
             wanted == IF requested = <<>> THEN desktop ELSE requested
             aim == IF requested # <<>> THEN requested
                    ELSE IF desktop # <<>> THEN desktop ELSE <<0, 0, 0>>
  <1>1. aim \in Mode
    <2>1. <<0, 0, 0>> \in Mode
      BY SMT DEF Mode, Rate
    <2> QED BY <2>1
  <1>2. \A i \in DOMAIN modes : modes[i] \in Mode
    OBVIOUS
  <1>3. CASE \E i \in DOMAIN modes : modes[i] = requested
    <2>1. PICK i \in DOMAIN modes : modes[i] = requested
      BY <1>3
    <2>2. set = modes[i]
      BY <2>1 DEF SetResolution
    <2>3. requested \in Mode
      BY <1>2, <2>1
    <2>4. ASSUME NEW m \in Mode PROVE ~Closer(m, requested, requested)
      <3>1. /\ requested[1] \in Nat /\ requested[2] \in Nat /\ requested[3] \in Nat
            /\ m[3] \in Nat
        BY <2>3, ModeFields
      <3>2. SizeDistance(requested, requested) = 0 /\ Distance(requested[3], requested[3]) = 0
        <4>1. \A n \in Nat : Distance(n, n) = 0
          BY DistanceIsNat
        <4> QED BY <3>1, <4>1 DEF SizeDistance
      <3>3. SizeDistance(m, requested) \in Nat /\ Distance(m[3], requested[3]) \in Nat
        BY <2>3, <3>1, SizeDistanceIsNat, DistanceIsNat
      <3>4. Distance(m[3], requested[3]) = 0 => m[3] = requested[3]
        BY <3>1, DistanceIsNat
      <3> QED BY <3>1, <3>2, <3>3, <3>4 DEF Closer
    <2>5. requested # <<>>
      BY <2>3, ModeFields
    <2>6. \A j \in DOMAIN modes : ~Closer(modes[j], set, wanted)
      BY <1>2, <2>1, <2>2, <2>4, <2>5
    <2> QED BY <2>2, <2>6 DEF KnownAndClosest
  <1>4. CASE ~(\E i \in DOMAIN modes : modes[i] = requested)
    <2> DEFINE Best(i) == \A j \in DOMAIN modes :
                 \/ Score(modes[i], aim) < Score(modes[j], aim)
                 \/ Score(modes[i], aim) = Score(modes[j], aim) /\ i <= j
               best == CHOOSE i \in DOMAIN modes : Best(i)
    <2>1. set = modes[best]
      BY <1>4 DEF SetResolution, ClosestResolution
    <2>2. \E i \in DOMAIN modes : Best(i)
      BY <1>1, FirstOfLowest
    <2> HIDE DEF Best
    <2>3. best \in DOMAIN modes /\ Best(best)
      BY <2>2
    <2>4. ASSUME wanted # <<>>, NEW j \in DOMAIN modes, Closer(modes[j], set, wanted)
          PROVE  FALSE
      <3>1. wanted = aim
        BY <2>4
      <3>2. Score(modes[j], aim) < Score(modes[best], aim)
        BY <1>1, <1>2, <2>1, <2>3, <2>4, <3>1, CloserScoresLower
      <3>3. Score(modes[j], aim) \in Nat /\ Score(modes[best], aim) \in Nat
        BY <1>1, <1>2, <2>3, ScoreIsNat
      <3> HIDE DEF aim, best
      <3> QED BY <2>3, <3>2, <3>3 DEF Best
    <2> HIDE DEF best, aim, set
    <2> QED BY <2>1, <2>3, <2>4 DEF KnownAndClosest, set
  <1> QED BY <1>3, <1>4

(* The input of each kind is one of those the module was given.            *)
Given ==
  /\ Is("request") => input.of \in Requests
  /\ Is("list") => input.of \in Lists
  /\ Is("name") => input.of \in Names
  /\ Is("beat") => input.of \in Heartbeats
  /\ Is("text") => input.of \in TextPackets
  /\ Is("mode") => input.of \in ModeChoices

LEMMA TakeRequest ==
  ASSUME Take("request", Requests)
  PROVE  Given'
  BY DEF Take, Is, Given

LEMMA TakeList ==
  ASSUME Take("list", Lists)
  PROVE  Given'
  BY DEF Take, Is, Given

LEMMA TakeName ==
  ASSUME Take("name", Names)
  PROVE  Given'
  BY DEF Take, Is, Given

LEMMA TakeMode ==
  ASSUME Take("mode", ModeChoices)
  PROVE  Given'
  BY DEF Take, Is, Given

LEMMA TakeBeat ==
  ASSUME Take("beat", Heartbeats)
  PROVE  Given'
  BY DEF Take, Is, Given

LEMMA TakeText ==
  ASSUME Take("text", TextPackets)
  PROVE  Given'
  BY DEF Take, Is, Given

LEMMA GivenAtFirst == FormatsInit => Given
  BY DEF FormatsInit, Given, Is

LEMMA GivenStep == Given /\ [FormatsNext]_<<input, channel>> => Given'
  <1> SUFFICES ASSUME Given, [FormatsNext]_<<input, channel>> PROVE Given'
    OBVIOUS
  <1>1. CASE UNCHANGED input
    BY <1>1 DEF Given, Is
  <1>2. CASE FormatsNext
    BY <1>1, <1>2, TakeRequest, TakeList, TakeName, TakeBeat, TakeText, TakeMode DEF FormatsNext
  <1> QED BY <1>1, <1>2

-----------------------------------------------------------------------------
(* A request, a list and a filter are read as they were written: Parse     *)
(* reads back what a client sends, the client what                         *)
(* HandleServerListRequest sends, and SQLite what GetServers has quoted.   *)
THEOREM ListReadBackHolds == FormatsSpec => []ListReadBack
  <1>1. Given => ListReadBack
    <2> SUFFICES ASSUME Given PROVE ListReadBack
      OBVIOUS
    <2> DEFINE x == input.of
    <2>1. ASSUME Is("request") PROVE RequestReadBack(x)
      BY <2>1, RequestsAssumption, RequestIsReadBack DEF Given
    <2>2. ASSUME Is("list")
          PROVE  ListReadBackFor(Client, x.servers, x.fields, x.sends, NATNEG, x.options)
      <3>1. IsList(Client, x.servers, x.fields, x.sends)
        BY <2>2, ListsAssumption DEF Given
      <3> HIDE DEF x
      <3> QED BY <3>1, ListIsReadBack
    <2>3. ASSUME Is("name") PROVE NameReadBack(x.name, x.more)
      <3>1. IsFilter(x.name, x.more)
        BY <2>3, NamesAssumption DEF Given
      <3> HIDE DEF x
      <3> QED BY <3>1, FilterIsReadBack
    <2> QED BY <2>1, <2>2, <2>3 DEF ListReadBack
  <1> QED BY <1>1, GivenAtFirst, GivenStep, PTL DEF FormatsSpec

(* QRHeartbeatPacket::Parse reads a heartbeat as the game server sent it,  *)
(* and of one that is cut nothing else; value_for_key finds the values of  *)
(* a text packet as they were sent.                                        *)
THEOREM PacketReadBackHolds == FormatsSpec => []PacketReadBack
  <1>1. Given => PacketReadBack
    <2> SUFFICES ASSUME Given PROVE PacketReadBack
      OBVIOUS
    <2> DEFINE x == input.of
    <2>1. ASSUME Is("beat") PROVE HeartbeatReadBack(x)
      BY <2>1, HeartbeatsAssumption, HeartbeatIsReadBack DEF Given
    <2>2. ASSUME Is("text") PROVE TextReadBack(x.pairs, x.asked)
      <3>1. IsText(x.pairs, x.asked)
        BY <2>2, TextPacketsAssumption DEF Given
      <3> HIDE DEF x
      <3> QED BY <3>1, TextIsReadBack
    <2> QED BY <2>1, <2>2 DEF PacketReadBack
  <1> QED BY <1>1, GivenAtFirst, GivenStep, PTL DEF FormatsSpec

(* Whatever the choices: the renderer is given a mode it knows, and the    *)
(* closest one.                                                            *)
THEOREM ClosestModeSetHolds == FormatsSpec => []ClosestModeSet
  <1>1. Given => ClosestModeSet
    <2> SUFFICES ASSUME Given, Is("mode")
                 PROVE  KnownAndClosest(input.of.modes, input.of.requested, input.of.desktop)
      BY DEF ClosestModeSet
    <2> DEFINE x == input.of
    <2>1. /\ x.modes \in Seq(Mode)
          /\ x.requested \in Mode \cup {<<>>}
          /\ x.desktop \in Mode \cup {<<>>}
      BY ModesAssumption DEF Given
    <2> HIDE DEF x
    <2>2. KnownAndClosest(x.modes, x.requested, x.desktop)
      BY <2>1, ClosestModeChosen
    <2> QED BY <2>2 DEF x
  <1> QED BY <1>1, GivenAtFirst, GivenStep, PTL DEF FormatsSpec

-----------------------------------------------------------------------------
(* The cipher, for every number of cards, every deck at the start and      *)
(* connections of any length.                                              *)

LEMMA ByteSums ==
  ASSUME NEW a \in Byte, NEW b \in Byte, NEW c \in Byte
  PROVE  (a + 1) % N \in Byte /\ (a + b) % N \in Byte /\ (a + b + c) % N \in Byte
  <1>1. \A m \in Nat : m % N \in Byte
    BY NAssumption, SMT DEF Byte
  <1>2. a \in Nat /\ b \in Nat /\ c \in Nat
    BY NAssumption DEF Byte
  <1> QED BY <1>1, <1>2

LEMMA DealTypes ==
  ASSUME NEW c \in [Byte -> Byte], NEW i \in Byte, NEW j \in Byte, NEW k \in Byte, NEW l \in Byte
  PROVE  Deal(c, i, j, k, l) \in [Byte -> Byte]
  BY DEF Deal

(* Dealing loses no card, also where places coincide.                      *)
LEMMA DealIsWhole ==
  ASSUME NEW c \in [Byte -> Byte], NEW i \in Byte, NEW j \in Byte, NEW k \in Byte, NEW l \in Byte,
         \A x, y \in Byte : c[x] = c[y] => x = y
  PROVE  \A x, y \in Byte : Deal(c, i, j, k, l)[x] = Deal(c, i, j, k, l)[y] => x = y
  <1> DEFINE c1 == [c EXCEPT ![i] = c[j]]
             c2 == [c1 EXCEPT ![j] = c1[k]]
             c3 == [c2 EXCEPT ![k] = c2[l]]
             d == [c3 EXCEPT ![l] = c[i]]
  <1>1. \A x \in Byte : c1[x] = IF x = i THEN c[j] ELSE c[x]
    OBVIOUS
  <1>2. \A x \in Byte : c2[x] = IF x = j THEN c1[k] ELSE c1[x]
    OBVIOUS
  <1>3. \A x \in Byte : c3[x] = IF x = k THEN c2[l] ELSE c2[x]
    OBVIOUS
  <1>4. \A x \in Byte : d[x] = IF x = l THEN c[i] ELSE c3[x]
    OBVIOUS
  <1>5. d = Deal(c, i, j, k, l)
    BY DEF Deal
  <1> HIDE DEF c1, c2, c3, d
  <1> SUFFICES ASSUME NEW x \in Byte, NEW y \in Byte, d[x] = d[y] PROVE x = y
    BY <1>5
  <1> QED BY <1>1, <1>2, <1>3, <1>4

LEMMA ShuffleTypes ==
  ASSUME NEW st \in State
  PROVE  Shuffle(st) \in State /\ Pad(Shuffle(st)) \in Byte
  <1> DEFINE ratchet == (st.ratchet + st.cards[st.rotor]) % N
             rotor == (st.rotor + 1) % N
             cards == Deal(st.cards, st.last_cipher, ratchet, st.last_plain, rotor)
             avalanche == (st.avalanche + cards[st.cards[st.last_cipher]]) % N
  <1>1. /\ st.cards \in [Byte -> Byte]
        /\ st.rotor \in Byte /\ st.ratchet \in Byte /\ st.avalanche \in Byte
        /\ st.last_plain \in Byte /\ st.last_cipher \in Byte
    BY DEF State
  <1>2. ratchet \in Byte /\ rotor \in Byte
    BY <1>1, ByteSums
  <1>3. cards \in [Byte -> Byte]
    BY <1>1, <1>2, DealTypes
  <1>4. avalanche \in Byte
    BY <1>1, <1>3, ByteSums
  <1>5. Shuffle(st) = [st EXCEPT !.cards = cards, !.rotor = rotor, !.ratchet = ratchet,
                                 !.avalanche = avalanche]
    BY DEF Shuffle
  <1> HIDE DEF ratchet, rotor, cards, avalanche
  <1>6. Shuffle(st) \in State
    BY <1>2, <1>3, <1>4, <1>5 DEF State
  <1>7. ASSUME NEW s \in State PROVE Pad(s) \in Byte
    <2>1. /\ s.cards \in [Byte -> Byte]
          /\ s.rotor \in Byte /\ s.ratchet \in Byte /\ s.avalanche \in Byte
          /\ s.last_plain \in Byte /\ s.last_cipher \in Byte
      BY DEF State
    <2> DEFINE p == s.cards[(s.cards[s.avalanche] + s.cards[s.rotor]) % N]
               n == (s.cards[s.last_plain] + s.cards[s.last_cipher] + s.cards[s.ratchet]) % N
    <2>2. p \in Byte
      BY <2>1, ByteSums
    <2>3. n \in Byte
      BY <2>1, ByteSums
    <2> HIDE DEF p, n
    <2>4. s.cards[s.cards[n]] \in Byte
      BY <2>1, <2>3
    <2>5. Pad(s) = XorByte(p, s.cards[s.cards[n]])
      BY DEF Pad, p, n
    <2> QED BY <2>2, <2>4, <2>5, XorAssumption
  <1> QED BY <1>6, <1>7

LEMMA EncryptTypes ==
  ASSUME NEW st \in State, NEW b \in Byte
  PROVE  Encrypt(st, b).byte \in Byte /\ Encrypt(st, b).state \in State
  <1> DEFINE s == Shuffle(st)
             out == XorByte(b, Pad(s))
  <1>1. s \in State /\ out \in Byte
    BY ShuffleTypes, XorAssumption
  <1>2. Encrypt(st, b) = [byte |-> out, state |-> [s EXCEPT !.last_plain = b, !.last_cipher = out]]
    BY DEF Encrypt
  <1> HIDE DEF s, out
  <1>3. [s EXCEPT !.last_plain = b, !.last_cipher = out] \in State
    BY <1>1 DEF State
  <1>4. /\ Encrypt(st, b).byte = out
        /\ Encrypt(st, b).state = [s EXCEPT !.last_plain = b, !.last_cipher = out]
    BY <1>2
  <1> QED BY <1>1, <1>3, <1>4

(* sapphire::decrypt is the inverse of sapphire::encrypt, byte by byte,    *)
(* and both leave the deck in the same state.                              *)
THEOREM DecryptInverts ==
  ASSUME NEW st \in State, NEW b \in Byte
  PROVE  /\ Decrypt(st, Encrypt(st, b).byte).byte = b
         /\ Decrypt(st, Encrypt(st, b).byte).state = Encrypt(st, b).state
  <1> DEFINE s == Shuffle(st)
             out == XorByte(b, Pad(s))
  <1>1. XorByte(out, Pad(s)) = b
    BY ShuffleTypes, XorAssumption
  <1>2. Encrypt(st, b) = [byte |-> out, state |-> [s EXCEPT !.last_plain = b, !.last_cipher = out]]
    BY DEF Encrypt
  <1>3. Decrypt(st, out) = [byte |-> b, state |-> [s EXCEPT !.last_plain = b, !.last_cipher = out]]
    BY <1>1 DEF Decrypt
  <1> HIDE DEF s, out
  <1> QED BY <1>2, <1>3

-----------------------------------------------------------------------------
(* The states of the server lead from the first to the present one, and    *)
(* the client is where the server was when it sent what comes next.        *)
ChannelInv ==
  /\ sent \in Seq(Byte) /\ wire \in Seq(Byte) /\ read \in Seq(Byte) /\ trail \in Seq(State)
  /\ Len(wire) = Len(sent) /\ Len(trail) = Len(sent) + 1 /\ Len(read) <= Len(sent)
  /\ server = trail[Len(sent) + 1]
  /\ client = trail[Len(read) + 1]
  /\ \A i \in 1..Len(sent) :
       /\ wire[i] = Encrypt(trail[i], sent[i]).byte
       /\ trail[i + 1] = Encrypt(trail[i], sent[i]).state
  /\ \A i \in 1..Len(read) : read[i] = sent[i]

LEMMA ChannelStart == ChannelInit => ChannelInv
  BY StartAssumption DEF ChannelInit, ChannelInv

LEMMA Appended ==
  ASSUME NEW S, NEW s \in Seq(S), NEW e \in S
  PROVE  /\ Append(s, e) \in Seq(S) /\ Len(Append(s, e)) = Len(s) + 1
         /\ Append(s, e)[Len(s) + 1] = e
         /\ \A i \in 1..Len(s) : Append(s, e)[i] = s[i]
  OBVIOUS

LEMMA SendKeeps ==
  ASSUME ChannelInv, NEW b \in Sendable, Send(b)
  PROVE  ChannelInv'
  <1> DEFINE c == Encrypt(server, b).byte
             next == Encrypt(server, b).state
  <1>1. server \in State /\ b \in Byte
    <2>1. Len(sent) + 1 \in 1..Len(trail) /\ trail \in Seq(State)
      BY DEF ChannelInv
    <2> QED BY <2>1, SendableAssumption DEF ChannelInv
  <1>2. c \in Byte /\ next \in State
    BY <1>1, EncryptTypes
  <1>3. /\ wire' = Append(wire, c) /\ sent' = Append(sent, b) /\ trail' = Append(trail, next)
        /\ server' = next /\ client' = client /\ read' = read
    BY DEF Send
  <1>4. c = Encrypt(trail[Len(sent) + 1], b).byte /\ next = Encrypt(trail[Len(sent) + 1], b).state
    BY DEF ChannelInv
  <1> HIDE DEF c, next
  <1>5. sent' \in Seq(Byte) /\ wire' \in Seq(Byte) /\ trail' \in Seq(State)
        /\ Len(sent') = Len(sent) + 1 /\ Len(wire') = Len(wire) + 1 /\ Len(trail') = Len(trail) + 1
        /\ sent'[Len(sent) + 1] = b /\ wire'[Len(wire) + 1] = c /\ trail'[Len(trail) + 1] = next
    BY <1>1, <1>2, <1>3, Appended DEF ChannelInv
  <1>6. /\ \A i \in 1..Len(sent) : sent'[i] = sent[i] /\ wire'[i] = wire[i]
        /\ \A i \in 1..Len(trail) : trail'[i] = trail[i]
    BY <1>1, <1>2, <1>3, Appended DEF ChannelInv
  <1>7. ASSUME NEW i \in 1..Len(sent')
        PROVE  /\ wire'[i] = Encrypt(trail'[i], sent'[i]).byte
               /\ trail'[i + 1] = Encrypt(trail'[i], sent'[i]).state
    <2>1. CASE i \in 1..Len(sent)
      BY <1>6, <2>1 DEF ChannelInv
    <2>2. CASE i = Len(sent) + 1
      BY <1>4, <1>5, <1>6, <2>2 DEF ChannelInv
    <2> QED BY <1>5, <2>1, <2>2 DEF ChannelInv
  <1>8. /\ Len(read') <= Len(sent') /\ server' = trail'[Len(sent') + 1]
        /\ client' = trail'[Len(read') + 1]
        /\ \A i \in 1..Len(read') : read'[i] = sent'[i]
    BY <1>3, <1>5, <1>6 DEF ChannelInv
  <1> QED BY <1>3, <1>5, <1>7, <1>8 DEF ChannelInv

LEMMA ReceiveKeeps ==
  ASSUME ChannelInv, Receive
  PROVE  ChannelInv'
  <1> DEFINE n == Len(read) + 1
             d == Decrypt(client, wire[n])
  <1>1. n \in 1..Len(sent) /\ n \in 1..Len(trail) /\ trail[n] \in State /\ sent[n] \in Byte
    BY DEF ChannelInv, Receive
  <1>2. client = trail[n] /\ wire[n] = Encrypt(trail[n], sent[n]).byte
        /\ trail[n + 1] = Encrypt(trail[n], sent[n]).state
    BY <1>1 DEF ChannelInv
  <1>3. d.byte = sent[n] /\ d.state = trail[n + 1]
    BY <1>1, <1>2, DecryptInverts
  <1>4. client' = d.state /\ read' = Append(read, d.byte) /\ UNCHANGED <<server, sent, wire, trail>>
    BY DEF Receive
  <1> HIDE DEF n, d
  <1>5. /\ read' \in Seq(Byte) /\ Len(read') = Len(read) + 1
        /\ read'[Len(read) + 1] = sent[n]
        /\ \A i \in 1..Len(read) : read'[i] = read[i]
    BY <1>1, <1>3, <1>4, Appended DEF ChannelInv
  <1>6. \A i \in 1..Len(read') : read'[i] = sent'[i]
    <2> SUFFICES ASSUME NEW i \in 1..Len(read') PROVE read'[i] = sent[i]
      BY <1>4
    <2>1. CASE i \in 1..Len(read)
      BY <1>5, <2>1 DEF ChannelInv
    <2>2. CASE i = Len(read) + 1
      BY <1>5, <2>2 DEF n
    <2> QED BY <1>5, <2>1, <2>2 DEF ChannelInv
  <1>7. Len(read') <= Len(sent') /\ client' = trail'[Len(read') + 1]
    BY <1>1, <1>3, <1>4, <1>5 DEF ChannelInv, n
  <1> QED BY <1>4, <1>5, <1>6, <1>7 DEF ChannelInv

LEMMA ChannelStep == ChannelInv /\ [ChannelNext]_channel => ChannelInv'
  <1>1. ASSUME ChannelInv, UNCHANGED channel PROVE ChannelInv'
    BY <1>1 DEF ChannelInv, channel
  <1> QED BY <1>1, SendKeeps, ReceiveKeeps DEF ChannelNext

(* What BrowserClient::Send encrypts is what the client reads, however     *)
(* many bytes are under way.                                               *)
THEOREM ReadIsSentHolds == Channel => []ReadIsSent
  <1>1. ChannelInv => ReadIsSent
    BY DEF ChannelInv, ReadIsSent
  <1> QED BY <1>1, ChannelStart, ChannelStep, PTL DEF Channel

-----------------------------------------------------------------------------
Whole(st) == \A i, j \in Byte : st.cards[i] = st.cards[j] => i = j

LEMMA WholeKept ==
  ASSUME NEW st \in State, Whole(st), NEW b \in Byte
  PROVE  /\ Encrypt(st, b).state \in State /\ Whole(Encrypt(st, b).state)
  <1> DEFINE ratchet == (st.ratchet + st.cards[st.rotor]) % N
             rotor == (st.rotor + 1) % N
             cards == Deal(st.cards, st.last_cipher, ratchet, st.last_plain, rotor)
  <1>1. /\ st.cards \in [Byte -> Byte] /\ st.rotor \in Byte /\ st.ratchet \in Byte
        /\ st.last_plain \in Byte /\ st.last_cipher \in Byte
    BY DEF State
  <1>2. ratchet \in Byte /\ rotor \in Byte
    BY <1>1, ByteSums
  <1>3. \A i, j \in Byte : cards[i] = cards[j] => i = j
    BY <1>1, <1>2, DealIsWhole DEF Whole
  <1>4. Shuffle(st).cards = cards
    BY DEF Shuffle, State
  <1>5. Encrypt(st, b).state.cards = Shuffle(st).cards
    BY ShuffleTypes DEF Encrypt, State
  <1> HIDE DEF cards
  <1> QED BY <1>3, <1>4, <1>5, EncryptTypes DEF Whole

(* The states the server has been in are whole, and the client is in one   *)
(* of them.                                                                *)
DeckInv ==
  /\ ChannelInv
  /\ \A i \in 1..Len(trail) : Whole(trail[i])

LEMMA DeckSend ==
  ASSUME DeckInv, NEW b \in Sendable, Send(b)
  PROVE  DeckInv'
  <1> DEFINE next == Encrypt(server, b).state
  <1>1. ChannelInv /\ ChannelInv'
    BY SendKeeps DEF DeckInv
  <1>2. Len(sent) + 1 = Len(trail) /\ Len(trail) \in 1..Len(trail) /\ trail \in Seq(State)
    BY <1>1 DEF ChannelInv
  <1>3. server = trail[Len(trail)] /\ server \in State /\ Whole(server)
    BY <1>1, <1>2 DEF ChannelInv, DeckInv
  <1>4. next \in State /\ Whole(next)
    BY <1>3, WholeKept, SendableAssumption
  <1>5. trail' = Append(trail, next)
    BY DEF Send
  <1> HIDE DEF next
  <1>6. \A i \in 1..Len(trail') : Whole(trail'[i])
    <2>1. /\ Len(trail') = Len(trail) + 1
          /\ trail'[Len(trail) + 1] = next
          /\ \A i \in 1..Len(trail) : trail'[i] = trail[i]
      BY <1>2, <1>4, <1>5, Appended
    <2> SUFFICES ASSUME NEW i \in 1..Len(trail') PROVE Whole(trail'[i])
      OBVIOUS
    <2>2. CASE i \in 1..Len(trail)
      BY <2>1, <2>2 DEF DeckInv
    <2>3. CASE i = Len(trail) + 1
      BY <1>4, <2>1, <2>3
    <2>4. Len(trail) \in Nat
      BY <1>2
    <2> QED BY <2>1, <2>2, <2>3, <2>4
  <1> QED BY <1>1, <1>6 DEF DeckInv

(* A deck that is whole at the start stays so.                             *)
LEMMA DeckStaysWhole ==
  ASSUME Whole(Start)
  PROVE  Channel => []DeckIsWhole
  <1>1. ChannelInit => DeckInv
    <2> SUFFICES ASSUME ChannelInit PROVE DeckInv
      OBVIOUS
    <2>1. Len(trail) = 1 /\ trail[1] = Start
      BY DEF ChannelInit
    <2> QED BY <2>1, ChannelStart DEF DeckInv
  <1>2. DeckInv /\ [ChannelNext]_channel => DeckInv'
    <2>1. ASSUME DeckInv, Receive PROVE DeckInv'
      <3>1. ChannelInv'
        BY <2>1, ReceiveKeeps DEF DeckInv
      <3>2. trail' = trail
        BY <2>1 DEF Receive
      <3> QED BY <2>1, <3>1, <3>2 DEF DeckInv
    <2>2. ASSUME DeckInv, UNCHANGED channel PROVE DeckInv'
      BY <2>2 DEF DeckInv, ChannelInv, channel
    <2> QED BY <2>1, <2>2, DeckSend DEF ChannelNext
  <1>3. DeckInv => DeckIsWhole
    <2> SUFFICES ASSUME DeckInv PROVE Whole(server) /\ Whole(client)
      BY DEF DeckIsWhole, Whole
    <2> QED BY DEF DeckInv, ChannelInv
  <1> QED BY <1>1, <1>2, <1>3, PTL DEF Channel

-----------------------------------------------------------------------------
(* The deck initialize makes of a key.                                     *)
MaskStep(limit, mask, i) == IF mask < limit THEN 2 * mask + 1 ELSE mask
DrawStep(c, r, try) == Draw(r, try, c.limit, c.key)
SwapStep(key, st, step) == Swap(st, key)

Masked == INSTANCE Folding WITH Op <- MaskStep
Drawn == INSTANCE Folding WITH Op <- DrawStep
Swapped == INSTANCE Folding WITH Op <- SwapStep

Trial(limit, key) == [limit |-> limit, key |-> key]

LEMMA DeckFolds ==
  ASSUME NEW limit, NEW key, NEW st
  PROVE  /\ Mask(limit) = Masked!Fold(limit, 1, Upto(limit))
         /\ limit # 0 => KeyRand(st, limit, key) =
              Drawn!Fold(Trial(limit, key), [st EXCEPT !.u = limit + 1], Upto(RETRIES))
         /\ Initialize(key).cards = Swapped!Fold(key, Ordered, Upto(N)).cards
  <1>1. Mask(limit) = Masked!Fold(limit, 1, Upto(limit))
    BY DEF Mask, Masked!Fold, MaskStep, Upto, FoldLeft, MapThenFoldSet, Max,
           Masked!MapThenFoldSet, Masked!Greatest
  <1>2. ASSUME limit # 0
        PROVE  KeyRand(st, limit, key) =
                 Drawn!Fold(Trial(limit, key), [st EXCEPT !.u = limit + 1], Upto(RETRIES))
    BY <1>2 DEF KeyRand, Drawn!Fold, DrawStep, Trial, Upto, FoldLeft, MapThenFoldSet, Max,
           Drawn!MapThenFoldSet, Drawn!Greatest
  <1>3. Initialize(key).cards = Swapped!Fold(key, Ordered, Upto(N)).cards
    BY DEF Initialize, Swapped!Fold, SwapStep, Upto, FoldLeft, MapThenFoldSet, Max,
           Swapped!MapThenFoldSet, Swapped!Greatest
  <1> QED BY <1>1, <1>2, <1>3

LEMMA MaskIs ==
  ASSUME NEW limit \in Nat
  PROVE  Mask(limit) \in Nat
  <1> DEFINE s == Upto(limit)
  <1>1. s \in Seq(Nat) /\ Len(s) = limit
    BY UptoIs
  <1> HIDE DEF s
  <1>2. PICK run : Masked!IsRun(limit, 1, s, run)
    BY <1>1, Masked!FoldRuns
  <1> DEFINE P == {k \in Nat : k <= limit => run[k] \in Nat}
  <1>3. 0 \in P
    BY <1>2 DEF Masked!IsRun
  <1>4. ASSUME NEW k \in Nat, k \in P PROVE k + 1 \in P
    <2> SUFFICES ASSUME k < limit PROVE run[k + 1] \in Nat
      OBVIOUS
    <2>1. run[k] \in Nat
      BY <1>4
    <2>2. run[k + 1] = MaskStep(limit, run[k], s[k + 1])
      BY <1>1, <1>2 DEF Masked!IsRun
    <2> QED BY <2>1, <2>2 DEF MaskStep
  <1> HIDE DEF P
  <1>5. \A k \in Nat : k \in P
    BY <1>3, <1>4, Masked!Induction
  <1>6. run[limit] \in Nat
    BY <1>5 DEF P
  <1> QED BY <1>1, <1>2, <1>6, DeckFolds DEF Masked!IsRun, s

(* A deck that is being dealt, with the key.                               *)
Dealing(st, key) ==
  /\ st \in [cards : [Byte -> Byte], i : Int, rsum : Byte, keypos : Nat, u : Nat]
  /\ st.keypos < Len(key)

LEMMA DrawKeeps ==
  ASSUME NEW key \in Seq(Byte), NEW st, Dealing(st, key), NEW limit \in Nat \ {0}, NEW try \in Nat
  PROVE  LET r == Draw(st, try, limit, key)
         IN /\ Dealing(r, key) /\ r.cards = st.cards /\ r.i = st.i
            /\ try >= RETRIES => r.u <= limit
  <1> DEFINE last == st.keypos + 1 >= Len(key)
             more == IF last THEN Len(key) ELSE 0
             a == st.cards[st.rsum]
             b == key[st.keypos + 1]
             sum == (a + b + more) % N
             u == sum % (Mask(limit) + 1)
             v == IF try >= RETRIES THEN u % limit ELSE u
             pos == IF last THEN 0 ELSE st.keypos + 1
             r == Draw(st, try, limit, key)
  <1>1. /\ st.cards \in [Byte -> Byte] /\ st.i \in Int /\ st.rsum \in Byte /\ st.keypos \in Nat
        /\ st.u \in Nat /\ st.keypos < Len(key) /\ Len(key) \in Nat
    BY LenProperties DEF Dealing
  <1>2. a \in Byte /\ b \in Byte /\ more \in Nat
    BY <1>1
  <1>3. a \in Nat /\ b \in Nat
    BY <1>2, NAssumption DEF Byte
  <1>4. pos \in Nat /\ pos < Len(key)
    BY <1>1
  <1>5. r = IF st.u <= limit THEN st
            ELSE [st EXCEPT !.rsum = sum, !.keypos = pos, !.u = v]
    BY DEF Draw
  <1>6. \A n \in Nat : n % N \in Byte
    BY NAssumption, SMT DEF Byte
  <1>7. sum \in Byte
    <2>1. a + b + more \in Nat
      BY <1>2, <1>3
    <2> HIDE DEF a, b, more
    <2> QED BY <1>6, <2>1
  <1>8. u \in Nat
    <2>1. sum \in Nat
      BY <1>7, NAssumption DEF Byte
    <2>2. Mask(limit) + 1 \in Nat \ {0}
      <3>1. Mask(limit) \in Nat
        BY MaskIs
      <3> QED BY <3>1
    <2> DEFINE m == Mask(limit) + 1
    <2> HIDE DEF sum, m
    <2>3. sum % m \in Nat
      BY <2>1, <2>2 DEF m
    <2> QED BY <2>3 DEF m
  <1> HIDE DEF u
  <1>9. v \in Nat /\ (try >= RETRIES => v <= limit)
    <2>1. u % limit \in Nat /\ u % limit <= limit
      BY <1>8
    <2> QED BY <1>8, <2>1
  <1> HIDE DEF a, b, more, sum, v, pos, last, r
  <1>10. CASE st.u <= limit
    BY <1>5, <1>10 DEF r
  <1>11. CASE ~(st.u <= limit)
    <2>1. r = [st EXCEPT !.rsum = sum, !.keypos = pos, !.u = v]
      BY <1>5, <1>11
    <2>2. st \in [cards : [Byte -> Byte], i : Int, rsum : Byte, keypos : Nat, u : Nat]
      BY DEF Dealing
    <2>3. /\ r \in [cards : [Byte -> Byte], i : Int, rsum : Byte, keypos : Nat, u : Nat]
          /\ r.cards = st.cards /\ r.i = st.i /\ r.keypos = pos /\ r.u = v
      BY <1>4, <1>7, <1>9, <2>1, <2>2
    <2> QED BY <1>4, <1>9, <2>3 DEF Dealing, r
  <1> QED BY <1>10, <1>11

(* keyrand always draws a place, if by its twelfth try.                    *)
LEMMA PlaceIsDrawn ==
  ASSUME NEW key \in Seq(Byte), NEW st, Dealing(st, key), NEW limit \in Nat
  PROVE  LET r == KeyRand(st, limit, key)
         IN Dealing(r, key) /\ r.cards = st.cards /\ r.i = st.i /\ r.u \in 0..limit
  <1>1. st \in [cards : [Byte -> Byte], i : Int, rsum : Byte, keypos : Nat, u : Nat]
    BY DEF Dealing
  <1>2. CASE limit = 0
    <2>1. KeyRand(st, limit, key) = [st EXCEPT !.u = 0]
      BY <1>2 DEF KeyRand
    <2> QED BY <1>1, <1>2, <2>1 DEF Dealing
  <1>3. CASE limit # 0
    <2> DEFINE s == Upto(RETRIES)
               first == [st EXCEPT !.u = limit + 1]
               c == Trial(limit, key)
               Fine(r, k) == /\ Dealing(r, key) /\ r.cards = st.cards /\ r.i = st.i
                             /\ k >= RETRIES => r.u <= limit
    <2>1. s \in Seq(Nat) /\ Len(s) = RETRIES /\ \A k \in 1..RETRIES : s[k] = k
      BY UptoIs DEF RETRIES
    <2>2. Dealing(first, key) /\ first.cards = st.cards /\ first.i = st.i
      BY <1>1 DEF Dealing
    <2>3. c.limit = limit /\ c.key = key
      BY DEF Trial
    <2>4. KeyRand(st, limit, key) = Drawn!Fold(c, first, s)
      BY <1>3, DeckFolds
    <2> HIDE DEF s, first, c
    <2>5. PICK run : Drawn!IsRun(c, first, s, run)
      BY <2>1, Drawn!FoldRuns
    <2> DEFINE P == {k \in Nat : k <= RETRIES => Fine(run[k], k)}
    <2>6. 0 \in P
      BY <2>2, <2>5 DEF Drawn!IsRun, RETRIES
    <2>7. ASSUME NEW k \in Nat, k \in P PROVE k + 1 \in P
      <3> SUFFICES ASSUME k < RETRIES PROVE Fine(run[k + 1], k + 1)
        BY DEF RETRIES
      <3>1. k <= RETRIES /\ k + 1 \in 1..RETRIES
        BY DEF RETRIES
      <3>2. Fine(run[k], k)
        BY <2>7, <3>1
      <3>3. run[k + 1] = Draw(run[k], k + 1, limit, key)
        BY <2>1, <2>3, <2>5, <3>1 DEF Drawn!IsRun, DrawStep
      <3> DEFINE r == run[k]
                 t == k + 1
                 e == Draw(r, t, limit, key)
      <3>4. limit \in Nat \ {0} /\ t \in Nat /\ Dealing(r, key)
        BY <1>3, <3>2
      <3> HIDE DEF r, t
      <3>5. /\ Dealing(e, key) /\ e.cards = r.cards /\ e.i = r.i
            /\ t >= RETRIES => e.u <= limit
        BY <3>4, DrawKeeps
      <3> HIDE DEF e
      <3>6. run[k + 1] = e /\ r.cards = st.cards /\ r.i = st.i
        BY <3>2, <3>3 DEF e, r, t
      <3> QED BY <3>5, <3>6 DEF t
    <2> HIDE DEF P
    <2>8. \A k \in Nat : k \in P
      BY <2>6, <2>7, Drawn!Induction
    <2>9. Fine(run[RETRIES], RETRIES)
      BY <2>8 DEF P, RETRIES
    <2>10. Drawn!Fold(c, first, s) = run[RETRIES]
      BY <2>1, <2>5 DEF Drawn!IsRun
    <2>11. run[RETRIES].u \in Nat
      BY <2>9 DEF Dealing
    <2> QED BY <2>4, <2>9, <2>10, <2>11 DEF RETRIES
  <1> QED BY <1>2, <1>3

(* Swapping loses no card.                                                 *)
LEMMA SwapKeeps ==
  ASSUME NEW key \in Seq(Byte), NEW st, Dealing(st, key), st.i \in Byte, Whole(st)
  PROVE  LET r == Swap(st, key)
         IN Dealing(r, key) /\ r.i = st.i - 1 /\ Whole(r)
  <1> DEFINE d == KeyRand(st, st.i, key)
             cards == [d.cards EXCEPT ![d.i] = d.cards[d.u], ![d.u] = d.cards[d.i]]
             r == Swap(st, key)
  <1>1. st.i \in Nat
    BY NAssumption DEF Byte
  <1>2. Dealing(d, key) /\ d.cards = st.cards /\ d.i = st.i /\ d.u \in 0..st.i
    BY <1>1, PlaceIsDrawn
  <1>3. r = [d EXCEPT !.cards = cards, !.i = @ - 1]
    BY DEF Swap
  <1> HIDE DEF d, r
  <1>4. d \in [cards : [Byte -> Byte], i : Int, rsum : Byte, keypos : Nat, u : Nat] /\ d.keypos < Len(key)
    BY <1>2 DEF Dealing
  <1>5. d.u \in Byte /\ d.i \in Byte
    BY <1>1, <1>2, NAssumption DEF Byte
  <1>6. cards \in [Byte -> Byte] /\ \A x \in Byte : cards[x] = IF x = d.u THEN d.cards[d.i]
                                                            ELSE IF x = d.i THEN d.cards[d.u] ELSE d.cards[x]
    BY <1>4, <1>5
  <1> HIDE DEF cards
  <1>7. Dealing(r, key) /\ r.i = d.i - 1 /\ r.cards = cards
    <2> DEFINE i == d.i - 1
    <2>1. i \in Int
      BY <1>4
    <2>2. r = [d EXCEPT !.cards = cards, !.i = i]
      BY <1>3
    <2> HIDE DEF i
    <2>3. /\ r \in [cards : [Byte -> Byte], i : Int, rsum : Byte, keypos : Nat, u : Nat]
          /\ r.keypos = d.keypos /\ r.i = i /\ r.cards = cards
      BY <1>4, <1>6, <2>1, <2>2
    <2> QED BY <1>4, <2>3 DEF Dealing, i
  <1>8. \A x, y \in Byte : d.cards[x] = d.cards[y] => x = y
    BY <1>2 DEF Whole
  <1>9. Whole(r)
    BY <1>5, <1>6, <1>7, <1>8 DEF Whole
  <1> QED BY <1>2, <1>7, <1>9 DEF r

(* sapphire::initialize swaps cards of a whole deck, one for each place.   *)
THEOREM InitializeIsWhole ==
  ASSUME NEW key \in Seq(Byte), key # <<>>
  PROVE  Whole(Initialize(key))
  <1> DEFINE s == Upto(N)
             first == Ordered
             Fine(r, k) == Dealing(r, key) /\ r.i = N - 1 - k /\ Whole(r)
  <1>0. N \in Nat \ {0}
    BY NAssumption
  <1>1. s \in Seq(Nat) /\ Len(s) = N
    BY <1>0, UptoIs
  <1>2. Fine(first, 0)
    <2>1. Len(key) \in Nat /\ Len(key) # 0
      BY LenProperties, EmptySeq
    <2>2. /\ first.cards = [i \in Byte |-> i] /\ first.i = N - 1 /\ first.keypos = 0
          /\ first \in [cards : [Byte -> Byte], i : Int, rsum : Byte, keypos : Nat, u : Nat]
      BY <1>0 DEF Ordered, Byte
    <2> HIDE DEF first
    <2> QED BY <1>0, <2>1, <2>2 DEF Dealing, Whole
  <1> HIDE DEF s, first
  <1>3. PICK run : Swapped!IsRun(key, first, s, run)
    BY <1>1, Swapped!FoldRuns
  <1> DEFINE P == {k \in Nat : k <= N => Fine(run[k], k)}
  <1>4. 0 \in P
    BY <1>2, <1>3 DEF Swapped!IsRun
  <1>5. ASSUME NEW k \in Nat, k \in P PROVE k + 1 \in P
    <2> SUFFICES ASSUME k < N PROVE Fine(run[k + 1], k + 1)
      BY <1>0
    <2>1. Fine(run[k], k)
      BY <1>0, <1>5
    <2>2. run[k + 1] = Swap(run[k], key)
      BY <1>1, <1>3 DEF Swapped!IsRun, SwapStep
    <2>3. N - 1 - k \in Byte /\ N - 1 - k - 1 = N - 1 - (k + 1)
      BY <1>0 DEF Byte
    <2>4. Dealing(run[k + 1], key) /\ run[k + 1].i = run[k].i - 1 /\ Whole(run[k + 1])
      BY <2>1, <2>2, <2>3, SwapKeeps
    <2> QED BY <2>1, <2>3, <2>4
  <1> HIDE DEF P
  <1>6. \A k \in Nat : k \in P
    BY <1>4, <1>5, Swapped!Induction
  <1>7. Whole(run[N])
    BY <1>0, <1>6 DEF P
  <1>8. Initialize(key).cards = run[N].cards
    BY <1>1, <1>3, DeckFolds DEF Swapped!IsRun, s, first
  <1> QED BY <1>7, <1>8 DEF Whole

(* encrypt deals the cards and loses none, for as long as the connection   *)
(* lasts, whatever the key initialize has made the first deck of.          *)
THEOREM DeckIsWholeHolds ==
  ASSUME NEW key \in Seq(Byte), key # <<>>, Start = Initialize(key)
  PROVE  Channel => []DeckIsWhole
  BY InitializeIsWhole, DeckStaysWhole
=============================================================================
