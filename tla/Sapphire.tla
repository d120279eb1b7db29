------------------------------ MODULE Sapphire ------------------------------
(***************************************************************************)
(* The cipher of a list (emulator/sapphire.cpp), a shuffled deck of N      *)
(* cards, and the connection it is used on (BrowserClient::Send): the      *)
(* server encrypts each byte as it sends it, the client decrypts each as   *)
(* it arrives.  The client is GameSpy's; it has the same deck at the start *)
(* and the algorithm of decrypt, which the server itself never calls.      *)
(***************************************************************************)
EXTENDS Naturals, Sequences, SequencesExt

CONSTANTS
  N,         \* cards, and values of a byte (256)
  XorByte(_, _),
  Start,     \* the deck initialize made of the key
  Sendable,  \* bytes the server may have to send
  MAX_SENT   \* bound on the bytes of a connection

ASSUME NAssumption == N \in Nat \ {0}

Byte == 0..(N - 1)

State ==
  [cards : [Byte -> Byte], rotor : Byte, ratchet : Byte, avalanche : Byte,
   last_plain : Byte, last_cipher : Byte]

ASSUME XorAssumption ==
  \A a, b \in Byte : XorByte(a, b) \in Byte /\ XorByte(XorByte(a, b), b) = a

ASSUME StartAssumption == Start \in State
ASSUME SendableAssumption == Sendable \subseteq Byte

-----------------------------------------------------------------------------
(* sapphire::initialize.                                                   *)

(* The try whose result is reduced, so that there is no other after it.    *)
RETRIES == 12

(* As many ones as limit has digits.                                       *)
Mask(limit) ==
  FoldLeft(LAMBDA mask, i : IF mask < limit THEN 2 * mask + 1 ELSE mask, 1, [i \in 1..limit |-> i])

(* One try of keyrand, unless the last one has drawn a place.              *)
Draw(r, try, limit, key) ==
  LET last == r.keypos + 1 >= Len(key)
      sum == (r.cards[r.rsum] + key[r.keypos + 1] + (IF last THEN Len(key) ELSE 0)) % N
      u == sum % (Mask(limit) + 1)
  IN IF r.u <= limit THEN r
     ELSE [r EXCEPT !.rsum = sum, !.keypos = IF last THEN 0 ELSE @ + 1,
                    !.u = IF try >= RETRIES THEN u % limit ELSE u]

(* keyrand: a place from 0 to limit, drawn from the key and the cards.     *)
KeyRand(st, limit, key) ==
  IF limit = 0 THEN [st EXCEPT !.u = 0]
  ELSE FoldLeft(LAMBDA r, try : Draw(r, try, limit, key),
                [st EXCEPT !.u = limit + 1], [try \in 1..RETRIES |-> try])

(* The card at each place is swapped with one that is not behind it.       *)
Swap(st, key) ==
  LET r == KeyRand(st, st.i, key)
  IN [r EXCEPT !.cards = [@ EXCEPT ![r.i] = r.cards[r.u], ![r.u] = r.cards[r.i]],
               !.i = @ - 1]

Ordered == [cards |-> [i \in Byte |-> i], i |-> N - 1, rsum |-> 0, keypos |-> 0, u |-> 0]

Initialize(key) ==
  LET dealt == FoldLeft(LAMBDA st, step : Swap(st, key), Ordered, [step \in 1..N |-> step])
      c == dealt.cards
  IN [cards |-> c, rotor |-> c[1], ratchet |-> c[3], avalanche |-> c[5],
      last_plain |-> c[7], last_cipher |-> c[dealt.rsum]]

-----------------------------------------------------------------------------
(* One byte.  Four cards change places; the third and the fourth step use  *)
(* what the first two have left.                                           *)
Deal(c, i, j, k, l) ==
  LET c1 == [c EXCEPT ![i] = c[j]]
      c2 == [c1 EXCEPT ![j] = c1[k]]
      c3 == [c2 EXCEPT ![k] = c2[l]]
  IN [c3 EXCEPT ![l] = c[i]]

Shuffle(st) ==
  LET ratchet == (st.ratchet + st.cards[st.rotor]) % N
      rotor == (st.rotor + 1) % N
      cards == Deal(st.cards, st.last_cipher, ratchet, st.last_plain, rotor)
  IN [st EXCEPT !.cards = cards, !.rotor = rotor, !.ratchet = ratchet,
                !.avalanche = (@ + cards[st.cards[st.last_cipher]]) % N]

(* What the byte is combined with.                                         *)
Pad(st) ==
  XorByte(st.cards[(st.cards[st.avalanche] + st.cards[st.rotor]) % N],
      st.cards[st.cards[(st.cards[st.last_plain] + st.cards[st.last_cipher]
                          + st.cards[st.ratchet]) % N]])

(* Variant: the byte before it is encrypted is kept for both.              *)
KeepsPlain(st, b) ==
  LET s == Shuffle(st)
      out == XorByte(b, Pad(s))
  IN [byte |-> out, state |-> [s EXCEPT !.last_plain = b, !.last_cipher = b]]

Encrypt(st, b) ==
  LET s == Shuffle(st)
      out == XorByte(b, Pad(s))
  IN [byte |-> out, state |-> [s EXCEPT !.last_plain = b, !.last_cipher = out]]

Decrypt(st, b) ==
  LET s == Shuffle(st)
      out == XorByte(b, Pad(s))
  IN [byte |-> out, state |-> [s EXCEPT !.last_plain = out, !.last_cipher = b]]

-----------------------------------------------------------------------------
VARIABLES
  server, client,  \* m_Cypher, and that of the client
  sent,            \* the bytes the server had to send
  wire,            \* those it has sent, in the order in which they arrive
  read,            \* those the client has read
  trail            \* auxiliary: the states of the server, the first one first

channel == <<server, client, sent, wire, read, trail>>

ChannelInit ==
  /\ server = Start /\ client = Start
  /\ sent = <<>> /\ wire = <<>> /\ read = <<>>
  /\ trail = <<Start>>

Send(b) ==
  /\ Len(sent) < MAX_SENT
  /\ server' = Encrypt(server, b).state
  /\ wire' = Append(wire, Encrypt(server, b).byte)
  /\ sent' = Append(sent, b)
  /\ trail' = Append(trail, server')
  /\ UNCHANGED <<client, read>>

Receive ==
  /\ Len(read) < Len(wire)
  /\ LET d == Decrypt(client, wire[Len(read) + 1])
     IN client' = d.state /\ read' = Append(read, d.byte)
  /\ UNCHANGED <<server, sent, wire, trail>>

ChannelNext == Receive \/ \E b \in Sendable : Send(b)

Channel == ChannelInit /\ [][ChannelNext]_channel

(* What the client has read is what the server had to send, however far    *)
(* the one is behind the other.                                            *)
ReadIsSent ==
  /\ Len(read) <= Len(sent)
  /\ \A i \in 1..Len(read) : read[i] = sent[i]

(* No card is lost: however often the deck is dealt, each card is in it.   *)
DeckIsWhole ==
  \A st \in {server, client} :
    \A i, j \in Byte : st.cards[i] = st.cards[j] => i = j
=============================================================================
