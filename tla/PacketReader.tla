----------------------------- MODULE PacketReader -----------------------------
(***************************************************************************)
(* packet_reader of the server browser (emulator/ms.client.cpp): a         *)
(* generator that cuts the bytes of a TCP connection into packets.  A      *)
(* packet begins with its length, two bytes, and its type, one byte.       *)
(*                                                                         *)
(* The bytes are kept as what the reader makes of them: stream.length[p]   *)
(* is the number in the two bytes at position p of the connection, and     *)
(* stream.known[p] whether the byte after them is a packet type.  Both are *)
(* given for every position, so nothing but the reader itself keeps it on  *)
(* the boundaries of the packets.                                          *)
(***************************************************************************)
EXTENDS Naturals, Sequences

CONSTANTS
  BUFFER,   \* size of the receive buffer (gs_recv_buffer_size)
  Streams   \* what clients may send

HEADER == 3

ASSUME BufferAssumption == BUFFER \in Nat /\ BUFFER >= HEADER

ASSUME StreamsAssumption ==
  \A s \in Streams :
    /\ s.size \in Nat
    /\ s.length \in [0..s.size -> Nat]
    /\ s.known \in [0..s.size -> BOOLEAN]

VARIABLES
  stream,     \* what this client sends; constant
  base,       \* position in the stream of the first byte of the buffer
  available,  \* number of bytes in the buffer
  offset,     \* where in the buffer the next packet begins
  phase,      \* "read", "parse", "yielded" or "ended"
  packets     \* auxiliary: the packets handed out, as [at, len]

vars == <<stream, base, available, offset, phase, packets>>

Here == base + offset
Length == stream.length[Here]

Init ==
  /\ stream \in Streams
  /\ base = 0
  /\ available = 0
  /\ offset = 0
  /\ phase = "read"
  /\ packets = <<>>

-----------------------------------------------------------------------------
(* async_read_some into the rest of the buffer returns some of what has    *)
(* arrived; with no room left it returns at once, with nothing.            *)
Readable == IF available = BUFFER THEN {0} ELSE 1..(BUFFER - available)

Read(n) ==
  /\ phase = "read"
  /\ n \in Readable
  /\ base + available + n <= stream.size
  /\ available' = available + n
  /\ offset' = 0
  /\ phase' = "parse"
  /\ UNCHANGED <<stream, base, packets>>

(* The connection is closed, or an error ends it.                          *)
ReadFails ==
  /\ phase = "read"
  /\ phase' = "ended"
  /\ UNCHANGED <<stream, base, available, offset, packets>>

-----------------------------------------------------------------------------
HasHeader == available - offset >= HEADER

Malformed == Length < HEADER

(* Variant: a packet of any size is waited for.                            *)
OversizedNever == FALSE

Oversized == Length > BUFFER

(* Variant: the bytes of the packets already taken are counted as well.    *)
IncompleteWithin == Length > available

Incomplete == Length > available - offset

(* A packet that cannot be taken ends the generator.                       *)
Reject ==
  /\ phase = "parse"
  /\ HasHeader
  /\ \/ Malformed
     \/ Oversized
     \/ ~Incomplete /\ ~stream.known[Here]
  /\ phase' = "ended"
  /\ UNCHANGED <<stream, base, available, offset, packets>>

Yield ==
  /\ phase = "parse"
  /\ HasHeader
  /\ ~Malformed /\ ~Oversized /\ ~Incomplete
  /\ stream.known[Here]
  /\ packets' = Append(packets, [at |-> Here, len |-> Length])
  /\ phase' = "yielded"
  /\ UNCHANGED <<stream, base, available, offset>>

(* Variant: one packet per read.                                           *)
AdvanceAndRead == offset' = offset + Length /\ phase' = "read"

Advance == offset' = offset + Length /\ phase' = "parse"

(* The consumer asks for the next packet.                                  *)
Resume ==
  /\ phase = "yielded"
  /\ Advance
  /\ UNCHANGED <<stream, base, available, packets>>

(* The consumer ends its session and with it the generator.                *)
Abandon ==
  /\ phase = "yielded"
  /\ phase' = "ended"
  /\ UNCHANGED <<stream, base, available, offset, packets>>

(* Variant: the packets taken stay in front of the buffer.                 *)
NotCompacted == UNCHANGED <<base, available>>

(* memmove: what is left moves to the front of the buffer.                 *)
Compact ==
  /\ base' = base + offset
  /\ available' = available - offset

(* No complete packet is left: back to reading.                            *)
WaitForMore ==
  /\ phase = "parse"
  /\ HasHeader => ~Malformed /\ ~Oversized /\ Incomplete
  /\ Compact
  /\ phase' = "read"
  /\ UNCHANGED <<stream, offset, packets>>

ParsePacket == Reject \/ Yield \/ WaitForMore

Next ==
  \/ \E n \in 0..BUFFER : Read(n)
  \/ ReadFails
  \/ ParsePacket
  \/ Resume \/ Abandon

Spec == Init /\ [][Next]_vars

(* Bytes that were sent arrive, and a consumer that has not left comes     *)
(* back; nothing is assumed of the client's closing the connection.        *)
FairSpec ==
  /\ Spec
  /\ WF_vars(ParsePacket)
  /\ WF_vars(\E n \in 0..BUFFER : Read(n))
  /\ WF_vars(Resume)

-----------------------------------------------------------------------------
Packet == [at : Nat, len : Nat]

TypeOK ==
  /\ base \in Nat
  /\ available \in 0..BUFFER
  /\ offset \in Nat
  /\ phase \in {"read", "parse", "yielded", "ended"}
  /\ packets \in Seq(Packet)

(* The loop never reads into an empty rest of the buffer, which "would     *)
(* otherwise spin this loop on a zero-length async_read_some" (comment in  *)
(* packet_reader): whatever has been received, there is room for more.     *)
RoomToRead == phase = "read" => available < BUFFER

(* The bytes of a packet handed out were received, and are in the buffer   *)
(* as long as its consumer works on them.                                  *)
PacketReceived ==
  phase = "yielded" =>
    /\ packets # <<>>
    /\ packets[Len(packets)] = [at |-> Here, len |-> Length]
    /\ HEADER <= Length /\ offset + Length <= available
    /\ base + available <= stream.size

(* However the bytes arrive, the packets are those of the stream, one      *)
(* after the other from its first byte, each as long as it says.           *)
PacketsAreStream ==
  \A i \in 1..Len(packets) :
    /\ packets[i].at = IF i = 1 THEN 0
                       ELSE packets[i - 1].at + packets[i - 1].len
    /\ packets[i].len = stream.length[packets[i].at]

(* No complete packet is withheld: a consumer that waits for the network   *)
(* waits for bytes its next packet really lacks.                           *)
NothingWithheld ==
  phase = "read" =>
    available < HEADER \/ available < stream.length[base]

(* The inductive invariant: where the next packet begins is where the last *)
(* one ends, within what was received of one of the streams.               *)
EndOf(ps) == IF ps = <<>> THEN 0 ELSE ps[Len(ps)].at + ps[Len(ps)].len

ReaderInv ==
  /\ stream \in Streams
  /\ TypeOK
  /\ base + available <= stream.size
  /\ PacketsAreStream
  /\ phase = "read" => EndOf(packets) = base
  /\ phase \in {"parse", "yielded"} => offset <= available
  /\ phase = "parse" => EndOf(packets) = Here
  /\ RoomToRead
  /\ PacketReceived
  /\ NothingWithheld

(* With a consumer that stays, all that was sent is received: the reader   *)
(* gives up only on a packet it cannot take.                               *)
AllReceived ==
  <>[](\/ phase = "ended"
       \/ phase = "read" /\ base + available = stream.size)
=============================================================================
