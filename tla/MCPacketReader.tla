--------------------------- MODULE MCPacketReader ---------------------------
(* The reader with a buffer of seven bytes and connections of ten: every   *)
(* length that matters (too short, a bare header, longer, the whole        *)
(* buffer, too long) at every position a packet can begin at, and an       *)
(* unknown type at the start, after a bare header, or nowhere.             *)
EXTENDS PacketReader

Lengths == {2, 3, 5, 7, 8}

AllStreams ==
  {[size |-> 10,
    length |-> [p \in 0..10 |-> IF p \in {0, 3, 5, 6, 7} THEN f[p] ELSE 3],
    known |-> [p \in 0..10 |-> p # bad]] :
      f \in [{0, 3, 5, 6, 7} -> Lengths], bad \in {0, 3, 10}}
=============================================================================
