-------------------------------- MODULE Texts --------------------------------
(***************************************************************************)
(* Strings in a packet: each ends with a zero (sb_request.cpp and qr.cpp   *)
(* find it with std::find).                                                *)
(***************************************************************************)
EXTENDS Naturals, Sequences, SequencesExt

CONSTANT None  \* what cannot be read or sent

(* A sequence an element does not occur in.                                *)
Free(s, token) == \A i \in 1..Len(s) : s[i] # token

(* The first place of an element, or 0.                                    *)
First(q, token) ==
  LET at == {i \in DOMAIN q : q[i] = token}
  IN IF at = {} THEN 0 ELSE CHOOSE i \in at : \A j \in at : i <= j

(* The terminator of the string at i, or the place after the last byte.    *)
Terminator(p, i) ==
  LET zeros == {j \in i..Len(p) : p[j] = 0}
  IN IF zeros = {} THEN Len(p) + 1 ELSE CHOOSE j \in zeros : \A k \in zeros : j <= k

After(p, i) == Terminator(p, i) + 1

String(p, i) == SubSeq(p, i, Terminator(p, i) - 1)

(* The strings of a packet, one after the other; a text that is not        *)
(* terminated is none of them.                                             *)
Strings(p) ==
  LET read ==
    FoldLeft(LAMBDA r, c :
               IF c = 0 THEN [strings |-> Append(r.strings, r.text), text |-> <<>>]
               ELSE [strings |-> r.strings, text |-> Append(r.text, c)],
             [strings |-> <<>>, text |-> <<>>], p)
  IN read.strings
=============================================================================
