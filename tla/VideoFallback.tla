---------------------------- MODULE VideoFallback ----------------------------
(***************************************************************************)
(* The choice of a video mode (bf2-dlls/client-video-fallback.cpp): the    *)
(* renderer of the game accepts only the modes it has enumerated, and ends *)
(* the game for any other; the patch replaces a mode it does not know.     *)
(*                                                                         *)
(* A mode is <<width, height, refresh>>.  Other texts are outside.         *)
(***************************************************************************)
EXTENDS Integers, Sequences

(* Rates in Hertz: the score puts size before rate as long as twice the    *)
(* difference of two is less than the weight of a pixel.                   *)
Rate == {r \in Nat : r < 50000}
Mode == Nat \X Nat \X Rate

Distance(a, b) == IF a < b THEN b - a ELSE a - b

SizeDistance(a, b) == Distance(a[1], b[1]) + Distance(a[2], b[2])

(* Variant: a difference in the refresh rate weighs as much as one in size. *)
Unweighted(candidate, wanted) ==
  SizeDistance(candidate, wanted) + Distance(candidate[3], wanted[3])

Score(candidate, wanted) ==
  SizeDistance(candidate, wanted) * 100000
    + Distance(candidate[3], wanted[3]) * 2
    + (IF candidate[3] > wanted[3] THEN 1 ELSE 0)

(* closest_resolution: of those with the lowest score the first.  A value  *)
(* that is no mode stands for the mode of the desktop, if there is one.    *)
ClosestResolution(modes, requested, desktop) ==
  LET wanted == IF requested # <<>> THEN requested
                ELSE IF desktop # <<>> THEN desktop ELSE <<0, 0, 0>>
  IN modes[CHOOSE i \in DOMAIN modes :
             \A j \in DOMAIN modes :
               \/ Score(modes[i], wanted) < Score(modes[j], wanted)
               \/ Score(modes[i], wanted) = Score(modes[j], wanted) /\ i <= j]

(* VideoOptions::setDynamicOption: what the renderer is given.             *)
SetResolution(modes, requested, desktop) ==
  IF modes = <<>> \/ \E i \in DOMAIN modes : modes[i] = requested THEN requested
  ELSE ClosestResolution(modes, requested, desktop)

(* "prefer the same size (only the refresh rate is off), otherwise the     *)
(* closest size - on equal distance prefer the lower refresh rate".        *)
Closer(a, b, wanted) ==
  \/ SizeDistance(a, wanted) < SizeDistance(b, wanted)
  \/ /\ SizeDistance(a, wanted) = SizeDistance(b, wanted)
     /\ \/ Distance(a[3], wanted[3]) < Distance(b[3], wanted[3])
        \/ Distance(a[3], wanted[3]) = Distance(b[3], wanted[3]) /\ a[3] < b[3]

(* The renderer is given a mode it knows, none is closer to what was asked *)
(* for, and a mode it knows is left as it is.                              *)
KnownAndClosest(modes, requested, desktop) ==
  modes # <<>> =>
    LET set == SetResolution(modes, requested, desktop)
        wanted == IF requested = <<>> THEN desktop ELSE requested
    IN \E i \in DOMAIN modes :
         /\ set = modes[i]
         /\ wanted # <<>> => \A j \in DOMAIN modes : ~Closer(modes[j], set, wanted)
=============================================================================
