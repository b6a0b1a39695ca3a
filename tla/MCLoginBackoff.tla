---------------------------- MODULE MCLoginBackoff ----------------------------
(* LoginBackoff with pauses of one tick, two after a tick of rejections;    *)
(* rejections within one tick are one incident.                             *)
EXTENDS LoginBackoff, TLC

CONSTANTS sync, flags, click, w1, w2, p1, p2

MCStep == <<1>>
Symmetry == Permutations({p1, p2}) \cup Permutations({w1, w2})

=============================================================================
