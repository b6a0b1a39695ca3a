----------------------------- MODULE MCFlagSync -----------------------------
(* Small accounts for TLC. *)
EXTENDS FlagSync, TLC

\* Messages are interchangeable.
Symmetry == Permutations(Msg)
=============================================================================
