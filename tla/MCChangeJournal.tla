-------------------------- MODULE MCChangeJournal --------------------------
(***************************************************************************)
(* Instances of ChangeJournal for TLC.                                     *)
(***************************************************************************)
EXTENDS ChangeJournal, TLC

CONSTANTS m1, m2, foreign, c1, w1, w2

\* One dialog for all.
MCConvOf == [m \in Message |-> c1]

Symmetry == Permutations(Writer) \cup Permutations(Mine)
=============================================================================
