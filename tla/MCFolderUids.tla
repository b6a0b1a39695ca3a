---------------------------- MODULE MCFolderUids ----------------------------
(* Constants for FolderUids: a user with an inbox and a Trash, and one more  *)
(* name.                                                                     *)
EXTENDS FolderUids, TLC

CONSTANTS m1, m2, s1, s2

TwoDefaults == <<"INBOX", "Trash">>
Types == [n \in Name |-> IF n = "Trash" THEN "trash" ELSE "custom"]
Symmetries == Permutations(Session) \cup Permutations(Message)
=============================================================================
