----------------------------- MODULE MCTaskPool -----------------------------
(* Small pools for TLC. *)
EXTENDS TaskPool, TLC

CONSTANTS sync, push, send,              \* keys
          sync1, sync2, push1, send1,    \* task objects
          imap1, imap2, smtp1            \* workers

\* Two task objects of one account's sync, its flag push, and one send.
MCTask == {sync1, sync2, push1, send1}
MCKey == {sync, push, send}
MCKeyOf == sync1 :> sync @@ sync2 :> sync @@ push1 :> push @@ send1 :> send
MCKindOf == [t \in MCTask |-> IF t = send1 THEN "SMTP" ELSE "IMAP"]
MCFast == {push1}
MCWorker == {imap1, imap2, smtp1}
MCWorkerKind == [w \in MCWorker |-> IF w = smtp1 THEN "SMTP" ELSE "IMAP"]
=============================================================================
