------------------------------ MODULE FlagSync ------------------------------
(***************************************************************************)
(* Local changes of messages that mirror a message of an external IMAP     *)
(* account, and their way back to it:                                      *)
(*                                                                         *)
(*   service/messages  SetFlags, Delete, Purge, Transfer into Trash: one   *)
(*                     transaction changes the row and upserts its         *)
(*                     flag_sync_queue entry; other moves, EXPUNGE and the *)
(*                     vault's restore change the row only                 *)
(*   FlagSyncTask      the push: reads the entries that are due, connects, *)
(*                     stores each one on the source server, removes it    *)
(*   SyncTask          the pull: fetches the server's flags and, later,    *)
(*                     copies them to the row unless an entry is pending   *)
(*                                                                         *)
(* One account.  Push and pull are tasks of the worker pool with different *)
(* keys, so one of each may run at a time, and both run concurrently with  *)
(* the users' transactions.  Either may stop anywhere: the process dies.   *)
(* A push reads fewer entries than its limit of 50.                        *)
(***************************************************************************)
EXTENDS Naturals, FiniteSets

CONSTANTS Msg,     \* messages of the account, all with a known remote UID
          Flag,    \* the flags both sides store: \Seen, \Flagged, \Answered
          None     \* no entry, no value

Change == [flags : SUBSET Flag, deleted : BOOLEAN]
Entry == [flags : SUBSET Flag, deleted : BOOLEAN, due : BOOLEAN]
Copy == [flags : SUBSET Flag, marked : BOOLEAN]

ASSUME FlagSyncAssumption == None \notin Msg \cup Change \cup Entry \cup Copy

VARIABLES row,      \* messages table: flags, the \Deleted mark, where the row is
          queue,    \* flag_sync_queue: the entry of each message, or None
          remote,   \* the source server: flags and \Deleted of each message, None: gone
          push,     \* FlagSyncTask
          pull,     \* SyncTask, at the message it refreshes
          quiet,    \* nobody changes anything any more (for liveness)
          owed,     \* history: the change the server has not been told, or None
          raced     \* history: messages whose last change met a push or pull
                    \* that had already read their state

vars == <<row, queue, remote, push, pull, quiet, owed, raced>>

Row == [flags : SUBSET Flag, marked : BOOLEAN, at : {"folder", "vault", "purged"}]
Push == [pc : {"idle", "connect", "store", "settle"},
         batch : [Msg -> Change \cup {None}], msg : Msg \cup {None}, ok : BOOLEAN]
Pull == [pc : {"idle", "fetched", "open"}, msg : Msg \cup {None},
         flags : SUBSET Flag, pending : BOOLEAN, stale : BOOLEAN]

TypeOK ==
    /\ row \in [Msg -> Row]
    /\ queue \in [Msg -> Entry \cup {None}]
    /\ remote \in [Msg -> Copy \cup {None}]
    /\ push \in Push
    /\ pull \in Pull
    /\ quiet \in BOOLEAN
    /\ owed \in [Msg -> Change \cup {None}]
    /\ raced \in [Msg -> BOOLEAN]

IdlePush == [pc |-> "idle", batch |-> [m \in Msg |-> None], msg |-> None, ok |-> FALSE]
IdlePull == [pc |-> "idle", msg |-> None, flags |-> {}, pending |-> FALSE, stale |-> FALSE]

Init ==
    /\ row = [m \in Msg |-> [flags |-> {}, marked |-> FALSE, at |-> "folder"]]
    /\ queue = [m \in Msg |-> None]
    /\ remote = [m \in Msg |-> [flags |-> {}, marked |-> FALSE]]
    /\ push = IdlePush
    /\ pull = IdlePull
    /\ quiet = FALSE
    /\ owed = [m \in Msg |-> None]
    /\ raced = [m \in Msg |-> FALSE]

-----------------------------------------------------------------------------
(* The users' transactions: IMAP STORE, the desktop API, the web UI.       *)

InPush(m) == push.batch[m] # None \/ push.msg = m
InStatement(m) == pull.pc = "open" /\ pull.msg = m

\* Mutant: the last change wins, delete or not.
QueueFlagSyncNotSticky(m, flags, deleted) ==
    queue' = [queue EXCEPT ![m] = [flags |-> flags, deleted |-> deleted, due |-> TRUE]]

\* queueFlagSync: the upsert.  The latest flags win, a delete is sticky, the
\* backoff is reset.
QueueFlagSync(m, flags, deleted) ==
    LET sticky == deleted \/ (queue[m] # None /\ queue[m].deleted)
    IN  queue' = [queue EXCEPT ![m] =
                    [flags |-> flags, deleted |-> sticky, due |-> TRUE]]

\* What the upsert promises the server, and who had read the state before.
Note(m) ==
    /\ owed' = [owed EXCEPT ![m] =
                  [flags |-> queue'[m].flags, deleted |-> queue'[m].deleted]]
    /\ raced' = [raced EXCEPT ![m] = InPush(m) \/ InStatement(m)]
    /\ pull' = IF pull.msg = m THEN [pull EXCEPT !.stale = TRUE] ELSE pull

SetFlags(m, flags, marked) ==
    /\ ~quiet
    /\ row[m].at # "purged"
    /\ <<flags, marked>> # <<row[m].flags, row[m].marked>>
    /\ row' = [row EXCEPT ![m].flags = flags, ![m].marked = marked]
    /\ QueueFlagSync(m, flags, marked)
    /\ Note(m)
    /\ UNCHANGED <<remote, push, quiet>>

Delete(m) ==
    /\ ~quiet
    /\ row[m].at # "purged"
    /\ row' = [row EXCEPT ![m].at = "vault"]
    /\ QueueFlagSync(m, row[m].flags, TRUE)
    /\ Note(m)
    /\ UNCHANGED <<remote, push, quiet>>

\* The entry outlives the row (migration 050).
Purge(m) ==
    /\ ~quiet
    /\ row[m].at # "purged"
    /\ row' = [row EXCEPT ![m].at = "purged"]
    /\ QueueFlagSync(m, row[m].flags, TRUE)
    /\ Note(m)
    /\ UNCHANGED <<remote, push, quiet>>

\* Transfer: IMAP MOVE and COPY.  The \Deleted mark is cleared; into Trash it is
\* a delete upstream, elsewhere nothing is queued.
MoveToTrash(m) ==
    /\ ~quiet
    /\ row[m].at = "folder"
    /\ row' = [row EXCEPT ![m].marked = FALSE]
    /\ QueueFlagSync(m, row[m].flags, TRUE)
    /\ Note(m)
    /\ UNCHANGED <<remote, push, quiet>>

MoveElsewhere(m) ==
    /\ ~quiet
    /\ row[m].at = "folder"
    /\ row' = [row EXCEPT ![m].marked = FALSE]
    /\ UNCHANGED <<queue, remote, push, pull, quiet, owed, raced>>

\* IMAP EXPUNGE: into the vault, or for good from Trash.  The \Deleted mark was
\* queued when it was set.
Expunge(m) ==
    /\ ~quiet
    /\ row[m].at = "folder"
    /\ row[m].marked
    /\ \E to \in {"vault", "purged"} : row' = [row EXCEPT ![m].at = to]
    /\ UNCHANGED <<queue, remote, push, pull, quiet, owed, raced>>

\* The delete stays queued.
RestoreFromVault(m) ==
    /\ ~quiet
    /\ row[m].at = "vault"
    /\ row' = [row EXCEPT ![m].at = "folder", ![m].marked = FALSE]
    /\ UNCHANGED <<queue, remote, push, pull, quiet, owed, raced>>

\* Another client of the source server changes the message there.
RemoteChange(m, flags) ==
    /\ ~quiet
    /\ remote[m] # None
    /\ remote' = [remote EXCEPT ![m].flags = flags]
    /\ UNCHANGED <<row, queue, push, pull, quiet, owed, raced>>

Quiesce ==
    /\ ~quiet
    /\ quiet' = TRUE
    /\ UNCHANGED <<row, queue, remote, push, pull, owed, raced>>

-----------------------------------------------------------------------------
(* FlagSyncTask.Execute                                                    *)

Due(m) == queue[m] # None /\ queue[m].due
Asked(e) == [flags |-> e.flags, deleted |-> e.deleted]

\* scheduleFlagSync finds the account, GetPendingFlagSync reads the entries.
\* While the logins of the account are on hold both tasks return at once: that
\* is a time in which neither takes a step.
PushRead ==
    /\ push.pc = "idle"
    /\ \E m \in Msg : Due(m)
    /\ push' = [IdlePush EXCEPT
                  !.pc = "connect",
                  !.batch = [m \in Msg |-> IF Due(m) THEN Asked(queue[m]) ELSE None]]
    /\ UNCHANGED <<row, queue, remote, pull, quiet, owed, raced>>

PushConnect ==
    /\ push.pc = "connect"
    /\ push' = [push EXCEPT !.pc = "store"]
    /\ UNCHANGED <<row, queue, remote, pull, quiet, owed, raced>>

BackedOff(q, m) == IF q[m] = None THEN None ELSE [q[m] EXCEPT !.due = FALSE]

\* Mutant: entries are dropped when the server cannot be reached.
PushUnreachableForgets ==
    /\ push.pc = "connect"
    /\ queue' = [m \in Msg |-> IF push.batch[m] # None THEN None ELSE queue[m]]
    /\ push' = IdlePush
    /\ UNCHANGED <<row, remote, pull, quiet, owed, raced>>

\* The server is unreachable: every entry read counts a failed attempt.
PushUnreachable ==
    /\ push.pc = "connect"
    /\ queue' = [m \in Msg |-> IF push.batch[m] # None THEN BackedOff(queue, m)
                               ELSE queue[m]]
    /\ push' = IdlePush
    /\ UNCHANGED <<row, remote, pull, quiet, owed, raced>>

\* Rejected credentials pause the account; the entries keep their budget.
PushRejected ==
    /\ push.pc = "connect"
    /\ push' = IdlePush
    /\ UNCHANGED <<row, queue, remote, pull, quiet, owed, raced>>

\* StoreFlags replaces all flags, \Deleted included; a UID that is gone is not
\* an error.
Stored(m, flags) ==
    IF remote[m] = None THEN remote
    ELSE [remote EXCEPT ![m] = [flags |-> flags, marked |-> FALSE]]

\* DeleteMessageRemote adds \Deleted, then expunges the UID; on a server
\* without UIDPLUS it expunges the folder.
Marked(m) == IF remote[m] = None THEN remote ELSE [remote EXCEPT ![m].marked = TRUE]
InTheWay == {n \in Msg : remote[n] # None /\ remote[n].marked}
Expunged(gone) == [n \in Msg |-> IF n \in gone THEN None ELSE remote[n]]

Pushed(m, c) ==
    IF c.deleted
    THEN {Expunged({m}), Expunged({m} \cup InTheWay)}
    ELSE {Stored(m, c.flags)}

\* What a failed command may have done nevertheless.
HalfPushed(m, c) == Pushed(m, c) \cup {remote} \cup (IF c.deleted THEN {Marked(m)} ELSE {})

\* The server has been told change c.
Told(m, c) == owed' = IF owed[m] = c THEN [owed EXCEPT ![m] = None] ELSE owed

Settling(m, ok) ==
    [pc |-> "settle", batch |-> [push.batch EXCEPT ![m] = None], msg |-> m, ok |-> ok]

PushStore(m) ==
    /\ push.pc = "store"
    /\ push.batch[m] # None
    /\ remote' \in Pushed(m, push.batch[m])
    /\ Told(m, push.batch[m])
    /\ push' = Settling(m, TRUE)
    /\ UNCHANGED <<row, queue, pull, quiet, raced>>

PushStoreError(m) ==
    /\ push.pc = "store"
    /\ push.batch[m] # None
    /\ remote' \in HalfPushed(m, push.batch[m])
    /\ push' = Settling(m, FALSE)
    /\ UNCHANGED <<row, queue, pull, quiet, owed, raced>>

\* Mutant: an entry that was pushed is not removed.
PushDoneKeeps ==
    /\ push.pc = "settle"
    /\ push.ok
    /\ queue' = [queue EXCEPT ![push.msg] = BackedOff(queue, push.msg)]
    /\ push' = [push EXCEPT !.pc = "store", !.msg = None]
    /\ UNCHANGED <<row, remote, pull, quiet, owed, raced>>

\* DeleteFlagSyncEntry by the entry's id, which an upsert keeps.
PushDone ==
    /\ push.pc = "settle"
    /\ push.ok
    /\ queue' = [queue EXCEPT ![push.msg] = None]
    /\ push' = [push EXCEPT !.pc = "store", !.msg = None]
    /\ UNCHANGED <<row, remote, pull, quiet, owed, raced>>

\* Mutant: an entry that failed is removed too.
PushFailedForgets ==
    /\ push.pc = "settle"
    /\ ~push.ok
    /\ queue' = [queue EXCEPT ![push.msg] = None]
    /\ push' = [push EXCEPT !.pc = "store", !.msg = None]
    /\ UNCHANGED <<row, remote, pull, quiet, owed, raced>>

\* MarkFlagSyncFailed
PushFailed ==
    /\ push.pc = "settle"
    /\ ~push.ok
    /\ queue' = [queue EXCEPT ![push.msg] = BackedOff(queue, push.msg)]
    /\ push' = [push EXCEPT !.pc = "store", !.msg = None]
    /\ UNCHANGED <<row, remote, pull, quiet, owed, raced>>

\* Either bookkeeping statement fails and is only logged.
PushUnsettled ==
    /\ push.pc = "settle"
    /\ push' = [push EXCEPT !.pc = "store", !.msg = None]
    /\ UNCHANGED <<row, queue, remote, pull, quiet, owed, raced>>

\* The last entry is done, the context is cancelled, or the process dies.
PushEnds ==
    /\ push.pc # "idle"
    /\ push' = IdlePush
    /\ UNCHANGED <<row, queue, remote, pull, quiet, owed, raced>>

BackoffElapses(m) ==
    /\ queue[m] # None
    /\ ~queue[m].due
    /\ queue' = [queue EXCEPT ![m].due = TRUE]
    /\ UNCHANGED <<row, remote, push, pull, quiet, owed, raced>>

-----------------------------------------------------------------------------
(* SyncTask.refreshFlagsUpTo and RefreshExistingFromRemote                 *)

PullFetch(m) ==
    /\ pull.pc = "idle"
    /\ remote[m] # None
    /\ ~remote[m].marked
    /\ pull' = [IdlePull EXCEPT !.pc = "fetched", !.msg = m, !.flags = remote[m].flags]
    /\ UNCHANGED <<row, queue, remote, push, quiet, owed, raced>>

\* Mutant: the statement does not ask whether an entry is pending.
PullOpenBlindly ==
    /\ pull.pc = "fetched"
    /\ pull' = [pull EXCEPT !.pc = "open", !.pending = FALSE]
    /\ UNCHANGED <<row, queue, remote, push, quiet, owed, raced>>

\* The statement takes its snapshot: is an entry pending?
PullOpen ==
    /\ pull.pc = "fetched"
    /\ pull' = [pull EXCEPT !.pc = "open", !.pending = (queue[pull.msg] # None)]
    /\ UNCHANGED <<row, queue, remote, push, quiet, owed, raced>>

\* The statement reaches the row.  Under READ COMMITTED a row changed since
\* the snapshot is read again, `pending` is not.
PullWrite ==
    /\ pull.pc = "open"
    /\ row' = IF pull.pending \/ row[pull.msg].at = "purged" THEN row
              ELSE [row EXCEPT ![pull.msg].flags = pull.flags]
    /\ pull' = IdlePull
    /\ UNCHANGED <<queue, remote, push, quiet, owed, raced>>

PullEnds ==
    /\ pull.pc # "idle"
    /\ pull' = IdlePull
    /\ UNCHANGED <<row, queue, remote, push, quiet, owed, raced>>

-----------------------------------------------------------------------------
UserStep ==
    \E m \in Msg :
        \/ \E flags \in SUBSET Flag, marked \in BOOLEAN : SetFlags(m, flags, marked)
        \/ Delete(m) \/ Purge(m) \/ MoveToTrash(m)
        \/ MoveElsewhere(m) \/ Expunge(m) \/ RestoreFromVault(m)

PushStep ==
    \/ PushRead \/ PushConnect \/ PushUnreachable \/ PushRejected
    \/ \E m \in Msg : PushStore(m) \/ PushStoreError(m)
    \/ PushDone \/ PushFailed \/ PushUnsettled \/ PushEnds

PullStep == (\E m \in Msg : PullFetch(m)) \/ PullOpen \/ PullWrite \/ PullEnds

Next ==
    \/ UserStep
    \/ \E m \in Msg, flags \in SUBSET Flag : RemoteChange(m, flags)
    \/ Quiesce
    \/ PushStep
    \/ PullStep
    \/ \E m \in Msg : BackoffElapses(m)

Spec == Init /\ [][Next]_vars

\* The workers run, the scheduler offers both tasks and time passes (WF); each
\* step of a task that is tried again and again succeeds again and again (SF):
\* the server is not unreachable, nor the process dying, at every attempt.
Fairness ==
    /\ WF_vars(PushStep)
    /\ WF_vars(PullStep)
    /\ SF_vars(PushConnect)
    /\ SF_vars(PushDone)
    /\ SF_vars(PullOpen)
    /\ SF_vars(PullWrite)
    /\ \A m \in Msg : /\ WF_vars(BackoffElapses(m))
                      /\ SF_vars(PushStore(m))
                      /\ SF_vars(PullFetch(m))

FairSpec == Spec /\ Fairness

-----------------------------------------------------------------------------
(* Safety. *)

\* A crash or error "can no longer leave a local change that is never pushed"
\* (messages.go): until the server has been told the last change of a message
\* its entry is in the queue and asks for exactly that change -- unless the
\* change met a push or pull that had already read the message's state.
UnpushedStaysQueued ==
    \A m \in Msg :
        owed[m] # None /\ ~raced[m] => queue[m] # None /\ Asked(queue[m]) = owed[m]

\* While an entry is pending it asks for the flags the row shows: the pull
\* leaves them alone, and every local change goes through the queue.
QueueMirrorsRow ==
    \A m \in Msg : queue[m] # None /\ ~raced[m] => queue[m].flags = row[m].flags

\* A delete that failed half way leaves \Deleted on the server's copy, which
\* the pull then ignores: its entry stays queued, as a delete, until the copy
\* is gone or the mark is cleared.
MarkedStaysQueued ==
    \A m \in Msg : remote[m] # None /\ remote[m].marked
                     => queue[m] # None /\ queue[m].deleted

\* Nothing disappears from the source server but what has a delete queued, not
\* even when a plain EXPUNGE of the folder takes other messages along.
OnlyQueuedDeletesExpunge ==
    [][\A m \in Msg : remote[m] # None /\ remote'[m] = None
                        => queue[m] # None /\ queue[m].deleted]_vars

\* The next three are what the code says of itself; the runs refute them.

\* "Once a delete is queued the message must disappear from the source server
\* even if a later flag change races in" (flag_sync.go).
QueuedDeleteReachesServer ==
    [][\A m \in Msg : queue[m] # None /\ queue[m].deleted /\ queue'[m] = None
                        => remote[m] = None]_vars

\* "While our own change sits in the queue [...] they keep their local value"
\* (messages.go, RefreshExistingFromRemote).
PendingKeepsLocalFlags ==
    [][\A m \in Msg : queue[m] # None /\ PullWrite => row'[m] = row[m]]_vars

\* "Copying it back destroys the user's action": even after the push succeeded
\* and removed the entry, the pull does not replace the row's flags by a picture
\* of the server it took before the user's change.
StalePictureNotCopied ==
    [][PullWrite /\ pull.stale /\ queue[pull.msg] = None => row' = row]_vars

-----------------------------------------------------------------------------
(* Liveness, under FairSpec. *)

\* A local change reaches the source server, through crashes, an unreachable
\* server, rejected credentials and failed commands; a newer change of the
\* message may take its place.
ChangeReachesServer ==
    \A m \in Msg : owed[m] # None ~> owed[m] = None \/ raced[m]

\* When nobody changes anything any more both sides end up with the same flags,
\* whatever raced before: no entry is left behind that would freeze the row.
SameFlags(m) ==
    remote[m] = None \/ row[m].at = "purged" \/ remote[m].flags = row[m].flags

FlagsConverge == quiet ~> [](\A m \in Msg : queue[m] = None /\ SameFlags(m))
=============================================================================
