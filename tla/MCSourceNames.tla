--------------------------- MODULE MCSourceNames ---------------------------
(* The pool with the tasks of the calendar sync: Task.String() names the   *)
(* source by its display name only, and two users may use the same name.   *)
EXTENDS TaskPool, TLC

CONSTANTS calendarSyncPersonal, flagSync, aliceTask, bobTask, flagTask, imap1

MCTask == {aliceTask, bobTask, flagTask}
MCKey == {calendarSyncPersonal, flagSync}
MCKeyOf == [t \in MCTask |->
                IF t = flagTask THEN flagSync ELSE calendarSyncPersonal]
MCKindOf == [t \in MCTask |-> "IMAP"]
MCFast == MCTask
MCWorker == {imap1}
MCWorkerKind == [w \in MCWorker |-> "IMAP"]

Waiting ==
    {At(s) : s \in Slot}
    \cup {hand[w] : w \in {v \in Worker : Holding(v)}}
    \cup {deferred[k] : k \in Key}

\* ErrDuplicateTask is "not an error condition: the work is already scheduled"
\* (pool.go): when Submit would answer it to a task, the work of that task,
\* here its source, is waiting.
DuplicateIsAlreadyScheduled ==
    \A t \in Task : KeyOf[t] \in queued /\ ~cancelled => t \in Waiting
=============================================================================
