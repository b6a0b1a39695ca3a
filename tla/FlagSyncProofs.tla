--------------------------- MODULE FlagSyncProofs ---------------------------
(***************************************************************************)
(* Proofs about FlagSync for every set of messages and flags: type         *)
(* correctness, that no local change is lost unless it raced, and that     *)
(* only queued deletes remove messages from the source server.             *)
(***************************************************************************)
EXTENDS FlagSync, TLAPS

\* What the push knows.  An entry it has read and not yet handled still asks
\* for the same, unless a later change raced with it, and is still a delete if
\* it was one; the entry it has just pushed is owed no more, and its message
\* carries no mark.
PushInv ==
    /\ \A m \in Msg : push.batch[m] # None =>
          /\ ~raced[m] => queue[m] # None /\ Asked(queue[m]) = push.batch[m]
          /\ push.batch[m].deleted => queue[m] # None /\ queue[m].deleted
    /\ push.pc = "settle" => push.msg # None
    /\ push.pc = "settle" /\ push.ok =>
          /\ ~raced[push.msg] => owed[push.msg] = None
          /\ remote[push.msg] # None => ~remote[push.msg].marked
    /\ push.msg # None => push.batch[push.msg] = None

\* What the pull's statement knows: no entry was pending, and if none raced
\* none is.
PullInv ==
    /\ pull.pc # "idle" => pull.msg # None
    /\ pull.pc = "open" /\ ~pull.pending /\ ~raced[pull.msg] =>
          queue[pull.msg] = None

Inv ==
    /\ TypeOK
    /\ PushInv
    /\ PullInv
    /\ UnpushedStaysQueued
    /\ QueueMirrorsRow
    /\ MarkedStaysQueued

-----------------------------------------------------------------------------
(* Type correctness. *)

\* The initial state is well typed.
LEMMA TypeInit == Init => TypeOK
<1> SUFFICES ASSUME Init PROVE TypeOK
  OBVIOUS
<1>1. row \in [Msg -> Row]
  BY DEF Init, Row
<1>2. remote \in [Msg -> Copy \cup {None}]
  BY DEF Init, Copy
<1>3. IdlePush \in Push
  BY DEF IdlePush, Push
<1>4. IdlePull \in Pull
  BY DEF IdlePull, Pull
<1>5. quiet = FALSE /\ raced = [m \in Msg |-> FALSE]
  BY DEF Init
<1> QED
  BY <1>1, <1>2, <1>3, <1>4, <1>5 DEF Init, TypeOK

\* The upsert leaves a well-typed queue, and what it notes is well typed.
LEMMA UpsertType ==
  ASSUME TypeOK, NEW m \in Msg, NEW flags \in SUBSET Flag, NEW deleted \in BOOLEAN,
         QueueFlagSync(m, flags, deleted), Note(m)
  PROVE  /\ queue' \in [Msg -> Entry \cup {None}]
         /\ owed' \in [Msg -> Change \cup {None}]
         /\ raced' \in [Msg -> BOOLEAN]
         /\ pull' \in Pull
<1> DEFINE sticky == deleted \/ (queue[m] # None /\ queue[m].deleted)
           entry == [flags |-> flags, deleted |-> sticky, due |-> TRUE]
<1>1. sticky \in BOOLEAN
  OBVIOUS
<1>2. entry \in Entry
  BY <1>1 DEF Entry
<1>3. queue' = [queue EXCEPT ![m] = entry]
  BY DEF QueueFlagSync
<1>4. queue' \in [Msg -> Entry \cup {None}] /\ queue'[m] = entry
  BY <1>2, <1>3 DEF TypeOK
<1>5. [flags |-> queue'[m].flags, deleted |-> queue'[m].deleted] \in Change
  BY <1>1, <1>4 DEF Change
<1>6. owed' \in [Msg -> Change \cup {None}]
  BY <1>5 DEF Note, TypeOK
<1>7. raced' \in [Msg -> BOOLEAN]
  BY DEF Note, TypeOK, InPush, InStatement
<1>8. pull' \in Pull
  <2>1. [pull EXCEPT !.stale = TRUE] \in Pull
    BY DEF TypeOK, Pull
  <2> QED
    BY <2>1 DEF Note, TypeOK
<1> QED
  BY <1>4, <1>6, <1>7, <1>8

\* Replacing the row of one message by a well-typed one keeps the table so.
LEMMA RowType ==
  ASSUME TypeOK, NEW m \in Msg, NEW r \in Row
  PROVE  [row EXCEPT ![m] = r] \in [Msg -> Row]
BY DEF TypeOK

\* Every step of a user's transaction keeps the types.
LEMMA UserType == TypeOK /\ UserStep => TypeOK'
<1> SUFFICES ASSUME TypeOK, NEW m \in Msg,
                    \/ \E flags \in SUBSET Flag, marked \in BOOLEAN :
                          SetFlags(m, flags, marked)
                    \/ Delete(m) \/ Purge(m) \/ MoveToTrash(m)
                    \/ MoveElsewhere(m) \/ Expunge(m) \/ RestoreFromVault(m)
             PROVE  TypeOK'
  BY DEF UserStep
<1>1. row[m] \in Row /\ row[m].flags \in SUBSET Flag
  BY DEF TypeOK, Row
<1>2. ASSUME NEW flags \in SUBSET Flag, NEW marked \in BOOLEAN, SetFlags(m, flags, marked)
      PROVE  TypeOK'
  <2> DEFINE r == [row[m] EXCEPT !.flags = flags, !.marked = marked]
  <2>1. QueueFlagSync(m, flags, marked) /\ Note(m)
    BY <1>2 DEF SetFlags
  <2>2. r \in Row
    BY <1>1 DEF Row
  <2>3. row' = [row EXCEPT ![m] = r]
    BY <1>2 DEF SetFlags, TypeOK
  <2>4. row' \in [Msg -> Row]
    BY <2>2, <2>3, RowType
  <2> QED
    BY <1>2, <2>1, <2>4, UpsertType DEF SetFlags, TypeOK
<1>3. ASSUME NEW to \in {"vault", "purged"} PROVE [row EXCEPT ![m].at = to] \in [Msg -> Row]
  <2> DEFINE r == [row[m] EXCEPT !.at = to]
  <2>1. r \in Row
    BY <1>1 DEF Row
  <2>2. [row EXCEPT ![m].at = to] = [row EXCEPT ![m] = r]
    BY DEF TypeOK
  <2> QED
    BY <2>1, <2>2, RowType
<1>4. ASSUME Delete(m) \/ Purge(m) PROVE TypeOK'
  <2>1. QueueFlagSync(m, row[m].flags, TRUE) /\ Note(m)
    BY <1>4 DEF Delete, Purge
  <2>2. row' \in [Msg -> Row]
    BY <1>3, <1>4 DEF Delete, Purge
  <2> QED
    BY <1>1, <1>4, <2>1, <2>2, UpsertType DEF Delete, Purge, TypeOK
<1>5. ASSUME Expunge(m) PROVE TypeOK'
  BY <1>3, <1>5 DEF Expunge, TypeOK
<1>6. ASSUME RestoreFromVault(m) PROVE TypeOK'
  <2> DEFINE r == [row[m] EXCEPT !.at = "folder", !.marked = FALSE]
  <2>1. r \in Row
    BY <1>1 DEF Row
  <2>2. row' = [row EXCEPT ![m] = r]
    BY <1>6 DEF RestoreFromVault, TypeOK
  <2>3. row' \in [Msg -> Row]
    BY <2>1, <2>2, RowType
  <2> QED
    BY <1>6, <2>3 DEF RestoreFromVault, TypeOK
<1>7. ASSUME MoveToTrash(m) \/ MoveElsewhere(m) PROVE TypeOK'
  <2> DEFINE r == [row[m] EXCEPT !.marked = FALSE]
  <2>1. r \in Row
    BY <1>1 DEF Row
  <2>2. row' = [row EXCEPT ![m] = r]
    BY <1>7 DEF MoveToTrash, MoveElsewhere, TypeOK
  <2>3. row' \in [Msg -> Row]
    BY <2>1, <2>2, RowType
  <2>4. CASE MoveToTrash(m)
    <3>1. QueueFlagSync(m, row[m].flags, TRUE) /\ Note(m)
      BY <2>4 DEF MoveToTrash
    <3> QED
      BY <1>1, <2>3, <2>4, <3>1, UpsertType DEF MoveToTrash, TypeOK
  <2>5. CASE MoveElsewhere(m)
    BY <2>3, <2>5 DEF MoveElsewhere, TypeOK
  <2> QED
    BY <1>7, <2>4, <2>5
<1> QED
  BY <1>2, <1>4, <1>5, <1>6, <1>7

\* What a push may do to the queue and to the server is well typed.
LEMMA BackedOffType ==
  ASSUME TypeOK, NEW m \in Msg
  PROVE  BackedOff(queue, m) \in Entry \cup {None}
<1>1. CASE queue[m] = None
  BY <1>1 DEF BackedOff
<1>2. CASE queue[m] # None
  <2>1. queue[m] \in Entry
    BY <1>2 DEF TypeOK
  <2>2. [queue[m] EXCEPT !.due = FALSE] \in Entry
    BY <2>1 DEF Entry
  <2> QED
    BY <1>2, <2>2 DEF BackedOff
<1> QED
  BY <1>1, <1>2

\* What a push, successful or not, may leave on the server is well typed.
LEMMA PushedType ==
  ASSUME TypeOK, NEW m \in Msg, NEW c \in Change
  PROVE  HalfPushed(m, c) \subseteq [Msg -> Copy \cup {None}]
<1>1. c.flags \in SUBSET Flag
  BY DEF Change
<1>2. Stored(m, c.flags) \in [Msg -> Copy \cup {None}]
  <2>1. [flags |-> c.flags, marked |-> FALSE] \in Copy
    BY <1>1 DEF Copy
  <2> QED
    BY <2>1 DEF Stored, TypeOK
<1>3. Marked(m) \in [Msg -> Copy \cup {None}]
  <2>1. CASE remote[m] = None
    BY <2>1 DEF Marked, TypeOK
  <2>2. CASE remote[m] # None
    <3> DEFINE r == [remote[m] EXCEPT !.marked = TRUE]
    <3>1. r \in Copy
      BY <2>2 DEF Copy, TypeOK
    <3>2. Marked(m) = [remote EXCEPT ![m] = r]
      BY <2>2 DEF Marked, TypeOK
    <3> QED
      BY <3>1, <3>2 DEF TypeOK
  <2> QED
    BY <2>1, <2>2
<1>4. \A gone : Expunged(gone) \in [Msg -> Copy \cup {None}]
  BY DEF Expunged, TypeOK
<1> QED
  BY <1>2, <1>3, <1>4 DEF HalfPushed, Pushed, TypeOK

\* Every step of the push keeps the types.
LEMMA PushType == TypeOK /\ PushStep => TypeOK'
<1> SUFFICES ASSUME TypeOK, PushStep PROVE TypeOK'
  OBVIOUS
<1>0. IdlePush \in Push
  BY DEF IdlePush, Push
<1>1. ASSUME PushRead PROVE TypeOK'
  <2> DEFINE batch == [m \in Msg |-> IF Due(m) THEN Asked(queue[m]) ELSE None]
  <2>1. \A m \in Msg : Due(m) => Asked(queue[m]) \in Change
    <3> SUFFICES ASSUME NEW m \in Msg, Due(m) PROVE Asked(queue[m]) \in Change
      OBVIOUS
    <3>1. queue[m] \in Entry
      BY DEF Due, TypeOK
    <3> QED
      BY <3>1 DEF Asked, Entry, Change
  <2>2. batch \in [Msg -> Change \cup {None}]
    BY <2>1
  <2>3. push' = [IdlePush EXCEPT !.pc = "connect", !.batch = batch]
    BY <1>1 DEF PushRead
  <2>4. push' \in Push
    BY <1>0, <2>2, <2>3 DEF Push
  <2> QED
    BY <1>1, <2>4 DEF PushRead, TypeOK
<1>2. ASSUME PushConnect PROVE TypeOK'
  <2>1. push' \in Push
    BY <1>2 DEF PushConnect, TypeOK, Push
  <2> QED
    BY <1>2, <2>1 DEF PushConnect, TypeOK
<1>3. ASSUME PushUnreachable PROVE TypeOK'
  <2>1. queue' \in [Msg -> Entry \cup {None}]
    BY <1>3, BackedOffType DEF PushUnreachable, TypeOK
  <2> QED
    BY <1>0, <1>3, <2>1 DEF PushUnreachable, TypeOK
<1>4. ASSUME PushRejected \/ PushEnds PROVE TypeOK'
  BY <1>0, <1>4 DEF PushRejected, PushEnds, TypeOK
<1>5. ASSUME NEW m \in Msg, PushStore(m) \/ PushStoreError(m) PROVE TypeOK'
  <2>1. push.batch[m] \in Change
    BY <1>5 DEF PushStore, PushStoreError, TypeOK, Push
  <2>2. remote' \in [Msg -> Copy \cup {None}]
    BY <1>5, <2>1, PushedType DEF PushStore, PushStoreError, HalfPushed
  <2>3. push' \in Push
    <3> DEFINE batch == [push.batch EXCEPT ![m] = None]
    <3>1. batch \in [Msg -> Change \cup {None}]
      BY DEF TypeOK, Push
    <3>2. \A ok \in BOOLEAN : Settling(m, ok) \in Push
      BY <3>1 DEF Settling, Push
    <3> QED
      BY <1>5, <3>2 DEF PushStore, PushStoreError
  <2>4. owed' \in [Msg -> Change \cup {None}]
    BY <1>5 DEF PushStore, PushStoreError, Told, TypeOK
  <2> QED
    BY <1>5, <2>2, <2>3, <2>4 DEF PushStore, PushStoreError, TypeOK
<1>6. ASSUME PushDone \/ PushFailed \/ PushUnsettled PROVE TypeOK'
  <2>1. push' \in Push
    BY <1>6 DEF PushDone, PushFailed, PushUnsettled, TypeOK, Push
  <2>2. \A m \in Msg : [queue EXCEPT ![m] = BackedOff(queue, m)] \in [Msg -> Entry \cup {None}]
    BY BackedOffType DEF TypeOK
  <2>3. push.msg \in Msg \cup {None}
    BY DEF TypeOK, Push
  <2>4. queue' \in [Msg -> Entry \cup {None}]
    <3>1. CASE PushDone
      BY <3>1 DEF PushDone, TypeOK
    <3>2. CASE PushUnsettled
      BY <3>2 DEF PushUnsettled, TypeOK
    <3>3. CASE PushFailed /\ push.msg \in Msg
      BY <2>2, <3>3 DEF PushFailed
    <3>4. CASE PushFailed /\ push.msg \notin Msg
      BY <3>4 DEF PushFailed, TypeOK
    <3> QED
      BY <1>6, <3>1, <3>2, <3>3, <3>4
  <2> QED
    BY <1>6, <2>1, <2>4 DEF PushDone, PushFailed, PushUnsettled, TypeOK
<1> QED
  BY <1>1, <1>2, <1>3, <1>4, <1>5, <1>6 DEF PushStep

\* Every step of the pull keeps the types.
LEMMA PullType == TypeOK /\ PullStep => TypeOK'
<1> SUFFICES ASSUME TypeOK, PullStep PROVE TypeOK'
  OBVIOUS
<1>0. IdlePull \in Pull
  BY DEF IdlePull, Pull
<1>1. ASSUME NEW m \in Msg, PullFetch(m) PROVE TypeOK'
  <2>1. remote[m].flags \in SUBSET Flag
    BY <1>1 DEF PullFetch, TypeOK, Copy
  <2>2. pull' \in Pull
    BY <1>0, <1>1, <2>1 DEF PullFetch, Pull
  <2> QED
    BY <1>1, <2>2 DEF PullFetch, TypeOK
<1>2. ASSUME PullOpen PROVE TypeOK'
  <2>1. pull' \in Pull
    BY <1>2 DEF PullOpen, TypeOK, Pull
  <2> QED
    BY <1>2, <2>1 DEF PullOpen, TypeOK
<1>3. ASSUME PullWrite PROVE TypeOK'
  <2>1. ASSUME NEW m \in Msg PROVE [row EXCEPT ![m].flags = pull.flags] \in [Msg -> Row]
    <3> DEFINE r == [row[m] EXCEPT !.flags = pull.flags]
    <3>1. r \in Row
      BY DEF TypeOK, Row, Pull
    <3>2. [row EXCEPT ![m].flags = pull.flags] = [row EXCEPT ![m] = r]
      BY DEF TypeOK
    <3> QED
      BY <3>1, <3>2, RowType
  <2>2. CASE pull.msg \in Msg
    BY <1>0, <1>3, <2>1, <2>2 DEF PullWrite, TypeOK
  <2>3. CASE pull.msg \notin Msg
    <3>1. row' \in [Msg -> Row]
      BY <1>3, <2>3 DEF PullWrite, TypeOK
    <3> QED
      BY <1>0, <1>3, <3>1 DEF PullWrite, TypeOK
  <2> QED
    BY <2>2, <2>3
<1>4. ASSUME PullEnds PROVE TypeOK'
  BY <1>0, <1>4 DEF PullEnds, TypeOK
<1> QED
  BY <1>1, <1>2, <1>3, <1>4 DEF PullStep

\* Every step keeps the types.
LEMMA TypeNext == TypeOK /\ [Next]_vars => TypeOK'
<1>1. ASSUME TypeOK, [Next]_vars PROVE TypeOK'
  <2>1. ASSUME NEW m \in Msg, NEW flags \in SUBSET Flag, RemoteChange(m, flags)
        PROVE  TypeOK'
    <3> DEFINE r == [remote[m] EXCEPT !.flags = flags]
    <3>1. r \in Copy
      BY <2>1, <1>1 DEF RemoteChange, TypeOK, Copy
    <3>2. remote' = [remote EXCEPT ![m] = r]
      BY <2>1, <1>1 DEF RemoteChange, TypeOK
    <3> QED
      BY <1>1, <2>1, <3>1, <3>2 DEF RemoteChange, TypeOK
  <2>2. ASSUME Quiesce PROVE TypeOK'
    BY <1>1, <2>2 DEF Quiesce, TypeOK
  <2>3. ASSUME NEW m \in Msg, BackoffElapses(m) PROVE TypeOK'
    <3> DEFINE e == [queue[m] EXCEPT !.due = TRUE]
    <3>1. e \in Entry
      BY <2>3, <1>1 DEF BackoffElapses, TypeOK, Entry
    <3>2. queue' = [queue EXCEPT ![m] = e]
      BY <2>3, <1>1 DEF BackoffElapses, TypeOK
    <3> QED
      BY <1>1, <2>3, <3>1, <3>2 DEF BackoffElapses, TypeOK
  <2>4. ASSUME UNCHANGED vars PROVE TypeOK'
    BY <1>1, <2>4 DEF vars, TypeOK
  <2> QED
    BY <1>1, <2>1, <2>2, <2>3, <2>4, UserType, PushType, PullType DEF Next
<1> QED
  BY <1>1

\* TypeOK is an invariant of FlagSync for every set of messages and flags.
THEOREM TypeCorrect == Spec => []TypeOK
BY TypeInit, TypeNext, PTL DEF Spec

-----------------------------------------------------------------------------
(* The invariant.                                                          *)

\* Nothing is queued, marked or owed in the beginning.
LEMMA InvInit == Init => Inv
<1> SUFFICES ASSUME Init PROVE Inv
  OBVIOUS
<1>1. TypeOK
  BY TypeInit
<1>2. push.pc = "idle" /\ push.msg = None /\ \A m \in Msg : push.batch[m] = None
  BY DEF Init, IdlePush
<1>3. pull.pc = "idle"
  BY DEF Init, IdlePull
<1>4. \A m \in Msg : owed[m] = None /\ queue[m] = None /\ ~remote[m].marked
  BY DEF Init
<1> QED
  BY <1>1, <1>2, <1>3, <1>4
  DEF Inv, PushInv, PullInv, UnpushedStaysQueued, QueueMirrorsRow, MarkedStaysQueued

\* The transactions that queue: the upsert owes the server what it queues, and
\* a task that has already read the message makes it a race.
LEMMA UpsertInv ==
  ASSUME Inv, TypeOK', NEW m \in Msg, NEW flags \in SUBSET Flag, NEW deleted \in BOOLEAN,
         QueueFlagSync(m, flags, deleted), Note(m),
         row'[m].flags = flags, \A n \in Msg \ {m} : row'[n] = row[n],
         UNCHANGED <<remote, push>>
  PROVE  Inv'
<1> DEFINE sticky == deleted \/ (queue[m] # None /\ queue[m].deleted)
           entry == [flags |-> flags, deleted |-> sticky, due |-> TRUE]
<1>1. queue'[m] = entry /\ \A n \in Msg \ {m} : queue'[n] = queue[n]
  BY DEF QueueFlagSync, Inv, TypeOK
<1>2. queue'[m] # None /\ queue'[m].deleted = sticky /\ queue'[m].flags = flags
  <2>1. sticky \in BOOLEAN
    OBVIOUS
  <2>2. entry \in Entry
    BY <2>1 DEF Entry
  <2>3. entry # None
    BY <2>2, FlagSyncAssumption
  <2> QED
    BY <1>1, <2>1, <2>3
<1>3. owed'[m] = Asked(queue'[m]) /\ \A n \in Msg \ {m} : owed'[n] = owed[n]
  BY DEF Note, Inv, TypeOK, Asked
<1>4. /\ raced'[m] = (InPush(m) \/ InStatement(m))
      /\ \A n \in Msg \ {m} : raced'[n] = raced[n]
  BY DEF Note, Inv, TypeOK
<1>5. pull'.pc = pull.pc /\ pull'.msg = pull.msg /\ pull'.pending = pull.pending
  BY DEF Note, Inv, TypeOK, Pull
<1>6. PushInv'
  <2>1. \A n \in Msg : push.batch[n] # None =>
           /\ ~raced'[n] => queue'[n] # None /\ Asked(queue'[n]) = push.batch[n]
           /\ push.batch[n].deleted => queue'[n] # None /\ queue'[n].deleted
    <3> SUFFICES ASSUME NEW n \in Msg, push.batch[n] # None
                 PROVE  /\ ~raced'[n] => queue'[n] # None /\ Asked(queue'[n]) = push.batch[n]
                        /\ push.batch[n].deleted => queue'[n] # None /\ queue'[n].deleted
      OBVIOUS
    <3>1. CASE n = m
      <4>1. raced'[m]
        BY <1>4, <3>1 DEF InPush
      <4>2. push.batch[m].deleted => sticky
        BY <3>1 DEF Inv, PushInv
      <4> QED
        BY <1>1, <1>2, <3>1, <4>1, <4>2
    <3>2. CASE n # m
      BY <1>1, <1>4, <3>2 DEF Inv, PushInv
    <3> QED
      BY <3>1, <3>2
  <2>2. push.pc = "settle" /\ push.ok /\ ~raced'[push.msg] => owed'[push.msg] = None
    <3> SUFFICES ASSUME push.pc = "settle", push.ok, ~raced'[push.msg]
                 PROVE  owed'[push.msg] = None
      OBVIOUS
    <3>1. push.msg \in Msg
      BY DEF Inv, TypeOK, PushInv, Push
    <3>2. push.msg # m
      BY <1>4 DEF InPush
    <3> QED
      BY <1>3, <1>4, <3>1, <3>2 DEF Inv, PushInv
  <2> QED
    BY <2>1, <2>2 DEF Inv, PushInv
<1>7. PullInv'
  <2> SUFFICES ASSUME pull.pc = "open", ~pull.pending, ~raced'[pull.msg]
               PROVE  queue'[pull.msg] = None
    BY <1>5 DEF Inv, PullInv
  <2>1. pull.msg \in Msg
    BY DEF Inv, TypeOK, PullInv, Pull
  <2>2. pull.msg # m
    BY <1>4 DEF InStatement
  <2> QED
    BY <1>1, <1>4, <2>1, <2>2 DEF Inv, PullInv
<1>8. UnpushedStaysQueued'
  BY <1>1, <1>2, <1>3, <1>4 DEF UnpushedStaysQueued, Inv, Asked
<1>9. QueueMirrorsRow'
  BY <1>1, <1>4 DEF QueueMirrorsRow, Inv
<1>10. MarkedStaysQueued'
  <2> SUFFICES ASSUME NEW n \in Msg, remote[n] # None, remote[n].marked
               PROVE  queue'[n] # None /\ queue'[n].deleted
    BY DEF MarkedStaysQueued
  <2>1. queue[n] # None /\ queue[n].deleted
    BY DEF MarkedStaysQueued, Inv
  <2> QED
    BY <1>1, <1>2, <2>1
<1> QED
  BY <1>6, <1>7, <1>8, <1>9, <1>10 DEF Inv

\* Every step of a user's transaction keeps the invariant.
LEMMA UserInv == Inv /\ UserStep => Inv'
<1> SUFFICES ASSUME Inv, NEW m \in Msg,
                    \/ \E flags \in SUBSET Flag, marked \in BOOLEAN :
                          SetFlags(m, flags, marked)
                    \/ Delete(m) \/ Purge(m) \/ MoveToTrash(m)
                    \/ MoveElsewhere(m) \/ Expunge(m) \/ RestoreFromVault(m)
             PROVE  Inv'
  BY DEF UserStep
<1>1. TypeOK' /\ row[m] \in Row /\ row[m].flags \in SUBSET Flag
  BY UserType DEF Inv, UserStep, TypeOK, Row
<1>2. ASSUME NEW flags \in SUBSET Flag, NEW marked \in BOOLEAN, SetFlags(m, flags, marked)
      PROVE  Inv'
  <2>1. row'[m].flags = flags /\ \A n \in Msg \ {m} : row'[n] = row[n]
    BY <1>1, <1>2 DEF SetFlags, Inv, TypeOK, Row
  <2> QED
    BY <1>1, <1>2, <2>1, UpsertInv DEF SetFlags
<1>3. ASSUME Delete(m) \/ Purge(m) \/ MoveToTrash(m) PROVE Inv'
  <2>1. row'[m].flags = row[m].flags /\ \A n \in Msg \ {m} : row'[n] = row[n]
    <3>1. CASE Delete(m)
      BY <1>1, <3>1 DEF Delete, Inv, TypeOK, Row
    <3>2. CASE Purge(m)
      BY <1>1, <3>2 DEF Purge, Inv, TypeOK, Row
    <3>3. CASE MoveToTrash(m)
      BY <1>1, <3>3 DEF MoveToTrash, Inv, TypeOK, Row
    <3> QED
      BY <1>3, <3>1, <3>2, <3>3
  <2>2. QueueFlagSync(m, row[m].flags, TRUE) /\ Note(m) /\ UNCHANGED <<remote, push>>
    BY <1>3 DEF Delete, Purge, MoveToTrash
  <2> QED
    BY <1>1, <2>1, <2>2, UpsertInv
<1>4. ASSUME MoveElsewhere(m) \/ Expunge(m) \/ RestoreFromVault(m) PROVE Inv'
  <2>1. UNCHANGED <<queue, remote, push, pull, owed, raced>>
    BY <1>4 DEF MoveElsewhere, Expunge, RestoreFromVault
  <2>2. \A n \in Msg : row'[n].flags = row[n].flags
    BY <1>1, <1>4 DEF MoveElsewhere, Expunge, RestoreFromVault, Inv, TypeOK, Row
  <2> QED
    BY <1>1, <2>1, <2>2
    DEF Inv, PushInv, PullInv, UnpushedStaysQueued, QueueMirrorsRow, MarkedStaysQueued
<1> QED
  BY <1>2, <1>3, <1>4

\* What pushing change c of m, successfully or not, may do to the server: only
\* a delete marks m, only a delete or a mark removes anything, and a push that
\* succeeds leaves no mark on m.
LEMMA PushedEffect ==
  ASSUME TypeOK, NEW m \in Msg, NEW c \in Change, NEW r \in HalfPushed(m, c)
  PROVE  /\ \A n \in Msg : r[n] # None /\ r[n].marked =>
               remote[n] # None /\ (remote[n].marked \/ (n = m /\ c.deleted))
         /\ \A n \in Msg : remote[n] # None /\ r[n] = None =>
               remote[n].marked \/ (n = m /\ c.deleted)
         /\ r \in Pushed(m, c) /\ r[m] # None => ~r[m].marked
<1>1. CASE c.deleted /\ \E gone \in {{m}, {m} \cup InTheWay} : r = Expunged(gone)
  <2>1. PICK gone \in {{m}, {m} \cup InTheWay} : r = Expunged(gone)
    BY <1>1
  <2>2. r[m] = None /\ \A n \in Msg : r[n] = remote[n] \/ (r[n] = None /\ n \in gone)
    BY <2>1 DEF Expunged
  <2> QED
    BY <1>1, <2>2 DEF InTheWay
<1>2. CASE ~c.deleted /\ r = Stored(m, c.flags)
  <2>1. CASE remote[m] = None
    BY <1>2, <2>1 DEF Stored
  <2>2. CASE remote[m] # None
    <3> DEFINE stored == [flags |-> c.flags, marked |-> FALSE]
    <3>1. stored \in Copy
      BY DEF Copy, Change
    <3>2. stored # None /\ ~stored.marked
      BY <3>1, FlagSyncAssumption
    <3>3. r[m] = stored /\ \A n \in Msg \ {m} : r[n] = remote[n]
      BY <1>2, <2>2 DEF Stored, TypeOK
    <3> QED
      BY <3>2, <3>3
  <2> QED
    BY <2>1, <2>2
<1>3. CASE r = remote /\ r \notin Pushed(m, c)
  BY <1>3
<1>4. CASE c.deleted /\ r = Marked(m) /\ r \notin Pushed(m, c)
  <2>1. CASE remote[m] = None
    BY <1>4, <2>1 DEF Marked
  <2>2. CASE remote[m] # None
    <3> DEFINE marked == [remote[m] EXCEPT !.marked = TRUE]
    <3>1. marked \in Copy
      BY <2>2 DEF Copy, TypeOK
    <3>2. marked # None
      BY <3>1, FlagSyncAssumption
    <3>3. r = [remote EXCEPT ![m] = marked]
      BY <1>4, <2>2 DEF Marked, TypeOK
    <3>4. r[m] = marked /\ \A n \in Msg \ {m} : r[n] = remote[n]
      BY <3>3 DEF TypeOK
    <3> QED
      BY <1>4, <2>2, <3>2, <3>4
  <2> QED
    BY <2>1, <2>2
<1>5. r \in Pushed(m, c) =>
         \/ c.deleted /\ \E gone \in {{m}, {m} \cup InTheWay} : r = Expunged(gone)
         \/ ~c.deleted /\ r = Stored(m, c.flags)
  BY DEF Pushed
<1>6. r \notin Pushed(m, c) => r = remote \/ (c.deleted /\ r = Marked(m))
  BY DEF HalfPushed
<1> QED
  BY <1>1, <1>2, <1>3, <1>4, <1>5, <1>6

\* Reading the due entries: the batch asks for what the queue asks for.
LEMMA PushReadInv == Inv /\ PushRead => Inv'
<1> SUFFICES ASSUME Inv, PushRead PROVE Inv'
  OBVIOUS
<1>1. TypeOK'
  BY PushType DEF PushStep, Inv
<1>2. UNCHANGED <<row, queue, remote, pull, owed, raced>>
  BY DEF PushRead
<1> DEFINE batch == [m \in Msg |-> IF Due(m) THEN Asked(queue[m]) ELSE None]
<1>3. push'.batch = batch /\ push'.pc = "connect" /\ push'.msg = None
  BY DEF PushRead, IdlePush
<1>4. \A m \in Msg : batch[m] # None =>
         queue[m] # None /\ Asked(queue[m]) = batch[m] /\ batch[m].deleted = queue[m].deleted
  BY DEF Due, Asked
<1>5. PushInv'
  BY <1>2, <1>3, <1>4 DEF PushInv
<1> QED
  BY <1>1, <1>2, <1>5
  DEF Inv, PullInv, UnpushedStaysQueued, QueueMirrorsRow, MarkedStaysQueued

\* BackedOff keeps what an entry asks for.
LEMMA BackedOffSame ==
  ASSUME TypeOK, NEW m \in Msg
  PROVE  /\ BackedOff(queue, m) = None <=> queue[m] = None
         /\ queue[m] # None => /\ Asked(BackedOff(queue, m)) = Asked(queue[m])
                               /\ BackedOff(queue, m).flags = queue[m].flags
                               /\ BackedOff(queue, m).deleted = queue[m].deleted
<1>1. CASE queue[m] = None
  BY <1>1 DEF BackedOff
<1>2. CASE queue[m] # None
  <2> DEFINE e == [queue[m] EXCEPT !.due = FALSE]
  <2>1. queue[m] \in Entry
    BY <1>2 DEF TypeOK
  <2>2. e \in Entry /\ e.flags = queue[m].flags /\ e.deleted = queue[m].deleted
    BY <2>1 DEF Entry
  <2>3. e # None
    BY <2>2, FlagSyncAssumption
  <2>4. BackedOff(queue, m) = e
    BY <1>2 DEF BackedOff
  <2> QED
    BY <1>2, <2>2, <2>3, <2>4 DEF Asked
<1> QED
  BY <1>1, <1>2
\* No entry appears, disappears or changes what it asks for.
OnlyBacksOff ==
    \A m \in Msg : /\ queue'[m] = None <=> queue[m] = None
                   /\ queue[m] # None => /\ Asked(queue'[m]) = Asked(queue[m])
                                         /\ queue'[m].flags = queue[m].flags
                                         /\ queue'[m].deleted = queue[m].deleted

\* A step of the push that settles nothing and only backs entries off keeps
\* the invariant.
LEMMA QuietPushInv ==
  ASSUME Inv, TypeOK', UNCHANGED <<row, remote, pull, owed, raced>>,
         OnlyBacksOff,
         \/ push' = push
         \/ /\ \A m \in Msg : push'.batch[m] \in {None, push.batch[m]}
            /\ push'.pc # "settle"
            /\ push'.msg \in {None, push.msg}
  PROVE  Inv'
<1>1. PushInv'
  <2>1. \A m \in Msg : push'.batch[m] # None =>
           /\ push'.batch[m] = push.batch[m]
           /\ ~raced[m] => queue'[m] # None /\ Asked(queue'[m]) = push.batch[m]
           /\ push.batch[m].deleted => queue'[m] # None /\ queue'[m].deleted
    BY DEF Inv, PushInv, OnlyBacksOff
  <2>2. push'.msg # None => push'.batch[push'.msg] = None
    BY DEF Inv, PushInv, TypeOK, Push
  <2> QED
    BY <2>1, <2>2 DEF Inv, PushInv
<1>2. PullInv'
  <2> SUFFICES ASSUME pull.pc = "open", ~pull.pending, ~raced[pull.msg]
               PROVE  queue'[pull.msg] = None
    BY DEF PullInv, Inv
  <2>1. pull.msg \in Msg
    BY DEF Inv, TypeOK, PullInv, Pull
  <2> QED
    BY <2>1 DEF Inv, PullInv, OnlyBacksOff
<1> QED
  BY <1>1, <1>2 DEF Inv, OnlyBacksOff, UnpushedStaysQueued, QueueMirrorsRow, MarkedStaysQueued

\* The steps of the push that store nothing and remove nothing.
LEMMA PushQuietStepsInv ==
  Inv /\ (PushConnect \/ PushUnreachable \/ PushRejected \/ PushFailed
           \/ PushUnsettled \/ PushEnds) => Inv'
<1> SUFFICES ASSUME Inv, PushConnect \/ PushUnreachable \/ PushRejected \/ PushFailed
                         \/ PushUnsettled \/ PushEnds
             PROVE  Inv'
  OBVIOUS
<1>1. TypeOK' /\ TypeOK
  BY PushType DEF PushStep, Inv
<1>2. IdlePush.pc = "idle" /\ IdlePush.msg = None /\ \A m \in Msg : IdlePush.batch[m] = None
  BY DEF IdlePush
<1>3. CASE PushConnect \/ PushUnsettled
  <2>1. UNCHANGED <<row, queue, remote, pull, owed, raced>>
    BY <1>3 DEF PushConnect, PushUnsettled
  <2>2. push'.pc = "store" /\ push'.batch = push.batch /\ push'.msg \in {None, push.msg}
    BY <1>1, <1>3 DEF PushConnect, PushUnsettled, TypeOK, Push
  <2> QED
    BY <1>1, <2>1, <2>2, QuietPushInv DEF OnlyBacksOff
<1>4. CASE PushRejected \/ PushEnds
  <2>1. UNCHANGED <<row, queue, remote, pull, owed, raced>> /\ push' = IdlePush
    BY <1>4 DEF PushRejected, PushEnds
  <2> QED
    BY <1>1, <1>2, <2>1, QuietPushInv DEF OnlyBacksOff
<1>5. CASE PushUnreachable
  <2>1. UNCHANGED <<row, remote, pull, owed, raced>> /\ push' = IdlePush
    BY <1>5 DEF PushUnreachable
  <2>2. \A m \in Msg : queue'[m] \in {queue[m], BackedOff(queue, m)}
    BY <1>5 DEF PushUnreachable
  <2>3. OnlyBacksOff
    BY <1>1, <2>2, BackedOffSame DEF OnlyBacksOff
  <2> QED
    BY <1>1, <1>2, <2>1, <2>3, QuietPushInv
<1>6. CASE PushFailed
  <2>1. UNCHANGED <<row, remote, pull, owed, raced>>
    BY <1>6 DEF PushFailed
  <2>2. push'.pc = "store" /\ push'.batch = push.batch /\ push'.msg = None
    BY <1>1, <1>6 DEF PushFailed, TypeOK, Push
  <2>3. \A m \in Msg : queue'[m] \in {queue[m], BackedOff(queue, m)}
    BY <1>1, <1>6 DEF PushFailed, TypeOK
  <2>4. OnlyBacksOff
    BY <1>1, <2>3, BackedOffSame DEF OnlyBacksOff
  <2> QED
    BY <1>1, <2>1, <2>2, <2>4, QuietPushInv
<1> QED
  BY <1>3, <1>4, <1>5, <1>6

\* A store, successful or not: what is owed can only shrink, and a mark it may
\* leave on the server has its delete in the queue.
LEMMA PushStoreInv ==
  ASSUME Inv, NEW m \in Msg, PushStore(m) \/ PushStoreError(m)
  PROVE  Inv'
<1> DEFINE c == push.batch[m]
<1>1. TypeOK' /\ TypeOK
  BY PushType DEF PushStep, Inv
<1>2. c # None /\ c \in Change
  BY <1>1 DEF PushStore, PushStoreError, TypeOK, Push
<1>3. UNCHANGED <<row, queue, pull, raced>>
  BY DEF PushStore, PushStoreError
<1>4. remote' \in HalfPushed(m, c) /\ (PushStore(m) => remote' \in Pushed(m, c))
  BY DEF PushStore, PushStoreError, HalfPushed
<1>5. \A n \in Msg : owed'[n] \in {None, owed[n]}
  BY <1>1 DEF PushStore, PushStoreError, Told, TypeOK
<1>6. PushStore(m) /\ ~raced[m] => owed'[m] = None
  <2>1. ~raced[m] => queue[m] # None /\ Asked(queue[m]) = c
    BY <1>2 DEF Inv, PushInv
  <2>2. ~raced[m] => owed[m] = None \/ owed[m] = c
    BY <2>1 DEF Inv, UnpushedStaysQueued
  <2> QED
    BY <1>1, <2>2 DEF PushStore, Told, TypeOK
<1>7. /\ push'.pc = "settle" /\ push'.msg = m
      /\ push'.batch = [push.batch EXCEPT ![m] = None]
      /\ push'.ok => PushStore(m)
  BY DEF PushStore, PushStoreError, Settling
<1>8. push'.batch[m] = None /\ \A n \in Msg \ {m} : push'.batch[n] = push.batch[n]
  BY <1>1, <1>7 DEF TypeOK, Push
<1>9. PushInv'
  <2>1. push'.ok => (remote'[m] # None => ~remote'[m].marked)
    BY <1>1, <1>2, <1>4, <1>7, PushedEffect
  <2>2. \A n \in Msg : push'.batch[n] # None =>
           /\ ~raced'[n] => queue'[n] # None /\ Asked(queue'[n]) = push'.batch[n]
           /\ push'.batch[n].deleted => queue'[n] # None /\ queue'[n].deleted
    BY <1>3, <1>8 DEF Inv, PushInv
  <2>3. m # None
    BY FlagSyncAssumption
  <2>4. push'.ok => (~raced'[m] => owed'[m] = None)
    BY <1>3, <1>6, <1>7
  <2> QED
    BY <1>7, <1>8, <2>1, <2>2, <2>3, <2>4 DEF PushInv
<1>10. MarkedStaysQueued'
  <2> SUFFICES ASSUME NEW n \in Msg, remote'[n] # None, remote'[n].marked
               PROVE  queue[n] # None /\ queue[n].deleted
    BY <1>3 DEF MarkedStaysQueued
  <2>1. remote[n] # None /\ (remote[n].marked \/ (n = m /\ c.deleted))
    BY <1>1, <1>2, <1>4, PushedEffect
  <2> QED
    BY <1>2, <2>1 DEF Inv, PushInv, MarkedStaysQueued
<1>11. UnpushedStaysQueued'
  BY <1>3, <1>5 DEF Inv, UnpushedStaysQueued
<1> QED
  BY <1>1, <1>3, <1>9, <1>10, <1>11 DEF Inv, PullInv, QueueMirrorsRow

\* Removing the entry of a message that was pushed: unless a change raced with
\* the push nothing is owed.
LEMMA PushDoneInv == Inv /\ PushDone => Inv'
<1> SUFFICES ASSUME Inv, PushDone PROVE Inv'
  OBVIOUS
<1>1. TypeOK' /\ TypeOK
  BY PushType DEF PushStep, Inv
<1>2. UNCHANGED <<row, remote, pull, owed, raced>>
  BY DEF PushDone
<1>3. push.msg \in Msg /\ push.batch[push.msg] = None
  BY <1>1 DEF PushDone, Inv, PushInv, TypeOK, Push
<1>4. queue'[push.msg] = None /\ \A n \in Msg \ {push.msg} : queue'[n] = queue[n]
  BY <1>1, <1>3 DEF PushDone, TypeOK
<1>5. push'.pc = "store" /\ push'.batch = push.batch /\ push'.msg = None
  BY <1>1 DEF PushDone, TypeOK, Push
<1>6. PushInv'
  BY <1>2, <1>3, <1>4, <1>5 DEF Inv, PushInv
<1>7. PullInv'
  <2> SUFFICES ASSUME pull.pc = "open", ~pull.pending, ~raced[pull.msg]
               PROVE  queue'[pull.msg] = None
    BY <1>2 DEF PullInv, Inv
  <2>1. pull.msg \in Msg
    BY <1>1 DEF Inv, TypeOK, PullInv, Pull
  <2> QED
    BY <1>4, <2>1 DEF Inv, PullInv
<1>8. UnpushedStaysQueued'
  BY <1>2, <1>3, <1>4 DEF PushDone, Inv, PushInv, UnpushedStaysQueued
<1>9. QueueMirrorsRow'
  BY <1>2, <1>4 DEF Inv, QueueMirrorsRow
<1>10. MarkedStaysQueued'
  BY <1>2, <1>3, <1>4 DEF PushDone, Inv, PushInv, MarkedStaysQueued
<1> QED
  BY <1>1, <1>6, <1>7, <1>8, <1>9, <1>10 DEF Inv

\* The pull writes the row only if no entry was pending when its statement
\* began, so either none is pending now or the one that is raced.
LEMMA PullInvariant == Inv /\ PullStep => Inv'
<1> SUFFICES ASSUME Inv, PullStep PROVE Inv'
  OBVIOUS
<1>1. TypeOK' /\ TypeOK
  BY PullType DEF Inv
<1>2. UNCHANGED <<queue, remote, push, owed, raced>>
  BY DEF PullStep, PullFetch, PullOpen, PullWrite, PullEnds
<1>3. PullInv' /\ QueueMirrorsRow'
  <2>1. ASSUME NEW m \in Msg, PullFetch(m) PROVE PullInv' /\ QueueMirrorsRow'
    <3>1. pull'.pc = "fetched" /\ pull'.msg = m /\ row' = row
      BY <2>1 DEF PullFetch, IdlePull
    <3>2. m # None
      BY FlagSyncAssumption
    <3> QED
      BY <1>2, <3>1, <3>2 DEF PullInv, QueueMirrorsRow, Inv
  <2>2. ASSUME PullOpen PROVE PullInv' /\ QueueMirrorsRow'
    <3>1. /\ pull'.pc = "open" /\ pull'.msg = pull.msg /\ row' = row
          /\ pull'.pending = (queue[pull.msg] # None)
      BY <1>1, <2>2 DEF PullOpen, TypeOK, Pull
    <3> QED
      BY <1>2, <2>2, <3>1 DEF PullOpen, PullInv, QueueMirrorsRow, Inv
  <2>3. ASSUME PullWrite PROVE PullInv' /\ QueueMirrorsRow'
    <3>1. pull'.pc = "idle"
      BY <2>3 DEF PullWrite, IdlePull
    <3>2. pull.msg \in Msg
      BY <1>1, <2>3 DEF PullWrite, Inv, PullInv, TypeOK, Pull
    <3>3. \A n \in Msg \ {pull.msg} : row'[n] = row[n]
      BY <1>1, <2>3 DEF PullWrite, TypeOK
    <3>4. row' = row \/ ~pull.pending
      BY <2>3 DEF PullWrite
    <3>5. ~pull.pending /\ ~raced[pull.msg] => queue[pull.msg] = None
      BY <2>3 DEF PullWrite, Inv, PullInv
    <3>6. PullInv'
      BY <3>1 DEF PullInv
    <3>7. QueueMirrorsRow'
      BY <1>2, <3>2, <3>3, <3>4, <3>5 DEF QueueMirrorsRow, Inv
    <3> QED
      BY <3>6, <3>7
  <2>4. ASSUME PullEnds PROVE PullInv' /\ QueueMirrorsRow'
    <3>1. pull'.pc = "idle" /\ row' = row
      BY <2>4 DEF PullEnds, IdlePull
    <3> QED
      BY <1>2, <3>1 DEF PullInv, QueueMirrorsRow, Inv
  <2> QED
    BY <2>1, <2>2, <2>3, <2>4 DEF PullStep
<1> QED
  BY <1>1, <1>2, <1>3 DEF Inv, PushInv, UnpushedStaysQueued, MarkedStaysQueued

\* What happens around the tasks.
LEMMA OutsideInv ==
  ASSUME Inv, TypeOK',
         \/ \E m \in Msg, flags \in SUBSET Flag : RemoteChange(m, flags)
         \/ Quiesce
         \/ \E m \in Msg : BackoffElapses(m)
         \/ UNCHANGED vars
  PROVE  Inv'
<1>1. ASSUME NEW m \in Msg, NEW flags \in SUBSET Flag, RemoteChange(m, flags) PROVE Inv'
  <2> DEFINE r == [remote[m] EXCEPT !.flags = flags]
  <2>1. r \in Copy /\ r.marked = remote[m].marked
    BY <1>1 DEF RemoteChange, Inv, TypeOK, Copy
  <2>2. remote' = [remote EXCEPT ![m] = r]
    BY <1>1 DEF RemoteChange, Inv, TypeOK
  <2>3. \A n \in Msg : remote'[n] # None /\ remote'[n].marked =>
                          remote[n] # None /\ remote[n].marked
    BY <1>1, <2>1, <2>2 DEF RemoteChange, Inv, TypeOK
  <2>4. UNCHANGED <<row, queue, push, pull, owed, raced>>
    BY <1>1 DEF RemoteChange
  <2>5. push.msg \in Msg \cup {None}
    BY DEF Inv, TypeOK, Push
  <2>6. PushInv'
    BY <2>3, <2>4, <2>5 DEF Inv, PushInv
  <2>7. MarkedStaysQueued'
    BY <2>3, <2>4 DEF Inv, MarkedStaysQueued
  <2> QED
    BY <2>4, <2>6, <2>7 DEF Inv, PullInv, UnpushedStaysQueued, QueueMirrorsRow
<1>2. ASSUME Quiesce \/ UNCHANGED vars PROVE Inv'
  <2>1. UNCHANGED <<row, queue, remote, push, pull, owed, raced>>
    BY <1>2 DEF Quiesce, vars
  <2> QED
    BY <2>1 DEF Inv, PushInv, PullInv, UnpushedStaysQueued, QueueMirrorsRow, MarkedStaysQueued
<1>3. ASSUME NEW m \in Msg, BackoffElapses(m) PROVE Inv'
  <2> DEFINE e == [queue[m] EXCEPT !.due = TRUE]
  <2>1. queue[m] \in Entry
    BY <1>3 DEF BackoffElapses, Inv, TypeOK
  <2>2. e \in Entry /\ e.flags = queue[m].flags /\ e.deleted = queue[m].deleted
    BY <2>1 DEF Entry
  <2>3. queue' = [queue EXCEPT ![m] = e]
    BY <1>3 DEF BackoffElapses, Inv, TypeOK
  <2>4. OnlyBacksOff
    BY <2>1, <2>2, <2>3, FlagSyncAssumption DEF OnlyBacksOff, Asked, Inv, TypeOK
  <2>5. UNCHANGED <<row, remote, push, pull, owed, raced>>
    BY <1>3 DEF BackoffElapses
  <2> QED
    BY <2>4, <2>5, QuietPushInv
<1> QED
  BY <1>1, <1>2, <1>3

-----------------------------------------------------------------------------
(* The theorems. *)

\* Every step keeps the invariant.
LEMMA InvNext == Inv /\ [Next]_vars => Inv'
<1> SUFFICES ASSUME Inv, [Next]_vars PROVE Inv'
  OBVIOUS
<1>1. ASSUME UserStep PROVE Inv'
  BY <1>1, UserInv
<1>2. ASSUME PushStep PROVE Inv'
  BY <1>2, PushReadInv, PushQuietStepsInv, PushStoreInv, PushDoneInv DEF PushStep
<1>3. ASSUME PullStep PROVE Inv'
  BY <1>3, PullInvariant
<1>4. ASSUME \/ \E m \in Msg, flags \in SUBSET Flag : RemoteChange(m, flags)
             \/ Quiesce
             \/ \E m \in Msg : BackoffElapses(m)
             \/ UNCHANGED vars
      PROVE  Inv'
  <2>1. TypeOK'
    BY <1>4, TypeNext DEF Inv, Next
  <2> QED
    BY <1>4, <2>1, OutsideInv
<1> QED
  BY <1>1, <1>2, <1>3, <1>4 DEF Next

\* The invariant holds in every state FlagSync reaches.
THEOREM Invariance == Spec => []Inv
BY InvInit, InvNext, PTL DEF Spec

\* No local change is lost between the users' transactions, the push and the
\* pull, for any number of messages, unless it met a task that had already
\* read the message.
THEOREM UnpushedStaysQueuedHolds == Spec => []UnpushedStaysQueued
<1>1. Inv => UnpushedStaysQueued
  BY DEF Inv
<1> QED
  BY <1>1, Invariance, PTL

\* While a change is pending the row keeps showing it.
THEOREM QueueMirrorsRowHolds == Spec => []QueueMirrorsRow
<1>1. Inv => QueueMirrorsRow
  BY DEF Inv
<1> QED
  BY <1>1, Invariance, PTL

\* A half-done delete is never abandoned.
THEOREM MarkedStaysQueuedHolds == Spec => []MarkedStaysQueued
<1>1. Inv => MarkedStaysQueued
  BY DEF Inv
<1> QED
  BY <1>1, Invariance, PTL

\* Only messages with a queued delete disappear from the source server, though
\* a plain EXPUNGE takes every marked message of the folder.
THEOREM OnlyQueuedDeletesExpungeHolds == Spec => OnlyQueuedDeletesExpunge
<1> DEFINE Step == \A m \in Msg : remote[m] # None /\ remote'[m] = None
                                   => queue[m] # None /\ queue[m].deleted
<1>1. ASSUME Inv, [Next]_vars PROVE Step
  <2>1. ASSUME NEW m \in Msg, PushStore(m) \/ PushStoreError(m) PROVE Step
    <3> DEFINE c == push.batch[m]
    <3>1. c # None /\ c \in Change
      BY <1>1, <2>1 DEF PushStore, PushStoreError, Inv, TypeOK, Push
    <3>2. remote' \in HalfPushed(m, c)
      BY <2>1 DEF PushStore, PushStoreError, HalfPushed
    <3> SUFFICES ASSUME NEW n \in Msg, remote[n] # None, remote'[n] = None
                 PROVE  queue[n] # None /\ queue[n].deleted
      OBVIOUS
    <3>3. remote[n].marked \/ (n = m /\ c.deleted)
      BY <1>1, <3>1, <3>2, PushedEffect DEF Inv
    <3> QED
      BY <1>1, <3>1, <3>3 DEF Inv, PushInv, MarkedStaysQueued
  <2>2. ASSUME NEW m \in Msg, NEW flags \in SUBSET Flag, RemoteChange(m, flags)
        PROVE  Step
    <3>1. [remote[m] EXCEPT !.flags = flags] \in Copy
      BY <1>1, <2>2 DEF RemoteChange, Inv, TypeOK, Copy
    <3> QED
      BY <1>1, <2>2, <3>1, FlagSyncAssumption DEF RemoteChange, Inv, TypeOK
  <2>3. CASE remote' = remote
    BY <2>3
  <2>4. UserStep \/ PullStep \/ Quiesce \/ UNCHANGED vars
          \/ (\E m \in Msg : BackoffElapses(m)) => remote' = remote
    BY DEF UserStep, SetFlags, Delete, Purge, MoveToTrash, MoveElsewhere, Expunge,
           RestoreFromVault, PullStep, PullFetch, PullOpen, PullWrite, PullEnds, Quiesce, BackoffElapses, vars
  <2>5. PushRead \/ PushConnect \/ PushUnreachable \/ PushRejected \/ PushDone
          \/ PushFailed \/ PushUnsettled \/ PushEnds => remote' = remote
    BY DEF PushRead, PushConnect, PushUnreachable, PushRejected, PushDone, PushFailed,
           PushUnsettled, PushEnds
  <2> QED
    BY <1>1, <2>1, <2>2, <2>3, <2>4, <2>5 DEF Next, PushStep
<1>2. Inv /\ [Next]_vars => [Step]_vars
  BY <1>1
<1>3. OnlyQueuedDeletesExpunge <=> [][Step]_vars
  BY PTL DEF OnlyQueuedDeletesExpunge
<1> QED
  BY <1>2, <1>3, Invariance, PTL DEF Spec
=============================================================================
