---------------------------- MODULE OutboxProofs ----------------------------
(***************************************************************************)
(* What holds of the outbox for any messages, recipients, number of send   *)
(* tasks, restarts and retries: its types, that one task at a time works   *)
(* on a message, and that a final status is final.                         *)
(*                                                                         *)
(* Then what the rows remember.  The books of a delivery balance: each     *)
(* recipient a task has is in one of its lists, delivered, failed or to be *)
(* tried again, so that nobody is forgotten when the row becomes final.    *)
(* The tries counted in the row are those behind it, so that it gives up   *)
(* after its last one only.  A recipient the row names as relayed is not   *)
(* among those the next task relays to.                                    *)
(***************************************************************************)
EXTENDS Outbox, TLAPS

\* A task that has left its initial state works on a message.
Sound(t) == t \in SendTaskState /\ (t.pc # "idle" => t.msg \in Message)

\* A mailbox that still has the row has had a copy.
RowsAreCopies == \A m \in Message : \A r \in inbox[m] : copies[m][r] > 0

TypeInv ==
    /\ TypeOK
    /\ \A a \in Sender : Sound(task[a])
    /\ RowsAreCopies

\* OneSender is not inductive: the claim of a message relies on its row not
\* being 'pending' again while the winner still files its copy in Sent.
Filing(a) == At(a, "note") \/ At(a, "save")

FilingIsSent == \A a \in Sender : Filing(a) => row[task[a].msg].status = "sent"

Inv == TypeInv /\ OneSender /\ FilingIsSent

-----------------------------------------------------------------------------
(* Type correctness. *)

\* Idle is a state of a send task.
LEMMA IdleSound == Sound(Idle)
  BY DEF Idle, SendTaskState, Sound

\* The initial state is well typed.
LEMMA TypeInit == Init => TypeInv
  <1> SUFFICES ASSUME Init PROVE TypeInv
    OBVIOUS
  <1>1. task \in [Sender -> SendTaskState] /\ \A a \in Sender : Sound(task[a])
    BY IdleSound DEF Init, Sound
  <1>2. row \in [Message -> OutboxRow]
    BY DEF Init, OutboxRow
  <1>3. inbox \in [Message -> SUBSET Rcpt] /\ RowsAreCopies
    BY DEF Init, RowsAreCopies
  <1> QED BY <1>1, <1>2, <1>3, OutboxAssumption DEF Init, TypeOK, TypeInv

\* Replacing one task's state by a sound one keeps all sound.
LEMMA ReplaceTask ==
  ASSUME TypeInv, NEW a \in Sender, NEW t, Sound(t), task' = [task EXCEPT ![a] = t]
  PROVE  task' \in [Sender -> SendTaskState] /\ \A b \in Sender : Sound(task'[b])
  BY DEF TypeInv, TypeOK, Sound

\* A task that leaves, or goes on to another point, stays sound.
LEMMA GotoSound ==
  ASSUME TypeInv, NEW a \in Sender, ~At(a, "idle"),
         NEW label \in {"deliver", "defer", "count", "requeue", "bounce", "settle",
                        "note", "save"},
         Goto(a, label) \/ Leave(a)
  PROVE  task' \in [Sender -> SendTaskState] /\ \A b \in Sender : Sound(task'[b])
  <1>1. CASE Leave(a)
    BY <1>1, IdleSound, ReplaceTask DEF Leave
  <1>2. CASE Goto(a, label)
    <2> DEFINE t == [task[a] EXCEPT !.pc = label]
    <2> HIDE DEF t
    <2>1. Sound(t)
      <3>1. Sound(task[a]) /\ task[a].pc # "idle"
        BY DEF TypeInv, At
      <3> QED BY <3>1 DEF t, Sound, SendTaskState
    <2>2. task' = [task EXCEPT ![a] = t]
      BY <1>2 DEF Goto, TypeInv, TypeOK, t
    <2> QED BY <2>1, <2>2, ReplaceTask
  <1> QED BY <1>1, <1>2

\* What a delivery adds to the copies and the mailboxes keeps their types.
LEMMA ReceivesType ==
  ASSUME TypeInv, NEW m \in Message, NEW rs \in SUBSET Rcpt, Receives(m, rs)
  PROVE  /\ copies' \in [Message -> [Rcpt -> 0..2]]
         /\ inbox' \in [Message -> SUBSET Rcpt]
         /\ RowsAreCopies'
  <1> DEFINE c == [r \in Rcpt |-> IF r \in rs /\ ~Known(m, r) THEN OneMore(copies[m][r])
                                  ELSE copies[m][r]]
             rows == {r \in rs : Dest[r] = "local" /\ m \in Raw \ Relay}
  <1>0. TypeOK
    BY DEF TypeInv
  <1>1. \A n \in 0..2 : OneMore(n) \in 0..2 /\ OneMore(n) > 0
    BY DEF OneMore
  <1>2. c \in [Rcpt -> 0..2]
    BY <1>0, <1>1 DEF TypeOK
  <1>3. copies' = [copies EXCEPT ![m] = c]
    BY <1>0 DEF Receives, TypeOK
  <1>4. copies' \in [Message -> [Rcpt -> 0..2]]
    BY <1>0, <1>2, <1>3 DEF TypeOK
  <1>5. inbox' = [inbox EXCEPT ![m] = @ \cup rows] /\ rows \subseteq rs
    BY DEF Receives
  <1>6. inbox' \in [Message -> SUBSET Rcpt]
    BY <1>0, <1>5 DEF TypeOK
  <1>7. ASSUME NEW n \in Message, NEW r \in inbox'[n] PROVE copies'[n][r] > 0
    <2>1. r \in Rcpt
      BY <1>6
    <2>2. CASE n # m
      BY <1>0, <1>3, <1>5, <2>2 DEF TypeOK, TypeInv, RowsAreCopies
    <2>3. CASE n = m
      <3>1. r \in inbox[m] \/ r \in rs
        BY <1>0, <1>5, <2>3 DEF TypeOK
      <3>2. r \in inbox[m] => copies[m][r] > 0
        BY DEF TypeInv, RowsAreCopies
      <3>3. copies[m][r] \in 0..2 /\ copies'[m][r] = c[r]
        BY <1>0, <1>3, <2>1 DEF TypeOK
      <3> QED BY <1>1, <2>1, <2>3, <3>1, <3>2, <3>3 DEF Known
    <2> QED BY <2>2, <2>3
  <1> QED BY <1>4, <1>6, <1>7 DEF RowsAreCopies

Delivery(a, rs) ==
    Accepted(a, rs) \/ Refused(a, rs) \/ FailedForNow(a, rs) \/ AnswerLost(a, rs)

\* One delivery, whatever it comes to, keeps the types and the task's point.
LEMMA DeliveryType ==
  ASSUME TypeInv, NEW a \in Sender, NEW rs \in SUBSET Rcpt, At(a, "deliver"),
         Delivery(a, rs)
  PROVE  /\ task' \in [Sender -> SendTaskState] /\ \A b \in Sender : Sound(task'[b])
         /\ copies' \in [Message -> [Rcpt -> 0..2]]
         /\ inbox' \in [Message -> SUBSET Rcpt] /\ RowsAreCopies'
         /\ refused' \in [Message -> SUBSET Rcpt]
         /\ excused' \subseteq Message
         /\ \A b \in Sender : task'[b].pc = task[b].pc /\ task'[b].msg = task[b].msg
  <1> DEFINE rest == task[a].todo \ rs
             got == [task[a] EXCEPT !.todo = rest, !.got = @ \cup rs]
             failed == [task[a] EXCEPT !.todo = rest, !.failed = @ \cup rs]
             pending == [task[a] EXCEPT !.todo = rest, !.pending = @ \cup rs]
  <1>0. /\ Sound(task[a]) /\ task[a].pc = "deliver" /\ task[a].msg \in Message
        /\ task \in [Sender -> SendTaskState]
    BY DEF TypeInv, TypeOK, At, Sound
  <1>1. /\ Sound(got) /\ Sound(failed) /\ Sound(pending)
    BY <1>0 DEF Sound, SendTaskState
  <1>2. /\ got.pc = "deliver" /\ failed.pc = "deliver" /\ pending.pc = "deliver"
        /\ got.msg = task[a].msg /\ failed.msg = task[a].msg /\ pending.msg = task[a].msg
    BY <1>0 DEF Sound, SendTaskState
  <1>3. \E t \in {got, failed, pending} : task' = [task EXCEPT ![a] = t]
    BY <1>0 DEF Delivery, Accepted, Refused, FailedForNow, AnswerLost
  <1>4. PICK t \in {got, failed, pending} : task' = [task EXCEPT ![a] = t]
    BY <1>3
  <1>5. Sound(t) /\ t.pc = "deliver" /\ t.msg = task[a].msg
    BY <1>1, <1>2, <1>4
  <1>6. /\ copies' \in [Message -> [Rcpt -> 0..2]]
        /\ inbox' \in [Message -> SUBSET Rcpt] /\ RowsAreCopies'
    <2>1. CASE Receives(task[a].msg, rs)
      BY <1>0, <2>1, ReceivesType
    <2>2. CASE UNCHANGED <<copies, inbox>>
      BY <2>2 DEF TypeInv, TypeOK, RowsAreCopies
    <2> QED BY <2>1, <2>2 DEF Delivery, Accepted, Refused, FailedForNow, AnswerLost
  <1>7. refused' \in [Message -> SUBSET Rcpt] /\ excused' \subseteq Message
    <2>1. refused \in [Message -> SUBSET Rcpt] /\ excused \subseteq Message
      BY DEF TypeInv, TypeOK
    <2>2. excused' = excused \/ excused' = excused \cup {task[a].msg}
      BY DEF Delivery, Accepted, Refused, FailedForNow, AnswerLost
    <2>3. refused' = refused \/ refused' = [refused EXCEPT ![task[a].msg] = @ \cup rs]
      BY DEF Delivery, Accepted, Refused, FailedForNow, AnswerLost
    <2> QED BY <1>0, <2>1, <2>2, <2>3
  <1> HIDE DEF got, failed, pending
  <1>8. \A b \in Sender : task'[b].pc = task[b].pc /\ task'[b].msg = task[b].msg
    BY <1>0, <1>4, <1>5
  <1> QED BY <1>4, <1>5, <1>6, <1>7, <1>8, ReplaceTask

\* An update of one row's status keeps the rows well typed.
LEMMA StatusType ==
  ASSUME TypeOK, NEW m \in Message,
         NEW st \in {"draft", "pending", "sending", "sent", "failed"},
         row' = [row EXCEPT ![m].status = st]
  PROVE  /\ row' \in [Message -> OutboxRow]
         /\ row'[m].status = st
         /\ \A n \in Message : n # m => row'[n] = row[n]
  <1> DEFINE r == [row[m] EXCEPT !.status = st]
  <1>1. r \in OutboxRow /\ r.status = st
    <2>1. row[m] \in OutboxRow
      BY DEF TypeOK
    <2> QED BY <2>1 DEF OutboxRow
  <1>2. row' = [row EXCEPT ![m] = r]
    BY DEF TypeOK
  <1> QED BY <1>1, <1>2 DEF TypeOK

\* The state of a task after a failed attempt is sound, and it records next.
LEMMA AfterAttemptSound ==
  ASSUME TypeInv, NEW a \in Sender, At(a, "count"), NEW n
  PROVE  /\ Sound(AfterAttempt(a, n))
         /\ AfterAttempt(a, n).pc \in {"requeue", "bounce", "settle"}
         /\ AfterAttempt(a, n).msg = task[a].msg
  <1>1. Sound(task[a]) /\ task[a].pc = "count" /\ task[a].msg \in Message
    BY DEF TypeInv, At, Sound
  <1> QED BY <1>1 DEF AfterAttempt, Sound, SendTaskState

\* Claiming a row leaves the task sound.
LEMMA ClaimType ==
  ASSUME TypeInv, NEW a \in Sender, Claim(a)
  PROVE  /\ task' \in [Sender -> SendTaskState] /\ \A b \in Sender : Sound(task'[b])
         /\ refused' \in [Message -> SUBSET Rcpt]
         /\ task[a].msg \in Message /\ task'[a].msg = task[a].msg
         /\ task'[a].pc \in {"deliver", "settle"}
         /\ \A b \in Sender : b # a => task'[b] = task[b]
  <1> DEFINE m == task[a].msg
             claimed(open) == [task[a] EXCEPT
                                 !.pc = IF RcptOf[m] = {} THEN "settle" ELSE "deliver",
                                 !.todo = RcptOf[m] \ (Self(m) \cup Unknown(m)),
                                 !.got = Self(m) \ open,
                                 !.failed = Unknown(m) \ open,
                                 !.pending = open]
  <1>1. Sound(task[a]) /\ task[a].pc = "queued" /\ m \in Message
    BY DEF Claim, TypeInv, At, Sound
  <1>2. Self(m) \subseteq Rcpt /\ Unknown(m) \subseteq Rcpt /\ RcptOf[m] \subseteq Rcpt
    BY <1>1, OutboxAssumption DEF Self, Unknown
  <1>3. PICK open \in SUBSET (Self(m) \cup Unknown(m)) :
           /\ task' = [task EXCEPT ![a] = claimed(open)]
           /\ refused' = [refused EXCEPT ![m] = @ \cup (Unknown(m) \ open)]
    <2>1. task[a] = task[a] /\ task \in [Sender -> SendTaskState]
      BY DEF TypeInv, TypeOK
    <2> QED BY <2>1 DEF Claim, Take
  <1>4. Sound(claimed(open)) /\ claimed(open).msg = m
        /\ claimed(open).pc \in {"deliver", "settle"}
    BY <1>1, <1>2 DEF Sound, SendTaskState
  <1>5. refused' \in [Message -> SUBSET Rcpt]
    BY <1>1, <1>2, <1>3 DEF TypeInv, TypeOK
  <1> HIDE DEF claimed
  <1>6. task'[a] = claimed(open) /\ \A b \in Sender : b # a => task'[b] = task[b]
    BY <1>3 DEF TypeInv, TypeOK
  <1> QED BY <1>1, <1>3, <1>4, <1>5, <1>6, ReplaceTask

\* Every step of a send task keeps the types.
LEMMA TaskStepType ==
  ASSUME TypeInv, NEW a \in Sender, TaskStep(a)
  PROVE  TypeInv'
  <1> USE DEF history, queueing, RowsAreCopies
  <1>0. ~At(a, "idle") /\ task[a].msg \in Message
    <2>1. ~At(a, "idle")
      BY DEF TaskStep, Claim, NoClaim, Delivering, DeliverDirect, DeliverRelay,
             RejectLogin, AllHandled, Count, CountFails, Requeue, Bounce, SettleFailed,
             SettleSent, NoteFailed, Save, StatusLost, At
    <2> QED BY <2>1 DEF TypeInv, Sound, At
  <1>1. CASE Claim(a)
    <2>1. row' \in [Message -> OutboxRow]
      BY <1>0, <1>1, StatusType DEF Claim, Take, TypeInv
    <2> QED BY <1>1, <2>1, ClaimType DEF Claim, Take, TypeInv, TypeOK
  <1>2. CASE NoClaim(a)
    BY <1>0, <1>2, GotoSound DEF NoClaim, TypeInv, TypeOK
  <1>3. CASE Delivering(a)
    <2>1. PICK rs \in SUBSET Rcpt : At(a, "deliver") /\ Delivery(a, rs)
      <3>1. CASE DeliverRelay(a)
        <4>1. task[a].todo \in SUBSET Rcpt
          BY DEF TypeInv, TypeOK, SendTaskState
        <4> QED BY <3>1, <4>1 DEF DeliverRelay, Delivery
      <3>2. ASSUME NEW r \in Rcpt, DeliverDirect(a, r)
            PROVE  At(a, "deliver") /\ Delivery(a, {r})
        BY <3>2 DEF DeliverDirect, Delivery
      <3> QED BY <1>3, <3>1, <3>2 DEF Delivering
    <2>2. UNCHANGED <<row, saved, told, restarts, tries, unbounced, composing, bare>>
      BY <1>3 DEF Delivering, DeliverRelay, DeliverDirect
    <2> QED BY <2>1, <2>2, DeliveryType DEF TypeInv, TypeOK
  <1>4. CASE RejectLogin(a)
    BY <1>0, <1>4, GotoSound DEF RejectLogin, TypeInv, TypeOK
  <1>5. CASE AllHandled(a)
    <2>1. \E label \in {"count", "bounce", "settle"} : Goto(a, label)
      BY <1>5 DEF AllHandled
    <2> QED BY <1>0, <1>5, <2>1, GotoSound DEF AllHandled, TypeInv, TypeOK
  <1>6. ASSUME Count(a) \/ CountFails(a) PROVE TypeInv'
    <2>1. PICK n : task' = [task EXCEPT ![a] = AfterAttempt(a, n)]
      BY <1>6 DEF Count, CountFails
    <2>2. task' \in [Sender -> SendTaskState] /\ \A b \in Sender : Sound(task'[b])
      BY <1>6, <2>1, AfterAttemptSound, ReplaceTask DEF Count, CountFails
    <2>3. tries' \in [Message -> 0..MaxRetries]
      <3>1. tries \in [Message -> 0..MaxRetries] /\ MaxRetries \in Nat
        BY OutboxAssumption DEF TypeInv, TypeOK
      <3>2. CountTry(task[a].msg)
        BY <1>6 DEF Count, CountFails
      <3> DEFINE old == tries[task[a].msg]
                 more == IF old < MaxRetries THEN old + 1 ELSE old
      <3>3. more \in 0..MaxRetries
        BY <1>0, <3>1
      <3>4. tries' = [tries EXCEPT ![task[a].msg] = more]
        BY <3>2 DEF CountTry
      <3> HIDE DEF more
      <3> QED BY <1>0, <3>1, <3>3, <3>4
    <2>4. row' \in [Message -> OutboxRow]
      <3>1. CASE CountFails(a)
        BY <3>1 DEF CountFails, TypeInv, TypeOK
      <3>2. CASE Count(a)
        <4> DEFINE m == task[a].msg
                   r == [status |-> row[m].status, retries |-> row[m].retries + 1,
                         due |-> FALSE]
        <4>1. row[m] \in OutboxRow
          BY <1>0 DEF TypeInv, TypeOK
        <4>2. r \in OutboxRow
          BY <4>1 DEF OutboxRow
        <4>3. row' = [row EXCEPT ![m] = r]
          BY <1>0, <3>2, <4>1 DEF Count, TypeInv, TypeOK, OutboxRow
        <4> QED BY <4>2, <4>3 DEF TypeInv, TypeOK
      <3> QED BY <1>6, <3>1, <3>2
    <2> QED BY <1>6, <2>2, <2>3, <2>4 DEF Count, CountFails, TypeInv, TypeOK
  <1>7. CASE Requeue(a)
    <2>1. row' \in [Message -> OutboxRow]
      BY <1>0, <1>7, StatusType DEF Requeue, TypeInv
    <2> QED BY <1>0, <1>7, <2>1, GotoSound DEF Requeue, TypeInv, TypeOK
  <1>8. CASE Bounce(a)
    <2>1. task[a].failed \subseteq Rcpt
      BY DEF TypeInv, TypeOK, SendTaskState
    <2>2. told' \in [Message -> SUBSET Rcpt] /\ unbounced' \subseteq Message
      BY <1>0, <1>8, <2>1 DEF Bounce, TypeInv, TypeOK
    <2> QED BY <1>0, <1>8, <2>2, GotoSound DEF Bounce, TypeInv, TypeOK
  <1>9. CASE SettleFailed(a)
    <2>1. task[a].failed \subseteq Rcpt
      BY DEF TypeInv, TypeOK, SendTaskState
    <2>2. told' \in [Message -> SUBSET Rcpt]
      BY <1>0, <1>9, <2>1 DEF SettleFailed, TypeInv, TypeOK
    <2>3. row' \in [Message -> OutboxRow]
      BY <1>0, <1>9, StatusType DEF SettleFailed, TypeInv
    <2> QED BY <1>0, <1>9, <2>2, <2>3, GotoSound DEF SettleFailed, TypeInv, TypeOK
  <1>10. CASE SettleSent(a)
    <2>1. row' \in [Message -> OutboxRow]
      BY <1>0, <1>10, StatusType DEF SettleSent, TypeInv
    <2>2. \E label \in {"note", "save"} : Goto(a, label)
      BY <1>10 DEF SettleSent
    <2> QED BY <1>0, <1>10, <2>1, <2>2, GotoSound DEF SettleSent, TypeInv, TypeOK
  <1>11. CASE NoteFailed(a)
    <2>1. task[a].failed \subseteq Rcpt
      BY DEF TypeInv, TypeOK, SendTaskState
    <2>2. told' \in [Message -> SUBSET Rcpt]
      <3>1. told \in [Message -> SUBSET Rcpt]
        BY DEF TypeInv, TypeOK
      <3>2. told' = told
              \/ told' = [told EXCEPT ![task[a].msg] = @ \cup task[a].failed]
        BY <1>11 DEF NoteFailed
      <3> QED BY <1>0, <2>1, <3>1, <3>2
    <2>3. row' \in [Message -> OutboxRow]
      BY <1>0, <1>11, StatusType DEF NoteFailed, TypeInv, TypeOK
    <2> QED BY <1>0, <1>11, <2>2, <2>3, GotoSound DEF NoteFailed, TypeInv, TypeOK
  <1>12. CASE Save(a)
    BY <1>0, <1>12, GotoSound DEF Save, TypeInv, TypeOK
  <1>13. CASE StatusLost(a)
    BY <1>0, <1>13, GotoSound DEF StatusLost, TypeInv, TypeOK
  <1> QED
    BY <1>1, <1>2, <1>3, <1>4, <1>5, <1>6, <1>7, <1>8, <1>9, <1>10, <1>11, <1>12, <1>13
       DEF TaskStep

\* Every step of the system keeps the types.
LEMMA TypeNext == TypeInv /\ [Next]_vars => TypeInv'
  <1> SUFFICES ASSUME TypeInv, [Next]_vars PROVE TypeInv'
    OBVIOUS
  <1> USE DEF history, queueing, RowsAreCopies
  <1>1. ASSUME NEW a \in Sender, TaskStep(a) PROVE TypeInv'
    BY <1>1, TaskStepType
  <1>2. ASSUME NEW a \in Sender, NEW m \in Message, Scan(a, m) PROVE TypeInv'
    <2> DEFINE t == [Idle EXCEPT !.pc = "queued", !.msg = m, !.seen = row[m].retries]
    <2>1. Sound(t)
      BY DEF Idle, Sound, SendTaskState, TypeInv, TypeOK, OutboxRow
    <2>2. task' = [task EXCEPT ![a] = t]
      BY <1>2 DEF Scan
    <2> HIDE DEF t
    <2> QED BY <1>2, <2>1, <2>2, ReplaceTask DEF Scan, TypeInv, TypeOK
  <1>3. CASE Restart
    <2>1. task' \in [Sender -> SendTaskState] /\ \A b \in Sender : Sound(task'[b])
      BY <1>3, IdleSound DEF Restart, Sound
    <2>2. row' \in [Message -> OutboxRow]
      BY <1>3 DEF Restart, TypeInv, TypeOK, OutboxRow
    <2>3. restarts' \in 0..MaxRestarts /\ excused' \subseteq Message
      BY <1>3, OutboxAssumption DEF Restart, TypeInv, TypeOK
    <2> QED BY <1>3, <2>1, <2>2, <2>3 DEF Restart, TypeInv, TypeOK
  <1>4. ASSUME NEW m \in Message, BackoffElapses(m) PROVE TypeInv'
    <2> DEFINE r == [row[m] EXCEPT !.due = TRUE]
    <2>1. r \in OutboxRow
      BY DEF TypeInv, TypeOK, OutboxRow
    <2>2. row' = [row EXCEPT ![m] = r]
      BY <1>4 DEF BackoffElapses, TypeInv, TypeOK
    <2> QED BY <1>4, <2>1, <2>2 DEF BackoffElapses, TypeInv, TypeOK
  <1>7. ASSUME NEW m \in Message, NEW r \in Rcpt, DeleteRow(m, r) PROVE TypeInv'
    <2>1. /\ inbox' \in [Message -> SUBSET Rcpt]
          /\ \A n \in Message : inbox'[n] \subseteq inbox[n]
      BY <1>7 DEF DeleteRow, TypeInv, TypeOK
    <2> QED BY <1>7, <2>1 DEF DeleteRow, TypeInv, TypeOK
  <1>5. ASSUME NEW m \in Message, CreateOutboxMessage(m) \/ CreateOutboxAttachment(m)
        PROVE  TypeInv'
    <2>1. row' \in [Message -> OutboxRow]
      BY <1>5, StatusType DEF CreateOutboxMessage, CreateOutboxAttachment, TypeInv, TypeOK
    <2>2. composing' \subseteq Message
      BY <1>5 DEF CreateOutboxMessage, CreateOutboxAttachment, TypeInv, TypeOK
    <2> QED BY <1>5, <2>1, <2>2
               DEF CreateOutboxMessage, CreateOutboxAttachment, TypeInv, TypeOK
  <1>6. CASE UNCHANGED vars
    BY <1>6 DEF vars, TypeInv, TypeOK
  <1> QED BY <1>1, <1>2, <1>3, <1>4, <1>5, <1>6, <1>7 DEF Next

\* Every variable keeps its type, whatever fails, races or restarts.
THEOREM TypeCorrect == Spec => []TypeOK
  <1>1. TypeInv => TypeOK
    BY DEF TypeInv
  <1> QED BY <1>1, TypeInit, TypeNext, PTL DEF Spec

-----------------------------------------------------------------------------
(* One sender at a time. *)

\* Where a task is after Goto or Leave, and that the others are where they were.
LEMMA GotoEffect ==
  ASSUME TypeInv, NEW a \in Sender, NEW label
  PROVE  /\ Goto(a, label) => task'[a].pc = label /\ task'[a].msg = task[a].msg
         /\ Leave(a) => task'[a].pc = "idle"
         /\ Goto(a, label) \/ Leave(a) => \A b \in Sender : b # a => task'[b] = task[b]
  BY DEF Goto, Leave, Idle, TypeInv, TypeOK, SendTaskState

\* A task that has claimed its message keeps the row in 'sending' until it
\* records 'sent', 'failed' or 'pending'; it touches no other row or task.
Holds(a) ==
    LET m == task[a].msg IN
    /\ \A b \in Sender : b # a => task'[b] = task[b]
    /\ \A n \in Message : n # m => row'[n] = row[n]
    /\ Claimed(a)' => task'[a].msg = m
    /\ Sending(a)' => row'[m].status = "sending"
    /\ Filing(a)' => row'[m].status = "sent"
    /\ row[m].status = "sent" => row'[m].status = "sent"

\* Holds describes every step of a task that has claimed its message.
LEMMA ClaimedStep ==
  ASSUME Inv, NEW a \in Sender, TaskStep(a), Claimed(a)
  PROVE  Holds(a)
  <1> DEFINE m == task[a].msg
  <1> USE DEF history, queueing
  <1>0. /\ TypeInv /\ TypeOK /\ m \in Message
        /\ Sending(a) => row[m].status = "sending"
        /\ Filing(a) => row[m].status = "sent"
    BY DEF Inv, TypeInv, OneSender, FilingIsSent, Sound, Claimed, At
  <1>1. ~Claim(a) /\ ~NoClaim(a)
    BY DEF Claim, NoClaim, Claimed, At
  <1>2. CASE Delivering(a)
    <2>1. PICK rs \in SUBSET Rcpt : At(a, "deliver") /\ Delivery(a, rs)
      <3>1. CASE DeliverRelay(a)
        <4>1. task[a].todo \in SUBSET Rcpt
          BY <1>0 DEF TypeOK, SendTaskState
        <4> QED BY <3>1, <4>1 DEF DeliverRelay, Delivery
      <3>2. ASSUME NEW r \in Rcpt, DeliverDirect(a, r)
            PROVE  At(a, "deliver") /\ Delivery(a, {r})
        BY <3>2 DEF DeliverDirect, Delivery
      <3> QED BY <1>2, <3>1, <3>2 DEF Delivering
    <2>2. row' = row
      BY <1>2 DEF Delivering, DeliverRelay, DeliverDirect
    <2>3. task'[a].pc = "deliver" /\ task'[a].msg = m
      BY <1>0, <2>1, DeliveryType DEF At
    <2>4. \A b \in Sender : b # a => task'[b] = task[b]
      BY <1>0, <2>1 DEF Delivery, Accepted, Refused, FailedForNow, AnswerLost, TypeOK
    <2> QED BY <1>0, <2>1, <2>2, <2>3, <2>4 DEF Holds, Sending, Filing, Claimed, At
  <1>3. ASSUME row' = row, Sending(a),
               NEW label \in {"defer", "count", "bounce", "settle"}, Goto(a, label)
        PROVE  Holds(a)
    BY <1>0, <1>3, GotoEffect DEF Holds, Sending, Filing, Claimed, At
  <1>4. ASSUME RejectLogin(a) \/ AllHandled(a) \/ Bounce(a) PROVE Holds(a)
    <2>1. \E label \in {"defer", "count", "bounce", "settle"} : Goto(a, label)
      BY <1>4 DEF RejectLogin, AllHandled, Bounce
    <2>2. row' = row /\ Sending(a)
      BY <1>4 DEF RejectLogin, AllHandled, Bounce, Sending, Claimed, At
    <2> QED BY <1>3, <2>1, <2>2
  <1>5. ASSUME Count(a) \/ CountFails(a) PROVE Holds(a)
    <2>1. PICK n : At(a, "count") /\ task' = [task EXCEPT ![a] = AfterAttempt(a, n)]
      BY <1>5 DEF Count, CountFails
    <2>2. task'[a] = AfterAttempt(a, n) /\ \A b \in Sender : b # a => task'[b] = task[b]
      BY <1>0, <2>1 DEF TypeOK
    <2>3. task'[a].pc \in {"requeue", "bounce", "settle"} /\ task'[a].msg = m
      BY <1>0, <2>1, <2>2, AfterAttemptSound
    <2>4. Sending(a)
      BY <2>1 DEF Sending, Claimed, At
    <2>5. row'[m].status = "sending" /\ \A n2 \in Message : n2 # m => row'[n2] = row[n2]
      BY <1>0, <1>5, <2>4 DEF Count, CountFails, TypeOK, OutboxRow
    <2> QED BY <1>0, <2>2, <2>3, <2>4, <2>5 DEF Holds, Sending, Filing, Claimed, At
  <1>6. ASSUME NEW st \in {"pending", "failed"}, Sending(a), Leave(a),
               row' = [row EXCEPT ![m].status = st]
        PROVE  Holds(a)
    BY <1>0, <1>6, StatusType, GotoEffect DEF Holds, Sending, Filing, Claimed, At
  <1>7. CASE Requeue(a)
    <2>1. Sending(a)
      BY <1>7 DEF Requeue, Sending, Claimed, At
    <2> QED BY <1>6, <1>7, <2>1 DEF Requeue
  <1>8. CASE SettleFailed(a)
    <2>1. Sending(a)
      BY <1>8 DEF SettleFailed, Sending, Claimed, At
    <2> QED BY <1>6, <1>8, <2>1 DEF SettleFailed
  <1>9. CASE SettleSent(a)
    <2>1. \E label \in {"note", "save"} : Goto(a, label)
      BY <1>9 DEF SettleSent
    <2>2. row'[m].status = "sent" /\ \A n \in Message : n # m => row'[n] = row[n]
      BY <1>0, <1>9, StatusType DEF SettleSent
    <2> QED BY <1>0, <2>1, <2>2, GotoEffect DEF Holds, Sending, Filing, Claimed, At
  <1>10. CASE NoteFailed(a)
    <2>1. Goto(a, "save") /\ row[m].status = "sent"
      BY <1>0, <1>10 DEF NoteFailed, Filing
    <2>2. row'[m].status = "sent" /\ \A n \in Message : n # m => row'[n] = row[n]
      BY <1>0, <1>10, <2>1, StatusType DEF NoteFailed
    <2> QED BY <1>0, <2>1, <2>2, GotoEffect DEF Holds, Sending, Filing, Claimed, At
  <1>11. ASSUME Save(a) \/ StatusLost(a) PROVE Holds(a)
    <2>1. Leave(a) /\ row' = row
      BY <1>11 DEF Save, StatusLost
    <2> QED BY <1>0, <2>1, GotoEffect DEF Holds, Sending, Filing, Claimed, At
  <1> QED
    BY <1>1, <1>2, <1>4, <1>5, <1>7, <1>8, <1>9, <1>10, <1>11 DEF TaskStep

\* Nobody has claimed a message that is not queued, 'pending' or 'failed'.
LEMMA PendingIsFree ==
  ASSUME Inv, NEW a \in Sender, NEW m \in Message,
         row[m].status \in {"draft", "pending", "failed"}
  PROVE  ~(Claimed(a) /\ task[a].msg = m)
  BY DEF Inv, OneSender, FilingIsSent, Sending, Filing

\* At first nobody has claimed anything.
LEMMA InvInit == Init => Inv
  <1> SUFFICES ASSUME Init PROVE Inv
    OBVIOUS
  <1>1. \A a \in Sender : ~Claimed(a) /\ ~Filing(a)
    BY DEF Init, Idle, Claimed, Filing, At
  <1> QED BY <1>1, TypeInit DEF Inv, OneSender, FilingIsSent, Sending

\* A step of a task that has claimed its message keeps the invariant.
LEMMA HoldsInv ==
  ASSUME Inv, TypeInv', NEW a \in Sender, Claimed(a), Holds(a)
  PROVE  Inv'
  <1> DEFINE m == task[a].msg
  <1>1. ASSUME NEW b \in Sender, Claimed(b)'
        PROVE  Claimed(b) /\ task'[b].msg = task[b].msg
    BY <1>1 DEF Holds, Claimed, At
  <1>2. ASSUME NEW b \in Sender, b # a, Claimed(b)
        PROVE  /\ task[b].msg \in Message /\ task[b].msg # m
               /\ task'[b] = task[b] /\ row'[task[b].msg] = row[task[b].msg]
    <2>1. task[b].msg \in Message /\ task[b].msg # m
      BY <1>2 DEF Inv, TypeInv, OneSender, Sound, Claimed, At
    <2> QED BY <1>2, <2>1 DEF Holds
  <1>3. \A b, c \in Sender :
           Claimed(b)' /\ Claimed(c)' /\ task'[b].msg = task'[c].msg => b = c
    BY <1>1 DEF Inv, OneSender
  <1>4. ASSUME NEW b \in Sender
        PROVE  /\ Sending(b)' => row'[task'[b].msg].status = "sending"
               /\ Filing(b)' => row'[task'[b].msg].status = "sent"
    <2>1. Sending(b)' \/ Filing(b)' => Claimed(b)'
      BY DEF Sending, Filing, Claimed, At
    <2>2. CASE b = a
      BY <1>1, <2>1, <2>2 DEF Holds
    <2>3. CASE b # a
      <3>1. SUFFICES ASSUME Claimed(b)'
                     PROVE /\ Sending(b)' => row'[task'[b].msg].status = "sending"
                           /\ Filing(b)' => row'[task'[b].msg].status = "sent"
        BY <2>1
      <3>2. Claimed(b)
        BY <1>1, <3>1
      <3>3. task'[b] = task[b] /\ row'[task[b].msg] = row[task[b].msg]
        BY <1>2, <2>3, <3>2
      <3> QED BY <3>2, <3>3 DEF Inv, OneSender, FilingIsSent, Sending, Filing, Claimed, At
    <2> QED BY <2>2, <2>3
  <1> QED BY <1>3, <1>4 DEF Inv, OneSender, FilingIsSent

\* The claim takes a row that nobody has, and makes it 'sending'.
LEMMA ClaimInv ==
  ASSUME Inv, TypeInv', NEW a \in Sender, Claim(a)
  PROVE  Inv'
  <1> DEFINE m == task[a].msg
  <1>1. /\ m \in Message /\ task'[a].msg = m /\ task'[a].pc \in {"deliver", "settle"}
        /\ \A b \in Sender : b # a => task'[b] = task[b]
    BY ClaimType DEF Inv
  <1>2. row[m].status = "pending"
    BY DEF Claim, Due
  <1>3. row'[m].status = "sending" /\ \A n \in Message : n # m => row'[n] = row[n]
    BY <1>1, StatusType DEF Claim, Take, Inv, TypeInv
  <1>4. \A b \in Sender : Claimed(b) => task[b].msg \in Message \ {m}
    BY <1>1, <1>2, PendingIsFree DEF Inv, TypeInv, Sound, Claimed, At
  <1>5. ASSUME NEW b \in Sender, b # a, Claimed(b)'
        PROVE  /\ Claimed(b) /\ task'[b] = task[b] /\ task[b].msg # m
               /\ row'[task[b].msg] = row[task[b].msg]
    BY <1>1, <1>3, <1>4, <1>5 DEF Claimed, At
  <1>6. \A b, c \in Sender :
           Claimed(b)' /\ Claimed(c)' /\ task'[b].msg = task'[c].msg => b = c
    BY <1>1, <1>5 DEF Inv, OneSender
  <1>7. ASSUME NEW b \in Sender
        PROVE  /\ Sending(b)' => row'[task'[b].msg].status = "sending"
               /\ Filing(b)' => row'[task'[b].msg].status = "sent"
    <2>1. CASE b = a
      BY <1>1, <1>3, <2>1 DEF Sending, Filing, Claimed, At
    <2>2. CASE b # a
      BY <1>5, <2>2 DEF Inv, OneSender, FilingIsSent, Sending, Filing, Claimed, At
    <2> QED BY <2>1, <2>2
  <1> QED BY <1>6, <1>7 DEF Inv, OneSender, FilingIsSent

\* A step after which no more has been claimed, and every claimed row has the
\* status it had, keeps the invariant.
LEMMA NothingClaimed ==
  ASSUME Inv, TypeInv',
         \A b \in Sender : Claimed(b)' => task'[b] = task[b],
         \A b \in Sender : Claimed(b)' => row'[task[b].msg].status = row[task[b].msg].status
  PROVE  Inv'
  <1>1. \A b \in Sender : Claimed(b)' => Claimed(b)
    BY DEF Claimed, At
  <1>2. \A b, c \in Sender :
           Claimed(b)' /\ Claimed(c)' /\ task'[b].msg = task'[c].msg => b = c
    BY <1>1 DEF Inv, OneSender
  <1>3. ASSUME NEW b \in Sender
        PROVE  /\ Sending(b)' => row'[task'[b].msg].status = "sending"
               /\ Filing(b)' => row'[task'[b].msg].status = "sent"
    BY <1>1 DEF Inv, OneSender, FilingIsSent, Sending, Filing, Claimed, At
  <1> QED BY <1>2, <1>3 DEF Inv, OneSender, FilingIsSent

\* Every step of a task keeps the invariant.
LEMMA TaskStepInv ==
  ASSUME Inv, TypeInv', NEW a \in Sender, TaskStep(a)
  PROVE  Inv'
  <1>1. CASE Claimed(a)
    BY <1>1, ClaimedStep, HoldsInv
  <1>2. CASE Claim(a)
    BY <1>2, ClaimInv
  <1>3. CASE NoClaim(a)
    <2>1. task'[a].pc = "idle" /\ \A b \in Sender : b # a => task'[b] = task[b]
      BY <1>3, GotoEffect DEF NoClaim, Inv
    <2>2. row' = row
      BY <1>3 DEF NoClaim
    <2> QED BY <2>1, <2>2, NothingClaimed DEF Claimed, At
  <1>4. Claimed(a) \/ Claim(a) \/ NoClaim(a)
    BY DEF TaskStep, Delivering, DeliverDirect, DeliverRelay, RejectLogin, AllHandled,
           Count, CountFails, Requeue, Bounce, SettleFailed, SettleSent, NoteFailed,
           Save, StatusLost, Claimed, At
  <1> QED BY <1>1, <1>2, <1>3, <1>4

\* Every step of the system keeps the invariant.
LEMMA InvNext == Inv /\ [Next]_vars => Inv'
  <1> SUFFICES ASSUME Inv, [Next]_vars PROVE Inv'
    OBVIOUS
  <1>0. TypeInv'
    BY TypeNext DEF Inv
  <1>1. ASSUME NEW a \in Sender, TaskStep(a) PROVE Inv'
    BY <1>0, <1>1, TaskStepInv
  <1>2. ASSUME NEW a \in Sender, NEW m \in Message, Scan(a, m) PROVE Inv'
    <2>1. task'[a].pc = "queued" /\ \A b \in Sender : b # a => task'[b] = task[b]
      BY <1>2 DEF Scan, Idle, Inv, TypeInv, TypeOK
    <2> QED BY <1>0, <1>2, <2>1, NothingClaimed DEF Scan, Claimed, At
  <1>3. CASE Restart
    <2>1. \A b \in Sender : ~Claimed(b)'
      BY <1>3 DEF Restart, Idle, Claimed, At
    <2> QED BY <1>0, <2>1, NothingClaimed
  <1>4. ASSUME NEW m \in Message, BackoffElapses(m) PROVE Inv'
    <2>1. task' = task /\ \A n \in Message : row'[n].status = row[n].status
      BY <1>4 DEF BackoffElapses, Inv, TypeInv, TypeOK, OutboxRow
    <2>2. \A b \in Sender : Claimed(b) => task[b].msg \in Message
      BY DEF Inv, TypeInv, Sound, Claimed, At
    <2> QED BY <1>0, <2>1, <2>2, NothingClaimed DEF Claimed, At
  <1>5. ASSUME NEW m \in Message, CreateOutboxMessage(m) PROVE Inv'
    <2>1. \A n \in Message : n # m => row'[n] = row[n]
      BY <1>5, StatusType DEF CreateOutboxMessage, Inv, TypeInv
    <2>2. \A b \in Sender : Claimed(b) => task[b].msg \in Message \ {m}
      <3>1. row[m].status = "draft"
        BY <1>5, Inv DEF CreateOutboxMessage, Queued
      <3> QED BY <3>1, PendingIsFree DEF Inv, TypeInv, Sound, Claimed, At
    <2>3. task' = task
      BY <1>5 DEF CreateOutboxMessage
    <2> QED BY <1>0, <2>1, <2>2, <2>3, NothingClaimed DEF Claimed, At
  <1>6. ASSUME NEW m \in Message, CreateOutboxAttachment(m) PROVE Inv'
    BY <1>0, <1>6, NothingClaimed DEF CreateOutboxAttachment
  <1>7. CASE UNCHANGED vars
    BY <1>0, <1>7, NothingClaimed DEF vars
  <1>8. ASSUME NEW m \in Message, NEW r \in Rcpt, DeleteRow(m, r) PROVE Inv'
    BY <1>0, <1>8, NothingClaimed DEF DeleteRow
  <1> QED BY <1>1, <1>2, <1>3, <1>4, <1>5, <1>6, <1>7, <1>8 DEF Next

\* The invariant holds in every state.
THEOREM Invariance == Spec => []Inv
  BY InvInit, InvNext, PTL DEF Spec

\* "Only the winner may send": one task at a time works on a message, and the
\* row says 'sending' until that task has recorded the outcome.
THEOREM OneSenderHolds == Spec => []OneSender
  <1>1. Inv => OneSender
    BY DEF Inv
  <1> QED BY <1>1, Invariance, PTL

\* No task that is late, repeated or of before a restart changes a row that is
\* sent or failed.
THEOREM FinalStaysFinalHolds == Spec => FinalStaysFinal
  <1> DEFINE Final == \A m \in Message :
                row[m].status \in {"sent", "failed"} => row'[m].status = row[m].status
  <1>1. ASSUME Inv, [Next]_vars PROVE Final
    <2>0. TypeInv /\ TypeOK
      BY <1>1 DEF Inv, TypeInv
    <2>1. ASSUME NEW a \in Sender, TaskStep(a), Claimed(a), NEW m \in Message,
                 row[m].status \in {"sent", "failed"}
          PROVE  row'[m].status = row[m].status
      <3>1. Holds(a)
        BY <1>1, <2>1, ClaimedStep
      <3>2. row[m].status = "failed" => task[a].msg # m
        BY <1>1, <2>1, PendingIsFree
      <3> QED BY <2>1, <3>1, <3>2 DEF Holds
    <2>2. ASSUME NEW a \in Sender, Claim(a), NEW m \in Message,
                 row[m].status \in {"sent", "failed"}
          PROVE  row'[m].status = row[m].status
      <3>1. task[a].msg # m /\ task[a].msg \in Message
        BY <2>0, <2>2, ClaimType DEF Claim, Due
      <3> QED BY <2>0, <2>2, <3>1, StatusType DEF Claim, Take
    <2>3. ASSUME NEW a \in Sender, TaskStep(a) PROVE Final
      <3>1. CASE NoClaim(a)
        BY <3>1 DEF NoClaim
      <3>2. Claimed(a) \/ Claim(a) \/ NoClaim(a)
        BY <2>3 DEF TaskStep, Delivering, DeliverDirect, DeliverRelay, RejectLogin,
               AllHandled, Count, CountFails, Requeue, Bounce, SettleFailed, SettleSent,
               NoteFailed, Save, StatusLost, Claimed, At
      <3> QED BY <2>1, <2>2, <2>3, <3>1, <3>2
    <2>4. ASSUME NEW a \in Sender, NEW m \in Message, Scan(a, m) PROVE Final
      BY <2>4 DEF Scan
    <2>5. CASE Restart
      BY <2>0, <2>5 DEF Restart, TypeOK, OutboxRow
    <2>6. ASSUME NEW m \in Message, BackoffElapses(m) PROVE Final
      BY <2>0, <2>6 DEF BackoffElapses, TypeOK, OutboxRow
    <2>7. ASSUME NEW m \in Message, CreateOutboxMessage(m) PROVE Final
      BY <2>0, <2>7, StatusType DEF CreateOutboxMessage, Queued
    <2>8. ASSUME NEW m \in Message, CreateOutboxAttachment(m) PROVE Final
      BY <2>8 DEF CreateOutboxAttachment
    <2>9. CASE UNCHANGED vars
      BY <2>9 DEF vars
    <2>10. ASSUME NEW m \in Message, NEW r \in Rcpt, DeleteRow(m, r) PROVE Final
      BY <2>10 DEF DeleteRow
    <2> QED BY <1>1, <2>3, <2>4, <2>5, <2>6, <2>7, <2>8, <2>9, <2>10 DEF Next
  <1>2. Inv /\ [Next]_vars => [Final]_vars
    BY <1>1
  <1>3. Spec => [][Final]_vars
    BY <1>2, Invariance, PTL DEF Spec
  <1> QED BY <1>3 DEF FinalStaysFinal

-----------------------------------------------------------------------------
(* What only grows, and what a step makes of a task's lists. *)

Reached(m, r) == copies[m][r] > 0 \/ r \in Self(m)
Exhausted(m) == tries[m] = MaxRetries

\* So many failed attempts have been made of the message, at least.
Counted(n, m) == n <= tries[m] \/ Exhausted(m)

Grows ==
    /\ \A m \in Message, r \in Rcpt : copies[m][r] > 0 => copies'[m][r] > 0
    /\ \A m \in Message : told[m] \subseteq told'[m] /\ refused[m] \subseteq refused'[m]
    /\ \A m \in Message : tries[m] <= tries'[m]
    /\ unbounced \subseteq unbounced' /\ excused \subseteq excused'

\* A delivery takes no copy away.
LEMMA ReceivesGrows ==
  ASSUME TypeInv, NEW m \in Message, NEW rs \in SUBSET Rcpt, Receives(m, rs)
  PROVE  /\ \A n \in Message, r \in Rcpt : copies[n][r] > 0 => copies'[n][r] > 0
         /\ \A n \in Message, r \in Rcpt : n # m \/ r \notin rs
              => copies'[n][r] = copies[n][r]
         /\ \A r \in rs : copies'[m][r] > 0
         /\ \A r \in rs : copies[m][r] = 0 => copies'[m][r] = 1
  <1>1. ASSUME NEW r \in Rcpt
        PROVE  copies'[m][r] = IF r \in rs /\ ~Known(m, r) THEN OneMore(copies[m][r])
                               ELSE copies[m][r]
    BY DEF Receives, TypeInv, TypeOK
  <1>2. \A n \in Message : n # m => copies'[n] = copies[n]
    BY DEF Receives, TypeInv, TypeOK
  <1>3. \A n \in Message, r \in Rcpt : copies[n][r] \in 0..2
    BY DEF TypeInv, TypeOK
  <1>4. \A r \in Rcpt : Known(m, r) => copies[m][r] > 0
    BY DEF Known, TypeInv, RowsAreCopies
  <1> QED BY <1>1, <1>2, <1>3, <1>4 DEF OneMore

\* An attempt at delivery takes nothing away.
LEMMA DeliveryGrows ==
  ASSUME TypeInv, NEW a \in Sender, NEW rs \in SUBSET Rcpt, At(a, "deliver"),
         Delivery(a, rs), UNCHANGED <<told, tries, unbounced>>
  PROVE  Grows
  <1>0. task[a].msg \in Message /\ TypeOK
    BY DEF TypeInv, Sound, At
  <1>1. \A n \in Message, r \in Rcpt : copies[n][r] > 0 => copies'[n][r] > 0
    BY <1>0, ReceivesGrows DEF Delivery, Accepted, Refused, FailedForNow, AnswerLost
  <1>2. \A m \in Message : refused[m] \subseteq refused'[m]
    <2>1. refused' = refused \/ refused' = [refused EXCEPT ![task[a].msg] = @ \cup rs]
      BY DEF Delivery, Accepted, Refused, FailedForNow, AnswerLost
    <2> QED BY <1>0, <2>1 DEF TypeOK
  <1>3. excused \subseteq excused'
    BY DEF Delivery, Accepted, Refused, FailedForNow, AnswerLost
  <1>4. \A m \in Message : tries[m] <= tries'[m]
    BY <1>0 DEF TypeOK
  <1> QED BY <1>1, <1>2, <1>3, <1>4 DEF Grows

\* The point of delivery in which a delivering step is one of Delivery.
LEMMA DeliveringIs ==
  ASSUME TypeInv, NEW a \in Sender, Delivering(a)
  PROVE  /\ At(a, "deliver")
         /\ \E rs \in SUBSET Rcpt :
               /\ Delivery(a, rs) /\ rs # {} /\ rs \subseteq task[a].todo
               /\ task[a].msg \in Relay => rs = task[a].todo
         /\ UNCHANGED <<row, saved, told, restarts, tries, unbounced, composing, bare>>
  <1>0. task[a].todo \in SUBSET Rcpt
    BY DEF TypeInv, TypeOK, SendTaskState
  <1>1. CASE DeliverRelay(a)
    BY <1>0, <1>1 DEF DeliverRelay, Delivery, queueing
  <1>2. ASSUME NEW r \in Rcpt, DeliverDirect(a, r)
        PROVE  /\ At(a, "deliver")
               /\ Delivery(a, {r}) /\ {r} \subseteq task[a].todo /\ task[a].msg \notin Relay
               /\ UNCHANGED <<row, saved, told, restarts, tries, unbounced, composing,
                    bare>>
    BY <1>2 DEF DeliverDirect, Delivery, queueing
  <1>3. CASE \E r \in Rcpt : DeliverDirect(a, r)
    <2>1. PICK r \in Rcpt : DeliverDirect(a, r)
      BY <1>3
    <2>2. {r} \in SUBSET Rcpt /\ {r} # {}
      OBVIOUS
    <2> QED BY <1>2, <2>1, <2>2
  <1> QED BY <1>1, <1>3 DEF Delivering

\* Copies, reports, refusals, failed attempts and lost outcomes are never undone.
LEMMA NextGrows == TypeInv /\ [Next]_vars => Grows
  <1> SUFFICES ASSUME TypeInv, [Next]_vars PROVE Grows
    OBVIOUS
  <1> USE DEF history, queueing
  <1>0. /\ TypeOK
        /\ \A m \in Message : tries[m] \in 0..MaxRetries
        /\ \A a \in Sender : ~At(a, "idle") => task[a].msg \in Message
    BY DEF TypeInv, TypeOK, Sound, At
  <1>1. CASE UNCHANGED <<copies, told, refused, tries, unbounced, excused>>
    BY <1>0, <1>1 DEF Grows
  <1>2. ASSUME NEW a \in Sender, Claim(a) PROVE Grows
    BY <1>0, <1>2 DEF Claim, Take, Grows, TypeOK, At
  <1>3. ASSUME NEW a \in Sender, Delivering(a) PROVE Grows
    BY <1>3, DeliveringIs, DeliveryGrows
  <1>4. ASSUME NEW a \in Sender, Count(a) \/ CountFails(a) PROVE Grows
    <2>1. task[a].msg \in Message /\ CountTry(task[a].msg)
      BY <1>0, <1>4 DEF Count, CountFails, At
    <2>2. \A m \in Message : tries[m] <= tries'[m]
      BY <1>0, <2>1 DEF CountTry, TypeOK
    <2> QED BY <1>4, <2>2 DEF Count, CountFails, Grows
  <1>5. ASSUME NEW a \in Sender, Bounce(a) \/ SettleFailed(a) \/ NoteFailed(a) PROVE Grows
    <2>1. /\ task[a].msg \in Message
          /\ told' = told \/ told' = [told EXCEPT ![task[a].msg] = @ \cup task[a].failed]
      BY <1>0, <1>5 DEF Bounce, SettleFailed, NoteFailed, At
    <2>2. \A m \in Message : told[m] \subseteq told'[m]
      BY <1>0, <2>1 DEF TypeOK
    <2> QED BY <1>0, <1>5, <2>2 DEF Bounce, SettleFailed, NoteFailed, Grows
  <1>6. ASSUME NEW a \in Sender, StatusLost(a) PROVE Grows
    BY <1>0, <1>6 DEF StatusLost, Grows
  <1>7. CASE Restart
    BY <1>0, <1>7 DEF Restart, Grows
  <1>8. ASSUME NEW a \in Sender, TaskStep(a) PROVE Grows
    BY <1>1, <1>2, <1>3, <1>4, <1>5, <1>6, <1>8
       DEF TaskStep, NoClaim, RejectLogin, AllHandled, Requeue, SettleSent, Save
  <1> QED BY <1>1, <1>7, <1>8
             DEF Next, Scan, BackoffElapses, DeleteRow, CreateOutboxMessage,
               CreateOutboxAttachment,
               vars

\* Everything but the point of a task that goes on stays; nothing of one that leaves.
LEMMA GotoFields ==
  ASSUME TypeInv, NEW a \in Sender, NEW label
  PROVE  /\ Goto(a, label) =>
              /\ task'[a].pc = label /\ task'[a].msg = task[a].msg
              /\ task'[a].seen = task[a].seen
              /\ task'[a].todo = task[a].todo /\ task'[a].got = task[a].got
              /\ task'[a].failed = task[a].failed /\ task'[a].pending = task[a].pending
         /\ Leave(a) => task'[a] = Idle
         /\ Goto(a, label) \/ Leave(a) => \A b \in Sender : b # a => task'[b] = task[b]
  BY DEF Goto, Leave, TypeInv, TypeOK, SendTaskState

\* Those of a delivery go from the list of what is to do to one of the others.
LEMMA DeliveryFields ==
  ASSUME TypeInv, NEW a \in Sender, NEW rs, Delivery(a, rs)
  PROVE  /\ \A b \in Sender : b # a => task'[b] = task[b]
         /\ task'[a].pc = task[a].pc /\ task'[a].msg = task[a].msg
         /\ task'[a].seen = task[a].seen
         /\ task'[a].todo = task[a].todo \ rs
         /\ \/ /\ Accepted(a, rs) /\ task'[a].got = task[a].got \cup rs
               /\ task'[a].failed = task[a].failed /\ task'[a].pending = task[a].pending
            \/ /\ Refused(a, rs) /\ task'[a].got = task[a].got
               /\ task'[a].failed = task[a].failed \cup rs
               /\ task'[a].pending = task[a].pending
            \/ /\ FailedForNow(a, rs) \/ AnswerLost(a, rs)
               /\ task'[a].got = task[a].got /\ task'[a].failed = task[a].failed
               /\ task'[a].pending = task[a].pending \cup rs
  <1>0. task \in [Sender -> SendTaskState] /\ task[a] \in SendTaskState
    BY DEF TypeInv, TypeOK
  <1>1. CASE Accepted(a, rs)
    BY <1>0, <1>1 DEF Accepted, SendTaskState
  <1>2. CASE Refused(a, rs)
    BY <1>0, <1>2 DEF Refused, SendTaskState
  <1>3. CASE FailedForNow(a, rs) \/ AnswerLost(a, rs)
    <2>1. task' = [task EXCEPT ![a].todo = @ \ rs, ![a].pending = @ \cup rs]
      BY <1>3 DEF FailedForNow, AnswerLost
    <2> QED BY <1>0, <1>3, <2>1 DEF SendTaskState
  <1> QED BY <1>1, <1>2, <1>3 DEF Delivery

\* How a claim sorts the recipients.
LEMMA ClaimFields ==
  ASSUME TypeInv, NEW a \in Sender, Claim(a)
  PROVE  LET m == task[a].msg IN
         /\ \A b \in Sender : b # a => task'[b] = task[b]
         /\ task'[a].msg = m /\ task'[a].seen = task[a].seen
         /\ task'[a].pc = IF RcptOf[m] = {} THEN "settle" ELSE "deliver"
         /\ task'[a].todo = RcptOf[m] \ (Self(m) \cup Unknown(m))
         /\ \E open \in SUBSET (Self(m) \cup Unknown(m)) :
               /\ task'[a].got = Self(m) \ open
               /\ task'[a].failed = Unknown(m) \ open
               /\ task'[a].pending = open
               /\ refused' = [refused EXCEPT ![m] = @ \cup (Unknown(m) \ open)]
  <1> DEFINE m == task[a].msg
             claimed(open) == [task[a] EXCEPT
                                 !.pc = IF RcptOf[m] = {} THEN "settle" ELSE "deliver",
                                 !.todo = RcptOf[m] \ (Self(m) \cup Unknown(m)),
                                 !.got = Self(m) \ open,
                                 !.failed = Unknown(m) \ open,
                                 !.pending = open]
  <1>0. task \in [Sender -> SendTaskState] /\ task[a] \in SendTaskState
    BY DEF TypeInv, TypeOK
  <1>1. PICK open \in SUBSET (Self(m) \cup Unknown(m)) :
           /\ task' = [task EXCEPT ![a] = claimed(open)]
           /\ refused' = [refused EXCEPT ![m] = @ \cup (Unknown(m) \ open)]
    BY <1>0 DEF Claim, Take
  <1>2. /\ claimed(open).msg = m /\ claimed(open).seen = task[a].seen
        /\ claimed(open).pc = IF RcptOf[m] = {} THEN "settle" ELSE "deliver"
        /\ claimed(open).todo = RcptOf[m] \ (Self(m) \cup Unknown(m))
        /\ claimed(open).got = Self(m) \ open
        /\ claimed(open).failed = Unknown(m) \ open
        /\ claimed(open).pending = open
    BY <1>0 DEF SendTaskState
  <1> HIDE DEF claimed
  <1>3. task'[a] = claimed(open) /\ \A b \in Sender : b # a => task'[b] = task[b]
    BY <1>0, <1>1
  <1> QED BY <1>1, <1>2, <1>3

\* What a failed attempt makes of the lists: those still pending fail when the
\* task gives up.
LEMMA AfterAttemptFields ==
  ASSUME TypeInv, NEW a \in Sender, NEW n,
         task' = [task EXCEPT ![a] = AfterAttempt(a, n)]
  PROVE  LET t == task[a]
             again == n < MaxRetries /\ (t.msg \notin Relay \/ t.failed = {})
         IN  /\ \A b \in Sender : b # a => task'[b] = task[b]
             /\ task'[a].msg = t.msg /\ task'[a].seen = t.seen
             /\ task'[a].todo = t.todo /\ task'[a].got = t.got
             /\ task'[a].pending = t.pending
             /\ again => task'[a].pc = "requeue" /\ task'[a].failed = t.failed
             /\ ~again => /\ task'[a].pc = IF t.msg \in Relay THEN "settle" ELSE "bounce"
                          /\ task'[a].failed = t.failed \cup t.pending
  BY DEF AfterAttempt, TypeInv, TypeOK, SendTaskState

-----------------------------------------------------------------------------
(* The books of a task: where its recipients are. *)

Recipients(t) == t.todo \cup t.got \cup t.failed \cup t.pending

\* A relay takes all recipients in one transaction.
InOneGo(t) ==
    /\ t.todo # {} => t.got = {} /\ t.failed = {} /\ t.pending = {}
    /\ t.got # {} => t.todo = {} /\ t.failed = {} /\ t.pending = {}
    /\ t.pc \in {"deliver", "count"} /\ t.failed # {} => t.pending = {}
    /\ t.pc \in {"count", "requeue", "defer"} => t.got = {}

\* Nobody drops out between the lists; who is on the list of those delivered has
\* the message, and who is on that of the failed is reported before the outcome
\* is recorded.
Accounted(a) ==
    LET t == task[a]  m == t.msg
    IN  Claimed(a) =>
        /\ Recipients(t) = RcptOf[m]
        /\ \A r \in t.got : Reached(m, r)
        /\ t.pc \notin {"deliver", "defer"} => t.todo = {}
        /\ t.pc \in {"bounce", "settle", "note", "save"} => t.pending \subseteq t.failed
        /\ t.pc \in {"settle", "note", "save"} /\ m \notin Relay =>
              t.failed \subseteq told[m] \/ m \in unbounced
        /\ t.pc \in {"note", "save"} => t.got # {}
        /\ m \in Relay => InOneGo(t)

BooksBalance == \A a \in Sender : Accounted(a)

\* Who has the message keeps it.
LEMMA ReachedKept ==
  ASSUME Grows, NEW m \in Message, NEW r \in Rcpt, Reached(m, r)
  PROVE  Reached(m, r)'
  BY DEF Grows, Reached, Self

\* The books of a task that does nothing stay balanced.
LEMMA AccountedKept ==
  ASSUME TypeInv, Grows, NEW a \in Sender, Accounted(a), task'[a] = task[a]
  PROVE  Accounted(a)'
  <1> DEFINE m == task[a].msg
  <1> SUFFICES ASSUME Claimed(a) PROVE Accounted(a)'
    BY DEF Accounted, Claimed, At
  <1>1. m \in Message /\ task[a].got \subseteq Rcpt
    BY DEF TypeInv, TypeOK, Sound, Claimed, At, SendTaskState
  <1>2. \A r \in task[a].got : Reached(m, r)'
    BY <1>1, ReachedKept DEF Accounted
  <1>3. \A r \in task'[a].got : Reached(task[a].msg, r)'
    BY <1>2
  <1>4. told[m] \subseteq told'[m] /\ unbounced \subseteq unbounced'
    BY <1>1 DEF Grows
  <1> QED BY <1>2, <1>3, <1>4 DEF Accounted, Claimed, At, Recipients, InOneGo, Reached, Self

\* So do those of one that goes on with the same lists, if the point it comes to
\* asks no more than they give.
LEMMA AccountedOn ==
  ASSUME TypeInv, Grows, NEW a \in Sender, Claimed(a), Accounted(a),
         task'[a].msg = task[a].msg,
         task'[a].todo = task[a].todo, task'[a].got = task[a].got,
         task'[a].pending = task[a].pending,
         \/ task'[a].failed = task[a].failed
         \/ task'[a].failed = task[a].failed \cup task[a].pending,
         task'[a].pc \notin {"deliver", "defer"} => task[a].todo = {},
         task'[a].pc \in {"bounce", "settle", "note", "save"} =>
            task[a].pending \subseteq task'[a].failed,
         task'[a].pc \in {"settle", "note", "save"} /\ task[a].msg \notin Relay =>
            task'[a].failed \subseteq told'[task[a].msg] \/ task[a].msg \in unbounced',
         task'[a].pc \in {"note", "save"} => task[a].got # {},
         task[a].msg \in Relay => InOneGo(task'[a])
  PROVE  Accounted(a)'
  <1> DEFINE m == task[a].msg
  <1>1. m \in Message /\ task[a].got \subseteq Rcpt
    BY DEF TypeInv, TypeOK, Sound, Claimed, At, SendTaskState
  <1>2. \A r \in task[a].got : Reached(m, r)'
    BY <1>1, ReachedKept DEF Accounted
  <1>3. \A r \in task'[a].got : copies'[task'[a].msg][r] > 0 \/ r \in Self(task'[a].msg)
    BY <1>1, ReachedKept DEF Accounted, Reached, Grows
  <1>4. Recipients(task'[a]) = RcptOf[task'[a].msg]
    BY DEF Accounted, Recipients
  <1> QED BY <1>3, <1>4 DEF Accounted, Reached, Self

\* A claim puts every recipient on one of the lists.
LEMMA AccountedClaim ==
  ASSUME TypeInv, Grows, NEW a \in Sender, Claim(a)
  PROVE  Accounted(a)'
  <1> DEFINE m == task[a].msg
  <1>0. m \in Message /\ Self(m) \subseteq RcptOf[m] /\ Unknown(m) \subseteq RcptOf[m]
    BY DEF Claim, TypeInv, Sound, At, Self, Unknown
  <1>1. PICK open \in SUBSET (Self(m) \cup Unknown(m)) :
           /\ task'[a].got = Self(m) \ open
           /\ task'[a].failed = Unknown(m) \ open
           /\ task'[a].pending = open
    BY ClaimFields
  <1>2. /\ task'[a].msg = m
        /\ task'[a].pc = IF RcptOf[m] = {} THEN "settle" ELSE "deliver"
        /\ task'[a].todo = RcptOf[m] \ (Self(m) \cup Unknown(m))
    BY ClaimFields
  <1>3. Recipients(task'[a]) = RcptOf[m]
    BY <1>0, <1>1, <1>2 DEF Recipients
  <1>4. \A r \in task'[a].got : r \in Self(m)
    BY <1>1
  <1>5. m \in Relay => Self(m) = {} /\ Unknown(m) = {}
    BY DEF Self, Unknown
  <1>6. task'[a].pc # "deliver" =>
           /\ task'[a].pc = "settle" /\ task'[a].todo = {} /\ task'[a].got = {}
           /\ task'[a].failed = {} /\ task'[a].pending = {}
    BY <1>0, <1>1, <1>2
  <1> QED BY <1>1, <1>2, <1>3, <1>4, <1>5, <1>6 DEF Accounted, Reached, Self, InOneGo

\* A delivery moves recipients from the list of what is to do to another one.
LEMMA AccountedDelivering ==
  ASSUME TypeInv, Grows, NEW a \in Sender, Delivering(a), Accounted(a)
  PROVE  Accounted(a)'
  <1> DEFINE m == task[a].msg  t == task[a]  u == task'[a]
  <1>0. At(a, "deliver") /\ Claimed(a) /\ m \in Message /\ t \in SendTaskState /\ TypeOK
    BY DeliveringIs DEF TypeInv, TypeOK, Sound, Claimed, At
  <1>1. PICK rs \in SUBSET Rcpt :
           Delivery(a, rs) /\ rs # {} /\ rs \subseteq t.todo /\ (m \in Relay => rs = t.todo)
    BY DeliveringIs
  <1>2. /\ u.pc = "deliver" /\ u.msg = m /\ u.todo = t.todo \ rs
        /\ \/ /\ Accepted(a, rs) /\ u.got = t.got \cup rs
              /\ u.failed = t.failed /\ u.pending = t.pending
           \/ u.got = t.got /\ u.failed = t.failed \cup rs /\ u.pending = t.pending
           \/ u.got = t.got /\ u.failed = t.failed /\ u.pending = t.pending \cup rs
    BY <1>0, <1>1, DeliveryFields DEF At
  <1>3. Recipients(u) = RcptOf[m]
    BY <1>0, <1>1, <1>2 DEF Accounted, Recipients
  <1>4. ASSUME NEW r \in u.got PROVE copies'[m][r] > 0 \/ r \in Self(m)
    <2>0. t.got \subseteq Rcpt
      BY <1>0 DEF SendTaskState
    <2>1. CASE r \in t.got
      <3>1. Reached(m, r) /\ r \in Rcpt
        BY <1>0, <2>0, <2>1 DEF Accounted
      <3> QED BY <1>0, <3>1 DEF Grows, Reached
    <2>2. CASE r \notin t.got
      <3>1. Accepted(a, rs) /\ r \in rs
        BY <1>2, <2>2
      <3>2. Receives(m, rs)
        BY <3>1 DEF Accepted
      <3> QED BY <1>0, <3>1, <3>2, ReceivesGrows
    <2> QED BY <2>1, <2>2
  <1>5. m \in Relay => InOneGo(u)
    <2>1. m \in Relay => t.got = {} /\ t.failed = {} /\ t.pending = {} /\ u.todo = {}
      BY <1>0, <1>1, <1>2 DEF Accounted, InOneGo
    <2> QED BY <1>2, <2>1 DEF InOneGo
  <1> QED BY <1>2, <1>3, <1>4, <1>5 DEF Accounted, Reached, Self

\* Whatever a task does, its books stay balanced.
LEMMA AccountedStep ==
  ASSUME TypeInv, Grows, NEW a \in Sender, TaskStep(a), Accounted(a)
  PROVE  Accounted(a)'
  <1> DEFINE m == task[a].msg  t == task[a]  u == task'[a]
  <1>0. TypeOK /\ t \in SendTaskState
    BY DEF TypeInv, TypeOK
  <1>1. CASE Leave(a)
    BY <1>1, GotoFields DEF Accounted, Claimed, At, Idle
  <1>2. CASE RejectLogin(a)
    <2>1. /\ Claimed(a) /\ u.pc = "defer" /\ u.msg = m /\ u.todo = t.todo /\ u.got = t.got
          /\ u.failed = t.failed /\ u.pending = t.pending
      BY <1>2, GotoFields DEF RejectLogin, Claimed, At
    <2>2. m \in Relay => InOneGo(u)
      BY <1>2, <2>1 DEF Accounted, InOneGo, RejectLogin, At
    <2> QED BY <2>1, <2>2, AccountedOn
  <1>3. CASE AllHandled(a)
    <2>1. /\ Claimed(a) /\ t.pc = "deliver" /\ t.todo = {}
          /\ u.pc = IF t.pending # {} \/ (m \in Relay /\ t.failed # {}) THEN "count"
                    ELSE IF t.failed # {} THEN "bounce" ELSE "settle"
          /\ u.msg = m /\ u.todo = t.todo /\ u.got = t.got
          /\ u.failed = t.failed /\ u.pending = t.pending
      BY <1>3, GotoFields DEF AllHandled, Claimed, At
    <2>2. m \in Relay => InOneGo(u)
      BY <2>1 DEF Accounted, InOneGo
    <2>3. u.pc \notin {"deliver", "defer", "note", "save"}
      BY <2>1
    <2>4. u.pc \in {"bounce", "settle"} => t.pending = {}
      BY <2>1
    <2>5. u.pc = "settle" => u.failed = {}
      BY <2>1
    <2> QED BY <2>1, <2>2, <2>3, <2>4, <2>5, AccountedOn
  <1>4. ASSUME Count(a) \/ CountFails(a) PROVE Accounted(a)'
    <2>1. PICK n : At(a, "count") /\ task' = [task EXCEPT ![a] = AfterAttempt(a, n)]
      BY <1>4 DEF Count, CountFails
    <2> DEFINE again == n < MaxRetries /\ (m \notin Relay \/ t.failed = {})
    <2>2. /\ Claimed(a) /\ t.pc = "count" /\ u.msg = m /\ u.todo = t.todo /\ u.got = t.got
          /\ u.pending = t.pending
          /\ again => u.pc = "requeue" /\ u.failed = t.failed
          /\ ~again => /\ u.pc = IF m \in Relay THEN "settle" ELSE "bounce"
                       /\ u.failed = t.failed \cup t.pending
      BY <2>1, AfterAttemptFields DEF Claimed, At
    <2> HIDE DEF again
    <2>3. t.todo = {} /\ (m \in Relay => t.got = {})
      BY <2>2 DEF Accounted, InOneGo
    <2>4. m \in Relay => InOneGo(u)
      BY <2>2, <2>3 DEF InOneGo
    <2>5. u.pc \in {"requeue", "settle", "bounce"} /\ (u.pc = "settle" => m \in Relay)
          /\ (u.pc # "requeue" => t.pending \subseteq u.failed)
      BY <2>2
    <2> QED BY <2>2, <2>3, <2>4, <2>5, AccountedOn
  <1>5. CASE Bounce(a)
    <2>1. /\ Claimed(a) /\ t.pc = "bounce" /\ u.pc = "settle" /\ u.msg = m
          /\ u.todo = t.todo /\ u.got = t.got /\ u.failed = t.failed
               /\ u.pending = t.pending
      BY <1>5, GotoFields DEF Bounce, Claimed, At
    <2>2. m \in Message
      BY <2>1 DEF TypeInv, Sound
    <2>3. u.failed \subseteq told'[m] \/ m \in unbounced'
      BY <1>0, <1>5, <2>1, <2>2 DEF Bounce, TypeOK
    <2>4. m \in Relay => InOneGo(u)
      BY <2>1 DEF Accounted, InOneGo
    <2>5. t.todo = {} /\ t.pending \subseteq t.failed
      BY <2>1 DEF Accounted
    <2> QED BY <2>1, <2>3, <2>4, <2>5, AccountedOn
  <1>6. ASSUME SettleSent(a) \/ NoteFailed(a) PROVE Accounted(a)'
    <2>1. \E label \in {"note", "save"} : Goto(a, label)
      BY <1>6 DEF SettleSent, NoteFailed
    <2>2. /\ Claimed(a) /\ t.pc \in {"settle", "note"} /\ u.pc \in {"note", "save"}
               /\ u.msg = m
          /\ u.todo = t.todo /\ u.got = t.got /\ u.failed = t.failed
               /\ u.pending = t.pending
      BY <1>6, <2>1, GotoFields DEF SettleSent, NoteFailed, Claimed, At
    <2>3. m \in Message
      BY <2>2 DEF TypeInv, Sound
    <2>4. t.todo = {} /\ t.pending \subseteq t.failed /\ t.got # {}
      BY <1>6, <2>2 DEF Accounted, SettleSent, NoteFailed, At
    <2>5. m \notin Relay => u.failed \subseteq told'[m] \/ m \in unbounced'
      BY <2>2, <2>3 DEF Accounted, Grows
    <2>6. m \in Relay => InOneGo(u)
      BY <2>2 DEF Accounted, InOneGo
    <2> QED BY <2>2, <2>4, <2>5, <2>6, AccountedOn
  <1>7. CASE Claim(a)
    BY <1>7, AccountedClaim
  <1>8. CASE Delivering(a)
    BY <1>8, AccountedDelivering
  <1> QED BY <1>1, <1>2, <1>3, <1>4, <1>5, <1>6, <1>7, <1>8
             DEF TaskStep, NoClaim, Requeue, SettleFailed, Save, StatusLost

\* What a step does to a task it is not a step of.
LEMMA OtherTasks ==
  ASSUME TypeInv, NEW a \in Sender, TaskStep(a), NEW b \in Sender, b # a
  PROVE  task'[b] = task[b]
  <1>1. ASSUME Count(a) \/ CountFails(a) PROVE task'[b] = task[b]
    BY <1>1 DEF Count, CountFails, TypeInv, TypeOK
  <1>2. CASE Delivering(a)
    BY <1>2, DeliveringIs, DeliveryFields
  <1>3. CASE Claim(a)
    BY <1>3, ClaimFields
  <1>4. ASSUME NEW label, Goto(a, label) \/ Leave(a) PROVE task'[b] = task[b]
    BY <1>4, GotoFields
  <1> QED BY <1>1, <1>2, <1>3, <1>4
             DEF TaskStep, NoClaim, RejectLogin, AllHandled, Requeue, Bounce, SettleFailed,
                 SettleSent, NoteFailed, Save, StatusLost

\* Every step of the system keeps all books balanced.
LEMMA BooksNext ==
  ASSUME TypeInv, BooksBalance, [Next]_vars
  PROVE  BooksBalance'
  <1>0. Grows
    BY NextGrows
  <1>2. ASSUME NEW a \in Sender, TaskStep(a), NEW b \in Sender PROVE Accounted(b)'
    <2>1. Accounted(b)
      BY DEF BooksBalance
    <2>2. CASE b = a
      BY <1>0, <1>2, <2>1, <2>2, AccountedStep
    <2>3. CASE b # a
      BY <1>0, <1>2, <2>1, <2>3, OtherTasks, AccountedKept
    <2> QED BY <2>2, <2>3
  <1>3. ASSUME NEW a \in Sender, NEW m \in Message, Scan(a, m), NEW b \in Sender
        PROVE  Accounted(b)'
    <2>1. CASE b = a
      BY <1>3, <2>1 DEF Scan, Accounted, Claimed, At, Idle, TypeInv, TypeOK
    <2>2. CASE b # a
      <3>1. task'[b] = task[b]
        BY <1>3, <2>2 DEF Scan, TypeInv, TypeOK
      <3> QED BY <1>0, <3>1, AccountedKept DEF BooksBalance
    <2> QED BY <2>1, <2>2
  <1>4. ASSUME Restart, NEW b \in Sender PROVE Accounted(b)'
    BY <1>4 DEF Restart, Accounted, Claimed, At, Idle
  <1>5. ASSUME task' = task, NEW b \in Sender PROVE Accounted(b)'
    BY <1>0, <1>5, AccountedKept DEF BooksBalance
  <1>6. \A b \in Sender : Accounted(b)'
    BY <1>2, <1>3, <1>4, <1>5
       DEF Next, BackoffElapses, DeleteRow, CreateOutboxMessage, CreateOutboxAttachment,
             vars
  <1> QED BY <1>6 DEF BooksBalance

\* Nobody is lost track of, from the claim of a message to the record of its outcome.
THEOREM BooksAlwaysBalance == Spec => []BooksBalance
  <1>1. Init => BooksBalance
    BY DEF Init, BooksBalance, Accounted, Claimed, At, Idle
  <1>2. TypeInv /\ BooksBalance /\ [Next]_vars => BooksBalance'
    BY BooksNext
  <1> QED BY <1>1, <1>2, TypeInit, TypeNext, PTL DEF Spec

-----------------------------------------------------------------------------
(* Nobody forgotten, and what Sent holds. *)

\* A message becomes final when a task settles it, and not otherwise.
LEMMA BecomesFinal ==
  ASSUME Inv, [Next]_vars, NEW m \in Message,
         row[m].status \notin {"sent", "failed"}, row'[m].status \in {"sent", "failed"}
  PROVE  \E a \in Sender : task[a].msg = m /\ (SettleSent(a) \/ SettleFailed(a))
  <1>0. TypeOK /\ FilingIsSent /\ \A a \in Sender : ~At(a, "idle")
        => task[a].msg \in Message
    BY DEF Inv, TypeInv, TypeOK, Sound, At
  <1>1. CASE row' = row
    BY <1>1
  <1>2. ASSUME NEW a \in Sender, Claim(a) \/ Requeue(a) PROVE FALSE
    <2>1. /\ task[a].msg \in Message
          /\ \E st \in {"sending",
               "pending"} : row' = [row EXCEPT ![task[a].msg].status = st]
      BY <1>0, <1>2 DEF Claim, Take, Requeue, At
    <2> QED BY <1>0, <2>1, StatusType
  <1>3. ASSUME NEW a \in Sender, Count(a) PROVE FALSE
    BY <1>0, <1>3 DEF Count, At, TypeOK, OutboxRow
  <1>4. ASSUME NEW a \in Sender, NoteFailed(a) PROVE FALSE
    <2>1. task[a].msg \in Message /\ row[task[a].msg].status = "sent"
      BY <1>0, <1>4 DEF NoteFailed, FilingIsSent, Filing, At
    <2>2. row' = row \/ row' = [row EXCEPT ![task[a].msg].status = "sent"]
      BY <1>4 DEF NoteFailed
    <2> QED BY <1>0, <2>1, <2>2, StatusType
  <1>5. ASSUME NEW a \in Sender, SettleSent(a) \/ SettleFailed(a) PROVE task[a].msg = m
    <2>1. /\ task[a].msg \in Message
          /\ \E st \in {"sent", "failed"} : row' = [row EXCEPT ![task[a].msg].status = st]
      BY <1>0, <1>5 DEF SettleSent, SettleFailed, At
    <2> QED BY <1>0, <2>1, StatusType
  <1>6. CASE Restart
    BY <1>0, <1>6 DEF Restart, TypeOK, OutboxRow
  <1>7. ASSUME NEW n \in Message, BackoffElapses(n) \/ CreateOutboxMessage(n) PROVE FALSE
    <2>1. CASE BackoffElapses(n)
      BY <1>0, <2>1 DEF BackoffElapses, TypeOK, OutboxRow
    <2>2. CASE CreateOutboxMessage(n)
      BY <1>0, <2>2, StatusType DEF CreateOutboxMessage
    <2> QED BY <1>7, <2>1, <2>2
  <1>8. ASSUME NEW a \in Sender, TaskStep(a) PROVE SettleSent(a) \/ SettleFailed(a)
    <2>1. CASE Delivering(a)
      BY <1>1, <2>1, DeliveringIs DEF Inv
    <2> QED BY <1>1, <1>2, <1>3, <1>4, <1>8, <2>1
               DEF TaskStep, NoClaim, RejectLogin, AllHandled, CountFails, Bounce, Save,
                 StatusLost
  <1> QED BY <1>1, <1>5, <1>6, <1>7, <1>8
             DEF Next, Scan, CreateOutboxAttachment, DeleteRow, vars

\* What is final stays so (the step form of FinalStaysFinalHolds).
LEMMA FinalStep ==
  ASSUME Inv, [Next]_vars, NEW m \in Message, row[m].status = "sent"
  PROVE  row'[m].status = "sent"
  <1>0. TypeInv /\ TypeOK
    BY DEF Inv, TypeInv
  <1>1. ASSUME NEW a \in Sender, TaskStep(a) PROVE row'[m].status = "sent"
    <2>1. CASE Claimed(a)
      BY <1>1, <2>1, ClaimedStep DEF Holds
    <2>2. CASE Claim(a)
      <3>1. task[a].msg # m /\ task[a].msg \in Message
        BY <1>0, <2>2, ClaimType DEF Claim, Due
      <3> QED BY <1>0, <2>2, <3>1, StatusType DEF Claim, Take
    <2>3. CASE NoClaim(a)
      BY <2>3 DEF NoClaim
    <2>4. Claimed(a) \/ Claim(a) \/ NoClaim(a)
      BY <1>1 DEF TaskStep, Delivering, DeliverDirect, DeliverRelay, RejectLogin,
         AllHandled,
             Count, CountFails, Requeue, Bounce, SettleFailed, SettleSent, NoteFailed, Save,
             StatusLost, Claimed, At
    <2> QED BY <2>1, <2>2, <2>3, <2>4
  <1>2. ASSUME NEW n \in Message,
               \/ BackoffElapses(n) \/ CreateOutboxMessage(n) \/ CreateOutboxAttachment(n)
               \/ \E a \in Sender : Scan(a, n)
        PROVE  row'[m].status = "sent"
    BY <1>0, <1>2, StatusType
       DEF BackoffElapses, CreateOutboxMessage, CreateOutboxAttachment, Scan, Queued,
         TypeOK,
           OutboxRow
  <1>3. CASE Restart
    BY <1>0, <1>3 DEF Restart, TypeOK, OutboxRow
  <1> QED BY <1>1, <1>2, <1>3 DEF Next, DeleteRow, vars

\* "Terminal: everyone is either delivered or definitely failed", and the sender
\* hears of the failed, unless the database refused the DSN.
THEOREM NobodyForgottenHolds == Spec => []NobodyForgotten
  <1>1. Init => NobodyForgotten
    BY DEF Init, NobodyForgotten
  <1>2. ASSUME Inv, BooksBalance, NobodyForgotten, [Next]_vars PROVE NobodyForgotten'
    <2>0. Grows /\ TypeInv /\ TypeOK
      BY <1>2, NextGrows DEF Inv, TypeInv
    <2>1. SUFFICES ASSUME NEW m \in Message, row'[m].status \in {"sent", "failed"},
                          m \notin unbounced', NEW r \in RcptOf[m]
                   PROVE  copies'[m][r] > 0 \/ r \in Self(m) \/ r \in told'[m]
      BY DEF NobodyForgotten, Self
    <2>2. m \notin unbounced /\ told[m] \subseteq told'[m] /\ r \in Rcpt
      BY <2>0, <2>1, OutboxAssumption DEF Grows
    <2>3. CASE row[m].status \in {"sent", "failed"}
      BY <1>2, <2>0, <2>1, <2>2, <2>3 DEF NobodyForgotten, Grows
    <2>4. CASE row[m].status \notin {"sent", "failed"}
      <3>1. PICK a \in Sender : task[a].msg = m /\ (SettleSent(a) \/ SettleFailed(a))
        BY <1>2, <2>1, <2>4, BecomesFinal
      <3>2. At(a, "settle") /\ Claimed(a) /\ Accounted(a)
        BY <1>2, <3>1 DEF SettleSent, SettleFailed, Claimed, At, BooksBalance
      <3>3. r \in task[a].got \/ r \in task[a].failed
        BY <3>1, <3>2 DEF Accounted, Recipients, At
      <3>4. CASE r \in task[a].got
        <4>1. Reached(m, r)
          BY <3>1, <3>2, <3>4 DEF Accounted
        <4> QED BY <2>0, <2>2, <4>1 DEF Reached, Grows
      <3>5. CASE r \in task[a].failed /\ SettleFailed(a)
        BY <2>0, <3>1, <3>5 DEF SettleFailed, TypeOK
      <3>6. CASE r \in task[a].failed /\ SettleSent(a)
        <4>1. m \notin Relay
          BY <3>1, <3>2, <3>6 DEF Accounted, InOneGo, SettleSent
        <4> QED BY <2>2, <3>1, <3>2, <3>6, <4>1 DEF Accounted, At
      <3> QED BY <3>1, <3>3, <3>4, <3>5, <3>6
    <2> QED BY <2>3, <2>4
  <1>3. Inv /\ BooksBalance /\ NobodyForgotten /\ [Next]_vars => NobodyForgotten'
    BY <1>2
  <1> QED BY <1>1, <1>3, Invariance, BooksAlwaysBalance, PTL DEF Spec

\* A copy in Sent is of a message that is recorded as sent and that somebody has.
THEOREM SavedWasSentHolds == Spec => []SavedWasSent
  <1>1. Init => SavedWasSent
    BY DEF Init, SavedWasSent
  <1>2. ASSUME Inv, BooksBalance, SavedWasSent, [Next]_vars PROVE SavedWasSent'
    <2>0. Grows /\ TypeInv /\ TypeOK
      BY <1>2, NextGrows DEF Inv, TypeInv
    <2>1. SUFFICES ASSUME NEW m \in saved'
                   PROVE  /\ row'[m].status = "sent"
                          /\ \E r \in RcptOf[m] : copies'[m][r] > 0 \/ r \in Self(m)
      BY DEF SavedWasSent, Self
    <2>2. m \in saved \/ \E a \in Sender : Save(a) /\ m = task[a].msg
      <3>1. saved' = saved \/ \E a \in Sender : Save(a)
        <4>1. ASSUME NEW a \in Sender, TaskStep(a) PROVE saved' = saved \/ Save(a)
          <5>1. CASE Delivering(a)
            BY <2>0, <5>1, DeliveringIs
          <5> QED BY <4>1, <5>1 DEF TaskStep, Claim, Take, NoClaim, RejectLogin, AllHandled,
                     Count,
                     CountFails, Requeue, Bounce, SettleFailed, SettleSent, NoteFailed,
                       StatusLost
        <4> QED BY <1>2, <4>1 DEF Next, Scan, Restart, BackoffElapses, DeleteRow,
                     CreateOutboxMessage,
                   CreateOutboxAttachment, vars
      <3> QED BY <2>1, <3>1 DEF Save
    <2>3. /\ m \in Message /\ row[m].status = "sent"
          /\ \E r \in RcptOf[m] : copies[m][r] > 0 \/ r \in Self(m)
      <3>1. CASE m \in saved
        BY <1>2, <2>0, <3>1 DEF SavedWasSent, TypeOK
      <3>2. ASSUME NEW a \in Sender, Save(a), m = task[a].msg
            PROVE  /\ m \in Message /\ row[m].status = "sent"
                   /\ \E r \in RcptOf[m] : copies[m][r] > 0 \/ r \in Self(m)
        <4>1. At(a, "save") /\ Claimed(a) /\ Accounted(a) /\ Filing(a)
          BY <1>2, <3>2 DEF Save, Claimed, Filing, At, BooksBalance
        <4>2. m \in Message /\ row[m].status = "sent"
          BY <1>2, <2>0, <3>2, <4>1 DEF Inv, FilingIsSent, TypeInv, Sound, At
        <4>3. task[a].got # {} /\ task[a].got \subseteq RcptOf[m]
          BY <3>2, <4>1 DEF Accounted, Recipients, At
        <4>4. \A r \in task[a].got : Reached(m, r)
          BY <3>2, <4>1 DEF Accounted
        <4> QED BY <4>2, <4>3, <4>4 DEF Reached
      <3> QED BY <2>2, <3>1, <3>2
    <2>4. row'[m].status = "sent"
      BY <1>2, <2>3, FinalStep
    <2>5. RcptOf[m] \subseteq Rcpt
      BY <2>3, OutboxAssumption
    <2> QED BY <2>0, <2>3, <2>4, <2>5 DEF Grows
  <1>3. Inv /\ BooksBalance /\ SavedWasSent /\ [Next]_vars => SavedWasSent'
    BY <1>2
  <1> QED BY <1>1, <1>3, Invariance, BooksAlwaysBalance, PTL DEF Spec

-----------------------------------------------------------------------------
(* The attempts. *)

\* Neither a row's count nor a stale task's exceeds the attempts that failed, and
\* nobody is on a list of the failed but for a refusal or the last attempt.
AttemptsCounted ==
    /\ \A m \in Message : Counted(row[m].retries, m)
    /\ \A a \in Sender : ~At(a, "idle") =>
          /\ Counted(task[a].seen, task[a].msg)
          /\ \A r \in task[a].failed : r \in refused[task[a].msg] \/ Exhausted(task[a].msg)
    /\ \A a \in Sender : ~Claimed(a) => task[a].failed = {}

\* A number of attempts once reached is not unreached.
LEMMA CountedKept ==
  ASSUME TypeInv, TypeInv', Grows, NEW m \in Message, NEW n \in Nat
  PROVE  /\ Counted(n, m) => n <= tries'[m] \/ tries'[m] = MaxRetries
         /\ Exhausted(m) => tries'[m] = MaxRetries
  <1>1. tries[m] \in 0..MaxRetries /\ tries'[m] \in 0..MaxRetries /\ tries[m] <= tries'[m]
    BY DEF TypeInv, TypeOK, Grows
  <1> QED BY <1>1, OutboxAssumption DEF Counted, Exhausted

\* What a failed attempt adds up to.
LEMMA TryCounted ==
  ASSUME TypeInv, NEW m \in Message, NEW n \in Nat, CountTry(m), Counted(n, m)
  PROVE  /\ n + 1 <= tries'[m] \/ tries'[m] = MaxRetries
         /\ n + 1 >= MaxRetries => tries'[m] = MaxRetries
  <1>1. tries[m] \in 0..MaxRetries /\ MaxRetries \in Nat \ {0}
        /\ tries'[m] = IF tries[m] < MaxRetries THEN tries[m] + 1 ELSE tries[m]
    BY OutboxAssumption DEF TypeInv, TypeOK, CountTry
  <1> QED BY <1>1 DEF Counted, Exhausted

\* The part of AttemptsCounted that speaks of one task.
TaskCounted(a) ==
    /\ ~At(a, "idle") =>
          /\ Counted(task[a].seen, task[a].msg)
          /\ \A r \in task[a].failed : r \in refused[task[a].msg] \/ Exhausted(task[a].msg)
    /\ ~Claimed(a) => task[a].failed = {}

\* It lasts while the task stands still, or goes on without more failures.
LEMMA TaskCountedKept ==
  ASSUME TypeInv, TypeInv', Grows, NEW a \in Sender, TaskCounted(a), ~At(a, "idle"),
         task'[a].msg = task[a].msg, task'[a].seen = task[a].seen,
         ~Claimed(a) => task'[a].failed = {},
         \A r \in task'[a].failed :
            r \in task[a].failed \/ r \in refused'[task[a].msg]
            \/ tries'[task[a].msg] = MaxRetries,
         task'[a].pc = "queued" => task[a].pc = "queued"
  PROVE  TaskCounted(a)' \/ task'[a].pc = "idle"
  <1> DEFINE m == task[a].msg  n == task[a].seen
  <1>1. m \in Message /\ n \in Nat /\ task[a].failed \subseteq Rcpt
    BY DEF TypeInv, TypeOK, Sound, At, SendTaskState
  <1>2. /\ n <= tries'[m] \/ tries'[m] = MaxRetries
        /\ Exhausted(m) => tries'[m] = MaxRetries
    BY <1>1, CountedKept DEF TaskCounted
  <1>3. \A r \in task'[a].failed : r \in refused'[m] \/ tries'[m] = MaxRetries
    BY <1>1, <1>2 DEF TaskCounted, Grows
  <1> QED BY <1>2, <1>3 DEF TaskCounted, Counted, Exhausted, Claimed, At

\* The attempts of a task whose step this is.
LEMMA TaskCountedStep ==
  ASSUME TypeInv, TypeInv', Grows, AttemptsCounted, NEW a \in Sender, TaskStep(a),
         Accounted(a)
  PROVE  TaskCounted(a)'
  <1> DEFINE m == task[a].msg  t == task[a]  u == task'[a]
  <1>0. /\ TypeOK /\ t \in SendTaskState /\ TaskCounted(a)
        /\ (~At(a, "idle") => m \in Message)
    BY DEF TypeInv, TypeOK, Sound, At, AttemptsCounted, TaskCounted
  <1>1. CASE Leave(a)
    BY <1>1, GotoFields DEF TaskCounted, Claimed, At, Idle
  <1>2. ASSUME NEW label \in {"defer", "count", "bounce", "settle", "note", "save"},
               Goto(a, label), Claimed(a)
        PROVE  TaskCounted(a)'
    <2>1. /\ ~At(a, "idle") /\ u.pc = label /\ u.msg = m /\ u.seen = t.seen
          /\ u.failed = t.failed
      BY <1>2, GotoFields DEF Claimed
    <2> QED BY <1>0, <1>2, <2>1, TaskCountedKept
  <1>3. CASE Delivering(a)
    <2>1. PICK rs \in SUBSET Rcpt : Delivery(a, rs)
      BY <1>3, DeliveringIs
    <2>2. ~At(a, "idle") /\ Claimed(a) /\ At(a, "deliver") /\ m \in Message
      BY <1>0, <1>3, DeliveringIs DEF Claimed, At
    <2>3. /\ u.pc = t.pc /\ u.msg = m /\ u.seen = t.seen
          /\ u.failed = t.failed \/ (Refused(a, rs) /\ u.failed = t.failed \cup rs)
      BY <2>1, DeliveryFields
    <2>4. \A r \in u.failed : r \in t.failed \/ r \in refused'[m]
      BY <1>0, <2>2, <2>3 DEF Refused, TypeOK
    <2> QED BY <1>0, <2>2, <2>3, <2>4, TaskCountedKept DEF At
  <1>4. CASE Claim(a)
    <2>1. At(a, "queued") /\ m \in Message
      BY <1>0, <1>4 DEF Claim, At
    <2>2. PICK open \in SUBSET (Self(m) \cup Unknown(m)) :
             /\ u.failed = Unknown(m) \ open
             /\ refused' = [refused EXCEPT ![m] = @ \cup (Unknown(m) \ open)]
      BY <1>4, ClaimFields
    <2>3. u.msg = m /\ u.seen = t.seen /\ u.pc \in {"settle", "deliver"}
      BY <1>4, ClaimFields
    <2>4. \A r \in u.failed : r \in refused'[m]
      BY <1>0, <2>1, <2>2 DEF TypeOK
    <2>5. t.seen \in Nat /\ Counted(t.seen, m)
      BY <1>0, <2>1 DEF TaskCounted, At, SendTaskState
    <2>6. t.seen <= tries'[m] \/ tries'[m] = MaxRetries
      BY <2>1, <2>5, CountedKept
    <2> QED BY <2>3, <2>4, <2>6 DEF TaskCounted, Claimed, At, Counted, Exhausted
  <1>5. ASSUME NEW n \in Nat, At(a, "count"), Counted(n, m), CountTry(m),
               task' = [task EXCEPT ![a] = AfterAttempt(a, n + 1)]
        PROVE  TaskCounted(a)'
    <2>1. ~At(a, "idle") /\ Claimed(a) /\ m \in Message
      BY <1>0, <1>5 DEF Claimed, At
    <2>2. n + 1 >= MaxRetries => tries'[m] = MaxRetries
      BY <1>5, <2>1, TryCounted
    <2> DEFINE again == n + 1 < MaxRetries /\ (m \notin Relay \/ t.failed = {})
    <2>3. /\ u.msg = m /\ u.seen = t.seen /\ u.pc \in {"requeue", "settle", "bounce"}
          /\ again => u.failed = t.failed
          /\ ~again => u.failed = t.failed \cup t.pending
      BY <1>5, AfterAttemptFields
    <2>4. ~again => tries'[m] = MaxRetries \/ t.pending = {}
      <3>1. m \in Relay /\ t.failed # {} => t.pending = {}
        BY <1>5, <2>1 DEF Accounted, InOneGo, At
      <3>2. n + 1 \in Nat /\ MaxRetries \in Nat
        BY OutboxAssumption
      <3> QED BY <2>2, <3>1, <3>2
    <2> HIDE DEF again
    <2>5. \A r \in u.failed : r \in t.failed \/ tries'[m] = MaxRetries
      BY <2>3, <2>4
    <2> QED BY <1>0, <2>1, <2>3, <2>5, TaskCountedKept
  <1>6. CASE Count(a)
    <2>1. m \in Message /\ row[m].retries \in Nat /\ Counted(row[m].retries, m)
      BY <1>0, <1>6 DEF Count, At, TypeOK, OutboxRow, AttemptsCounted
    <2> QED BY <1>5, <1>6, <2>1 DEF Count
  <1>7. CASE CountFails(a)
    <2>1. t.seen \in Nat /\ Counted(t.seen, m)
      BY <1>0, <1>7 DEF CountFails, At, TaskCounted, SendTaskState
    <2> QED BY <1>5, <1>7, <2>1 DEF CountFails
  <1>8. ASSUME RejectLogin(a) \/ AllHandled(a) \/ Bounce(a) \/ SettleSent(a)
               \/ NoteFailed(a)
        PROVE  TaskCounted(a)'
    <2>1. /\ Claimed(a)
          /\ \E label \in {"defer", "count", "bounce", "settle", "note", "save"} : Goto(a,
               label)
      BY <1>8 DEF RejectLogin, AllHandled, Bounce, SettleSent, NoteFailed, Claimed, At
    <2> QED BY <1>2, <2>1
  <1> QED BY <1>1, <1>3, <1>4, <1>6, <1>7, <1>8
             DEF TaskStep, NoClaim, Requeue, SettleFailed, Save, StatusLost

\* Every step of the system keeps the count of the attempts.
LEMMA AttemptsNext ==
  ASSUME TypeInv, BooksBalance, AttemptsCounted, [Next]_vars
  PROVE  AttemptsCounted'
  <1>0. TypeOK /\ TypeInv' /\ Grows
    BY TypeNext, NextGrows DEF TypeInv
  <1>1. \A a \in Sender : TaskCounted(a)
    BY DEF AttemptsCounted, TaskCounted
  <1>2. ASSUME NEW b \in Sender, task'[b] = task[b] PROVE TaskCounted(b)'
    <2>1. CASE At(b, "idle")
      BY <1>1, <1>2, <2>1 DEF TaskCounted, Claimed, At
    <2>2. CASE ~At(b, "idle")
      BY <1>0, <1>1, <1>2, <2>2, TaskCountedKept DEF TaskCounted, At, Claimed
    <2> QED BY <2>1, <2>2
  <1>3. ASSUME NEW a \in Sender, TaskStep(a), NEW b \in Sender PROVE TaskCounted(b)'
    <2>1. CASE b = a
      BY <1>0, <1>3, <2>1, TaskCountedStep DEF BooksBalance
    <2>2. CASE b # a
      BY <1>2, <1>3, <2>2, OtherTasks
    <2> QED BY <2>1, <2>2
  <1>4. ASSUME NEW a \in Sender, NEW m \in Message, Scan(a, m), NEW b \in Sender
        PROVE  TaskCounted(b)'
    <2>1. CASE b = a
      <3>1. /\ task'[a].pc = "queued" /\ task'[a].failed = {} /\ task'[a].msg = m
            /\ task'[a].seen = row[m].retries
        BY <1>0, <1>4 DEF Scan, Idle, TypeOK
      <3>2. Counted(row[m].retries, m) /\ tries' = tries
        BY <1>4 DEF AttemptsCounted, Scan, history
      <3> QED BY <2>1, <3>1, <3>2 DEF TaskCounted, Counted, Exhausted, Claimed, At
    <2>2. CASE b # a
      BY <1>0, <1>2, <1>4, <2>2 DEF Scan, TypeOK
    <2> QED BY <2>1, <2>2
  <1>5. ASSUME Restart, NEW b \in Sender PROVE TaskCounted(b)'
    BY <1>5 DEF Restart, TaskCounted, Claimed, At, Idle
  <1>6. \A b \in Sender : TaskCounted(b)'
    BY <1>2, <1>3, <1>4, <1>5
       DEF Next, BackoffElapses, DeleteRow, CreateOutboxMessage, CreateOutboxAttachment,
             vars
  <1>7. ASSUME NEW m \in Message PROVE row'[m].retries <= tries'[m]
               \/ tries'[m] = MaxRetries
    <2>0. row[m] \in OutboxRow /\ row[m].retries \in Nat /\ Counted(row[m].retries, m)
      BY <1>0 DEF TypeOK, OutboxRow, AttemptsCounted
    <2>1. CASE row'[m].retries = row[m].retries
      BY <1>0, <2>0, <2>1, CountedKept
    <2>2. ASSUME NEW a \in Sender, Count(a) PROVE row'[m].retries <= tries'[m]
                 \/ tries'[m] = MaxRetries
      <3>1. CASE task[a].msg = m
        BY <1>0, <2>0, <2>2, <3>1, TryCounted DEF Count, TypeOK
      <3>2. CASE task[a].msg # m
        BY <1>0, <2>1, <2>2, <3>2 DEF Count, TypeOK
      <3> QED BY <3>1, <3>2
    <2>3. ASSUME NEW n \in Message, NEW st, row' = [row EXCEPT ![n].status = st]
          PROVE  row'[m].retries = row[m].retries
      BY <1>0, <2>3 DEF TypeOK, OutboxRow
    <2>4. ASSUME NEW a \in Sender, TaskStep(a), ~Count(a)
          PROVE  row'[m].retries = row[m].retries
      <3>1. ~At(a, "idle") => task[a].msg \in Message
        BY DEF TypeInv, Sound, At
      <3>2. CASE Delivering(a)
        BY <3>2, DeliveringIs
      <3> QED BY <2>3, <2>4, <3>1, <3>2
                 DEF TaskStep, Claim, Take, NoClaim, RejectLogin, AllHandled, CountFails,
                   Requeue,
                     Bounce, SettleFailed, SettleSent, NoteFailed, Save, StatusLost, At
    <2>5. ASSUME NEW n \in Message, BackoffElapses(n) PROVE row'[m].retries = row[m].retries
      BY <1>0, <2>5 DEF BackoffElapses, TypeOK, OutboxRow
    <2>6. ASSUME Restart PROVE row'[m].retries = row[m].retries
      <3>1. row'[m] = row[m] \/ row'[m] = [row[m] EXCEPT !.status = "pending"]
        BY <2>6 DEF Restart
      <3> QED BY <2>0, <3>1 DEF OutboxRow
    <2> QED BY <2>1, <2>2, <2>3, <2>4, <2>5, <2>6
               DEF Next, Scan, CreateOutboxMessage, CreateOutboxAttachment, DeleteRow, vars
  <1>8. \A m \in Message : Counted(row[m].retries, m)'
    BY <1>7 DEF Counted, Exhausted
  <1> QED BY <1>6, <1>8 DEF AttemptsCounted, TaskCounted

\* The attempts are counted right in every state.
THEOREM AttemptsAlwaysCounted == Spec => []AttemptsCounted
  <1>1. Init => AttemptsCounted
    <2> SUFFICES ASSUME Init PROVE AttemptsCounted
      OBVIOUS
    <2>1. \A m \in Message : Counted(row[m].retries, m)
      BY DEF Init, Counted
    <2> QED BY <2>1 DEF Init, AttemptsCounted, At, Claimed, Idle
  <1>2. TypeInv /\ BooksBalance /\ AttemptsCounted /\ [Next]_vars => AttemptsCounted'
    BY AttemptsNext
  <1> QED BY <1>1, <1>2, TypeInit, TypeNext, BooksAlwaysBalance, PTL DEF Spec

\* Nobody is reported undeliverable before the last attempt has failed, unless
\* refused for good: rejected logins, restarts and stale tasks use up no attempt.
THEOREM GivesUpLateHolds == Spec => []GivesUpLate
  <1>1. Init => GivesUpLate
    BY DEF Init, GivesUpLate
  <1>2. ASSUME TypeInv, AttemptsCounted, GivesUpLate, [Next]_vars PROVE GivesUpLate'
    <2>0. Grows /\ TypeOK /\ TypeInv'
      BY <1>2, NextGrows, TypeNext DEF TypeInv
    <2>1. SUFFICES ASSUME NEW m \in Message, NEW r \in told'[m]
                   PROVE  r \in refused'[m] \/ tries'[m] = MaxRetries
      BY DEF GivesUpLate
    <2>2. SUFFICES r \in refused[m] \/ Exhausted(m)
      <3>1. tries[m] \in 0..MaxRetries /\ tries'[m] \in 0..MaxRetries
            /\ tries[m] <= tries'[m]
        BY <2>0 DEF Grows, TypeInv, TypeOK
      <3>2. Exhausted(m) => tries'[m] = MaxRetries
        BY <3>1, OutboxAssumption DEF Exhausted
      <3> QED BY <2>0, <3>2 DEF Grows
    <2>3. CASE r \in told[m]
      BY <1>2, <2>3 DEF GivesUpLate, Exhausted
    <2>4. CASE r \notin told[m]
      <3>1. PICK a \in Sender : Bounce(a) \/ SettleFailed(a) \/ NoteFailed(a)
        <4>1. told' # told
          BY <2>1, <2>4
        <4>2. ASSUME NEW a \in Sender, TaskStep(a) PROVE Bounce(a) \/ SettleFailed(a)
                     \/ NoteFailed(a)
          <5>1. ~Delivering(a)
            BY <1>2, <4>1, DeliveringIs
          <5> QED BY <4>1, <4>2, <5>1
                     DEF TaskStep, Claim, Take, NoClaim, RejectLogin, AllHandled, Count,
                       CountFails,
                         Requeue, SettleSent, Save, StatusLost
        <4> QED BY <1>2, <4>1, <4>2 DEF Next, Scan, Restart, BackoffElapses, DeleteRow,
                   CreateOutboxMessage,
                   CreateOutboxAttachment, vars
      <3>2. ~At(a, "idle") /\ task[a].msg = m /\ r \in task[a].failed
        <4>1. told' = [told EXCEPT ![task[a].msg] = @ \cup task[a].failed] \/ told' = told
          BY <3>1 DEF Bounce, SettleFailed, NoteFailed
        <4>2. ~At(a, "idle")
          BY <3>1 DEF Bounce, SettleFailed, NoteFailed, At
        <4> QED BY <2>0, <2>1, <2>4, <4>1, <4>2 DEF TypeOK
      <3> QED BY <1>2, <3>2 DEF AttemptsCounted
    <2> QED BY <2>3, <2>4
  <1>3. TypeInv /\ AttemptsCounted /\ GivesUpLate /\ [Next]_vars => GivesUpLate'
    BY <1>2
  <1> QED BY <1>1, <1>3, TypeInit, TypeNext, AttemptsAlwaysCounted, PTL DEF Spec

-----------------------------------------------------------------------------
(* One copy through a relay. *)

\* If a relay's recipient has the message, then the message is known to have
\* been sent: by its row, by the task that is about to record it, or by nobody,
\* because the outcome was lost.
RelayedIsKnown ==
    \A m \in Relay, r \in Rcpt : copies[m][r] > 0 =>
        \/ m \in excused
        \/ row[m].status = "sent"
        \/ \E a \in Sender : Sending(a) /\ task[a].msg = m /\ task[a].got # {}

\* A task that has delivered through a relay goes on knowing it until the row
\* says so, or its record is lost.
LEMMA KnowledgeKept ==
  ASSUME Inv, BooksBalance, [Next]_vars, NEW a \in Sender, Sending(a), task[a].got # {},
         task[a].msg \in Relay
  PROVE  \/ task[a].msg \in excused'
         \/ row'[task[a].msg].status = "sent"
         \/ Sending(a)' /\ task'[a].msg = task[a].msg /\ task'[a].got # {}
  <1> DEFINE m == task[a].msg
  <1>0. /\ TypeInv /\ TypeOK /\ Claimed(a) /\ m \in Message /\ Accounted(a)
        /\ ~At(a, "idle")
    BY OutboxAssumption DEF Inv, TypeInv, Sending, Claimed, At, BooksBalance
  <1>1. /\ InOneGo(task[a]) /\ task[a].todo = {} /\ task[a].failed = {}
             /\ task[a].pending = {}
        /\ task[a].pc \in {"deliver", "bounce", "settle"}
    <2>1. task[a] \in SendTaskState
      BY <1>0 DEF TypeOK
    <2> QED BY <1>0, <2>1 DEF Accounted, InOneGo, Sending, Claimed, At, SendTaskState
  <1>2. CASE task'[a] = task[a]
    BY <1>0, <1>2 DEF Sending, Claimed, At
  <1>3. ASSUME NEW b \in Sender, TaskStep(b), b # a PROVE task'[a] = task[a]
    BY <1>0, <1>3, OtherTasks
  <1>4. ASSUME NEW label \in {"bounce", "settle"}, Goto(a, label)
        PROVE  Sending(a)' /\ task'[a].msg = m /\ task'[a].got # {}
    BY <1>0, <1>4, GotoFields DEF Sending, Claimed, At
  <1>5. CASE TaskStep(a)
    <2>1. ~Delivering(a)
      BY <1>0, <1>1, DeliveringIs
    <2>2. CASE AllHandled(a)
      <3>1. \E label \in {"bounce", "settle"} : Goto(a, label)
        BY <1>1, <2>2 DEF AllHandled
      <3> QED BY <1>4, <3>1
    <2>3. CASE Bounce(a)
      BY <1>4, <2>3 DEF Bounce
    <2>4. CASE SettleSent(a)
      BY <1>0, <2>4, StatusType DEF SettleSent
    <2>5. CASE StatusLost(a)
      BY <1>1, <2>5 DEF StatusLost, At
    <2> QED BY <1>1, <1>5, <2>1, <2>2, <2>3, <2>4, <2>5
               DEF TaskStep, Claim, NoClaim, RejectLogin, Count, CountFails, Requeue,
                 SettleFailed,
                   NoteFailed, Save, At
  <1>6. CASE Restart
    BY <1>0, <1>6 DEF Restart
  <1>7. ASSUME NEW b \in Sender, NEW n \in Message, Scan(b, n) PROVE task'[a] = task[a]
    BY <1>0, <1>7 DEF Scan, At, TypeOK
  <1> QED BY <1>2, <1>3, <1>5, <1>6, <1>7
             DEF Next, BackoffElapses, DeleteRow, CreateOutboxMessage, CreateOutboxAttachment,
             vars

\* A copy that appears at a relay's recipients is the first one, unless the outcome
\* of an earlier attempt was lost; and its task knows of it, or its answer was lost.
LEMMA RelayDelivers ==
  ASSUME Inv, BooksBalance, RelayedIsKnown, [Next]_vars,
         NEW m \in Relay, NEW r \in Rcpt, copies'[m][r] # copies[m][r]
  PROVE  /\ m \in excused \/ copies'[m][r] = 1
         /\ \/ m \in excused'
            \/ \E a \in Sender : Sending(a)' /\ task'[a].msg = m /\ task'[a].got # {}
  <1>0. TypeInv /\ TypeOK /\ m \in Message
    BY OutboxAssumption DEF Inv, TypeInv
  <1>1. PICK a \in Sender : Delivering(a)
    <2>1. copies' # copies
      OBVIOUS
    <2> QED BY <2>1 DEF Next, TaskStep, Scan, Restart, BackoffElapses, DeleteRow,
                   CreateOutboxMessage,
               CreateOutboxAttachment, vars, Claim, Take, NoClaim, RejectLogin, AllHandled,
                 Count,
               CountFails, Requeue, Bounce, SettleFailed, SettleSent, NoteFailed, Save,
                 StatusLost
  <1>2. PICK rs \in SUBSET Rcpt :
           /\ Delivery(a, rs) /\ rs # {} /\ rs \subseteq task[a].todo
           /\ task[a].msg \in Relay => rs = task[a].todo
    BY <1>0, <1>1, DeliveringIs
  <1>3. At(a, "deliver") /\ Claimed(a) /\ Sending(a) /\ task[a].msg \in Message
    BY <1>0, <1>1, DeliveringIs DEF Claimed, Sending, At, TypeInv, Sound
  <1>4. Receives(task[a].msg, rs) /\ (Accepted(a, rs) \/ AnswerLost(a, rs))
    BY <1>2 DEF Delivery, Accepted, Refused, FailedForNow, AnswerLost
  <1>5. task[a].msg = m /\ r \in rs
    BY <1>0, <1>3, <1>4, ReceivesGrows
  <1>6. task[a].got = {} /\ row[m].status = "sending"
    <2>1. task[a].got = {}
      BY <1>2, <1>3, <1>5 DEF BooksBalance, Accounted, InOneGo
    <2> QED BY <1>3, <1>5, <2>1 DEF Inv, OneSender
  <1>7. m \in excused \/ copies[m][r] = 0
    <2>1. \A b \in Sender : Sending(b) /\ task[b].msg = m => b = a
      BY <1>3, <1>5 DEF Inv, OneSender, Sending
    <2>2. copies[m][r] > 0 => m \in excused
      BY <1>6, <2>1 DEF RelayedIsKnown
    <2>3. copies[m][r] \in 0..2
      BY <1>0 DEF TypeOK
    <2> QED BY <2>2, <2>3
  <1>8. m \in excused \/ copies'[m][r] = 1
    BY <1>0, <1>4, <1>5, <1>7, ReceivesGrows
  <1>9. CASE AnswerLost(a, rs)
    BY <1>5, <1>8, <1>9 DEF AnswerLost
  <1>10. CASE Accepted(a, rs)
    <2>1. task'[a].pc = "deliver" /\ task'[a].msg = m /\ task'[a].got # {}
      <3>1. ~Refused(a, rs) \/ Accepted(a, rs)
        BY <1>10
      <3>2. task'[a].pc = task[a].pc /\ task'[a].msg = task[a].msg
        BY <1>0, <1>2, DeliveryFields
      <3>3. r \in task'[a].got
        BY <1>0, <1>5, <1>10 DEF Accepted, TypeOK, SendTaskState
      <3> QED BY <1>3, <1>5, <3>2, <3>3 DEF At
    <2> QED BY <1>8, <2>1 DEF Sending, Claimed, At
  <1> QED BY <1>4, <1>9, <1>10

\* Every step keeps that a relayed message is known to be sent.
LEMMA RelayedNext ==
  ASSUME Inv, BooksBalance, RelayedIsKnown, [Next]_vars
  PROVE  RelayedIsKnown'
  <1>0. Grows
    BY NextGrows DEF Inv
  <1>1. SUFFICES ASSUME NEW m \in Relay, NEW r \in Rcpt, copies'[m][r] > 0
                 PROVE  \/ m \in excused' \/ row'[m].status = "sent"
                        \/ \E a \in Sender : Sending(a)' /\ task'[a].msg = m
                             /\ task'[a].got # {}
    BY DEF RelayedIsKnown, Sending, Claimed, At
  <1>2. CASE copies'[m][r] # copies[m][r]
    BY <1>2, RelayDelivers
  <1>3. CASE copies'[m][r] = copies[m][r]
    <2>1. \/ m \in excused \/ row[m].status = "sent"
          \/ \E a \in Sender : Sending(a) /\ task[a].msg = m /\ task[a].got # {}
      BY <1>1, <1>3 DEF RelayedIsKnown
    <2>2. CASE m \in excused
      BY <1>0, <2>2 DEF Grows
    <2>3. CASE row[m].status = "sent"
      BY <2>3, FinalStep, OutboxAssumption
    <2>4. ASSUME NEW a \in Sender, Sending(a), task[a].msg = m, task[a].got # {}
          PROVE  \/ m \in excused' \/ row'[m].status = "sent"
                 \/ Sending(a)' /\ task'[a].msg = m /\ task'[a].got # {}
      BY <2>4, KnowledgeKept
    <2> QED BY <2>1, <2>2, <2>3, <2>4
  <1> QED BY <1>2, <1>3

\* Nobody gets a second copy through a relay unless the outcome of an attempt
\* was lost, whatever is retried, restarted or scanned twice.
THEOREM RelayedOnceHolds == Spec => []RelayedOnce
  <1>1. Init => RelayedIsKnown /\ RelayedOnce
    BY OutboxAssumption DEF Init, RelayedIsKnown, RelayedOnce
  <1>2. ASSUME Inv, BooksBalance, RelayedIsKnown, RelayedOnce, [Next]_vars
               PROVE RelayedOnce'
    <2>1. SUFFICES ASSUME NEW m \in Relay, NEW r \in Rcpt, copies'[m][r] = 2
                   PROVE  m \in excused'
      BY DEF RelayedOnce
    <2>2. m \in excused
      BY <1>2, <2>1, RelayDelivers DEF RelayedOnce
    <2> QED BY <1>2, <2>2, NextGrows DEF Inv, Grows
  <1>3. Inv /\ BooksBalance /\ RelayedIsKnown /\ RelayedOnce /\ [Next]_vars
           => RelayedIsKnown' /\ RelayedOnce'
    BY <1>2, RelayedNext
  <1> QED BY <1>1, <1>3, Invariance, BooksAlwaysBalance, PTL DEF Spec

-----------------------------------------------------------------------------
(* Refinement: the outbox implements the queue of SendQueue.  Its holder   *)
(* of a message is the task that has claimed it, from the claim to the     *)
(* copy in Sent; that there is one at most is OneSender, that a final row  *)
(* has an answer for everybody is read off the task's books.               *)

\* A message is held in some status when its row has it and a task has claimed it.
LEMMA HeldIs ==
  ASSUME NEW m \in Message, NEW st
  PROVE  Queue!Held(m, st) <=> row[m].status = st /\ Holders(m) # {}
  BY DEF Queue!Held

\* A step that writes one status is a change of that message's only.
LEMMA BecomeIs ==
  ASSUME NEW m \in Message, NEW st, row'[m].status = st,
         \A n \in Message : n # m => row'[n].status = row[n].status
  PROVE  Queue!Become(m, st)
  BY DEF Queue!Become

\* A step in which one message loses its holder.
LEMMA LetGoIs ==
  ASSUME NEW m \in Message, Holders(m)' = {},
         \A n \in Message : n # m => Holders(n)' = Holders(n)
  PROVE  Queue!LetGo(m)
  BY DEF Queue!LetGo

\* One in which it gets one.
LEMMA TakeIs ==
  ASSUME NEW m \in Message, NEW a \in Sender, Holders(m)' = {a},
         \A n \in Message : n # m => Holders(n)' = Holders(n)
  PROVE  [n \in Message |-> Holders(n)]'
           = [[n \in Message |-> Holders(n)] EXCEPT ![m] = {a}]
  OBVIOUS

StatusKept == \A m \in Message : row'[m].status = row[m].status
HoldersKept == \A m \in Message : Holders(m)' = Holders(m)

\* What the queue sees of a step that keeps statuses, holders or copies.
LEMMA MappedKept ==
  /\ StatusKept => UNCHANGED [m \in Message |-> row[m].status]
  /\ HoldersKept => UNCHANGED [m \in Message |-> Holders(m)]
  /\ copies' = copies => UNCHANGED [m \in Message |-> {r \in RcptOf[m] : copies[m][r] > 0}]
  BY DEF StatusKept, HoldersKept

\* A step the queue does not see.
LEMMA QueueStutters ==
  ASSUME StatusKept, HoldersKept, UNCHANGED <<copies, told, unbounced, saved>>
  PROVE  UNCHANGED Queue!vars
  BY MappedKept DEF Queue!vars

\* Of a message a task has claimed it is the only holder; after its step it still
\* is, or there is none.
LEMMA HolderSteps ==
  ASSUME Inv, NEW a \in Sender, Claimed(a), Holds(a),
         NEW m \in Message, task[a].msg = m
  PROVE  /\ Holders(m) = {a}
         /\ \A n \in Message : n # m => Holders(n)' = Holders(n)
         /\ Claimed(a)' => HoldersKept
         /\ ~Claimed(a)' => Holders(m)' = {}
         /\ \A n \in Message : n # m => row'[n].status = row[n].status
         /\ Sending(a) => row[m].status = "sending"
         /\ Filing(a) => row[m].status = "sent"
  <1>1. (Sending(a) => row[m].status = "sending") /\ (Filing(a) => row[m].status = "sent")
    BY DEF Inv, OneSender, FilingIsSent
  <1>2. \A b \in Sender : Claimed(b) /\ task[b].msg = m => b = a
    BY DEF Inv, OneSender
  <1>3. Holders(m) = {a}
    BY <1>2 DEF Holders
  <1>4. \A b \in Sender : b # a =>
           (Claimed(b)' <=> Claimed(b)) /\ task'[b].msg = task[b].msg
    BY DEF Holds, Claimed, At
  <1>5. Claimed(a)' => task'[a].msg = m
    BY DEF Holds
  <1>6. ASSUME NEW n \in Message, n # m PROVE Holders(n)' = Holders(n)
    BY <1>4, <1>5, <1>6 DEF Holders
  <1>7. ASSUME NEW b \in Sender
        PROVE  Claimed(b)' /\ task'[b].msg = m <=> b = a /\ Claimed(a)'
    BY <1>2, <1>4, <1>5
  <1>8. (Claimed(a)' => Holders(m)' = {a}) /\ (~Claimed(a)' => Holders(m)' = {})
    BY <1>7 DEF Holders
  <1>9. Claimed(a)' => HoldersKept
    BY <1>3, <1>6, <1>8 DEF HoldersKept
  <1>10. \A n \in Message : n # m => row'[n].status = row[n].status
    BY DEF Holds
  <1> QED BY <1>1, <1>3, <1>6, <1>8, <1>9, <1>10

\* The claim is the queue's Take.
LEMMA ClaimIsTake ==
  ASSUME Inv, NEW a \in Sender, Claim(a), NEW m \in Message, task[a].msg = m
  PROVE  Queue!Take(m, a)
  <1>1. /\ task'[a].msg = m /\ task'[a].pc \in {"deliver", "settle"}
        /\ \A b \in Sender : b # a => task'[b] = task[b]
    BY ClaimType DEF Inv
  <1>2. row[m].status = "pending" /\ task[a].pc = "queued"
    BY DEF Claim, Due, At
  <1>3. /\ row'[m].status = "sending"
        /\ \A n \in Message : n # m => row'[n].status = row[n].status
    BY <1>1, StatusType DEF Claim, Take, Inv, TypeInv
  <1>4. Holders(m) = {}
    BY <1>2, PendingIsFree DEF Holders
  <1>5. \A n \in Message : a \notin Holders(n)
    BY <1>2 DEF Holders, Claimed, At
  <1>6. \A b \in Sender : b # a =>
           (Claimed(b)' <=> Claimed(b)) /\ task'[b].msg = task[b].msg
    BY <1>1 DEF Claimed, At
  <1>7. Claimed(a)'
    BY <1>1 DEF Claimed, At
  <1>8. \A n \in Message : n # m => Holders(n)' = Holders(n)
    BY <1>1, <1>5, <1>6, <1>7 DEF Holders
  <1>9. Holders(m)' = {a}
    BY <1>1, <1>4, <1>6, <1>7 DEF Holders
  <1>10. Queue!Become(m, "sending")
    BY <1>3, BecomeIs
  <1>11. UNCHANGED <<copies, told, unbounced, saved>>
    BY DEF Claim, Take
  <1> QED BY <1>2, <1>4, <1>5, <1>8, <1>9, <1>10, <1>11, TakeIs, MappedKept DEF Queue!Take

\* A task's step that leaves it where it holds the message, or lets it go.
LEMMA HoldingStep ==
  ASSUME Inv, NEW a \in Sender, TaskStep(a), Claimed(a),
         NEW m \in Message, task[a].msg = m
  PROVE  /\ Holds(a) /\ Holders(m) # {}
         /\ Claimed(a)' => UNCHANGED [n \in Message |-> Holders(n)]
         /\ ~Claimed(a)' => Queue!LetGo(m)
         /\ \A n \in Message : n # m => row'[n].status = row[n].status
         /\ Sending(a) => Queue!Held(m, "sending")
         /\ Filing(a) => Queue!Held(m, "sent")
  BY ClaimedStep, HolderSteps, MappedKept, LetGoIs, HeldIs

\* What a delivery gets through reaches its recipients.
LEMMA DeliveringIsReach ==
  ASSUME Inv, BooksBalance, NEW a \in Sender, Delivering(a),
         NEW m \in Message, task[a].msg = m
  PROVE  UNCHANGED Queue!vars \/ \E rs \in SUBSET RcptOf[m] : Queue!Reach(m, rs)
  <1> DEFINE R(n) == {r \in RcptOf[n] : copies[n][r] > 0}
  <1>0. /\ TypeInv /\ TypeOK
        /\ At(a, "deliver") /\ Claimed(a) /\ Sending(a) /\ TaskStep(a) /\ Accounted(a)
        /\ UNCHANGED <<row, saved, told, unbounced>>
    BY DeliveringIs DEF Inv, TypeInv, Sending, Claimed, At, TaskStep, BooksBalance
  <1>1. PICK rs \in SUBSET Rcpt : Delivery(a, rs) /\ rs \subseteq task[a].todo
    BY <1>0, DeliveringIs
  <1>2. rs \subseteq RcptOf[m]
    BY <1>0, <1>1 DEF Accounted, Recipients
  <1>3. Claimed(a)'
    BY <1>0, <1>1, DeliveryFields DEF Claimed, At
  <1>4. StatusKept /\ HoldersKept
    BY <1>0, <1>3, ClaimedStep, HolderSteps DEF StatusKept
  <1>5. CASE UNCHANGED copies
    BY <1>0, <1>4, <1>5, QueueStutters
  <1>6. CASE Receives(m, rs)
    <2>1. \A n \in Message : RcptOf[n] \subseteq Rcpt
      BY OutboxAssumption
    <2>2. \A n \in Message : R(n)' = IF n = m THEN R(m) \cup rs ELSE R(n)
      BY <1>0, <1>2, <1>6, <2>1, ReceivesGrows
    <2> HIDE DEF R
    <2>3. [n \in Message |-> R(n)]' = [[n \in Message |-> R(n)] EXCEPT ![m] = @ \cup rs]
      BY <2>2
    <2>4. Queue!Held(m, "sending")
      BY <1>0, HoldingStep
    <2>5. Queue!Reach(m, rs)
      BY <1>0, <1>2, <1>4, <2>3, <2>4, MappedKept DEF Queue!Reach, R
    <2> QED BY <1>2, <2>5
  <1> QED BY <1>1, <1>5, <1>6 DEF Delivery, Accepted, Refused, FailedForNow, AnswerLost

\* A message put back is free again; one whose status could not be written, and
\* one that is filed or that Sent could not take, is let go.
LEMMA LettingGo ==
  ASSUME Inv, NEW a \in Sender, TaskStep(a), NEW m \in Message, task[a].msg = m
  PROVE  /\ Requeue(a) => Queue!GiveBack(m)
         /\ StatusLost(a) => Queue!Leave(m)
         /\ Save(a) => Queue!Leave(m) \/ Queue!File(m)
  <1> USE DEF history, queueing
  <1>0. TypeInv /\ TypeOK
    BY DEF Inv, TypeInv
  <1>1. ASSUME Requeue(a) PROVE Queue!GiveBack(m)
    <2>1. Claimed(a) /\ Sending(a) /\ ~Claimed(a)'
      BY <1>0, <1>1, GotoEffect DEF Requeue, Claimed, Sending, At
    <2>2. row'[m].status = "pending"
      BY <1>0, <1>1, StatusType DEF Requeue
    <2>3. Queue!Become(m, "pending")
      BY <2>1, <2>2, HoldingStep, BecomeIs
    <2> QED BY <1>1, <2>1, <2>3, HoldingStep, MappedKept DEF Queue!GiveBack, Requeue
  <1>2. ASSUME StatusLost(a) PROVE Queue!Leave(m)
    <2>1. Claimed(a) /\ Sending(a) /\ ~Claimed(a)'
      BY <1>0, <1>2, GotoEffect DEF StatusLost, Claimed, Sending, At
    <2>2. StatusKept /\ UNCHANGED <<copies, told, unbounced, saved>>
      BY <1>2 DEF StatusLost, StatusKept
    <2> QED BY <2>1, <2>2, HoldingStep, MappedKept DEF Queue!Leave
  <1>3. ASSUME Save(a) PROVE Queue!Leave(m) \/ Queue!File(m)
    <2>1. Claimed(a) /\ Filing(a) /\ ~Claimed(a)'
      BY <1>0, <1>3, GotoEffect DEF Save, Claimed, Filing, At
    <2>2. StatusKept /\ UNCHANGED <<copies, told, unbounced>>
      BY <1>3 DEF Save, StatusKept
    <2>3. saved' = saved \/ saved' = saved \cup {m}
      BY <1>3 DEF Save
    <2> QED BY <2>1, <2>2, <2>3, HoldingStep, MappedKept DEF Queue!Leave, Queue!File
  <1> QED BY <1>1, <1>2, <1>3

\* The author is told of those who failed, or the report could not be stored.
LEMMA Reporting ==
  ASSUME Inv, BooksBalance, NEW a \in Sender, TaskStep(a),
         NEW m \in Message, task[a].msg = m
  PROVE  /\ Bounce(a) => Queue!KeepSilent(m) \/ Queue!Report(m, task[a].failed)
         /\ NoteFailed(a) => UNCHANGED Queue!vars \/ Queue!Report(m, task[a].failed)
         /\ Claimed(a) => task[a].failed \in SUBSET RcptOf[m]
  <1> USE DEF history, queueing
  <1>0. TypeInv /\ TypeOK
    BY DEF Inv, TypeInv
  <1>1. Claimed(a) => task[a].failed \in SUBSET RcptOf[m]
    BY DEF BooksBalance, Accounted, Recipients
  <1>2. ASSUME Bounce(a) PROVE Queue!KeepSilent(m) \/ Queue!Report(m, task[a].failed)
    <2>1. Claimed(a) /\ Sending(a) /\ Claimed(a)'
      BY <1>0, <1>2, GotoEffect DEF Bounce, Claimed, Sending, At
    <2>2. StatusKept /\ UNCHANGED <<copies, saved>>
      BY <1>2 DEF Bounce, StatusKept
    <2>3. \/ told' = [told EXCEPT ![m] = @ \cup task[a].failed] /\ UNCHANGED unbounced
          \/ unbounced' = unbounced \cup {m} /\ UNCHANGED told
      BY <1>2 DEF Bounce
    <2> QED BY <1>1, <2>1, <2>2, <2>3, HoldingStep, MappedKept
               DEF Queue!KeepSilent, Queue!Report
  <1>3. ASSUME NoteFailed(a)
        PROVE  UNCHANGED Queue!vars \/ Queue!Report(m, task[a].failed)
    <2>1. Claimed(a) /\ Filing(a) /\ Claimed(a)'
      BY <1>0, <1>3, GotoEffect DEF NoteFailed, Claimed, Filing, At
    <2>2. row[m].status = "sent"
      BY <2>1 DEF Inv, FilingIsSent
    <2>3. row' = row \/ row' = [row EXCEPT ![m].status = "sent"]
      BY <1>3 DEF NoteFailed
    <2>4. StatusKept /\ UNCHANGED <<copies, saved, unbounced>>
      BY <1>0, <1>3, <2>2, <2>3, StatusType DEF NoteFailed, StatusKept
    <2>5. told' = [told EXCEPT ![m] = @ \cup task[a].failed] \/ UNCHANGED told
      BY <1>3 DEF NoteFailed
    <2>6. UNCHANGED told => UNCHANGED Queue!vars
      BY <2>1, <2>4, ClaimedStep, HolderSteps, QueueStutters
    <2> QED BY <1>1, <2>1, <2>4, <2>5, <2>6, HoldingStep, MappedKept DEF Queue!Report
  <1> QED BY <1>1, <1>2, <1>3

\* Who has the message, reads it in Sent or is reported is answered.
LEMMA AnsweredIs ==
  ASSUME NEW m \in Message, NEW reported,
         m \in unbounced \/ \A r \in RcptOf[m] : Reached(m, r) \/ r \in reported
  PROVE  Queue!Answered(m, reported)
  BY DEF Queue!Answered, Reached

\* The outcome is recorded when the books have an answer for everybody.
LEMMA Settling ==
  ASSUME Inv, BooksBalance, NEW a \in Sender, TaskStep(a),
         NEW m \in Message, task[a].msg = m
  PROVE  /\ SettleSent(a) => Queue!Succeed(m)
         /\ SettleFailed(a) => Queue!Fail(m, task[a].failed)
  <1> USE DEF history, queueing
  <1>0. TypeInv /\ TypeOK /\ Accounted(a)
    BY DEF Inv, TypeInv, BooksBalance
  <1>1. At(a, "settle") =>
           /\ RcptOf[m] = task[a].got \cup task[a].failed
           /\ \A r \in task[a].got : Reached(m, r)
           /\ m \in Relay /\ task[a].got # {} => task[a].failed = {}
           /\ m \notin Relay => task[a].failed \subseteq told[m] \/ m \in unbounced
    BY <1>0 DEF Accounted, Recipients, InOneGo, Claimed, At
  <1>2. ASSUME SettleSent(a) PROVE Queue!Succeed(m)
    <2>1. Claimed(a) /\ Sending(a) /\ Claimed(a)' /\ At(a, "settle") /\ task[a].got # {}
      BY <1>0, <1>2, GotoEffect DEF SettleSent, Claimed, Sending, At
    <2>2. row'[m].status = "sent"
      BY <1>0, <1>2, StatusType DEF SettleSent
    <2>3. Queue!Become(m, "sent")
      BY <2>1, <2>2, HoldingStep, BecomeIs
    <2>4. Queue!Answered(m, told[m])
      BY <1>1, <2>1, AnsweredIs
    <2>5. \E r \in RcptOf[m] : copies[m][r] > 0 \/ r \in Self(m)
      BY <1>1, <2>1 DEF Reached
    <2>6. UNCHANGED <<copies, told, unbounced, saved>>
      BY <1>2 DEF SettleSent
    <2> QED BY <2>1, <2>3, <2>4, <2>5, <2>6, HoldingStep, MappedKept DEF Queue!Succeed
  <1>3. ASSUME SettleFailed(a) PROVE Queue!Fail(m, task[a].failed)
    <2>1. Claimed(a) /\ Sending(a) /\ ~Claimed(a)' /\ At(a, "settle") /\ task[a].got = {}
      BY <1>0, <1>3, GotoEffect DEF SettleFailed, Claimed, Sending, At
    <2>2. row'[m].status = "failed"
      BY <1>0, <1>3, StatusType DEF SettleFailed
    <2>3. Queue!Become(m, "failed")
      BY <2>1, <2>2, HoldingStep, BecomeIs
    <2>4. Queue!Answered(m, told[m] \cup task[a].failed)
      BY <1>1, <2>1, AnsweredIs
    <2>5. told' = [told EXCEPT ![m] = @ \cup task[a].failed]
          /\ UNCHANGED <<copies, unbounced, saved>>
      BY <1>3 DEF SettleFailed
    <2> QED BY <1>1, <2>1, <2>3, <2>4, <2>5, HoldingStep, MappedKept DEF Queue!Fail
  <1> QED BY <1>2, <1>3

\* Before the claim, and between delivery and outcome, the queue sees nothing.
LEMMA HiddenTaskStep ==
  ASSUME Inv, NEW a \in Sender,
         NoClaim(a) \/ RejectLogin(a) \/ AllHandled(a) \/ Count(a) \/ CountFails(a)
  PROVE  UNCHANGED Queue!vars
  <1> USE DEF history, queueing
  <1>0. TypeInv /\ TypeOK
    BY DEF Inv, TypeInv
  <1>1. CASE NoClaim(a)
    <2>1. /\ ~Claimed(a) /\ ~Claimed(a)'
          /\ \A b \in Sender : b # a => task'[b] = task[b]
      BY <1>0, <1>1, GotoEffect DEF NoClaim, Claimed, At
    <2>2. HoldersKept
      BY <2>1 DEF HoldersKept, Holders, Claimed, At
    <2> QED BY <1>1, <2>2, QueueStutters DEF NoClaim, StatusKept
  <1>2. ASSUME RejectLogin(a) \/ AllHandled(a) \/ Count(a) \/ CountFails(a)
        PROVE  UNCHANGED Queue!vars
    <2>1. Claimed(a) /\ TaskStep(a) /\ task[a].msg \in Message
      BY <1>0, <1>2
         DEF RejectLogin, AllHandled, Count, CountFails, TaskStep, Claimed, At, TypeInv,
             Sound
    <2>2. Claimed(a)'
      <3>1. CASE RejectLogin(a) \/ AllHandled(a)
        BY <1>0, <3>1, GotoEffect DEF RejectLogin, AllHandled, Claimed, At
      <3>2. CASE Count(a) \/ CountFails(a)
        <4>1. PICK n : At(a, "count") /\ task' = [task EXCEPT ![a] = AfterAttempt(a, n)]
          BY <3>2 DEF Count, CountFails
        <4>2. AfterAttempt(a, n).pc \in {"requeue", "bounce", "settle"}
          BY <1>0, <4>1, AfterAttemptSound
        <4>3. task'[a] = AfterAttempt(a, n)
          BY <1>0, <4>1 DEF TypeOK
        <4> QED BY <4>2, <4>3 DEF Claimed, At
      <3> QED BY <1>2, <3>1, <3>2
    <2>3. HoldersKept
      BY <2>1, <2>2, ClaimedStep, HolderSteps
    <2>4. StatusKept
      <3>1. CASE Count(a)
        BY <1>0, <2>1, <3>1 DEF Count, StatusKept, TypeOK, OutboxRow
      <3>2. CASE UNCHANGED row
        BY <3>2 DEF StatusKept
      <3> QED BY <1>2, <3>1, <3>2 DEF RejectLogin, AllHandled, CountFails
    <2>5. UNCHANGED <<copies, told, unbounced, saved>>
      BY <1>2 DEF RejectLogin, AllHandled, Count, CountFails
    <2> QED BY <2>3, <2>4, <2>5, QueueStutters
  <1> QED BY <1>1, <1>2

\* Every step of a task is one of the queue's, or hidden.
LEMMA TaskStepMaps ==
  ASSUME Inv, BooksBalance, NEW a \in Sender, TaskStep(a)
  PROVE  Queue!Next \/ UNCHANGED Queue!vars
  <1>1. CASE \/ NoClaim(a) \/ RejectLogin(a) \/ AllHandled(a) \/ Count(a) \/ CountFails(a)
    BY <1>1, HiddenTaskStep
  <1>2. CASE ~(NoClaim(a) \/ RejectLogin(a) \/ AllHandled(a) \/ Count(a) \/ CountFails(a))
    <2>1. task[a].msg \in Message
      BY <1>2 DEF Inv, TypeInv, Sound, TaskStep, Claim, Delivering, DeliverRelay,
                  DeliverDirect, Requeue, Bounce, SettleFailed, SettleSent, NoteFailed,
                  Save, StatusLost, At
    <2>2. PICK m \in Message : task[a].msg = m
      BY <2>1
    <2>3. CASE Claim(a)
      BY <2>2, <2>3, ClaimIsTake DEF Queue!Next
    <2>4. CASE Delivering(a)
      BY <2>2, <2>4, DeliveringIsReach DEF Queue!Next
    <2>5. CASE Requeue(a) \/ StatusLost(a) \/ Save(a)
      BY <2>2, <2>5, LettingGo DEF Queue!Next
    <2>6. CASE Bounce(a) \/ NoteFailed(a) \/ SettleSent(a) \/ SettleFailed(a)
      <3>1. Claimed(a)
        BY <2>6 DEF Bounce, NoteFailed, SettleSent, SettleFailed, Claimed, At
      <3>2. task[a].failed \in SUBSET RcptOf[m]
        BY <2>2, <3>1, Reporting
      <3>3. \/ UNCHANGED Queue!vars \/ Queue!KeepSilent(m) \/ Queue!Succeed(m)
            \/ Queue!Report(m, task[a].failed) \/ Queue!Fail(m, task[a].failed)
        BY <2>2, <2>6, Reporting, Settling
      <3> QED BY <3>2, <3>3 DEF Queue!Next
    <2> QED BY <1>2, <2>3, <2>4, <2>5, <2>6 DEF TaskStep
  <1> QED BY <1>1, <1>2

\* A message is queued: the queue's Enqueue.
LEMMA CreateIsEnqueue ==
  ASSUME Inv, NEW m \in Message, CreateOutboxMessage(m)
  PROVE  Queue!Enqueue(m)
  <1>1. row[m].status = "draft" /\ row'[m].status = "pending"
        /\ \A n \in Message : n # m => row'[n].status = row[n].status
    BY StatusType DEF CreateOutboxMessage, Queued, Inv, TypeInv
  <1>2. HoldersKept /\ UNCHANGED <<copies, told, unbounced, saved>>
    BY DEF CreateOutboxMessage, HoldersKept, Holders, Claimed, At, history
  <1>3. Queue!Become(m, "pending")
    BY <1>1, BecomeIs
  <1> QED BY <1>1, <1>2, <1>3, MappedKept DEF Queue!Enqueue

\* A restart is the queue's Recover.
LEMMA RestartIsRecover ==
  ASSUME Inv, Restart
  PROVE  Queue!Recover
  <1>1. \A m \in Message :
           row'[m].status = IF row[m].status = "sending" THEN "pending" ELSE row[m].status
    BY DEF Restart, Inv, TypeInv, TypeOK, OutboxRow
  <1>2. \A m \in Message : Holders(m)' = {}
    BY DEF Restart, Holders, Claimed, At, Idle
  <1>3. UNCHANGED <<copies, told, unbounced, saved>>
    BY DEF Restart
  <1> QED BY <1>1, <1>2, <1>3, MappedKept DEF Queue!Recover

\* The outbox starts as the queue does.
LEMMA QueueInit == Init => Queue!Init
  <1> SUFFICES ASSUME Init PROVE Queue!Init
    OBVIOUS
  <1>1. \A m \in Message : Holders(m) = {} /\ row[m].status = "draft"
    BY DEF Init, Holders, Claimed, At, Idle
  <1>2. \A m \in Message : {r \in RcptOf[m] : copies[m][r] > 0} = {}
    BY OutboxAssumption DEF Init
  <1> QED BY <1>1, <1>2 DEF Init, Queue!Init

\* Every step of the outbox is one of the queue or is not seen by it.
LEMMA QueueStep == Inv /\ BooksBalance /\ [Next]_vars => [Queue!Next]_Queue!vars
  <1> SUFFICES ASSUME Inv, BooksBalance, [Next]_vars
               PROVE  Queue!Next \/ UNCHANGED Queue!vars
    OBVIOUS
  <1>0. TypeInv /\ TypeOK
    BY DEF Inv, TypeInv
  <1>1. CASE UNCHANGED vars
    BY <1>1, QueueStutters DEF vars, StatusKept, HoldersKept, Holders, Claimed, At
  <1>2. ASSUME NEW a \in Sender, TaskStep(a) PROVE Queue!Next \/ UNCHANGED Queue!vars
    BY <1>2, TaskStepMaps
  <1>3. ASSUME NEW m \in Message, CreateOutboxMessage(m) PROVE Queue!Next
    BY <1>3, CreateIsEnqueue DEF Queue!Next
  <1>4. ASSUME NEW m \in Message,
               \/ CreateOutboxAttachment(m) \/ BackoffElapses(m)
               \/ \E r \in Rcpt : DeleteRow(m, r)
        PROVE  UNCHANGED Queue!vars
    <2>1. StatusKept
      <3>1. CASE CreateOutboxAttachment(m)
        BY <3>1 DEF CreateOutboxAttachment, StatusKept
      <3>2. CASE BackoffElapses(m)
        BY <1>0, <3>2 DEF BackoffElapses, StatusKept, TypeOK, OutboxRow
      <3> QED BY <1>4, <3>1, <3>2 DEF DeleteRow, StatusKept
    <2>2. task' = task /\ UNCHANGED <<copies, told, unbounced, saved>>
      BY <1>4 DEF CreateOutboxAttachment, BackoffElapses, DeleteRow, history
    <2>3. HoldersKept
      BY <2>2 DEF HoldersKept, Holders, Claimed, At
    <2> QED BY <2>1, <2>2, <2>3, QueueStutters
  <1>5. ASSUME NEW a \in Sender, NEW m \in Message, Scan(a, m) PROVE UNCHANGED Queue!vars
    <2>1. /\ ~Claimed(a) /\ ~Claimed(a)'
          /\ \A b \in Sender : b # a => task'[b] = task[b]
      BY <1>0, <1>5 DEF Scan, Claimed, At, Idle, TypeOK
    <2>2. HoldersKept
      BY <2>1 DEF HoldersKept, Holders, Claimed, At
    <2> QED BY <1>5, <2>2, QueueStutters DEF Scan, StatusKept, history
  <1>6. CASE Restart
    BY <1>6, RestartIsRecover DEF Queue!Next
  <1> QED BY <1>1, <1>2, <1>3, <1>4, <1>5, <1>6 DEF Next

\* The outbox implements the queue: one holder at a time from the claim to the
\* copy in Sent, nothing sent or reported but by the holder, an answer for
\* everybody before a final status, which is never taken back.
THEOREM OutboxImplementsQueue == Spec => ImplementsSendQueue
  BY QueueInit, QueueStep, Invariance, BooksAlwaysBalance, PTL
     DEF Spec, Queue!Spec, ImplementsSendQueue

-----------------------------------------------------------------------------
(* What the queue gives whoever relies on it, from the queue's own steps.  *)

Answer(m, copied, reported) ==
    m \in unbounced \/ RcptOf[m] \subseteq copied \cup Self(m) \cup reported
Copied(m) == {r \in RcptOf[m] : copies[m][r] > 0}

\* The promise, message by message, and that a sent message reached somebody.
Promised(m, status, hs, copied, reported) ==
    /\ \A a, b \in hs : a = b
    /\ hs # {} => status \in {"sending", "sent"}
    /\ status \in {"sent", "failed"} => Answer(m, copied, reported)
    /\ status = "sent" => RcptOf[m] \cap (copied \cup Self(m)) # {}
    /\ m \in saved => status = "sent"

PromiseNow ==
    /\ saved \subseteq Message
    /\ told = [m \in Message |-> told[m]]
    /\ \A m \in Message : Promised(m, row[m].status, Holders(m), Copied(m), told[m])

\* It is no less than what the queue promises.
LEMMA PromiseIs ==
  PromiseNow => Queue!Promise
  BY DEF PromiseNow, Promised, Answer, Copied, Queue!Promise, Queue!OneHolder,
         Queue!FinalIsAnswered, Queue!FiledWasSent, Queue!Answered

Status(m, st) ==
    \A n \in Message : row'[n].status = IF n = m THEN st ELSE row[n].status
Holding(m, hs) ==
    \A n \in Message : Holders(n)' = IF n = m THEN hs ELSE Holders(n)

\* What a step of the queue does to the status, the holders and the copies of a
\* message.
LEMMA QueuePoints ==
  /\ UNCHANGED [m \in Message |-> row[m].status] => StatusKept
  /\ UNCHANGED [m \in Message |-> Holders(m)] => HoldersKept
  /\ UNCHANGED [m \in Message |-> {r \in RcptOf[m] : copies[m][r] > 0}]
       => \A m \in Message : Copied(m)' = Copied(m)
  /\ \A m \in Message, st \in {"pending", "sending", "sent", "failed"} :
       Queue!Become(m, st) => Status(m, st)
  /\ \A m \in Message : Queue!LetGo(m) => Holding(m, {})
  /\ \A m \in Message, a \in Sender : Queue!Take(m, a) => Holding(m, {a})
  /\ \A m \in Message, rs \in SUBSET Rcpt : Queue!Reach(m, rs) =>
       \A n \in Message : Copied(n)' = IF n = m THEN Copied(m) \cup rs ELSE Copied(n)
  <1>1. UNCHANGED [m \in Message |-> row[m].status] => StatusKept
    <2> SUFFICES ASSUME UNCHANGED [m \in Message |-> row[m].status], NEW n \in Message
                 PROVE  row'[n].status = row[n].status
      BY DEF StatusKept
    <2>1. [m \in Message |-> row'[m].status][n] = [m \in Message |-> row[m].status][n]
      OBVIOUS
    <2> QED BY <2>1
  <1>2. UNCHANGED [m \in Message |-> Holders(m)] => HoldersKept
    <2> SUFFICES ASSUME UNCHANGED [m \in Message |-> Holders(m)], NEW n \in Message
                 PROVE  Holders(n)' = Holders(n)
      BY DEF HoldersKept
    <2>1. [m \in Message |-> Holders(m)]'[n] = [m \in Message |-> Holders(m)][n]
      OBVIOUS
    <2> QED BY <2>1
  <1>3. UNCHANGED [m \in Message |-> {r \in RcptOf[m] : copies[m][r] > 0}]
          => \A m \in Message : Copied(m)' = Copied(m)
    <2> SUFFICES ASSUME UNCHANGED [m \in Message |-> {r \in RcptOf[m] : copies[m][r] > 0}],
                        NEW n \in Message
                 PROVE  Copied(n)' = Copied(n)
      OBVIOUS
    <2>1. [m \in Message |-> {r \in RcptOf[m] : copies'[m][r] > 0}][n]
            = [m \in Message |-> {r \in RcptOf[m] : copies[m][r] > 0}][n]
      OBVIOUS
    <2> QED BY <2>1 DEF Copied
  <1>4. ASSUME NEW m \in Message, NEW st \in {"pending", "sending", "sent", "failed"},
               Queue!Become(m, st), NEW n \in Message
        PROVE  row'[n].status = IF n = m THEN st ELSE row[n].status
    <2>1. [k \in Message |-> row'[k].status][n]
            = [[k \in Message |-> row[k].status] EXCEPT ![m] = st][n]
      BY <1>4 DEF Queue!Become
    <2> QED BY <2>1
  <1>5. ASSUME NEW m \in Message, Queue!LetGo(m), NEW n \in Message
        PROVE  Holders(n)' = IF n = m THEN {} ELSE Holders(n)
    <2>1. [k \in Message |-> Holders(k)]'[n]
            = [[k \in Message |-> Holders(k)] EXCEPT ![m] = {}][n]
      BY <1>5 DEF Queue!LetGo
    <2> QED BY <2>1
  <1>6. ASSUME NEW m \in Message, NEW a \in Sender, Queue!Take(m, a), NEW n \in Message
        PROVE  Holders(n)' = IF n = m THEN {a} ELSE Holders(n)
    <2>1. [k \in Message |-> Holders(k)]'[n]
            = [[k \in Message |-> Holders(k)] EXCEPT ![m] = {a}][n]
      BY <1>6 DEF Queue!Take
    <2> QED BY <2>1
  <1>7. ASSUME NEW m \in Message, NEW rs \in SUBSET Rcpt, Queue!Reach(m, rs),
               NEW n \in Message
        PROVE  Copied(n)' = IF n = m THEN Copied(m) \cup rs ELSE Copied(n)
    <2>1. [k \in Message |-> {r \in RcptOf[k] : copies'[k][r] > 0}][n]
            = [[k \in Message |-> {r \in RcptOf[k] : copies[k][r] > 0}]
                  EXCEPT ![m] = @ \cup rs][n]
      BY <1>7 DEF Queue!Reach
    <2> QED BY <2>1 DEF Copied
  <1> QED BY <1>1, <1>2, <1>3, <1>4, <1>5, <1>6, <1>7 DEF Status, Holding

\* Each of the queue's steps keeps its promise.
LEMMA QueueStepKeeps ==
  ASSUME PromiseNow, Queue!Next
  PROVE  PromiseNow'
  <1>0. /\ \A n \in Message : RcptOf[n] \subseteq Rcpt
        /\ \A n \in Message : Self(n)' = Self(n)
        /\ saved \subseteq Message /\ told = [n \in Message |-> told[n]]
    BY OutboxAssumption DEF Self, PromiseNow
  <1>1. ASSUME NEW m \in Message, Queue!Enqueue(m) PROVE PromiseNow'
    <2>1. /\ row[m].status = "draft" /\ Status(m, "pending") /\ HoldersKept
          /\ UNCHANGED <<told, unbounced, saved>>
          /\ \A n \in Message : Copied(n)' = Copied(n)
      BY <1>1, QueuePoints DEF Queue!Enqueue
    <2> QED BY <1>0, <2>1
               DEF PromiseNow, Promised, Answer, StatusKept, HoldersKept, Status, Holding
  <1>2. ASSUME NEW m \in Message, NEW a \in Sender, Queue!Take(m, a) PROVE PromiseNow'
    <2>1. row[m].status = "pending" /\ Status(m, "sending")
          /\ UNCHANGED <<told, unbounced, saved>>
          /\ \A n \in Message : Copied(n)' = Copied(n)
      BY <1>2, QueuePoints DEF Queue!Take
    <2>2. Holding(m, {a})
      BY <1>2, QueuePoints
    <2> QED BY <1>0, <2>1, <2>2
               DEF PromiseNow, Promised, Answer, StatusKept, HoldersKept, Status, Holding
  <1>3. ASSUME NEW m \in Message, NEW rs \in SUBSET RcptOf[m], Queue!Reach(m, rs)
        PROVE  PromiseNow'
    <2>1. StatusKept /\ HoldersKept /\ UNCHANGED <<told, unbounced, saved>>
      BY <1>3, QueuePoints DEF Queue!Reach
    <2>2. \A n \in Message : Copied(n) \subseteq Copied(n)'
      BY <1>0, <1>3, QueuePoints
    <2> QED BY <1>0, <2>1, <2>2
               DEF PromiseNow, Promised, Answer, StatusKept, HoldersKept, Status, Holding
  <1>4. ASSUME NEW m \in Message, NEW rs \in SUBSET RcptOf[m], Queue!Report(m, rs)
        PROVE  PromiseNow'
    <2>1. /\ StatusKept /\ HoldersKept /\ UNCHANGED <<unbounced, saved>>
          /\ \A n \in Message : Copied(n)' = Copied(n)
          /\ told' = [told EXCEPT ![m] = @ \cup rs]
      BY <1>4, QueuePoints DEF Queue!Report
    <2>2. \A n \in Message : told[n] \subseteq told'[n]
      BY <1>0, <2>1
    <2>3. told' = [n \in Message |-> told'[n]]
      BY <1>0, <2>1
    <2> QED BY <1>0, <2>1, <2>2, <2>3
               DEF PromiseNow, Promised, Answer, StatusKept, HoldersKept, Status, Holding
  <1>5. ASSUME NEW m \in Message, Queue!KeepSilent(m) PROVE PromiseNow'
    <2>1. /\ StatusKept /\ HoldersKept /\ UNCHANGED <<told, saved>>
          /\ \A n \in Message : Copied(n)' = Copied(n)
          /\ unbounced \subseteq unbounced'
      BY <1>5, QueuePoints DEF Queue!KeepSilent
    <2> QED BY <1>0, <2>1
               DEF PromiseNow, Promised, Answer, StatusKept, HoldersKept, Status, Holding
  <1>6. ASSUME NEW m \in Message, Queue!GiveBack(m) PROVE PromiseNow'
    <2>1. /\ row[m].status = "sending" /\ Status(m, "pending") /\ Holding(m, {})
          /\ UNCHANGED <<told, unbounced, saved>>
          /\ \A n \in Message : Copied(n)' = Copied(n)
      BY <1>6, QueuePoints, HeldIs DEF Queue!GiveBack
    <2> QED BY <1>0, <2>1
               DEF PromiseNow, Promised, Answer, StatusKept, HoldersKept, Status, Holding
  <1>7. ASSUME NEW m \in Message, Queue!Succeed(m) PROVE PromiseNow'
    <2>1. /\ row[m].status = "sending" /\ Status(m, "sent") /\ HoldersKept
          /\ UNCHANGED <<told, unbounced, saved>>
          /\ \A n \in Message : Copied(n)' = Copied(n)
      BY <1>7, QueuePoints, HeldIs DEF Queue!Succeed
    <2>2. Answer(m, Copied(m), told[m]) /\ RcptOf[m] \cap (Copied(m) \cup Self(m)) # {}
      BY <1>7 DEF Queue!Succeed, Queue!Answered, Copied, Answer
    <2> QED BY <1>0, <2>1, <2>2
               DEF PromiseNow, Promised, Answer, StatusKept, HoldersKept, Status, Holding
  <1>8. ASSUME NEW m \in Message, NEW rs \in SUBSET RcptOf[m], Queue!Fail(m, rs)
        PROVE  PromiseNow'
    <2>1. /\ row[m].status = "sending" /\ Status(m, "failed") /\ Holding(m, {})
          /\ UNCHANGED <<unbounced, saved>>
          /\ \A n \in Message : Copied(n)' = Copied(n)
          /\ told' = [told EXCEPT ![m] = @ \cup rs]
      BY <1>8, QueuePoints, HeldIs DEF Queue!Fail
    <2>2. Answer(m, Copied(m), told[m] \cup rs)
      BY <1>8 DEF Queue!Fail, Queue!Answered, Copied, Answer
    <2>3. /\ told' = [n \in Message |-> told'[n]] /\ told'[m] = told[m] \cup rs
          /\ \A n \in Message : n # m => told'[n] = told[n]
      BY <1>0, <2>1
    <2> QED BY <1>0, <2>1, <2>2, <2>3
               DEF PromiseNow, Promised, Answer, StatusKept, HoldersKept, Status, Holding
  <1>9. ASSUME NEW m \in Message, Queue!Leave(m) PROVE PromiseNow'
    <2>1. /\ StatusKept /\ Holding(m, {}) /\ UNCHANGED <<told, unbounced, saved>>
          /\ \A n \in Message : Copied(n)' = Copied(n)
      BY <1>9, QueuePoints DEF Queue!Leave
    <2> QED BY <1>0, <2>1
               DEF PromiseNow, Promised, Answer, StatusKept, HoldersKept, Status, Holding
  <1>10. ASSUME NEW m \in Message, Queue!File(m) PROVE PromiseNow'
    <2>1. /\ StatusKept /\ Holding(m, {}) /\ UNCHANGED <<told, unbounced>>
          /\ \A n \in Message : Copied(n)' = Copied(n)
          /\ saved' = saved \cup {m} /\ row[m].status = "sent"
      BY <1>10, QueuePoints, HeldIs DEF Queue!File
    <2> QED BY <1>0, <2>1
               DEF PromiseNow, Promised, Answer, StatusKept, HoldersKept, Status, Holding
  <1>11. CASE Queue!Recover
    <2>1. UNCHANGED <<told, unbounced, saved>> /\ \A n \in Message : Copied(n)' = Copied(n)
      BY <1>11, QueuePoints DEF Queue!Recover
    <2>2. ASSUME NEW n \in Message
          PROVE  /\ row'[n].status = IF row[n].status = "sending" THEN "pending"
                                     ELSE row[n].status
                 /\ Holders(n)' = {}
      <3>1. [k \in Message |-> row'[k].status][n]
              = [k \in Message |-> IF row[k].status = "sending" THEN "pending"
                                   ELSE row[k].status][n]
        BY <1>11 DEF Queue!Recover
      <3>2. [k \in Message |-> Holders(k)]'[n] = [k \in Message |-> {}][n]
        BY <1>11 DEF Queue!Recover
      <3> QED BY <3>1, <3>2
    <2> QED BY <1>0, <2>1, <2>2
               DEF PromiseNow, Promised, Answer, StatusKept, HoldersKept, Status, Holding
  <1> QED BY <1>1, <1>2, <1>3, <1>4, <1>5, <1>6, <1>7, <1>8, <1>9, <1>10, <1>11
             DEF Queue!Next

\* So do the steps it does not see.
LEMMA QueueStutterKeeps ==
  ASSUME PromiseNow, UNCHANGED Queue!vars
  PROVE  PromiseNow'
  <1>1. /\ StatusKept /\ HoldersKept /\ UNCHANGED <<told, unbounced, saved>>
        /\ \A n \in Message : Copied(n)' = Copied(n)
    BY QueuePoints DEF Queue!vars
  <1> QED BY <1>1 DEF PromiseNow, Promised, Answer, StatusKept, HoldersKept, Self

\* Whoever knows of the outbox only that it is such a queue may rely on this: one
\* holder at a time, an answer for everybody in a final message, and in Sent
\* only what was sent to somebody.
THEOREM QueueKeepsPromise == Queue!Spec => []Queue!Promise
  <1>1. Queue!Init => PromiseNow
    <2> SUFFICES ASSUME Queue!Init PROVE PromiseNow
      OBVIOUS
    <2>1. ASSUME NEW m \in Message
          PROVE  row[m].status = "draft" /\ Holders(m) = {} /\ m \notin saved
      <3>1. /\ [k \in Message |-> row[k].status][m] = [k \in Message |-> "draft"][m]
            /\ [k \in Message |-> Holders(k)][m] = [k \in Message |-> {}][m]
        BY DEF Queue!Init
      <3> QED BY <3>1 DEF Queue!Init
    <2>2. saved = {} /\ told = [m \in Message |-> {}]
      BY DEF Queue!Init
    <2> QED BY <2>1, <2>2 DEF PromiseNow, Promised
  <1>2. PromiseNow /\ [Queue!Next]_Queue!vars => PromiseNow'
    BY QueueStepKeeps, QueueStutterKeeps
  <1> QED BY <1>1, <1>2, PromiseIs, PTL DEF Queue!Spec

\* And on this: what is sent or failed stays so.
THEOREM QueueFinalIsFinal == Queue!Spec => Queue!FinalIsFinal
  <1> DEFINE Final(m) == row[m].status \in {"sent", "failed"}
  <1>1. ASSUME Queue!Next \/ UNCHANGED Queue!vars, NEW m \in Message, Final(m)
        PROVE  row'[m].status = row[m].status
    <2>1. CASE StatusKept
      BY <2>1 DEF StatusKept
    <2>2. ASSUME NEW n \in Message,
                 \/ Queue!Enqueue(n) \/ Queue!GiveBack(n) \/ Queue!Succeed(n)
                 \/ \E a \in Sender : Queue!Take(n, a)
                 \/ \E rs \in SUBSET RcptOf[n] : Queue!Fail(n, rs)
          PROVE  row'[m].status = row[m].status
      <3>1. row[n].status \in {"draft", "pending", "sending"}
        BY <2>2, HeldIs
           DEF Queue!Enqueue, Queue!GiveBack, Queue!Succeed, Queue!Take, Queue!Fail
      <3>2. \E st \in {"pending", "sending", "sent", "failed"} : Status(n, st)
        BY <2>2, QueuePoints
           DEF Queue!Enqueue, Queue!GiveBack, Queue!Succeed, Queue!Take, Queue!Fail
      <3> QED BY <1>1, <3>1, <3>2 DEF Status
    <2>3. CASE Queue!Recover
      <3>1. [k \in Message |-> row'[k].status][m]
              = [k \in Message |-> IF row[k].status = "sending" THEN "pending"
                                   ELSE row[k].status][m]
        BY <2>3 DEF Queue!Recover
      <3> QED BY <1>1, <3>1
    <2>4. \/ StatusKept \/ Queue!Recover
          \/ \E n \in Message :
                \/ Queue!Enqueue(n) \/ Queue!GiveBack(n) \/ Queue!Succeed(n)
                \/ \E a \in Sender : Queue!Take(n, a)
                \/ \E rs \in SUBSET RcptOf[n] : Queue!Fail(n, rs)
      BY <1>1, QueuePoints
         DEF Queue!Next, Queue!vars, Queue!Reach, Queue!Report, Queue!KeepSilent,
             Queue!Leave, Queue!File
    <2> QED BY <2>1, <2>2, <2>3, <2>4
  <1>2. [Queue!Next]_Queue!vars => [Queue!FinalKept]_Queue!vars
    BY <1>1 DEF Queue!FinalKept
  <1> QED BY <1>2, PTL DEF Queue!Spec, Queue!FinalIsFinal

\* The outbox keeps what the queue promises.
THEOREM OutboxKeepsPromise == Spec => []Queue!Promise
  BY OutboxImplementsQueue, QueueKeepsPromise, PTL DEF ImplementsSendQueue

=============================================================================
