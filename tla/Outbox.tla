------------------------------- MODULE Outbox -------------------------------
(***************************************************************************)
(* The outbox: db/outbox.go and the two tasks that empty it.               *)
(*                                                                         *)
(*   SendTask        relays a message through the user's SMTP account:     *)
(*                   one transaction for all its recipients                *)
(*   DirectSendTask  delivers recipient by recipient: into the mailboxes   *)
(*                   of this server, then to the MX of everybody else      *)
(*                                                                         *)
(* An action is one database statement or one delivery; the process may    *)
(* die between any two.  Nothing here relies on the worker pool: several   *)
(* tasks of one message may run, as stale tasks and racing scans would.    *)
(***************************************************************************)
EXTENDS Naturals, FiniteSets

CONSTANTS Message,     \* rows of outbox_messages
          Relay,       \* those sent through an external SMTP account
          Raw,         \* those queued with raw_email, hence a fixed Message-ID
          Rcpt,        \* recipient addresses
          RcptOf,      \* [Message -> SUBSET Rcpt]
          Dest,        \* [Rcpt -> {"self", "local", "external", "unknown"}]
          Attached,    \* those whose attachments are stored after the row
          Sender,      \* send tasks that may exist at a time
          MaxQueued,   \* bound: messages queued
          MaxRetries,  \* maxRetries
          MaxRestarts, \* bound: how often the process dies
          None

ASSUME OutboxAssumption ==
    /\ Relay \subseteq Message
    /\ Raw \subseteq Message
    /\ Attached \subseteq Message \ Raw
    /\ MaxQueued \in Nat
    /\ RcptOf \in [Message -> SUBSET Rcpt]
    /\ Dest \in [Rcpt -> {"self", "local", "external", "unknown"}]
    /\ MaxRetries \in Nat \ {0}
    /\ MaxRestarts \in Nat
    /\ None \notin Message

VARIABLES row,       \* outbox_messages: status, retries, is next_attempt_at over?
          task,      \* the send tasks
          copies,    \* what recipients got: 0, 1 or 2 (two or more) copies
          inbox,     \* local recipients whose mailbox has a row with the Message-ID
          saved,     \* messages with a copy in the sender's Sent folder
          told,      \* recipients a DSN or last_error names to the sender
          restarts,  \* how often the process died
          composing, \* messages whose attachments are being stored
          tries,     \* history: failed attempts, rejected logins not counted
          refused,   \* history: recipients refused for good
          unbounced, \* history: messages whose DSN could not be stored
          excused,   \* history: messages whose sending lost its outcome
          bare       \* history: messages taken for sending while composing

vars == <<row, task, copies, inbox, saved, told, restarts, composing, tries, refused,
          unbounced, excused, bare>>

\* A draft is a message nobody has queued yet.
OutboxRow == [status : {"draft", "pending", "sending", "sent", "failed"},
              retries : Nat, due : BOOLEAN]
SendTaskState ==
    [pc : {"idle", "queued", "deliver", "defer", "count", "requeue", "bounce",
           "settle", "note", "save"},
     msg : Message \cup {None},
     seen : Nat,              \* the row's retries when the task was created
     todo : SUBSET Rcpt,      \* recipients not handled yet
     got : SUBSET Rcpt,       \* delivered in this attempt
     failed : SUBSET Rcpt,    \* refused for good
     pending : SUBSET Rcpt]   \* failed for now

TypeOK ==
    /\ row \in [Message -> OutboxRow]
    /\ task \in [Sender -> SendTaskState]
    /\ copies \in [Message -> [Rcpt -> 0..2]]
    /\ inbox \in [Message -> SUBSET Rcpt]
    /\ saved \subseteq Message
    /\ told \in [Message -> SUBSET Rcpt]
    /\ restarts \in 0..MaxRestarts
    /\ composing \subseteq Message
    /\ tries \in [Message -> 0..MaxRetries]
    /\ refused \in [Message -> SUBSET Rcpt]
    /\ unbounced \subseteq Message
    /\ excused \subseteq Message
    /\ bare \subseteq Message

Idle == [pc |-> "idle", msg |-> None, seen |-> 0, todo |-> {}, got |-> {},
         failed |-> {}, pending |-> {}]

Init ==
    /\ row = [m \in Message |-> [status |-> "draft", retries |-> 0, due |-> TRUE]]
    /\ task = [a \in Sender |-> Idle]
    /\ copies = [m \in Message |-> [r \in Rcpt |-> 0]]
    /\ inbox = [m \in Message |-> {}]
    /\ saved = {}
    /\ told = [m \in Message |-> {}]
    /\ restarts = 0
    /\ composing = {}
    /\ tries = [m \in Message |-> 0]
    /\ refused = [m \in Message |-> {}]
    /\ unbounced = {}
    /\ excused = {}
    /\ bare = {}

-----------------------------------------------------------------------------
(* Queueing. *)

history == <<tries, refused, unbounced, excused>>
queueing == <<composing, bare>>

Queued == {m \in Message : row[m].status # "draft"}

\* CreateOutboxMessage: the SMTP submission and the desktop client queue a
\* message as it is, the web form one whose attachments follow.
CreateOutboxMessage(m) ==
    /\ m \notin Queued
    /\ Cardinality(Queued) < MaxQueued
    /\ row' = [row EXCEPT ![m].status = "pending"]
    /\ composing' = IF m \in Attached THEN composing \cup {m} ELSE composing
    /\ UNCHANGED <<task, copies, inbox, saved, told, restarts, history, bare>>

\* The last attachment is stored, or could not be, which is only logged.
CreateOutboxAttachment(m) ==
    /\ m \in composing
    /\ composing' = composing \ {m}
    /\ UNCHANGED <<row, task, copies, inbox, saved, told, restarts, history, bare>>

-----------------------------------------------------------------------------
(* Scan and claim. *)

Due(m) == row[m].status = "pending" /\ row[m].due

At(a, label) == task[a].pc = label
Goto(a, label) == task' = [task EXCEPT ![a].pc = label]
Leave(a) == task' = [task EXCEPT ![a] = Idle]

\* scheduleSMTPSend.  While the account's logins are on hold the scan and the
\* task leave the message alone.
Scan(a, m) ==
    /\ At(a, "idle")
    /\ Due(m)
    /\ task' = [task EXCEPT ![a] = [Idle EXCEPT !.pc = "queued", !.msg = m,
                                                !.seen = row[m].retries]]
    /\ UNCHANGED <<row, copies, inbox, saved, told, restarts, history, queueing>>

\* ClaimOutboxMessage, lost or failed; the task is cancelled before it, or finds
\* the account's login on hold.
NoClaim(a) ==
    /\ At(a, "queued")
    /\ Leave(a)
    /\ UNCHANGED <<row, copies, inbox, saved, told, restarts, history, queueing>>

\* ClaimOutboxMessage, won.  A message without recipients fails at once; of a
\* direct message those addresses are sorted out that this server hosts and
\* does not know, and those of the sender, who reads the copy in Sent; such a
\* Lookup may fail for now.
Unknown(m) == IF m \in Relay THEN {} ELSE {r \in RcptOf[m] : Dest[r] = "unknown"}
Self(m) == IF m \in Relay THEN {} ELSE {r \in RcptOf[m] : Dest[r] = "self"}

Take(a) ==
    LET m == task[a].msg IN
    /\ row' = [row EXCEPT ![m].status = "sending"]
    /\ \E open \in SUBSET (Self(m) \cup Unknown(m)) :
          /\ task' = [task EXCEPT ![a] =
                        [@ EXCEPT !.pc = IF RcptOf[m] = {} THEN "settle" ELSE "deliver",
                                  !.todo = RcptOf[m] \ (Self(m) \cup Unknown(m)),
                                  !.got = Self(m) \ open,
                                  !.failed = Unknown(m) \ open,
                                  !.pending = open]]
          /\ refused' = [refused EXCEPT ![m] = @ \cup (Unknown(m) \ open)]
    /\ bare' = bare \cup ({m} \cap composing)
    /\ UNCHANGED <<copies, inbox, saved, told, restarts, composing, tries, unbounced,
                   excused>>

\* Mutant: the status is set without asking for 'pending'.
ClaimAnyway(a) == At(a, "queued") /\ Take(a)

Claim(a) == At(a, "queued") /\ Due(task[a].msg) /\ Take(a)

-----------------------------------------------------------------------------
(* Delivery. *)

OneMore(n) == IF n = 2 THEN 2 ELSE n + 1

\* CreateMessage answers ErrDuplicateMessage to a Message-ID the mailbox has a row
\* of, in the vault too.
Known(m, r) == r \in inbox[m]

\* A message without raw_email gets a new Message-ID at every attempt, so that no
\* row of it has the one of the next.
Receives(m, rs) ==
    /\ copies' = [copies EXCEPT ![m] =
                    [r \in Rcpt |-> IF r \in rs /\ ~Known(m, r) THEN OneMore(@[r])
                                    ELSE @[r]]]
    /\ inbox' = [inbox EXCEPT ![m] = @ \cup {r \in rs : Dest[r] = "local" /\ m \in Raw \ Relay}]

\* What one delivery to the recipients rs comes to.  A temporary error may hide
\* that the other side has taken the message: its answer was lost.
Accepted(a, rs) ==
    /\ Receives(task[a].msg, rs)
    /\ task' = [task EXCEPT ![a].todo = @ \ rs, ![a].got = @ \cup rs]
    /\ UNCHANGED <<refused, excused>>

Refused(a, rs) ==
    /\ task' = [task EXCEPT ![a].todo = @ \ rs, ![a].failed = @ \cup rs]
    /\ refused' = [refused EXCEPT ![task[a].msg] = @ \cup rs]
    /\ UNCHANGED <<copies, inbox, excused>>

FailedForNow(a, rs) ==
    /\ task' = [task EXCEPT ![a].todo = @ \ rs, ![a].pending = @ \cup rs]
    /\ UNCHANGED <<copies, inbox, refused, excused>>

AnswerLost(a, rs) ==
    /\ task' = [task EXCEPT ![a].todo = @ \ rs, ![a].pending = @ \cup rs]
    /\ Receives(task[a].msg, rs)
    /\ excused' = excused \cup {task[a].msg}
    /\ UNCHANGED refused

\* DirectSendTask: Deliverer.Deliver for the local recipients, then
\* SendDirectEach; a mailbox of this server never refuses for good.
DeliverDirect(a, r) ==
    LET local == {x \in task[a].todo : Dest[x] = "local"} IN
    /\ At(a, "deliver")
    /\ task[a].msg \notin Relay
    /\ r \in task[a].todo
    /\ local # {} => r \in local
    /\ \/ Accepted(a, {r})
       \/ FailedForNow(a, {r})
       \/ r \notin local /\ (Refused(a, {r}) \/ AnswerLost(a, {r}))
    /\ UNCHANGED <<row, saved, told, restarts, tries, unbounced, queueing>>

\* SendTask: one SMTP transaction with the relay for all recipients.
DeliverRelay(a) ==
    LET rs == task[a].todo IN
    /\ At(a, "deliver")
    /\ task[a].msg \in Relay
    /\ rs # {}
    /\ Accepted(a, rs) \/ Refused(a, rs) \/ FailedForNow(a, rs) \/ AnswerLost(a, rs)
    /\ UNCHANGED <<row, saved, told, restarts, tries, unbounced, queueing>>

\* The relay rejects the account's password before it sees the message.
RejectLogin(a) ==
    /\ At(a, "deliver")
    /\ task[a].msg \in Relay
    /\ task[a].todo # {}
    /\ Goto(a, "defer")
    /\ UNCHANGED <<row, copies, inbox, saved, told, restarts, history, queueing>>

\* All recipients handled.  The relay task counts every error; the direct task
\* only those that may yet go away.
AllHandled(a) ==
    LET t == task[a] IN
    /\ At(a, "deliver")
    /\ t.todo = {}
    /\ Goto(a, IF t.pending # {} \/ (t.msg \in Relay /\ t.failed # {}) THEN "count"
               ELSE IF t.failed # {} THEN "bounce" ELSE "settle")
    /\ UNCHANGED <<row, copies, inbox, saved, told, restarts, history, queueing>>

-----------------------------------------------------------------------------
(* Recording the outcome. *)

\* Mutant: one attempt too few.
AfterAttemptEarly(a, n) ==
    LET t == task[a]
        direct == t.msg \notin Relay
    IN  IF n < MaxRetries - 1 /\ (direct \/ t.failed = {})
        THEN [t EXCEPT !.pc = "requeue"]
        ELSE [t EXCEPT !.pc = IF direct THEN "bounce" ELSE "settle",
                       !.failed = @ \cup t.pending]

\* Mutant: the recipients given up on are not reported.
AfterAttemptSilent(a, n) ==
    LET t == task[a]
        direct == t.msg \notin Relay
    IN  IF n < MaxRetries /\ (direct \/ t.failed = {})
        THEN [t EXCEPT !.pc = "requeue"]
        ELSE [t EXCEPT !.pc = IF direct THEN "bounce" ELSE "settle"]

\* Try again, or give up: n attempts have failed.  The relay task sends no DSN.
AfterAttempt(a, n) ==
    LET t == task[a]
        direct == t.msg \notin Relay
    IN  IF n < MaxRetries /\ (direct \/ t.failed = {})
        THEN [t EXCEPT !.pc = "requeue"]
        ELSE [t EXCEPT !.pc = IF direct THEN "bounce" ELSE "settle",
                       !.failed = @ \cup t.pending]

CountTry(m) == tries' = [tries EXCEPT ![m] = IF @ < MaxRetries THEN @ + 1 ELSE @]

\* Mutant: the statement fails every time, as it did while Postgres could not
\* deduce the type of a parameter.
CountNothing(a) ==
    /\ At(a, "count")
    /\ task' = [task EXCEPT ![a] = AfterAttempt(a, task[a].seen + 1)]
    /\ CountTry(task[a].msg)
    /\ UNCHANGED <<row, copies, inbox, saved, told, restarts, refused, unbounced, excused,
                   queueing>>

\* IncrementOutboxMessageRetries, which also moves next_attempt_at.
Count(a) ==
    LET m == task[a].msg IN
    /\ At(a, "count")
    /\ row' = [row EXCEPT ![m] = [status |-> @.status, retries |-> @.retries + 1,
                                  due |-> FALSE]]
    /\ task' = [task EXCEPT ![a] = AfterAttempt(a, row[m].retries + 1)]
    /\ CountTry(m)
    /\ UNCHANGED <<copies, inbox, saved, told, restarts, refused, unbounced, excused,
                   queueing>>

\* The statement fails: the task goes by the count it was created with.
CountFails(a) ==
    /\ At(a, "count")
    /\ task' = [task EXCEPT ![a] = AfterAttempt(a, task[a].seen + 1)]
    /\ CountTry(task[a].msg)
    /\ UNCHANGED <<row, copies, inbox, saved, told, restarts, refused, unbounced, excused,
                   queueing>>

\* UpdateOutboxMessageStatus(pending), after a failed attempt or a rejected login.
Requeue(a) ==
    /\ At(a, "requeue") \/ At(a, "defer")
    /\ row' = [row EXCEPT ![task[a].msg].status = "pending"]
    /\ Leave(a)
    /\ UNCHANGED <<copies, inbox, saved, told, restarts, history, queueing>>

Bounce(a) ==
    LET m == task[a].msg IN
    /\ At(a, "bounce")
    /\ Goto(a, "settle")
    /\ \/ told' = [told EXCEPT ![m] = @ \cup task[a].failed] /\ UNCHANGED unbounced
       \/ unbounced' = unbounced \cup {m} /\ UNCHANGED told
    /\ UNCHANGED <<row, copies, inbox, saved, restarts, tries, refused, excused, queueing>>

\* UpdateOutboxMessageStatus(failed) with the reason in last_error, or
\* MarkOutboxMessageSent.
SettleFailed(a) ==
    LET m == task[a].msg IN
    /\ At(a, "settle")
    /\ task[a].got = {}
    /\ row' = [row EXCEPT ![m].status = "failed"]
    /\ told' = [told EXCEPT ![m] = @ \cup task[a].failed]
    /\ Leave(a)
    /\ UNCHANGED <<copies, inbox, saved, restarts, history, queueing>>

\* Mutant: nobody asks whether somebody has got the message.
SettleSentAnyway(a) ==
    /\ At(a, "settle")
    /\ row' = [row EXCEPT ![task[a].msg].status = "sent"]
    /\ Goto(a, IF task[a].failed # {} THEN "note" ELSE "save")
    /\ UNCHANGED <<copies, inbox, saved, told, restarts, history, queueing>>

SettleSent(a) ==
    /\ At(a, "settle")
    /\ task[a].got # {}
    /\ row' = [row EXCEPT ![task[a].msg].status = "sent"]
    /\ Goto(a, IF task[a].failed # {} THEN "note" ELSE "save")
    /\ UNCHANGED <<copies, inbox, saved, told, restarts, history, queueing>>

\* The partial failure goes to last_error, or is only logged.
NoteFailed(a) ==
    LET m == task[a].msg IN
    /\ At(a, "note")
    /\ Goto(a, "save")
    /\ \/ row' = [row EXCEPT ![m].status = "sent"]
          /\ told' = [told EXCEPT ![m] = @ \cup task[a].failed]
       \/ UNCHANGED <<row, told>>
    /\ UNCHANGED <<copies, inbox, saved, restarts, history, queueing>>

\* saveToSentFolder, whose errors are logged.
Save(a) ==
    /\ At(a, "save")
    /\ saved' \in {saved, saved \cup {task[a].msg}}
    /\ Leave(a)
    /\ UNCHANGED <<row, copies, inbox, told, restarts, history, queueing>>

\* A status update fails and is only logged: the row stays in 'sending'.
StatusLost(a) ==
    /\ \E label \in {"requeue", "defer", "settle"} : At(a, label)
    /\ excused' = IF At(a, "settle") /\ task[a].got # {}
                  THEN excused \cup {task[a].msg} ELSE excused
    /\ Leave(a)
    /\ UNCHANGED <<row, copies, inbox, saved, told, restarts, tries, refused, unbounced,
                   queueing>>

-----------------------------------------------------------------------------
\* Mutant: the rows whose sending was recorded are freed as well.
RestartFreesSent ==
    /\ restarts < MaxRestarts
    /\ restarts' = restarts + 1
    /\ task' = [a \in Sender |-> Idle]
    /\ composing' = {}
    /\ row' = [m \in Message |->
                 IF row[m].status \in {"sending", "sent"}
                 THEN [row[m] EXCEPT !.status = "pending"] ELSE row[m]]
    /\ excused' = excused \cup {m \in Message : \E a \in Sender :
                                  task[a].msg = m /\ task[a].got # {}}
    /\ UNCHANGED <<copies, inbox, saved, told, tries, refused, unbounced, bare>>

\* The process dies; at startup RecoverStrandedOutboxMessages frees the rows it
\* left in 'sending'.
Restart ==
    /\ restarts < MaxRestarts
    /\ restarts' = restarts + 1
    /\ task' = [a \in Sender |-> Idle]
    /\ composing' = {}
    /\ row' = [m \in Message |->
                 IF row[m].status = "sending" THEN [row[m] EXCEPT !.status = "pending"]
                 ELSE row[m]]
    /\ excused' = excused \cup {m \in Message : \E a \in Sender :
                                  task[a].msg = m /\ task[a].got # {}}
    /\ UNCHANGED <<copies, inbox, saved, told, tries, refused, unbounced, bare>>

\* The recipient's row is deleted for good: PurgeVaultMessages, an EXPUNGE in Trash,
\* an invitation that was applied.
DeleteRow(m, r) ==
    /\ r \in inbox[m]
    /\ inbox' = [inbox EXCEPT ![m] = @ \ {r}]
    /\ UNCHANGED <<row, task, copies, saved, told, restarts, history, queueing>>

BackoffElapses(m) ==
    /\ ~row[m].due
    /\ row' = [row EXCEPT ![m].due = TRUE]
    /\ UNCHANGED <<task, copies, inbox, saved, told, restarts, history, queueing>>

Delivering(a) == DeliverRelay(a) \/ \E r \in Rcpt : DeliverDirect(a, r)

TaskStep(a) ==
    \/ Claim(a) \/ NoClaim(a)
    \/ Delivering(a) \/ RejectLogin(a) \/ AllHandled(a)
    \/ Count(a) \/ CountFails(a) \/ Requeue(a) \/ Bounce(a)
    \/ SettleFailed(a) \/ SettleSent(a) \/ NoteFailed(a) \/ Save(a)
    \/ StatusLost(a)

Next ==
    \/ \E m \in Message : CreateOutboxMessage(m) \/ CreateOutboxAttachment(m)
    \/ \E a \in Sender : TaskStep(a) \/ \E m \in Message : Scan(a, m)
    \/ Restart
    \/ \E m \in Message : BackoffElapses(m) \/ \E r \in Rcpt : DeleteRow(m, r)

Spec == Init /\ [][Next]_vars

\* The scheduler scans, the workers run and time passes; again and again some
\* claim succeeds, some delivery is tried with an accepted password and some
\* failed attempt is counted, not necessarily every time.
Fairness ==
    /\ \A m \in Message : WF_vars(BackoffElapses(m))
    /\ WF_vars(\E a \in Sender, m \in Message : Scan(a, m))
    /\ \A a \in Sender : WF_vars(TaskStep(a))
    /\ SF_vars(\E a \in Sender : Claim(a))
    /\ SF_vars(\E a \in Sender : Delivering(a))
    /\ SF_vars(\E a \in Sender : Count(a))

FairSpec == Spec /\ Fairness

-----------------------------------------------------------------------------
(* Safety. *)

\* The tasks that have claimed a message and not yet recorded the outcome.
Claimed(a) == ~At(a, "idle") /\ ~At(a, "queued")
Sending(a) == Claimed(a) /\ ~At(a, "note") /\ ~At(a, "save")

\* "Only the winner may send" (ClaimOutboxMessage): whatever scans race and
\* however stale a task is, one task at a time works on a message, and its row
\* is in 'sending' until that task has recorded the outcome.
OneSender ==
    /\ \A a, b \in Sender :
          Claimed(a) /\ Claimed(b) /\ task[a].msg = task[b].msg => a = b
    /\ \A a \in Sender : Sending(a) => row[task[a].msg].status = "sending"

\* What is sent or failed stays so: no task that is late, repeated or of before
\* a restart takes the message up again.
FinalStaysFinal ==
    [][\A m \in Message :
          row[m].status \in {"sent", "failed"} => row'[m].status = row[m].status]_vars

\* A message goes out to a relay's recipients once, unless the outcome was lost:
\* the process died in the SMTP transaction's wake, its answer did not arrive,
\* or the database refused to record it.
RelayedOnce ==
    \A m \in Relay, r \in Rcpt : copies[m][r] = 2 => m \in excused

\* "Those who already have the message come back as Duplicate and are not given
\* a second copy" (direct_send_task.go).  The code refutes it: the next attempt has
\* another Message-ID, or the recipient has deleted the row for good since.
LocalOnce ==
    \A m \in Message \ Relay, r \in Rcpt : Dest[r] = "local" => copies[m][r] <= 1

\* "Terminal: everyone is either delivered or definitely failed", and the sender
\* is told of those who failed, unless the database refused the DSN.
NobodyForgotten ==
    \A m \in Message :
        row[m].status \in {"sent", "failed"} /\ m \notin unbounced =>
            \A r \in RcptOf[m] : copies[m][r] > 0 \/ r \in Self(m) \/ r \in told[m]

\* Nobody is reported undeliverable before MaxRetries attempts have failed,
\* unless refused for good: rejected logins, restarts and stale tasks do not
\* use up the budget.
GivesUpLate ==
    \A m \in Message : \A r \in told[m] : r \in refused[m] \/ tries[m] = MaxRetries

\* A copy in Sent means that the message left: it is recorded as sent, and
\* somebody has it.
SavedWasSent ==
    \A m \in saved : /\ row[m].status = "sent"
                     /\ \E r \in RcptOf[m] : copies[m][r] > 0 \/ r \in Self(m)

\* "A trigger fired earlier could race it into sending the message without
\* them" (HandleSendMessage): no message is taken for sending while its
\* attachments are being stored.  The code refutes it: the periodic scan, or the
\* trigger of another message, comes in between.
SentWhole == bare = {}

-----------------------------------------------------------------------------
(* Liveness, under FairSpec. *)

Stranded(m) ==
    row[m].status = "sending" /\ \A a \in Sender : Claimed(a) => task[a].msg # m

\* Every message queued comes to an end and stays there, or waits in 'sending'
\* for the next restart because the database refused a status update: in the
\* end nothing is 'pending' and no task is at work.
ComesToAnEnd ==
    <>[](\A m \in Message :
            row[m].status \in {"draft", "sent", "failed"} \/ Stranded(m))

-----------------------------------------------------------------------------
(* The outbox implements the queue of SendQueue.                           *)

Holders(m) == {a \in Sender : Claimed(a) /\ task[a].msg = m}

Queue == INSTANCE SendQueue WITH
    To <- RcptOf,
    Own <- [m \in Message |-> Self(m)],
    status <- [m \in Message |-> row[m].status],
    holders <- [m \in Message |-> Holders(m)],
    reached <- [m \in Message |-> {r \in RcptOf[m] : copies[m][r] > 0}],
    told <- told, silent <- unbounced, filed <- saved

\* "Only the winner may send" (ClaimOutboxMessage), and what else the code says of
\* a message's way: one task at a time, whatever scans race and however stale a
\* task is, from the claim until it has filed the copy in Sent; nothing reaches
\* anybody outside that time; a final status is final, and gives everybody an
\* answer; a restart frees what was under way, and that only.
ImplementsSendQueue == Queue!Spec
=============================================================================
