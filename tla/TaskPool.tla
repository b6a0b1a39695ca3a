------------------------------ MODULE TaskPool ------------------------------
(***************************************************************************)
(* The worker pool of internal/worker/pool.go: two kinds of worker (IMAP   *)
(* and SMTP), each with a priority ("fast") and a bulk lane, and one set   *)
(* of bookkeeping maps, guarded by Pool.mu, that keeps every logical task  *)
(* single-flight and coalesces the triggers that arrive while it waits.    *)
(*                                                                         *)
(* A task is an object handed to Submit; its logical identity is           *)
(* KeyOf[task], the string Task.String() returns.  Channels are FIFO       *)
(* sequences.  An action is a critical section of Pool.mu, a channel       *)
(* operation or a check of the context: the points between which another   *)
(* goroutine can run.  Statistics are kept as the one number the           *)
(* properties need: submitted minus completed minus failed.                *)
(***************************************************************************)
EXTENDS Integers, Sequences, FiniteSets

CONSTANTS Task,        \* task objects the scheduler and the IDLE manager submit
          Key,         \* values of Task.String()
          Kind,        \* task kinds: IMAP and SMTP
          Worker,      \* worker goroutines, of all kinds
          KeyOf,       \* [Task -> Key]     Task.String()
          KindOf,      \* [Task -> Kind]    Task.Type()
          Fast,        \* tasks whose Priority() is at least fastLanePriority
          WorkerKind,  \* [Worker -> Kind]  imapWorker or smtpWorker
          QueueSize,   \* capacity of each of the four channels
          NoTask       \* "no task in hand", "nothing parked"

ASSUME PoolAssumption ==
    /\ KeyOf \in [Task -> Key]
    /\ KindOf \in [Task -> Kind]
    /\ Fast \subseteq Task
    /\ WorkerKind \in [Worker -> Kind]
    /\ QueueSize \in Nat \ {0}
    /\ NoTask \notin Task

VARIABLES lane,         \* the four channels
          queued,       \* keys waiting for a worker: in a lane or parked
          running,      \* keys being executed
          deferred,     \* the follow-up parked behind a running key
          pc,           \* where each worker is
          hand,         \* the task a worker holds
          stopped,      \* Pool.stopped
          cancelled,    \* the pool's context is cancelled
          stopper,      \* progress of the first call of Stop
          outstanding   \* per kind: tasks queued - completed - failed

vars == <<lane, queued, running, deferred, pc, hand, stopped, cancelled,
          stopper, outstanding>>

Lane == Kind \X {"fast", "bulk"}

WorkerPC == {"top", "poll", "select", "holding", "running", "ended", "exited"}

TypeOK ==
    /\ lane \in [Lane -> Seq(Task)]
    /\ queued \subseteq Key
    /\ running \subseteq Key
    /\ deferred \in [Key -> Task \cup {NoTask}]
    /\ pc \in [Worker -> WorkerPC]
    /\ hand \in [Worker -> Task \cup {NoTask}]
    /\ stopped \in BOOLEAN
    /\ cancelled \in BOOLEAN
    /\ stopper \in {"none", "flagged", "waiting", "done", "timedout"}
    /\ outstanding \in [Kind -> Int]

Init ==
    /\ lane = [l \in Lane |-> << >>]
    /\ queued = {}
    /\ running = {}
    /\ deferred = [k \in Key |-> NoTask]
    /\ pc = [w \in Worker |-> "top"]
    /\ hand = [w \in Worker |-> NoTask]
    /\ stopped = FALSE
    /\ cancelled = FALSE
    /\ stopper = "none"
    /\ outstanding = [k \in Kind |-> 0]

-----------------------------------------------------------------------------
(* Submit: admission and the non-blocking send, under one lock.  The three *)
(* refusals (pool stopped, key already queued, lane full) change nothing.  *)

LaneOf(t) == <<KindOf[t], IF t \in Fast THEN "fast" ELSE "bulk">>

Submit(t) ==
    /\ ~stopped
    /\ KeyOf[t] \notin queued
    /\ Len(lane[LaneOf(t)]) < QueueSize
    /\ lane' = [lane EXCEPT ![LaneOf(t)] = Append(@, t)]
    /\ queued' = queued \cup {KeyOf[t]}
    /\ outstanding' = [outstanding EXCEPT ![KindOf[t]] = @ + 1]
    /\ UNCHANGED <<running, deferred, pc, hand, stopped, cancelled, stopper>>

-----------------------------------------------------------------------------
(* workerLoop: look at the context, then try the fast lane without         *)
(* blocking, then wait on the context and both lanes.                      *)

Goto(w, label) == pc' = [pc EXCEPT ![w] = label]

\* Mutant: continue where it should return.
CheckContextContinues(w) ==
    /\ pc[w] = "top"
    /\ Goto(w, IF cancelled THEN "top" ELSE "poll")
    /\ UNCHANGED <<lane, queued, running, deferred, hand, stopped, cancelled,
                   stopper, outstanding>>

CheckContext(w) ==
    /\ pc[w] = "top"
    /\ Goto(w, IF cancelled THEN "exited" ELSE "poll")
    /\ UNCHANGED <<lane, queued, running, deferred, hand, stopped, cancelled,
                   stopper, outstanding>>

Receive(w, l) ==
    /\ lane[l] # << >>
    /\ hand' = [hand EXCEPT ![w] = Head(lane[l])]
    /\ lane' = [lane EXCEPT ![l] = Tail(@)]
    /\ Goto(w, "holding")
    /\ UNCHANGED <<queued, running, deferred, stopped, cancelled, stopper,
                   outstanding>>

FastLane(w) == <<WorkerKind[w], "fast">>
BulkLane(w) == <<WorkerKind[w], "bulk">>

PollFast(w) ==
    /\ pc[w] = "poll"
    /\ Receive(w, FastLane(w))

PollEmpty(w) ==
    /\ pc[w] = "poll"
    /\ lane[FastLane(w)] = << >>
    /\ Goto(w, "select")
    /\ UNCHANGED <<lane, queued, running, deferred, hand, stopped, cancelled,
                   stopper, outstanding>>

\* Mutant: one lane is missing from the select.
SelectBulkOnly(w) == pc[w] = "select" /\ Receive(w, BulkLane(w))

\* select picks at random among its ready cases.
SelectTask(w) ==
    /\ pc[w] = "select"
    /\ \/ Receive(w, FastLane(w))
       \/ Receive(w, BulkLane(w))

SelectDone(w) ==
    /\ pc[w] = "select"
    /\ cancelled
    /\ Goto(w, "exited")
    /\ UNCHANGED <<lane, queued, running, deferred, hand, stopped, cancelled,
                   stopper, outstanding>>

-----------------------------------------------------------------------------
(* dispatch: the first critical section drops, parks or starts the task.   *)

LetGo(w) == hand' = [hand EXCEPT ![w] = NoTask]

DispatchDrop(w) ==
    /\ pc[w] = "holding"
    /\ cancelled
    /\ LetGo(w)
    /\ Goto(w, "top")
    /\ UNCHANGED <<lane, queued, running, deferred, stopped, cancelled,
                   stopper, outstanding>>

\* Mutant: a parked task no longer counts as queued.
DispatchParkUnmarks(w) ==
    /\ pc[w] = "holding"
    /\ ~cancelled
    /\ KeyOf[hand[w]] \in running
    /\ deferred' = [deferred EXCEPT ![KeyOf[hand[w]]] = hand[w]]
    /\ queued' = queued \ {KeyOf[hand[w]]}
    /\ LetGo(w)
    /\ Goto(w, "top")
    /\ UNCHANGED <<lane, running, stopped, cancelled, stopper, outstanding>>

DispatchPark(w) ==
    /\ pc[w] = "holding"
    /\ ~cancelled
    /\ KeyOf[hand[w]] \in running
    /\ deferred' = [deferred EXCEPT ![KeyOf[hand[w]]] = hand[w]]
    /\ LetGo(w)
    /\ Goto(w, "top")
    /\ UNCHANGED <<lane, queued, running, stopped, cancelled, stopper,
                   outstanding>>

\* Mutant: the running copy is not looked for.
DispatchStartAnyway(w) ==
    /\ pc[w] = "holding"
    /\ ~cancelled
    /\ queued' = queued \ {KeyOf[hand[w]]}
    /\ running' = running \cup {KeyOf[hand[w]]}
    /\ Goto(w, "running")
    /\ UNCHANGED <<lane, deferred, hand, stopped, cancelled, stopper,
                   outstanding>>

\* Mutant: the key stays queued until the task is done, so that a trigger
\* during the run is refused.
DispatchStartStillQueued(w) ==
    /\ pc[w] = "holding"
    /\ ~cancelled
    /\ KeyOf[hand[w]] \notin running
    /\ running' = running \cup {KeyOf[hand[w]]}
    /\ Goto(w, "running")
    /\ UNCHANGED <<lane, queued, deferred, hand, stopped, cancelled, stopper,
                   outstanding>>

DispatchStart(w) ==
    /\ pc[w] = "holding"
    /\ ~cancelled
    /\ KeyOf[hand[w]] \notin running
    /\ queued' = queued \ {KeyOf[hand[w]]}
    /\ running' = running \cup {KeyOf[hand[w]]}
    /\ Goto(w, "running")
    /\ UNCHANGED <<lane, deferred, hand, stopped, cancelled, stopper,
                   outstanding>>

\* Mutant: a task that panics is not counted.
RunTaskUncounted(w) ==
    /\ pc[w] = "running"
    /\ Goto(w, "ended")
    /\ UNCHANGED <<lane, queued, running, deferred, hand, stopped, cancelled,
                   stopper, outstanding>>

\* Execute returns, or panics and is recovered; runTask records the outcome.
RunTask(w) ==
    /\ pc[w] = "running"
    /\ outstanding' = [outstanding EXCEPT ![WorkerKind[w]] = @ - 1]
    /\ Goto(w, "ended")
    /\ UNCHANGED <<lane, queued, running, deferred, hand, stopped, cancelled,
                   stopper>>

\* Mutant: the follow-up starts even after Stop.
RunFollowUpAnyway(w) ==
    LET key == KeyOf[hand[w]] IN
    /\ pc[w] = "ended"
    /\ deferred[key] # NoTask
    /\ hand' = [hand EXCEPT ![w] = deferred[key]]
    /\ deferred' = [deferred EXCEPT ![key] = NoTask]
    /\ queued' = queued \ {key}
    /\ Goto(w, "running")
    /\ UNCHANGED <<lane, running, stopped, cancelled, stopper, outstanding>>

\* The critical section at the end of dispatch's loop, both branches.
RunFollowUp(w) ==
    LET key == KeyOf[hand[w]] IN
    /\ pc[w] = "ended"
    /\ deferred[key] # NoTask
    /\ ~cancelled
    /\ hand' = [hand EXCEPT ![w] = deferred[key]]
    /\ deferred' = [deferred EXCEPT ![key] = NoTask]
    /\ queued' = queued \ {key}
    /\ Goto(w, "running")
    /\ UNCHANGED <<lane, running, stopped, cancelled, stopper, outstanding>>

\* Mutant: the worker does not look at the parking place.
ReleaseBlindly(w) ==
    /\ pc[w] = "ended"
    /\ running' = running \ {KeyOf[hand[w]]}
    /\ LetGo(w)
    /\ Goto(w, "top")
    /\ UNCHANGED <<lane, queued, deferred, stopped, cancelled, stopper,
                   outstanding>>

Release(w) ==
    LET key == KeyOf[hand[w]] IN
    /\ pc[w] = "ended"
    /\ deferred[key] = NoTask \/ cancelled
    /\ running' = running \ {key}
    /\ LetGo(w)
    /\ Goto(w, "top")
    /\ UNCHANGED <<lane, queued, deferred, stopped, cancelled, stopper,
                   outstanding>>

-----------------------------------------------------------------------------
(* Stop: refuse new tasks, cancel the context, wait for the workers with a *)
(* timeout.  A second call finds `stopped` set and returns at once.        *)

StopFlag ==
    /\ ~stopped
    /\ stopped' = TRUE
    /\ stopper' = "flagged"
    /\ UNCHANGED <<lane, queued, running, deferred, pc, hand, cancelled,
                   outstanding>>

StopCancel ==
    /\ stopper = "flagged"
    /\ cancelled' = TRUE
    /\ stopper' = "waiting"
    /\ UNCHANGED <<lane, queued, running, deferred, pc, hand, stopped,
                   outstanding>>

StopReturn ==
    /\ stopper = "waiting"
    /\ \/ /\ \A w \in Worker : pc[w] = "exited"
          /\ stopper' = "done"
       \/ stopper' = "timedout"
    /\ UNCHANGED <<lane, queued, running, deferred, pc, hand, stopped,
                   cancelled, outstanding>>

\* Everything has returned: the pool is gone.
Terminated ==
    /\ stopper \in {"done", "timedout"}
    /\ \A w \in Worker : pc[w] = "exited"
    /\ UNCHANGED vars

WorkerStep(w) ==
    \/ CheckContext(w) \/ PollFast(w) \/ PollEmpty(w)
    \/ SelectTask(w) \/ SelectDone(w)
    \/ DispatchDrop(w) \/ DispatchPark(w) \/ DispatchStart(w)
    \/ RunTask(w) \/ RunFollowUp(w) \/ Release(w)

Next ==
    \/ \E t \in Task : Submit(t)
    \/ \E w \in Worker : WorkerStep(w)
    \/ StopFlag \/ StopCancel \/ StopReturn
    \/ Terminated

Spec == Init /\ [][Next]_vars

\* Goroutines are scheduled, and Execute returns: an assumption on the tasks,
\* whose network calls carry deadlines (Stop has a timeout for those that do
\* not).  Nobody is obliged to submit, and Stop may never be called.
Fairness ==
    /\ \A w \in Worker : WF_vars(WorkerStep(w))
    /\ WF_vars(StopCancel)
    /\ WF_vars(StopReturn)

FairSpec == Spec /\ Fairness

-----------------------------------------------------------------------------
(* Safety. *)

Executing(w) == pc[w] \in {"running", "ended"}

\* pool.go, comment of `running`: "Two runs of the same key never overlap".
\* Stated of what the workers do, not of the map that is meant to ensure it.
SingleFlight ==
    \A v, w \in Worker :
        Executing(v) /\ Executing(w) /\ KeyOf[hand[v]] = KeyOf[hand[w]] => v = w

\* The places where a task with key k waits: a slot of a lane, the hand of a
\* worker that has received it and not dispatched it, the parking place.
Slot == {s \in Lane \X (1..QueueSize) : s[2] \in 1..Len(lane[s[1]])}
At(s) == lane[s[1]][s[2]]
Holding(w) == pc[w] = "holding"

Tokens(k) ==
    {<<"lane", s>> : s \in {x \in Slot : KeyOf[At(x)] = k}}
    \cup {<<"hand", w>> : w \in {v \in Worker : Holding(v) /\ KeyOf[hand[v]] = k}}
    \cup {<<"parked", d>> : d \in {e \in {k} : deferred[e] # NoTask}}

\* A key is in `queued` exactly while one task object with that key waits
\* somewhere: no trigger is swallowed by a key left behind (Submit would refuse
\* that task for ever), and no follow-up overwrites a parked one.  Shutdown
\* drops what waits.
OneTokenPerQueuedKey ==
    \A k \in Key :
        /\ \A a, b \in Tokens(k) : a = b
        /\ Tokens(k) # {} => k \in queued
        /\ k \in queued /\ ~cancelled => Tokens(k) # {}

\* "The worker that finishes the running copy executes it next": until
\* shutdown a parked follow-up always has a worker executing its key, which
\* will look at the parking place when it is done.
ParkedHasRunner ==
    \A k \in Key :
        deferred[k] # NoTask /\ ~cancelled =>
            \E w \in Worker : Executing(w) /\ KeyOf[hand[w]] = k

KindOfKey(k) == {KindOf[t] : t \in {u \in Task : KeyOf[u] = k}}

\* The statistics balance: a task counted as queued and neither completed nor
\* failed is waiting or executing.
StatsBalance ==
    \A kind \in Kind :
        outstanding[kind] =
            Cardinality({k \in queued : kind \in KindOfKey(k)})
            + Cardinality({w \in Worker : pc[w] = "running" /\ WorkerKind[w] = kind})

\* "Check explicitly so no new work starts after Stop": once the context is
\* cancelled no worker starts a task, neither from a lane nor as a follow-up.
NoStartAfterCancel ==
    [][\A w \in Worker : cancelled /\ pc'[w] = "running" => pc[w] = "running"]_vars

-----------------------------------------------------------------------------
(* Liveness, under FairSpec. *)

\* A priority task that was accepted is started, whatever else is submitted.
FastTaskStarts ==
    \A t \in Fast : KeyOf[t] \in queued ~> KeyOf[t] \notin queued \/ cancelled

\* A bulk task is started too, once no more priority tasks keep arriving: a
\* lane of them that never dries up does starve the bulk lane.
BulkTaskStarts ==
    \A t \in Task \ Fast :
        <>[](lane[<<KindOf[t], "fast">>] = << >>) =>
            (KeyOf[t] \in queued ~> KeyOf[t] \notin queued \/ cancelled)

\* So every task that Submit accepted is started in the end, in either lane.
AcceptedTasksStart == FastTaskStarts /\ BulkTaskStarts

\* After Stop every worker leaves, so Stop can return nil.
WorkersLeave == stopped ~> \A w \in Worker : pc[w] = "exited"

-----------------------------------------------------------------------------
(* The pool implements the abstract scheduler of CoalescingScheduler.      *)

Scheduler == INSTANCE CoalescingScheduler WITH
    wanted <- queued,
    active <- {KeyOf[hand[w]] : w \in {v \in Worker : Executing(v)}},
    closed <- cancelled

ImplementsScheduler == Scheduler!Spec
=============================================================================
