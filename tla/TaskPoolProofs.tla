--------------------------- MODULE TaskPoolProofs ---------------------------
(* Proofs about the worker pool for every set of tasks and workers, every  *)
(* lane capacity and every assignment of keys to tasks.                    *)
EXTENDS TaskPool, TLAPS

-----------------------------------------------------------------------------
(* Type correctness. *)

\* Receiving from a lane keeps it a sequence of tasks and yields a task.
LEMMA ReceiveType ==
    ASSUME TypeOK, NEW w \in Worker, NEW l \in Lane, Receive(w, l)
    PROVE  /\ Head(lane[l]) \in Task
           /\ Tail(lane[l]) \in Seq(Task)
           /\ lane' \in [Lane -> Seq(Task)]
           /\ hand' \in [Worker -> Task \cup {NoTask}]
           /\ pc' \in [Worker -> WorkerPC]
  BY DEF TypeOK, Receive, Goto, WorkerPC

\* The lanes a worker receives from are lanes of its kind.
LEMMA WorkerLanes ==
    ASSUME NEW w \in Worker
    PROVE  FastLane(w) \in Lane /\ BulkLane(w) \in Lane
  BY PoolAssumption DEF FastLane, BulkLane, Lane

\* The lane a task is sent to is a lane.
LEMMA TaskLane ==
    ASSUME NEW t \in Task
    PROVE  LaneOf(t) \in Lane /\ KeyOf[t] \in Key /\ KindOf[t] \in Kind
  BY PoolAssumption DEF LaneOf, Lane

\* A worker past the receive holds a task.
HandHeld == \A w \in Worker : Holding(w) \/ Executing(w) => hand[w] \in Task

\* The parking place of a key holds a task of that key.
ParkedKey == \A k \in Key : deferred[k] # NoTask => KeyOf[deferred[k]] = k

TypeInv == TypeOK /\ HandHeld /\ ParkedKey

\* The initial state is well typed.
LEMMA TypeInvInit == Init => TypeInv
<1> SUFFICES ASSUME Init PROVE TypeInv
  OBVIOUS
<1>1. lane \in [Lane -> Seq(Task)]
  <2>1. << >> \in Seq(Task)
    OBVIOUS
  <2> QED BY <2>1 DEF Init
<1>2. TypeOK
  <2>1. stopped \in BOOLEAN /\ cancelled \in BOOLEAN
    BY DEF Init
  <2>2. deferred \in [Key -> Task \cup {NoTask}] /\ hand \in [Worker -> Task \cup {NoTask}]
    BY DEF Init
  <2>3. pc \in [Worker -> WorkerPC]
    BY DEF Init, WorkerPC
  <2>4. outstanding \in [Kind -> Int]
    BY DEF Init
  <2>5. queued \subseteq Key /\ running \subseteq Key
    BY DEF Init
  <2>6. stopper \in {"none", "flagged", "waiting", "done", "timedout"}
    BY DEF Init
  <2> QED BY <1>1, <2>1, <2>2, <2>3, <2>4, <2>5, <2>6 DEF TypeOK
<1>3. HandHeld /\ ParkedKey
  BY DEF Init, HandHeld, ParkedKey, Holding, Executing
<1> QED BY <1>2, <1>3 DEF TypeInv

\* Every step of the pool keeps the types.
LEMMA TypeInvNext == TypeInv /\ [Next]_vars => TypeInv'
<1> SUFFICES ASSUME TypeInv, [Next]_vars PROVE TypeInv'
  OBVIOUS
<1> USE DEF TypeInv, Holding, Executing
<1>1. ASSUME NEW t \in Task, Submit(t) PROVE TypeInv'
  BY <1>1, TaskLane DEF Submit, TypeOK, HandHeld, ParkedKey
<1>2. ASSUME NEW w \in Worker, CheckContext(w) PROVE TypeInv'
  BY <1>2 DEF CheckContext, Goto, TypeOK, HandHeld, ParkedKey, WorkerPC
<1>3. ASSUME NEW w \in Worker, PollFast(w) PROVE TypeInv'
  <2>1. Receive(w, FastLane(w))
    BY <1>3 DEF PollFast
  <2>2. TypeOK'
    BY <2>1, ReceiveType, WorkerLanes DEF TypeOK, Receive
  <2>3. HandHeld' /\ ParkedKey'
    BY <2>1, ReceiveType, WorkerLanes DEF TypeOK, Receive, Goto, HandHeld, ParkedKey
  <2> QED BY <2>2, <2>3
<1>4. ASSUME NEW w \in Worker, PollEmpty(w) PROVE TypeInv'
  BY <1>4 DEF PollEmpty, Goto, TypeOK, HandHeld, ParkedKey, WorkerPC
<1>5. ASSUME NEW w \in Worker, SelectTask(w) PROVE TypeInv'
  <2>1. PICK l \in Lane : Receive(w, l)
    BY <1>5, WorkerLanes DEF SelectTask
  <2>2. TypeOK'
    BY <2>1, ReceiveType DEF TypeOK, Receive
  <2>3. HandHeld' /\ ParkedKey'
    BY <2>1, ReceiveType DEF TypeOK, Receive, Goto, HandHeld, ParkedKey
  <2> QED BY <2>2, <2>3
<1>6. ASSUME NEW w \in Worker, SelectDone(w) PROVE TypeInv'
  BY <1>6 DEF SelectDone, Goto, TypeOK, HandHeld, ParkedKey, WorkerPC
<1>7. ASSUME NEW w \in Worker, DispatchDrop(w) PROVE TypeInv'
  BY <1>7 DEF DispatchDrop, LetGo, Goto, TypeOK, HandHeld, ParkedKey, WorkerPC
<1>8. ASSUME NEW w \in Worker, DispatchPark(w) PROVE TypeInv'
  <2>1. hand[w] \in Task /\ KeyOf[hand[w]] \in Key
    BY <1>8, TaskLane DEF DispatchPark, HandHeld
  <2> QED
    BY <1>8, <2>1 DEF DispatchPark, LetGo, Goto, TypeOK, HandHeld, ParkedKey, WorkerPC
<1>9. ASSUME NEW w \in Worker, DispatchStart(w) PROVE TypeInv'
  <2>1. hand[w] \in Task /\ KeyOf[hand[w]] \in Key
    BY <1>9, TaskLane DEF DispatchStart, HandHeld
  <2> QED
    BY <1>9, <2>1 DEF DispatchStart, Goto, TypeOK, HandHeld, ParkedKey, WorkerPC
<1>10. ASSUME NEW w \in Worker, RunTask(w) PROVE TypeInv'
  <2>1. WorkerKind[w] \in Kind
    BY PoolAssumption
  <2> QED
    BY <1>10, <2>1 DEF RunTask, Goto, TypeOK, HandHeld, ParkedKey, WorkerPC
<1>11. ASSUME NEW w \in Worker, RunFollowUp(w) PROVE TypeInv'
  <2>1. hand[w] \in Task /\ KeyOf[hand[w]] \in Key
    BY <1>11, TaskLane DEF RunFollowUp, HandHeld
  <2>2. deferred[KeyOf[hand[w]]] \in Task
    BY <1>11, <2>1 DEF RunFollowUp, TypeOK
  <2> QED
    BY <1>11, <2>1, <2>2 DEF RunFollowUp, Goto, TypeOK, HandHeld, ParkedKey, WorkerPC
<1>12. ASSUME NEW w \in Worker, Release(w) PROVE TypeInv'
  <2>1. hand[w] \in Task /\ KeyOf[hand[w]] \in Key
    BY <1>12, TaskLane DEF Release, HandHeld
  <2> QED
    BY <1>12, <2>1 DEF Release, LetGo, Goto, TypeOK, HandHeld, ParkedKey, WorkerPC
<1>13. CASE StopFlag \/ StopCancel \/ StopReturn \/ Terminated \/ UNCHANGED vars
  BY <1>13 DEF StopFlag, StopCancel, StopReturn, Terminated, vars, TypeOK, HandHeld, ParkedKey
<1> QED
  BY <1>1, <1>2, <1>3, <1>4, <1>5, <1>6, <1>7, <1>8, <1>9, <1>10, <1>11, <1>12, <1>13
  DEF Next, WorkerStep

\* The typing the proofs go by holds in every reachable state.
LEMMA TypeInvariant == Spec => []TypeInv
  BY TypeInvInit, TypeInvNext, PTL DEF Spec

\* Every reachable state of the pool is well typed.
THEOREM TypeCorrect == Spec => []TypeOK
<1>1. TypeInv => TypeOK
  BY DEF TypeInv
<1> QED BY <1>1, TypeInvariant, PTL

-----------------------------------------------------------------------------
(* The inductive invariant.  `running` is exactly the set of executing     *)
(* keys; each waiting token has its key in `queued` and no two tokens      *)
(* share a key, wherever they wait.                                        *)

RunningExact ==
    /\ \A w \in Worker : Executing(w) => KeyOf[hand[w]] \in running
    /\ \A k \in running : \E w \in Worker : Executing(w) /\ KeyOf[hand[w]] = k

LaneBound == \A l \in Lane : Len(lane[l]) <= QueueSize

LaneTokens ==
    /\ \A s \in Slot : KeyOf[At(s)] \in queued
    /\ \A s, t \in Slot : KeyOf[At(s)] = KeyOf[At(t)] => s = t

HandTokens ==
    /\ \A w \in Worker : Holding(w) => KeyOf[hand[w]] \in queued
    /\ \A v, w \in Worker :
          Holding(v) /\ Holding(w) /\ KeyOf[hand[v]] = KeyOf[hand[w]] => v = w
    /\ \A w \in Worker, s \in Slot : Holding(w) => KeyOf[hand[w]] # KeyOf[At(s)]

ParkedTokens ==
    /\ \A k \in Key : deferred[k] # NoTask => k \in queued
    /\ \A k \in Key, s \in Slot : deferred[k] # NoTask => KeyOf[At(s)] # k
    /\ \A k \in Key, w \in Worker :
          deferred[k] # NoTask /\ Holding(w) => KeyOf[hand[w]] # k
    /\ \A k \in Key : deferred[k] # NoTask => k \in running \/ cancelled

QueuedWaits ==
    \A k \in queued :
        \/ cancelled
        \/ \E s \in Slot : KeyOf[At(s)] = k
        \/ \E w \in Worker : Holding(w) /\ KeyOf[hand[w]] = k
        \/ deferred[k] # NoTask

-----------------------------------------------------------------------------
(* What the lane operations do to the slots. *)

\* What Submit does to the slots of the lanes: one more, at the end of one lane.
LEMMA SubmitSlots ==
    ASSUME TypeOK, LaneBound, NEW t \in Task, Submit(t)
    PROVE  /\ \E new \in Slot' :
                 /\ At(new)' = t /\ new \notin Slot
                 /\ \A s \in Slot' : s = new \/ s \in Slot
           /\ \A s \in Slot : s \in Slot' /\ At(s)' = At(s)
           /\ LaneBound'
<1> DEFINE n == Len(lane[LaneOf(t)]) + 1
           new == <<LaneOf(t), n>>
<1>1. LaneOf(t) \in Lane /\ lane[LaneOf(t)] \in Seq(Task) /\ QueueSize \in Nat
  BY TaskLane, PoolAssumption DEF TypeOK
<1>2. n \in 1..QueueSize /\ n \in Nat
  BY <1>1 DEF Submit
<1>3. /\ lane'[LaneOf(t)] = Append(lane[LaneOf(t)], t)
      /\ \A l \in Lane : l # LaneOf(t) => lane'[l] = lane[l]
      /\ \A l \in Lane : lane[l] \in Seq(Task)
  BY <1>1 DEF Submit, TypeOK
<1>4. /\ Len(lane'[LaneOf(t)]) = n
      /\ lane'[LaneOf(t)][n] = t
      /\ \A i \in 1..(n - 1) : lane'[LaneOf(t)][i] = lane[LaneOf(t)][i]
  BY <1>1, <1>3
<1>5. new \in Slot' /\ lane'[new[1]][new[2]] = t /\ new \notin Slot
  BY <1>1, <1>2, <1>4 DEF Slot
<1>6. ASSUME NEW s \in Slot PROVE s \in Slot' /\ At(s)' = At(s)
  <2>1. s \in Lane \X (1..QueueSize) /\ s[1] \in Lane /\ s[2] \in 1..Len(lane[s[1]])
    BY DEF Slot
  <2>2. CASE s[1] = LaneOf(t)
    BY <1>1, <1>2, <1>4, <2>1, <2>2 DEF Slot, At
  <2>3. CASE s[1] # LaneOf(t)
    BY <1>3, <2>1, <2>3 DEF Slot, At
  <2> QED BY <2>2, <2>3
<1>7. ASSUME NEW s \in Slot' PROVE s = new \/ s \in Slot
  <2>1. s \in Lane \X (1..QueueSize) /\ s[1] \in Lane /\ s[2] \in 1..Len(lane'[s[1]])
    BY DEF Slot
  <2>2. CASE s[1] = LaneOf(t)
    <3>1. s[2] = n \/ s[2] \in 1..Len(lane[s[1]])
      BY <1>1, <1>2, <1>4, <2>1, <2>2
    <3>2. s = <<s[1], s[2]>>
      BY <2>1
    <3> QED BY <2>1, <2>2, <3>1, <3>2 DEF Slot
  <2>3. CASE s[1] # LaneOf(t)
    BY <1>3, <2>1, <2>3 DEF Slot
  <2> QED BY <2>2, <2>3
<1>8. LaneBound'
  BY <1>1, <1>2, <1>3, <1>4 DEF LaneBound
<1>9. \E x \in Slot' :
        /\ At(x)' = t /\ x \notin Slot
        /\ \A s \in Slot' : s = x \/ s \in Slot
  <2>1. \E x \in Slot' :
          /\ lane'[x[1]][x[2]] = t /\ x \notin Slot
          /\ \A s \in Slot' : s = x \/ s \in Slot
    <3> HIDE DEF new, n
    <3> QED BY <1>5, <1>7
  <2> QED BY <2>1 DEF At
<1> QED BY <1>6, <1>8, <1>9

\* Receiving moves the head of one lane into the worker's hand and shifts the
\* rest of that lane by one.
LEMMA ReceiveSlots ==
    ASSUME TypeOK, LaneBound, NEW w \in Worker, NEW l \in Lane, Receive(w, l)
    PROVE  LET first == <<l, 1>>
               Before(s) == IF s[1] = l THEN <<l, s[2] + 1>> ELSE s
           IN
           /\ first \in Slot /\ hand'[w] = At(first)
           /\ \A s \in Slot' : /\ Before(s) \in Slot /\ At(s)' = At(Before(s))
                               /\ Before(s) # first
           /\ \A s, t \in Slot' : Before(s) = Before(t) => s = t
           /\ \A s \in Slot \ {first} :
                 \E u \in Slot' : Before(u) = s /\ At(u)' = At(s)
           /\ LaneBound'
<1> DEFINE first == <<l, 1>>
           Before(s) == IF s[1] = l THEN <<l, s[2] + 1>> ELSE s
<1>1. lane[l] \in Seq(Task) /\ lane[l] # << >> /\ QueueSize \in Nat \ {0}
  BY PoolAssumption DEF TypeOK, Receive
<1>2. Len(lane[l]) \in 1..QueueSize
  BY <1>1 DEF LaneBound
<1>3. /\ lane'[l] = Tail(lane[l])
      /\ \A m \in Lane : m # l => lane'[m] = lane[m]
      /\ \A m \in Lane : lane[m] \in Seq(Task)
      /\ hand'[w] = Head(lane[l])
  BY DEF Receive, TypeOK
<1>4. /\ Len(lane'[l]) = Len(lane[l]) - 1
      /\ \A i \in 1..Len(lane'[l]) : lane'[l][i] = lane[l][i + 1]
      /\ Head(lane[l]) = lane[l][1]
  BY <1>1, <1>3
<1>5. first \in Slot /\ hand'[w] = At(first)
  BY <1>1, <1>2, <1>3, <1>4 DEF Slot, At
<1>6. ASSUME NEW s \in Slot'
      PROVE  Before(s) \in Slot /\ At(s)' = At(Before(s)) /\ Before(s) # first
  <2>1. /\ s \in Lane \X (1..QueueSize) /\ s[1] \in Lane /\ s[2] \in 1..QueueSize
        /\ s[2] \in 1..Len(lane'[s[1]])
    BY DEF Slot
  <2>2. CASE s[1] = l
    <3>1. s[2] + 1 \in 1..Len(lane[l]) /\ s[2] + 1 \in 1..QueueSize /\ s[2] + 1 # 1
      BY <1>1, <1>2, <1>4, <2>1, <2>2
    <3>2. Before(s) = <<l, s[2] + 1>>
      BY <2>2
    <3> QED BY <1>4, <2>1, <2>2, <3>1, <3>2 DEF Slot, At
  <2>3. CASE s[1] # l
    <3>1. Before(s) = s
      BY <2>3
    <3> QED BY <1>3, <2>1, <2>3, <3>1 DEF Slot, At
  <2> QED BY <2>2, <2>3
<1>7. ASSUME NEW s \in Slot', NEW t \in Slot', Before(s) = Before(t)
      PROVE  s = t
  <2>1. /\ s \in Lane \X Nat /\ t \in Lane \X Nat
    BY DEF Slot
  <2>2. s[2] \in Nat /\ t[2] \in Nat /\ s = <<s[1], s[2]>> /\ t = <<t[1], t[2]>>
    BY <2>1
  <2>3. s[1] = t[1] /\ s[2] = t[2]
    BY <1>7, <2>2
  <2> QED BY <2>2, <2>3
<1>8. ASSUME NEW s \in Slot \ {first}
      PROVE  \E u \in Slot' : Before(u) = s /\ At(u)' = At(s)
  <2>1. /\ s \in Lane \X (1..QueueSize) /\ s[1] \in Lane /\ s[2] \in 1..QueueSize
        /\ s[2] \in 1..Len(lane[s[1]]) /\ s = <<s[1], s[2]>>
    BY DEF Slot
  <2>2. CASE s[1] = l
    <3> DEFINE u == <<l, s[2] - 1>>
    <3>1. s[2] # 1 /\ s[2] - 1 \in 1..QueueSize /\ s[2] - 1 \in 1..Len(lane'[l])
      BY <1>1, <1>2, <1>4, <2>1, <2>2
    <3>2. u \in Slot' /\ u[1] = l /\ u[2] = s[2] - 1
      BY <3>1 DEF Slot
    <3>3. Before(u) = s
      BY <2>1, <2>2, <3>2
    <3>4. At(u)' = At(s)
      BY <1>6, <3>2, <3>3
    <3> QED BY <3>2, <3>3, <3>4
  <2>3. CASE s[1] # l
    <3>1. s \in Slot'
      BY <1>3, <2>1, <2>3 DEF Slot
    <3>2. Before(s) = s /\ At(s)' = At(s)
      BY <1>3, <2>1, <2>3 DEF At
    <3> QED BY <3>1, <3>2
  <2> QED BY <2>2, <2>3
<1>9. LaneBound'
  <2>1. Len(lane'[l]) <= QueueSize
    BY <1>1, <1>2, <1>4
  <2>2. \A m \in Lane : m # l => Len(lane'[m]) <= QueueSize
    BY <1>3 DEF LaneBound
  <2> QED BY <2>1, <2>2 DEF LaneBound
<1> QED BY <1>5, <1>6, <1>7, <1>8, <1>9

-----------------------------------------------------------------------------
(* The invariant is inductive. *)

PoolInv ==
    /\ RunningExact /\ SingleFlight /\ LaneBound
    /\ LaneTokens /\ HandTokens /\ ParkedTokens /\ QueuedWaits

\* A step that moves no token and changes no worker between holding,
\* executing and neither.
LEMMA QuietStep ==
    ASSUME PoolInv,
           UNCHANGED <<lane, queued, running, deferred, hand>>,
           cancelled => cancelled',
           \A w \in Worker : /\ Holding(w)' <=> Holding(w)
                             /\ Executing(w)' <=> Executing(w)
    PROVE  PoolInv'
<1>1. Slot' = Slot /\ \A s : At(s)' = At(s)
  BY DEF Slot, At
<1>2. RunningExact' /\ SingleFlight' /\ LaneBound'
  BY DEF PoolInv, RunningExact, SingleFlight, LaneBound
<1>3. LaneTokens' /\ HandTokens'
  BY <1>1 DEF PoolInv, LaneTokens, HandTokens
<1>4. ParkedTokens'
  BY <1>1 DEF PoolInv, ParkedTokens
<1>5. QueuedWaits'
  BY <1>1 DEF PoolInv, QueuedWaits
<1> QED BY <1>2, <1>3, <1>4, <1>5 DEF PoolInv

\* Nothing waits and nothing runs in the beginning.
LEMMA PoolInvInit == Init => PoolInv
<1> SUFFICES ASSUME Init PROVE PoolInv
  OBVIOUS
<1>1. Slot = {}
  BY DEF Init, Slot
<1>2. LaneBound
  BY PoolAssumption DEF Init, LaneBound
<1>3. RunningExact /\ SingleFlight
  BY DEF Init, RunningExact, SingleFlight, Executing
<1>4. LaneTokens /\ HandTokens /\ ParkedTokens /\ QueuedWaits
  BY <1>1 DEF Init, LaneTokens, HandTokens, ParkedTokens, QueuedWaits, Holding
<1> QED BY <1>2, <1>3, <1>4 DEF PoolInv

\* Submit adds a token with a key no other token has.
LEMMA SubmitInv ==
    ASSUME TypeInv, PoolInv, NEW t \in Task, Submit(t)
    PROVE  PoolInv'
<1> USE DEF PoolInv
<1> DEFINE key == KeyOf[t]
<1>1. PICK new \in Slot' :
        /\ At(new)' = t /\ new \notin Slot
        /\ \A s \in Slot' : s = new \/ s \in Slot
  BY SubmitSlots DEF TypeInv
<1>2. \A s \in Slot : s \in Slot' /\ At(s)' = At(s)
  BY SubmitSlots DEF TypeInv
<1>3. LaneBound'
  BY SubmitSlots DEF TypeInv
<1>4. /\ key \notin queued /\ queued' = queued \cup {key}
      /\ UNCHANGED <<running, deferred, hand, pc, cancelled>>
      /\ \A w : /\ Holding(w)' <=> Holding(w)
                /\ Executing(w)' <=> Executing(w)
  BY DEF Submit, Holding, Executing
<1>5. RunningExact' /\ SingleFlight'
  BY <1>4 DEF RunningExact, SingleFlight
<1>6. LaneTokens'
  BY <1>1, <1>2, <1>4 DEF LaneTokens
<1>7. HandTokens'
  BY <1>1, <1>2, <1>4 DEF HandTokens
<1>8. ParkedTokens'
  BY <1>1, <1>2, <1>4 DEF ParkedTokens
<1>9. QueuedWaits'
  BY <1>1, <1>2, <1>4 DEF QueuedWaits
<1> QED BY <1>3, <1>5, <1>6, <1>7, <1>8, <1>9

\* Receiving turns a lane token into a hand token of the same key.
LEMMA ReceiveInv ==
    ASSUME TypeInv, PoolInv, NEW w \in Worker, NEW l \in Lane, Receive(w, l),
           ~Holding(w), ~Executing(w)
    PROVE  PoolInv'
<1> USE DEF PoolInv
<1> DEFINE first == <<l, 1>>
           Before(s) == IF s[1] = l THEN <<l, s[2] + 1>> ELSE s
<1>1. /\ first \in Slot /\ hand'[w] = At(first)
      /\ \A s \in Slot' : /\ Before(s) \in Slot /\ At(s)' = At(Before(s))
                          /\ Before(s) # first
      /\ \A s, t \in Slot' : Before(s) = Before(t) => s = t
      /\ \A s \in Slot \ {first} :
            \E u \in Slot' : Before(u) = s /\ At(u)' = At(s)
      /\ LaneBound'
  BY ReceiveSlots DEF TypeInv
<1> HIDE DEF first, Before
<1>2. /\ UNCHANGED <<queued, running, deferred, cancelled>>
      /\ Holding(w)' /\ ~Executing(w)'
      /\ \A v \in Worker : v # w => /\ Holding(v)' <=> Holding(v)
                                    /\ Executing(v)' <=> Executing(v)
                                    /\ hand'[v] = hand[v]
  BY DEF Receive, Goto, Holding, Executing, TypeInv, TypeOK
<1>3. RunningExact' /\ SingleFlight'
  BY <1>2 DEF RunningExact, SingleFlight
<1>4. LaneTokens'
  BY <1>1, <1>2 DEF LaneTokens
<1>5. HandTokens'
  <2>1. \A v \in Worker : Holding(v)' => KeyOf[hand'[v]] \in queued'
    BY <1>1, <1>2 DEF LaneTokens, HandTokens
  <2>2. \A u, v \in Worker :
          Holding(u)' /\ Holding(v)' /\ KeyOf[hand'[u]] = KeyOf[hand'[v]] => u = v
    BY <1>1, <1>2 DEF LaneTokens, HandTokens
  <2>3. \A v \in Worker, s \in Slot' : Holding(v)' => KeyOf[hand'[v]] # KeyOf[At(s)']
    BY <1>1, <1>2 DEF LaneTokens, HandTokens
  <2> QED BY <2>1, <2>2, <2>3 DEF HandTokens
<1>6. ParkedTokens'
  BY <1>1, <1>2 DEF ParkedTokens
<1>7. QueuedWaits'
  <2> SUFFICES ASSUME NEW k \in queued, ~cancelled, deferred[k] = NoTask
               PROVE  \/ \E s \in Slot' : KeyOf[At(s)'] = k
                      \/ \E v \in Worker : Holding(v)' /\ KeyOf[hand'[v]] = k
    BY <1>2 DEF QueuedWaits
  <2>1. \/ \E s \in Slot : KeyOf[At(s)] = k
        \/ \E v \in Worker : Holding(v) /\ KeyOf[hand[v]] = k
    BY DEF QueuedWaits
  <2>2. ASSUME NEW s \in Slot, KeyOf[At(s)] = k
        PROVE  \/ \E u \in Slot' : KeyOf[At(u)'] = k
               \/ KeyOf[hand'[w]] = k
    BY <1>1, <2>2
  <2> QED BY <1>2, <2>1, <2>2
<1> QED BY <1>1, <1>3, <1>4, <1>5, <1>6, <1>7

\* A task dropped after shutdown leaves the invariant intact.
LEMMA DropInv ==
    ASSUME TypeInv, PoolInv, NEW w \in Worker, DispatchDrop(w)
    PROVE  PoolInv'
<1> USE DEF PoolInv
<1>1. /\ UNCHANGED <<lane, queued, running, deferred>> /\ cancelled /\ cancelled'
      /\ ~Holding(w)' /\ ~Executing(w)' /\ ~Executing(w)
      /\ \A v \in Worker : v # w => /\ Holding(v)' <=> Holding(v)
                                    /\ Executing(v)' <=> Executing(v)
                                    /\ hand'[v] = hand[v]
  BY DEF DispatchDrop, Goto, LetGo, Holding, Executing, TypeInv, TypeOK
<1>2. Slot' = Slot /\ \A s : At(s)' = At(s)
  BY <1>1 DEF Slot, At
<1>3. RunningExact' /\ SingleFlight' /\ LaneBound'
  BY <1>1 DEF RunningExact, SingleFlight, LaneBound
<1>4. LaneTokens' /\ HandTokens'
  BY <1>1, <1>2 DEF LaneTokens, HandTokens
<1>5. ParkedTokens' /\ QueuedWaits'
  BY <1>1, <1>2 DEF ParkedTokens, QueuedWaits
<1> QED BY <1>3, <1>4, <1>5

\* Parking turns a hand token into the parked token of a running key.
LEMMA ParkInv ==
    ASSUME TypeInv, PoolInv, NEW w \in Worker, DispatchPark(w)
    PROVE  PoolInv'
<1> USE DEF PoolInv
<1> DEFINE key == KeyOf[hand[w]]
<1>1. hand[w] \in Task /\ key \in Key
  BY TaskLane DEF DispatchPark, TypeInv, HandHeld, Holding
<1>2. /\ UNCHANGED <<lane, queued, running, cancelled>>
      /\ Holding(w) /\ ~Holding(w)' /\ ~Executing(w)' /\ ~Executing(w)
      /\ \A v \in Worker : v # w => /\ Holding(v)' <=> Holding(v)
                                    /\ Executing(v)' <=> Executing(v)
                                    /\ hand'[v] = hand[v]
  BY DEF DispatchPark, Goto, LetGo, Holding, Executing, TypeInv, TypeOK
<1>3. /\ key \in running
      /\ deferred'[key] # NoTask
      /\ \A k \in Key : k # key => deferred'[k] = deferred[k]
  BY <1>1, PoolAssumption DEF DispatchPark, TypeInv, TypeOK
<1>4. Slot' = Slot /\ \A s : At(s)' = At(s)
  BY <1>2 DEF Slot, At
<1> HIDE DEF key
<1>5. RunningExact' /\ SingleFlight' /\ LaneBound'
  BY <1>2 DEF RunningExact, SingleFlight, LaneBound
<1>6. LaneTokens' /\ HandTokens'
  BY <1>2, <1>4 DEF LaneTokens, HandTokens
<1>7. ParkedTokens'
  BY <1>2, <1>3, <1>4 DEF ParkedTokens, HandTokens, key
<1>8. QueuedWaits'
  <2>1. SUFFICES ASSUME NEW k \in queued, ~cancelled
                 PROVE  \/ \E s \in Slot' : KeyOf[At(s)'] = k
                        \/ \E v \in Worker : Holding(v)' /\ KeyOf[hand'[v]] = k
                        \/ deferred'[k] # NoTask
    BY <1>2 DEF QueuedWaits
  <2>2. CASE \E s \in Slot : KeyOf[At(s)] = k
    BY <2>2, <1>4
  <2>3. CASE \E v \in Worker : Holding(v) /\ KeyOf[hand[v]] = k
    BY <2>3, <1>2, <1>3 DEF key
  <2>4. CASE deferred[k] # NoTask
    BY <2>4, <1>3 DEF TypeInv, TypeOK
  <2> QED BY <2>1, <2>2, <2>3, <2>4 DEF QueuedWaits
<1> QED BY <1>5, <1>6, <1>7, <1>8

\* Starting consumes the one token of a key that is not running.
LEMMA StartInv ==
    ASSUME TypeInv, PoolInv, NEW w \in Worker, DispatchStart(w)
    PROVE  PoolInv'
<1> USE DEF PoolInv
<1> DEFINE key == KeyOf[hand[w]]
<1>1. /\ UNCHANGED <<lane, deferred, hand, cancelled>> /\ ~cancelled
      /\ Holding(w) /\ ~Holding(w)' /\ Executing(w)' /\ ~Executing(w)
      /\ \A v \in Worker : v # w => /\ Holding(v)' <=> Holding(v)
                                    /\ Executing(v)' <=> Executing(v)
      /\ key \notin running /\ running' = running \cup {key}
      /\ queued' = queued \ {key}
  BY DEF DispatchStart, Goto, Holding, Executing, TypeInv, TypeOK
<1>2. Slot' = Slot /\ \A s : At(s)' = At(s)
  BY <1>1 DEF Slot, At
<1> HIDE DEF key
<1>3. RunningExact' /\ SingleFlight' /\ LaneBound'
  BY <1>1 DEF RunningExact, SingleFlight, LaneBound, key
<1>4. LaneTokens' /\ HandTokens'
  BY <1>1, <1>2 DEF LaneTokens, HandTokens, key
<1>5. ParkedTokens'
  BY <1>1, <1>2 DEF ParkedTokens, key
<1>6. QueuedWaits'
  BY <1>1, <1>2 DEF QueuedWaits, key
<1> QED BY <1>3, <1>4, <1>5, <1>6

\* Running the follow-up consumes the parked token; the key stays running.
LEMMA FollowUpInv ==
    ASSUME TypeInv, PoolInv, NEW w \in Worker, RunFollowUp(w)
    PROVE  PoolInv'
<1> USE DEF PoolInv
<1> DEFINE key == KeyOf[hand[w]]
<1>1. hand[w] \in Task /\ key \in Key
  BY TaskLane DEF RunFollowUp, TypeInv, HandHeld, Executing
<1>2. /\ UNCHANGED <<lane, running, cancelled>> /\ ~cancelled
      /\ ~Holding(w) /\ ~Holding(w)' /\ Executing(w)' /\ Executing(w)
      /\ \A v \in Worker : v # w => /\ Holding(v)' <=> Holding(v)
                                    /\ Executing(v)' <=> Executing(v)
                                    /\ hand'[v] = hand[v]
      /\ queued' = queued \ {key}
  BY DEF RunFollowUp, Goto, Holding, Executing, TypeInv, TypeOK
<1>3. /\ deferred[key] # NoTask /\ KeyOf[hand'[w]] = key
      /\ deferred'[key] = NoTask
      /\ \A k \in Key : k # key => deferred'[k] = deferred[k]
  BY <1>1 DEF RunFollowUp, TypeInv, TypeOK, ParkedKey
<1>4. Slot' = Slot /\ \A s : At(s)' = At(s)
  BY <1>2 DEF Slot, At
<1> HIDE DEF key
<1>5. RunningExact' /\ SingleFlight' /\ LaneBound'
  BY <1>2, <1>3 DEF RunningExact, SingleFlight, LaneBound, key
<1>6. LaneTokens' /\ HandTokens'
  BY <1>1, <1>2, <1>3, <1>4 DEF LaneTokens, HandTokens, ParkedTokens
<1>7. ParkedTokens'
  BY <1>1, <1>2, <1>3, <1>4 DEF ParkedTokens
<1>8. QueuedWaits'
  BY <1>2, <1>3, <1>4 DEF QueuedWaits, TypeInv, TypeOK
<1> QED BY <1>5, <1>6, <1>7, <1>8

\* Releasing a key leaves the invariant intact.
LEMMA ReleaseInv ==
    ASSUME TypeInv, PoolInv, NEW w \in Worker, Release(w)
    PROVE  PoolInv'
<1> USE DEF PoolInv
<1> DEFINE key == KeyOf[hand[w]]
<1>1. hand[w] \in Task /\ key \in Key
  BY TaskLane DEF Release, TypeInv, HandHeld, Executing
<1>2. /\ UNCHANGED <<lane, queued, deferred, cancelled>>
      /\ ~Holding(w) /\ ~Holding(w)' /\ ~Executing(w)' /\ Executing(w)
      /\ \A v \in Worker : v # w => /\ Holding(v)' <=> Holding(v)
                                    /\ Executing(v)' <=> Executing(v)
                                    /\ hand'[v] = hand[v]
      /\ running' = running \ {key}
      /\ deferred[key] = NoTask \/ cancelled
  BY DEF Release, Goto, LetGo, Holding, Executing, TypeInv, TypeOK
<1>3. Slot' = Slot /\ \A s : At(s)' = At(s)
  BY <1>2 DEF Slot, At
<1> HIDE DEF key
<1>4. RunningExact' /\ SingleFlight' /\ LaneBound'
  BY <1>2 DEF RunningExact, SingleFlight, LaneBound, key
<1>5. LaneTokens' /\ HandTokens'
  BY <1>2, <1>3 DEF LaneTokens, HandTokens
<1>6. ParkedTokens'
  BY <1>2, <1>3 DEF ParkedTokens
<1>7. QueuedWaits'
  BY <1>2, <1>3 DEF QueuedWaits
<1> QED BY <1>4, <1>5, <1>6, <1>7

\* Every step of the pool keeps the invariant.
LEMMA PoolInvNext == TypeInv /\ PoolInv /\ [Next]_vars => PoolInv'
<1> SUFFICES ASSUME TypeInv, PoolInv, [Next]_vars PROVE PoolInv'
  OBVIOUS
<1>1. ASSUME NEW t \in Task, Submit(t) PROVE PoolInv'
  BY <1>1, SubmitInv
<1>2. ASSUME NEW w \in Worker, CheckContext(w) \/ PollEmpty(w) \/ SelectDone(w)
      PROVE  PoolInv'
  BY <1>2, QuietStep DEF CheckContext, PollEmpty, SelectDone, Goto, Holding, Executing, TypeInv, TypeOK
<1>3. ASSUME NEW w \in Worker, PollFast(w) \/ SelectTask(w) PROVE PoolInv'
  <2>1. PICK l \in Lane : Receive(w, l)
    BY <1>3, WorkerLanes DEF PollFast, SelectTask
  <2>2. ~Holding(w) /\ ~Executing(w)
    BY <1>3 DEF PollFast, SelectTask, Holding, Executing
  <2> QED BY <2>1, <2>2, ReceiveInv
<1>4. ASSUME NEW w \in Worker, RunTask(w) PROVE PoolInv'
  BY <1>4, QuietStep DEF RunTask, Goto, Holding, Executing, TypeInv, TypeOK
<1>5. ASSUME NEW w \in Worker,
             \/ DispatchDrop(w) \/ DispatchPark(w) \/ DispatchStart(w)
             \/ RunFollowUp(w) \/ Release(w)
      PROVE  PoolInv'
  BY <1>5, DropInv, ParkInv, StartInv, FollowUpInv, ReleaseInv
<1>6. CASE StopFlag \/ StopCancel \/ StopReturn \/ Terminated \/ UNCHANGED vars
  BY <1>6, QuietStep DEF StopFlag, StopCancel, StopReturn, Terminated, vars, Holding, Executing
<1> QED
  BY <1>1, <1>2, <1>3, <1>4, <1>5, <1>6 DEF Next, WorkerStep

\* Typing and invariant hold in every reachable state.
LEMMA PoolInvariant == Spec => [](TypeInv /\ PoolInv)
  BY TypeInvInit, TypeInvNext, PoolInvInit, PoolInvNext, PTL DEF Spec

-----------------------------------------------------------------------------
(* The properties the runs check, for every pool.                          *)

\* No two workers ever execute the same logical task at once.
THEOREM SingleFlightHolds == Spec => []SingleFlight
<1>1. PoolInv => SingleFlight
  BY DEF PoolInv
<1> QED BY <1>1, PoolInvariant, PTL

\* The dedup map never holds a key with no task waiting behind it (until
\* shutdown), and a key never waits in two places.
THEOREM OneTokenHolds == Spec => []OneTokenPerQueuedKey
<1>1. TypeInv /\ PoolInv => OneTokenPerQueuedKey
  <2> SUFFICES ASSUME TypeInv, PoolInv, NEW k \in Key
               PROVE  /\ \A a, b \in Tokens(k) : a = b
                      /\ Tokens(k) # {} => k \in queued
                      /\ k \in queued /\ ~cancelled => Tokens(k) # {}
    BY DEF OneTokenPerQueuedKey
  <2> DEFINE LaneK == {x \in Slot : KeyOf[At(x)] = k}
             HandK == {v \in Worker : Holding(v) /\ KeyOf[hand[v]] = k}
             ParkK == {e \in {k} : deferred[e] # NoTask}
  <2>1. Tokens(k) = {<<"lane", s>> : s \in LaneK}
                    \cup {<<"hand", w>> : w \in HandK}
                    \cup {<<"parked", d>> : d \in ParkK}
    BY DEF Tokens
  <2>2. /\ \A s, t \in LaneK : s = t
        /\ \A v, w \in HandK : v = w
        /\ \A d, e \in ParkK : d = e
        /\ LaneK # {} => HandK = {} /\ ParkK = {}
        /\ HandK # {} => ParkK = {}
    BY DEF PoolInv, LaneTokens, HandTokens, ParkedTokens
  <2>3. LaneK # {} \/ HandK # {} \/ ParkK # {} => k \in queued
    BY DEF PoolInv, LaneTokens, HandTokens, ParkedTokens
  <2>4. k \in queued /\ ~cancelled => LaneK # {} \/ HandK # {} \/ ParkK # {}
    BY DEF PoolInv, QueuedWaits
  <2> HIDE DEF LaneK, HandK, ParkK
  <2>5. \A a, b \in Tokens(k) : a = b
    BY <2>1, <2>2
  <2>6. Tokens(k) # {} <=> LaneK # {} \/ HandK # {} \/ ParkK # {}
    BY <2>1
  <2> QED BY <2>3, <2>4, <2>5, <2>6
<1> QED BY <1>1, PoolInvariant, PTL

\* Until shutdown a parked follow-up has a worker that will run it next.
THEOREM ParkedHasRunnerHolds == Spec => []ParkedHasRunner
<1>1. PoolInv => ParkedHasRunner
  BY DEF PoolInv, ParkedTokens, RunningExact, ParkedHasRunner
<1> QED BY <1>1, PoolInvariant, PTL

\* Once the context is cancelled no worker starts a task.
THEOREM NoStartAfterCancelHolds == Spec => NoStartAfterCancel
<1>1. TypeInv /\ [Next]_vars =>
        [\A w \in Worker : cancelled /\ pc'[w] = "running" => pc[w] = "running"]_vars
  <2> SUFFICES ASSUME TypeInv, Next, NEW v \in Worker, cancelled, pc'[v] = "running"
               PROVE  pc[v] = "running"
    OBVIOUS
  <2>1. CASE \E t \in Task : Submit(t)
    BY <2>1 DEF Submit
  <2>2. CASE \E w \in Worker : WorkerStep(w)
    BY <2>2 DEF WorkerStep, CheckContext, PollFast, PollEmpty, SelectTask,
         SelectDone, DispatchDrop, DispatchPark, DispatchStart, RunTask,
         RunFollowUp, Release, Receive, Goto, TypeInv, TypeOK
  <2>3. CASE StopFlag \/ StopCancel \/ StopReturn \/ Terminated
    BY <2>3 DEF StopFlag, StopCancel, StopReturn, Terminated, vars
  <2> QED BY <2>1, <2>2, <2>3 DEF Next
<1> QED BY <1>1, TypeInvariant, PTL DEF Spec, NoStartAfterCancel

-----------------------------------------------------------------------------
(* Refinement.  The abstract `active` is what the workers execute; the     *)
(* invariant makes it the map `running`.                                   *)

ActiveKeys == {KeyOf[hand[w]] : w \in {v \in Worker : Executing(v)}}

\* The keys being executed are those in `running`.
LEMMA ActiveIsRunning == ASSUME PoolInv PROVE ActiveKeys = running
  BY DEF PoolInv, RunningExact, ActiveKeys

\* Stop sets `stopped` first and cancels once.
StopOrder ==
    /\ cancelled => stopped
    /\ stopper = "flagged" => stopped /\ ~cancelled

\* The context is cancelled by the first call of Stop only.
LEMMA StopOrderInvariant == Spec => []StopOrder
<1>1. Init => StopOrder
  <2> SUFFICES ASSUME Init PROVE StopOrder
    OBVIOUS
  <2>1. cancelled = FALSE
    BY DEF Init
  <2>2. stopper # "flagged"
    BY DEF Init
  <2> QED BY <2>1, <2>2 DEF StopOrder
<1>2. StopOrder /\ [Next]_vars => StopOrder'
  <2> SUFFICES ASSUME StopOrder, [Next]_vars PROVE StopOrder'
    OBVIOUS
  <2>1. CASE StopFlag
    BY <2>1 DEF StopFlag, StopOrder
  <2>2. CASE StopCancel
    <3>1. stopped
      BY <2>2 DEF StopCancel, StopOrder
    <3> QED BY <3>1, <2>2 DEF StopCancel, StopOrder
  <2>3. CASE StopReturn
    BY <2>3 DEF StopReturn, StopOrder
  <2>4. CASE \E t \in Task : Submit(t)
    BY <2>4 DEF Submit, StopOrder
  <2>5. CASE \E w \in Worker : WorkerStep(w)
    <3>1. UNCHANGED <<stopped, cancelled, stopper>>
      BY <2>5 DEF WorkerStep, CheckContext, PollFast, PollEmpty, SelectTask,
         SelectDone, DispatchDrop, DispatchPark, DispatchStart, RunTask,
         RunFollowUp, Release, Receive
    <3> QED BY <3>1 DEF StopOrder
  <2>6. CASE Terminated \/ UNCHANGED vars
    BY <2>6 DEF Terminated, vars, StopOrder
  <2> QED BY <2>1, <2>2, <2>3, <2>4, <2>5, <2>6 DEF Next
<1> QED BY <1>1, <1>2, PTL DEF Spec

\* The pool starts as an idle scheduler.
LEMMA SchedulerInit == Init => Scheduler!Init
<1> SUFFICES ASSUME Init PROVE Scheduler!Init
  OBVIOUS
<1>1. {w \in Worker : Executing(w)} = {}
  BY DEF Init, Executing
<1>2. {KeyOf[hand[w]] : w \in {v \in Worker : Executing(v)}} = {}
  BY <1>1
<1>3. queued = {}
  BY DEF Init
<1>4. cancelled = FALSE
  BY DEF Init
<1> QED BY <1>2, <1>3, <1>4 DEF Scheduler!Init

\* Every step of the pool is a step of the scheduler, or none.
LEMMA SchedulerStep ==
    TypeInv /\ PoolInv /\ PoolInv' /\ StopOrder /\ [Next]_vars
        => [Scheduler!Next]_Scheduler!vars
<1> SUFFICES ASSUME TypeInv, PoolInv, PoolInv', StopOrder, [Next]_vars
             PROVE  [Scheduler!Next]_Scheduler!vars
  OBVIOUS
<1>1. ActiveKeys = running /\ ActiveKeys' = running'
  <2>1. ActiveKeys = running
    BY ActiveIsRunning
  <2>2. ActiveKeys' = running'
    BY DEF PoolInv, RunningExact, ActiveKeys
  <2> QED BY <2>1, <2>2
<1>2. SUFFICES \/ \E k \in Key : /\ ~cancelled /\ k \notin queued
                                 /\ queued' = queued \cup {k}
                                 /\ UNCHANGED <<running, cancelled>>
               \/ \E k \in Key : /\ ~cancelled /\ k \in queued \ running
                                 /\ queued' = queued \ {k}
                                 /\ running' = running \cup {k}
                                 /\ UNCHANGED cancelled
               \/ \E k \in Key : /\ k \in running /\ running' = running \ {k}
                                 /\ UNCHANGED <<queued, cancelled>>
               \/ \E k \in Key : /\ ~cancelled /\ k \in queued \cap running
                                 /\ queued' = queued \ {k}
                                 /\ UNCHANGED <<running, cancelled>>
               \/ /\ ~cancelled /\ cancelled'
                  /\ UNCHANGED <<queued, running>>
               \/ UNCHANGED <<queued, running, cancelled>>
  BY <1>1, <1>2 DEF ActiveKeys, Scheduler!Next, Scheduler!vars, Scheduler!Request,
     Scheduler!Begin, Scheduler!End, Scheduler!Again, Scheduler!Close
<1>3. CASE \E t \in Task : Submit(t)
  <2>1. PICK t \in Task : Submit(t)
    BY <1>3
  <2>2. ~cancelled /\ KeyOf[t] \in Key /\ KeyOf[t] \notin queued
        /\ queued' = queued \cup {KeyOf[t]} /\ UNCHANGED <<running, cancelled>>
    BY <2>1, TaskLane DEF Submit, StopOrder
  <2> QED BY <2>2
<1>4. ASSUME NEW w \in Worker, DispatchStart(w)
      PROVE  \E k \in Key : /\ ~cancelled /\ k \in queued \ running
                            /\ queued' = queued \ {k}
                            /\ running' = running \cup {k}
                            /\ UNCHANGED cancelled
  <2>1. KeyOf[hand[w]] \in queued \ running
    BY <1>4 DEF DispatchStart, PoolInv, HandTokens, Holding
  <2> QED BY <1>4, <2>1 DEF DispatchStart, TypeInv, TypeOK
<1>5. ASSUME NEW w \in Worker, RunFollowUp(w)
      PROVE  \E k \in Key : /\ ~cancelled /\ k \in queued \cap running
                            /\ queued' = queued \ {k}
                            /\ UNCHANGED <<running, cancelled>>
  <2>1. KeyOf[hand[w]] \in running /\ KeyOf[hand[w]] \in Key
    BY <1>5 DEF RunFollowUp, PoolInv, RunningExact, Executing, TypeInv, TypeOK
  <2>2. KeyOf[hand[w]] \in queued
    BY <1>5, <2>1 DEF RunFollowUp, PoolInv, ParkedTokens
  <2> QED BY <1>5, <2>1, <2>2 DEF RunFollowUp
<1>6. ASSUME NEW w \in Worker, Release(w)
      PROVE  \E k \in Key : /\ k \in running /\ running' = running \ {k}
                            /\ UNCHANGED <<queued, cancelled>>
  <2>1. KeyOf[hand[w]] \in running /\ KeyOf[hand[w]] \in Key
    BY <1>6 DEF Release, PoolInv, RunningExact, Executing, TypeInv, TypeOK
  <2> QED BY <1>6, <2>1 DEF Release
<1>7. ASSUME NEW w \in Worker,
             \/ CheckContext(w) \/ PollFast(w) \/ PollEmpty(w) \/ SelectTask(w)
             \/ SelectDone(w) \/ DispatchDrop(w) \/ DispatchPark(w) \/ RunTask(w)
      PROVE  UNCHANGED <<queued, running, cancelled>>
  BY <1>7 DEF CheckContext, PollFast, PollEmpty, SelectTask, SelectDone,
     DispatchDrop, DispatchPark, RunTask, Receive
<1>8. CASE StopCancel
  BY <1>8 DEF StopCancel, StopOrder
<1>9. CASE StopFlag \/ StopReturn \/ Terminated \/ UNCHANGED vars
  BY <1>9 DEF StopFlag, StopReturn, Terminated, vars
<1> QED
  BY <1>3, <1>4, <1>5, <1>6, <1>7, <1>8, <1>9 DEF Next, WorkerStep

\* Every behaviour of the pool is one of the coalescing scheduler: requests
\* coalesce until the work begins, a key is active once, nothing begins after
\* the close.
THEOREM PoolImplementsScheduler == Spec => ImplementsScheduler
  BY SchedulerInit, SchedulerStep, PoolInvariant, StopOrderInvariant, PTL
  DEF Spec, Scheduler!Spec, ImplementsScheduler
=============================================================================
