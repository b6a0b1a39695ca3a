-------------------------- MODULE LoginBackoffProofs --------------------------
(***************************************************************************)
(* The pause between logins, for any number of pool tasks, web requests    *)
(* and watchers, any passwords and any schedule of pauses that does not    *)
(* fall.                                                                   *)
(***************************************************************************)
EXTENDS LoginBackoff, TLAPS

Kind == {"idle", "top", "paused", "login", "judged", "away"}
Verdict == {"none", "network", "ok", "rejected"}

-----------------------------------------------------------------------------
(* The schedule (Delay, authBackoffStep): its pauses never fall.           *)

\* A pause is at least the first one of the schedule, and at most the last.
LEMMA DelayRange ==
    ASSUME NEW n \in 1 .. (Len(Step) + 2), NEW s \in Nat
    PROVE  /\ Delay(n, s) \in Pause
           /\ Delay(n, s) >= Step[1]
           /\ Step[1] \in Nat \ {0}
<1>1. Len(Step) \in Nat /\ Len(Step) > 0
  BY LoginBackoffAssumption
<1>2. \A i \in 1 .. Len(Step) : Step[i] \in Nat \ {0} /\ Step[1] <= Step[i]
                                /\ Step[i] <= Step[Len(Step)]
  BY <1>1, LoginBackoffAssumption
<1>3. Slow \in Nat /\ Step[Len(Step)] <= Slow
  BY LoginBackoffAssumption
<1>4. /\ Len(Step) \in 1 .. Len(Step) /\ 1 \in 1 .. Len(Step)
      /\ Step[1] \in Nat \ {0} /\ Step[Len(Step)] \in Nat \ {0}
  BY <1>1, <1>2
<1>5. CASE n <= Len(Step)
  <2>1. n \in 1 .. Len(Step) /\ Delay(n, s) = Step[n]
    BY <1>1, <1>5 DEF Delay
  <2> QED
    BY <2>1, <1>2, <1>3, <1>4 DEF Pause
<1>6. CASE ~(n <= Len(Step))
  <2>1. Delay(n, s) = Slow \/ Delay(n, s) = Step[Len(Step)]
    BY <1>6 DEF Delay
  <2>2. Step[1] <= Step[Len(Step)]
    BY <1>2, <1>4
  <2> QED
    BY <2>1, <2>2, <1>3, <1>4 DEF Pause
<1> QED
  BY <1>5, <1>6

\* More rejections, or a longer incident, never make the pause shorter.
LEMMA DelayGrows ==
    ASSUME NEW n \in 1 .. (Len(Step) + 1), NEW k \in {n, n + 1},
           NEW s \in Nat, NEW t \in Nat, s <= t
    PROVE  Delay(n, s) <= Delay(k, t)
<1>1. Len(Step) \in Nat /\ Len(Step) > 0
  BY LoginBackoffAssumption
<1>2. \A i \in 1 .. Len(Step) : Step[i] \in Nat \ {0} /\ Step[i] <= Step[Len(Step)]
  BY <1>1, LoginBackoffAssumption
<1>3. /\ Slow \in Nat /\ Long \in Nat
      /\ Step[Len(Step)] <= Slow /\ Step[Len(Step)] \in Nat
  BY <1>1, <1>2, LoginBackoffAssumption
<1>4. CASE k <= Len(Step)
  <2>1. n \in 1 .. Len(Step) /\ k \in 1 .. Len(Step) /\ n <= k
    BY <1>1, <1>4
  <2>2. Step[n] <= Step[k]
    BY <2>1, LoginBackoffAssumption
  <2> QED
    BY <2>1, <2>2, <1>4 DEF Delay
<1>5. CASE ~(k <= Len(Step)) /\ n <= Len(Step)
  <2>1. n \in 1 .. Len(Step) /\ Delay(n, s) = Step[n]
    BY <1>1, <1>5 DEF Delay
  <2>2. Delay(k, t) \in {Slow, Step[Len(Step)]}
    BY <1>5 DEF Delay
  <2> QED
    BY <2>1, <2>2, <1>2, <1>3
<1>6. CASE ~(k <= Len(Step)) /\ ~(n <= Len(Step))
  BY <1>3, <1>6 DEF Delay
<1> QED
  BY <1>1, <1>4, <1>5, <1>6

\* Rejections beyond the last step of the schedule need not be counted.
LEMMA CappedIsEnough ==
    ASSUME NEW n \in 1 .. (Len(Step) + 2), NEW s \in Nat
    PROVE  /\ Capped(n) \in 1 .. (Len(Step) + 1)
           /\ Delay(Capped(n), s) = Delay(n, s)
<1>1. Len(Step) \in Nat
  BY LoginBackoffAssumption
<1> QED
  BY <1>1 DEF Capped, Delay


-----------------------------------------------------------------------------
(* The row of the subject.                                                 *)

\* The pause is never longer than what the schedule says of the row, and as
\* long as the last attempt it let through needs to be the shortest pause ago.
RowInv ==
    row # None => /\ row.wait <= Delay(row.failures, row.first)
                  /\ gap + row.wait >= Step[1]

RowType == row \in Row \cup {None} /\ gap \in 0 .. Step[1]

\* What a write of the row does: it stays a row, keeps RowInv, and takes
\* nothing from the pause.
Sound == /\ RowType'
         /\ RowInv'
         /\ row # None /\ row' # None => row'.wait >= row.wait

\* The first step of the back-off is a pause.
LEMMA StepOne == Step[1] \in Nat \ {0} /\ 1 \in 1 .. (Len(Step) + 2) /\ 0 \in 0 .. Step[1]
<1>1. Len(Step) \in Nat /\ Len(Step) > 0
  BY LoginBackoffAssumption
<1>2. 1 \in 1 .. Len(Step)
  BY <1>1
<1>3. Step[1] \in Nat \ {0}
  BY <1>2, LoginBackoffAssumption
<1> QED
  BY <1>1, <1>3

\* A row of the model, seen from one of its fields at a time.
LEMMA RowFields ==
    ASSUME NEW r \in Row
    PROVE  /\ r.failures \in 1 .. (Len(Step) + 1) /\ r.wait \in Nat /\ r.wait \in Pause
           /\ r.last \in 0 .. Burst /\ r.first \in Nat /\ r.first \in 0 .. Long
           /\ r.failures \in 1 .. (Len(Step) + 2)
           /\ Len(Step) \in Nat
<1>1. Len(Step) \in Nat /\ Long \in Nat /\ Slow \in Nat
  BY LoginBackoffAssumption
<1> QED
  BY <1>1 DEF Row, Pause

\* A row left alone is written soundly.
LEMMA KeptRow ==
    ASSUME RowType, RowInv, KeepRow
    PROVE  Sound
<1>1. row \in Row => row.wait \in Nat
  BY RowFields
<1> QED
  BY <1>1 DEF RowType, RowInv, Sound, KeepRow

\* So is a row that is dropped.
LEMMA DroppedRow ==
    ASSUME RowType, RowInv, Drop
    PROVE  Sound
  BY StepOne, LoginBackoffAssumption DEF RowType, RowInv, Sound, Drop

\* Guard.Allow: an expired pause is replaced by the one the row is due.
LEMMA AdmittedRow ==
    ASSUME RowType, RowInv, Admit
    PROVE  Sound
<1>1. CASE row = None /\ KeepRow
  BY <1>1, KeptRow
<1>2. CASE KeepRow
  BY <1>2, KeptRow
<1>3. CASE /\ row # None /\ ~Paused
           /\ row' = [row EXCEPT !.wait = Delay(row.failures, row.first)]
           /\ gap' = 0
  <2>1. row \in Row
    BY <1>3 DEF RowType
  <2>2. /\ row.failures \in 1 .. (Len(Step) + 2) /\ row.first \in Nat /\ row.wait \in Nat
    BY <2>1, RowFields
  <2>3. row.wait = 0
    BY <1>3, <2>2 DEF Paused
  <2> DEFINE d == Delay(row.failures, row.first)
  <2>4. d \in Pause /\ d >= Step[1] /\ Step[1] \in Nat
    BY <2>2, DelayRange
  <2>5. row' \in Row /\ row'.wait = d /\ row'.failures = row.failures /\ row'.first = row.first
    BY <1>3, <2>1, <2>4 DEF Row
  <2>6. d \in Nat
    BY <2>4, LoginBackoffAssumption DEF Pause
  <2> QED
    BY <1>3, <2>1, <2>3, <2>4, <2>5, <2>6, StepOne DEF RowType, RowInv, Sound
<1> QED
  BY <1>1, <1>2, <1>3 DEF Admit

\* recordAuthFailure: a first rejection, one of the same burst, a later one.
LEMMA RejectedRow ==
    ASSUME RowType, RowInv, row' = AfterFailure, UNCHANGED gap
    PROVE  Sound
<1>0. gap \in Nat /\ Step[1] \in Nat
  BY StepOne DEF RowType
<1>1. CASE row = None
  <2>1. Delay(1, 0) \in Pause /\ Delay(1, 0) >= Step[1] /\ Delay(1, 0) \in Nat
    <3>1. Delay(1, 0) \in Pause /\ Delay(1, 0) >= Step[1]
      BY StepOne, DelayRange
    <3> QED
      BY <3>1, LoginBackoffAssumption DEF Pause
  <2>2. row' = [failures |-> 1, wait |-> Delay(1, 0), last |-> 0, first |-> 0]
    BY <1>1 DEF AfterFailure
  <2>3. row' \in Row
    <3>1. Len(Step) \in Nat /\ Len(Step) > 0 /\ Burst \in Nat /\ Long \in Nat
      BY LoginBackoffAssumption
    <3> QED
      BY <2>1, <2>2, <3>1 DEF Row
  <2> QED
    BY <1>0, <1>1, <2>1, <2>2, <2>3 DEF RowType, RowInv, Sound
<1>2. CASE row # None /\ row.last < Burst
  <2>1. row \in Row /\ row' = [row EXCEPT !.last = 0]
    BY <1>2 DEF RowType, AfterFailure
  <2>2. row' \in Row /\ row'.wait = row.wait /\ row'.failures = row.failures
        /\ row'.first = row.first
    <3>1. Burst \in Nat
      BY LoginBackoffAssumption
    <3> QED
      BY <2>1, <3>1 DEF Row
  <2>3. row.wait \in Nat
    BY <2>1, RowFields
  <2> QED
    BY <1>2, <2>2, <2>3 DEF RowType, RowInv, Sound
<1>3. CASE row # None /\ ~(row.last < Burst)
  <2> DEFINE d == Delay(row.failures + 1, row.first)
             c == Capped(row.failures + 1)
  <2>1. row \in Row /\ row' = [row EXCEPT !.failures = c, !.last = 0, !.wait = d]
    BY <1>3 DEF RowType, AfterFailure
  <2>2. /\ row.failures \in 1 .. (Len(Step) + 1) /\ row.failures + 1 \in 1 .. (Len(Step) + 2)
        /\ row.first \in Nat /\ row.wait \in Nat
    BY <2>1, RowFields
  <2>3. d \in Pause /\ d >= Step[1]
    BY <2>2, DelayRange
  <2>4. c \in 1 .. (Len(Step) + 1) /\ Delay(c, row.first) = d
    BY <2>2, CappedIsEnough
  <2>5. Delay(row.failures, row.first) <= d
    BY <2>2, DelayGrows
  <2>6. Delay(row.failures, row.first) \in Nat /\ d \in Nat
    <3>1. Delay(row.failures, row.first) \in Pause
      BY <2>1, RowFields, DelayRange
    <3> QED
      BY <2>3, <3>1, LoginBackoffAssumption DEF Pause
  <2>7. row' \in Row /\ row'.wait = d /\ row'.failures = c /\ row'.first = row.first
    <3>1. Burst \in Nat
      BY LoginBackoffAssumption
    <3> DEFINE r1 == [row EXCEPT !.failures = c]
               r2 == [r1 EXCEPT !.last = 0]
               r3 == [r2 EXCEPT !.wait = d]
    <3>2. row' = r3
      BY <2>1
    <3> HIDE DEF d, c
    <3>3. r1 \in Row /\ r1.failures = c /\ r1.first = row.first
      BY <2>1, <2>4 DEF Row
    <3> HIDE DEF r1
    <3>4. r2 \in Row /\ r2.failures = c /\ r2.first = row.first
      BY <3>1, <3>3 DEF Row
    <3> HIDE DEF r2
    <3>5. r3 \in Row /\ r3.wait = d /\ r3.failures = c /\ r3.first = row.first
      BY <2>3, <3>4 DEF Row
    <3> HIDE DEF r3
    <3> QED
      BY <3>2, <3>5
  <2>8. row.wait <= d
    <3> HIDE DEF d
    <3> QED
      BY <1>3, <2>2, <2>5, <2>6 DEF RowInv
  <2> HIDE DEF d, c
  <2> QED
    BY <1>0, <1>3, <2>2, <2>3, <2>4, <2>6, <2>7, <2>8 DEF RowType, RowInv, Sound
<1> QED
  BY <1>1, <1>2, <1>3

\* Guard.Report, whatever it reports and whatever the store does.
LEMMA RecordedRow ==
    ASSUME RowType, RowInv, NEW verdict, Record(verdict)
    PROVE  Sound
  BY KeptRow, DroppedRow, RejectedRow DEF Record


-----------------------------------------------------------------------------
(* Those who log in.                                                       *)

Paths == path \in [Path -> Login]

\* What one step of p makes of the paths; the others stay as they are.
Moved(p, l) == /\ path' \in [Path -> Login]
               /\ path'[p] = l
               /\ \A q \in Path : q # p => path'[q] = path[q]

\* Set changes three fields of one path.
LEMMA SetMoves ==
    ASSUME Paths, NEW p \in Path, NEW pc \in Kind, NEW cred \in Password \cup {None},
           NEW verdict \in Verdict, Set(p, pc, cred, verdict)
    PROVE  /\ Moved(p, [pc |-> pc, cred |-> cred, verdict |-> verdict,
                        cancelled |-> path[p].cancelled])
           /\ path[p].cancelled \in BOOLEAN
<1>1. path[p] \in Login
  BY DEF Paths
<1> DEFINE l1 == [path EXCEPT ![p].pc = pc]
           l2 == [l1 EXCEPT ![p].cred = cred]
           l3 == [l2 EXCEPT ![p].verdict = verdict]
<1>2. path' = l3
  BY DEF Set
<1>3. /\ l1 \in [Path -> Login]
      /\ \A q \in Path : q # p => l1[q] = path[q]
      /\ l1[p].pc = pc /\ l1[p].cancelled = path[p].cancelled
  BY <1>1 DEF Paths, Login, Kind
<1> HIDE DEF l1
<1>4. /\ l2 \in [Path -> Login]
      /\ \A q \in Path : q # p => l2[q] = path[q]
      /\ l2[p].pc = pc /\ l2[p].cred = cred /\ l2[p].cancelled = path[p].cancelled
  BY <1>3 DEF Login
<1> HIDE DEF l2
<1>5. /\ l3 \in [Path -> Login]
      /\ \A q \in Path : q # p => l3[q] = path[q]
      /\ l3[p].pc = pc /\ l3[p].cred = cred /\ l3[p].verdict = verdict
      /\ l3[p].cancelled = path[p].cancelled
  BY <1>4 DEF Login, Verdict
<1> HIDE DEF l3
<1>6. l3[p] = [pc |-> pc, cred |-> cred, verdict |-> verdict, cancelled |-> path[p].cancelled]
  <2>1. l3[p] \in Login
    BY <1>5
  <2> QED
    BY <2>1, <1>5 DEF Login
<1>7. path[p].cancelled \in BOOLEAN
  BY <1>1 DEF Login
<1> QED
  BY <1>2, <1>5, <1>6, <1>7 DEF Moved

\* Idle is a state of a path.
LEMMA IdleIsLogin ==
    Idle \in Login /\ Idle.pc = "idle" /\ Idle.cred = None /\ Idle.verdict = "none"
    /\ Idle.cancelled = FALSE
  BY DEF Idle, Login

\* A path that ends becomes idle.
LEMMA ExitMoves ==
    ASSUME Paths, NEW p \in Path, path' = [path EXCEPT ![p] = Idle]
    PROVE  Moved(p, Idle)
  BY IdleIsLogin DEF Paths, Moved

\* What the fields of a path range over.
LEMMA Fields ==
    ASSUME Paths, NEW p \in Path
    PROVE  /\ path[p].pc \in Kind /\ path[p].cred \in Password \cup {None}
           /\ path[p].verdict \in Verdict /\ path[p].cancelled \in BOOLEAN
  BY DEF Paths, Login, Kind, Verdict

\* Every step moves nobody, or one path p; or it is the manager's, which cancels
\* the watcher in its map.
Cancels == /\ ~enabled /\ mapped # None /\ mapped' = None
           /\ path' = [path EXCEPT ![mapped].cancelled = path[mapped].pc # "idle"]

\* Cancelling a watcher moves nobody else.
LEMMA CancelMoves ==
    ASSUME Paths, mapped \in Watcher, Cancels
    PROVE  /\ path' \in [Path -> Login]
           /\ path'[mapped].cancelled = (path[mapped].pc # "idle")
           /\ \A q \in Path : q # mapped => path'[q] = path[q]
           /\ \A q \in Path : /\ path'[q].pc = path[q].pc /\ path'[q].cred = path[q].cred
                              /\ path'[q].verdict = path[q].verdict
<1>1. mapped \in Path
  BY DEF Path
<1>2. path[mapped] \in Login
  BY <1>1 DEF Paths
<1> DEFINE b == path[mapped].pc # "idle"
<1>3. b \in BOOLEAN
  OBVIOUS
<1>4. path' = [path EXCEPT ![mapped].cancelled = b]
  BY DEF Cancels
<1> HIDE DEF b
<1>5. path' = [path EXCEPT ![mapped] = [path[mapped] EXCEPT !.cancelled = b]]
  BY <1>4
<1>6. /\ [path[mapped] EXCEPT !.cancelled = b] \in Login
      /\ [path[mapped] EXCEPT !.cancelled = b].cancelled = b
      /\ [path[mapped] EXCEPT !.cancelled = b].pc = path[mapped].pc
      /\ [path[mapped] EXCEPT !.cancelled = b].cred = path[mapped].cred
      /\ [path[mapped] EXCEPT !.cancelled = b].verdict = path[mapped].verdict
  BY <1>2, <1>3 DEF Login
<1> QED
  BY <1>1, <1>5, <1>6 DEF b, Paths


-----------------------------------------------------------------------------
(* The inductive invariant.                                                *)

RestType ==
    /\ stored \in Password /\ enabled \in BOOLEAN /\ edit \in BOOLEAN
    /\ good \in Password \cup {None}
    /\ queue \in [Task -> Password \cup {None}]
    /\ mapped \in Watcher \cup {None}
    /\ errors \in 0 .. MaxErrors
    /\ tried \in BOOLEAN /\ overtaken \in BOOLEAN

\* Unless the saved password was rejected, or something else was under way when
\* it was saved, every copy of the account holds it and none was rejected; and
\* then there is no row, unless its handler has yet to lift the pause.
CauseInv ==
    ~tried /\ ~overtaken =>
        /\ edit \/ row = None
        /\ \A t \in Task : queue[t] \in {None, stored}
        /\ \A p \in Path : /\ path[p].pc # "idle" => path[p].cred = stored
                           /\ path[p].pc = "judged" => path[p].verdict # "rejected"

Inv == TypeOK /\ RowInv /\ OneWatcher /\ CauseInv

SpacedStep ==
    \A p \in Task \cup Watcher :
        path[p].pc # "login" /\ path'[p].pc = "login" /\ row # None /\ errors' = errors
            => gap = Step[1]

GrowsStep == row # None /\ row' # None /\ row'.wait < row.wait => UNCHANGED path

Good == Inv' /\ SpacedStep /\ GrowsStep

\* The types, in parts.
LEMMA TypeParts == TypeOK <=> RowType /\ Paths /\ RestType
  BY DEF TypeOK, RowType, Paths, RestType

\* The same for the next state.
LEMMA TypePartsNext == TypeOK' <=> RowType' /\ Paths' /\ RestType'
  BY DEF TypeOK, RowType, Paths, RestType

\* A sound write of the row never shortens the pause.
LEMMA SoundGrows ==
    ASSUME RowType, Sound
    PROVE  RowType' /\ RowInv' /\ GrowsStep
<1>1. row \in Row => row.wait \in Nat
  BY RowFields
<1>2. row' \in Row => row'.wait \in Nat
  BY RowFields
<1> QED
  BY <1>1, <1>2 DEF Sound, RowType, GrowsStep

\* One path moves, and stays the only uncancelled watcher if it is one.
LEMMA OneWatcherMoves ==
    ASSUME OneWatcher, NEW p \in Path, NEW l, Moved(p, l), UNCHANGED mapped,
           p \in Watcher => l.pc = "idle" \/ l.cancelled \/ p = mapped
    PROVE  OneWatcher'
  BY DEF OneWatcher, Moved, Path

\* One path moves, with the password that is stored.
LEMMA CauseMoves ==
    ASSUME CauseInv, NEW p \in Path, NEW l, Moved(p, l),
           UNCHANGED <<stored, tried, overtaken, edit>>,
           ~tried /\ ~overtaken =>
              /\ l.pc # "idle" => l.cred = stored
              /\ l.pc = "judged" => l.verdict # "rejected"
              /\ edit \/ row' = None
              /\ \A t \in Task : queue'[t] \in {None, stored}
    PROVE  CauseInv'
  BY DEF CauseInv, Moved

\* Only p may have begun a login.
LEMMA SpacedMoves ==
    ASSUME NEW p \in Path, NEW l, Moved(p, l),
           p \in Task \cup Watcher /\ path[p].pc # "login" /\ l.pc = "login"
               /\ row # None /\ errors' = errors => gap = Step[1]
    PROVE  SpacedStep
  BY DEF SpacedStep, Moved, Path

\* An attempt that a pause lets through finds the pause over.
LEMMA AdmittedIsSpaced ==
    ASSUME RowType, RowInv, errors \in Nat, Admit, row # None, errors' = errors
    PROVE  gap = Step[1]
<1>1. row \in Row /\ row.wait \in Nat
  BY RowFields DEF RowType
<1>2. ~Paused
  BY DEF Admit, StoreFails
<1>3. row.wait = 0
  BY <1>1, <1>2 DEF Paused
<1> QED
  BY <1>1, <1>3, StepOne DEF RowType, RowInv

\* A row that is not there is not made by letting somebody in.
LEMMA AdmitMakesNone ==
    ASSUME Admit, row = None
    PROVE  row' = None
  BY DEF Admit, KeepRow

\* The store fails a bounded number of times.
LEMMA ErrorsBounded ==
    ASSUME errors \in 0 .. MaxErrors, StoreFails \/ UNCHANGED errors
    PROVE  errors' \in 0 .. MaxErrors
  BY LoginBackoffAssumption DEF StoreFails


-----------------------------------------------------------------------------
(* Every step keeps the invariant and its two action properties.           *)

Quiet == ~tried /\ ~overtaken

\* What a step of one path has to show.
LEMMA PathStep ==
    ASSUME Inv, NEW p \in Path, NEW l, Moved(p, l), Sound, StoreFails \/ UNCHANGED errors,
           UNCHANGED <<stored, enabled, edit, good, mapped, tried, overtaken>>,
           queue' \in [Task -> Password \cup {None}],
           \A t \in Task : queue'[t] \in {None, queue[t], stored},
           p \in Watcher => l.pc = "idle" \/ l.cancelled \/ p = mapped,
           Quiet /\ l.pc # "idle" => l.cred = stored,
           Quiet /\ l.pc = "judged" => l.verdict # "rejected",
           Quiet /\ row = None => row' = None,
           p \in Task \cup Watcher /\ path[p].pc # "login" /\ l.pc = "login"
               /\ row # None /\ errors' = errors => gap = Step[1]
    PROVE  Good
<1>1. RowType /\ Paths /\ RestType
  BY TypeParts DEF Inv
<1>2. RowType' /\ RowInv' /\ GrowsStep
  BY <1>1, SoundGrows
<1>3. Paths'
  BY DEF Moved, Paths
<1>4. RestType'
  BY <1>1, ErrorsBounded DEF RestType
<1>5. OneWatcher'
  BY OneWatcherMoves DEF Inv
<1>6. CauseInv'
  <2>1. Quiet => edit \/ row' = None
    BY DEF Inv, CauseInv, Quiet
  <2>2. Quiet => \A t \in Task : queue'[t] \in {None, stored}
    BY DEF Inv, CauseInv, Quiet
  <2> QED
    BY <2>1, <2>2, CauseMoves DEF Inv, Quiet
<1>7. SpacedStep
  BY SpacedMoves
<1> QED
  BY <1>2, <1>3, <1>4, <1>5, <1>6, <1>7, TypePartsNext DEF Inv, Good

\* A path that does not move is one that moves to where it is.
LEMMA StandsStill ==
    ASSUME Paths, UNCHANGED path, NEW p \in Path
    PROVE  Moved(p, path[p])
  BY DEF Paths, Moved

\* While no password was overtaken, what is under way uses the stored one.
LEMMA QuietPaths ==
    ASSUME Inv, Quiet, NEW p \in Path
    PROVE  /\ path[p].pc # "idle" => path[p].cred = stored
           /\ path[p].pc = "judged" => path[p].verdict # "rejected"
           /\ \A t \in Task : queue[t] \in {None, stored}
  BY DEF Inv, CauseInv, Quiet

\* The pool starts a task.
LEMMA StartStep ==
    ASSUME Inv, NEW t \in Task, Start(t)
    PROVE  Good
<1>1. RowType /\ Paths /\ RestType /\ RowInv
  BY TypeParts DEF Inv
<1>2. /\ t \in Path /\ t \notin Watcher /\ path[t].pc = "idle" /\ queue[t] # None
      /\ queue[t] \in Password
      /\ queue' = [queue EXCEPT ![t] = None]
      /\ UNCHANGED <<stored, enabled, edit, good, mapped, tried, overtaken>>
  BY <1>1, LoginBackoffAssumption DEF Start, Path, RestType
<1>3. /\ queue' \in [Task -> Password \cup {None}]
      /\ \A u \in Task : queue'[u] \in {None, queue[u], stored}
  BY <1>1, <1>2 DEF RestType
<1>4. CASE Admit /\ Set(t, "login", queue[t], "none")
  <2> DEFINE l == [pc |-> "login", cred |-> queue[t], verdict |-> "none",
                   cancelled |-> path[t].cancelled]
  <2>1. Moved(t, l)
    BY <1>1, <1>2, <1>4, SetMoves DEF Kind, Verdict
  <2>2. Sound /\ (StoreFails \/ UNCHANGED errors)
    BY <1>1, <1>4, AdmittedRow DEF Admit
  <2>3. row # None /\ errors' = errors => gap = Step[1]
    BY <1>1, <1>4, AdmittedIsSpaced, LoginBackoffAssumption DEF RestType
  <2>4. row = None => row' = None
    BY <1>4, AdmitMakesNone
  <2>5. Quiet => queue[t] = stored
    BY <1>2, QuietPaths
  <2>6. l.pc = "login" /\ l.cred = queue[t]
    OBVIOUS
  <2> HIDE DEF l
  <2> QED
    BY <1>2, <1>3, <2>1, <2>2, <2>3, <2>4, <2>5, <2>6, PathStep
<1>5. CASE Refuse /\ UNCHANGED path
  <2>1. Moved(t, path[t]) /\ Sound /\ UNCHANGED errors /\ row' = row
    BY <1>1, <1>2, <1>5, StandsStill, KeptRow DEF Refuse, KeepRow
  <2> QED
    BY <1>2, <1>3, <2>1, PathStep
<1> QED
  BY <1>4, <1>5 DEF Start

\* A user starts a login.
LEMMA StartManualStep ==
    ASSUME Inv, NEW r \in Manual, StartManual(r)
    PROVE  Good
<1>1. RowType /\ Paths /\ RestType /\ RowInv
  BY TypeParts DEF Inv
<1>2. /\ r \in Path /\ r \notin Watcher /\ r \notin Task /\ stored \in Password
      /\ UNCHANGED <<stored, enabled, edit, good, queue, mapped, errors, tried, overtaken>>
      /\ Set(r, "login", stored, "none") /\ KeepRow
  BY <1>1, LoginBackoffAssumption DEF StartManual, Path, RestType
<1> DEFINE l == [pc |-> "login", cred |-> stored, verdict |-> "none",
                 cancelled |-> path[r].cancelled]
<1>3. Moved(r, l)
  BY <1>1, <1>2, SetMoves DEF Kind, Verdict
<1>4. Sound /\ row' = row
  BY <1>1, <1>2, KeptRow DEF KeepRow
<1>5. /\ queue' \in [Task -> Password \cup {None}]
      /\ \A u \in Task : queue'[u] \in {None, queue[u], stored}
  BY <1>1, <1>2 DEF RestType
<1>6. l.pc = "login" /\ l.cred = stored
  OBVIOUS
<1> HIDE DEF l
<1> QED
  BY <1>2, <1>3, <1>4, <1>5, <1>6, PathStep

\* A task or a user's login ends and records its verdict.
LEMMA ReportStep ==
    ASSUME Inv, NEW p \in Path, Report(p)
    PROVE  Good
<1>1. RowType /\ Paths /\ RestType /\ RowInv
  BY TypeParts DEF Inv
<1>2. /\ p \in Task \cup Manual /\ p \notin Watcher /\ path[p].pc = "judged"
      /\ Record(path[p].verdict)
      /\ path' = [path EXCEPT ![p] = Idle]
      /\ UNCHANGED <<stored, enabled, edit, good, queue, mapped, tried, overtaken>>
  BY LoginBackoffAssumption DEF Report
<1>3. Moved(p, Idle) /\ Idle.pc = "idle"
  BY <1>1, <1>2, ExitMoves, IdleIsLogin
<1>4. Sound /\ (StoreFails \/ UNCHANGED errors)
  BY <1>1, <1>2, RecordedRow DEF Record
<1>5. /\ queue' \in [Task -> Password \cup {None}]
      /\ \A u \in Task : queue'[u] \in {None, queue[u], stored}
  BY <1>1, <1>2 DEF RestType
<1>6. Quiet /\ row = None => row' = None
  BY <1>2, QuietPaths DEF Record, Drop, KeepRow
<1> QED
  BY <1>2, <1>3, <1>4, <1>5, <1>6, PathStep


\* What a step that moves nobody has to show.
LEMMA StillStep ==
    ASSUME Inv, UNCHANGED path, Sound, StoreFails \/ UNCHANGED errors,
           UNCHANGED <<stored, enabled, edit, mapped, tried, overtaken>>,
           good' \in Password \cup {None},
           queue' \in [Task -> Password \cup {None}],
           \A t \in Task : queue'[t] \in {None, queue[t], stored},
           Quiet /\ row = None => row' = None
    PROVE  Good
<1>1. RowType /\ Paths /\ RestType
  BY TypeParts DEF Inv
<1>2. RowType' /\ RowInv' /\ GrowsStep
  BY <1>1, SoundGrows
<1>3. Paths' /\ RestType'
  BY <1>1, ErrorsBounded DEF Paths, RestType
<1>4. OneWatcher' /\ CauseInv'
  BY DEF Inv, OneWatcher, CauseInv, Quiet
<1>5. SpacedStep
  BY DEF SpacedStep
<1> QED
  BY <1>2, <1>3, <1>4, <1>5, TypePartsNext DEF Inv, Good

\* The scheduler submits a task.
LEMMA SubmitStep ==
    ASSUME Inv, NEW t \in Task, Submit(t)
    PROVE  Good
<1>1. RowType /\ Paths /\ RestType /\ RowInv
  BY TypeParts DEF Inv
<1>2. /\ queue' = [queue EXCEPT ![t] = stored]
      /\ UNCHANGED <<stored, enabled, edit, good, path, mapped, tried, overtaken>>
      /\ StoreFails \/ UNCHANGED errors
      /\ KeepRow
  BY DEF Submit
<1>3. Sound /\ row' = row
  BY <1>1, <1>2, KeptRow DEF KeepRow
<1>4. /\ queue' \in [Task -> Password \cup {None}]
      /\ \A u \in Task : queue'[u] \in {None, queue[u], stored}
      /\ good' \in Password \cup {None}
  BY <1>1, <1>2 DEF RestType
<1> QED
  BY <1>2, <1>3, <1>4, StillStep

\* The provider changes its password.
LEMMA ProviderStep ==
    ASSUME Inv, ProviderChanges
    PROVE  Good
<1>1. RowType /\ Paths /\ RestType /\ RowInv
  BY TypeParts DEF Inv
<1>2. /\ UNCHANGED <<stored, enabled, edit, queue, path, mapped, errors, tried, overtaken>>
      /\ good' \in Password \cup {None} /\ KeepRow
  BY DEF ProviderChanges
<1>3. Sound /\ row' = row
  BY <1>1, <1>2, KeptRow DEF KeepRow
<1>4. /\ queue' \in [Task -> Password \cup {None}]
      /\ \A u \in Task : queue'[u] \in {None, queue[u], stored}
  BY <1>1, <1>2 DEF RestType
<1> QED
  BY <1>2, <1>3, <1>4, StillStep

\* The provider's word on the saved password is the cause of a pause.
LEMMA JudgeStep ==
    ASSUME Inv, NEW p \in Path, Judge(p)
    PROVE  Good
<1>1. RowType /\ Paths /\ RestType /\ RowInv /\ OneWatcher
  BY TypeParts DEF Inv
<1>2. PICK verdict \in {"network", "ok", "rejected"} :
        /\ Set(p, "judged", path[p].cred, verdict)
        /\ tried' = (tried \/ (verdict = "rejected" /\ path[p].cred = stored))
        /\ verdict = "rejected" => path[p].cred # good
  BY DEF Judge
<1>3. /\ path[p].pc = "login" /\ KeepRow
      /\ UNCHANGED <<stored, enabled, edit, good, queue, mapped, errors, overtaken>>
  BY DEF Judge
<1> DEFINE l == [pc |-> "judged", cred |-> path[p].cred, verdict |-> verdict,
                 cancelled |-> path[p].cancelled]
<1>4. Moved(p, l)
  <2>1. "judged" \in Kind /\ verdict \in Verdict
    BY <1>2 DEF Kind, Verdict
  <2>2. path[p].cred \in Password \cup {None}
    BY <1>1, Fields
  <2> QED BY <1>1, <1>2, <2>1, <2>2, SetMoves
<1>5. l.pc = "judged" /\ l.cred = path[p].cred /\ l.verdict = verdict
      /\ l.cancelled = path[p].cancelled
  OBVIOUS
<1> HIDE DEF l
<1>6. RowType' /\ RowInv' /\ GrowsStep
  BY <1>1, <1>3, KeptRow, SoundGrows
<1>7. Paths' /\ RestType'
  BY <1>1, <1>2, <1>3, <1>4 DEF Moved, Paths, RestType
<1>8. OneWatcher'
  <2>1. p \in Watcher => l.cancelled \/ p = mapped
    BY <1>1, <1>3, <1>5 DEF OneWatcher
  <2> QED
    BY <1>1, <1>3, <1>4, <2>1, OneWatcherMoves
<1>9. CauseInv'
  <2>1. SUFFICES ASSUME ~tried', ~overtaken'
                 PROVE  /\ edit' \/ row' = None
                        /\ \A t \in Task : queue'[t] \in {None, stored'}
                        /\ \A q \in Path : /\ path'[q].pc # "idle" => path'[q].cred = stored'
                                           /\ path'[q].pc = "judged" => path'[q].verdict # "rejected"
    BY DEF CauseInv
  <2>2. Quiet
    BY <1>1, <1>2, <1>3, <2>1 DEF Quiet, RestType
  <2>3. (edit \/ row = None) /\ path[p].cred = stored
    BY <1>3, <2>2, QuietPaths DEF Inv, CauseInv, Quiet
  <2>4. verdict # "rejected"
    BY <1>2, <2>1, <2>3
  <2>5. \A q \in Path : /\ path[q].pc # "idle" => path[q].cred = stored
                        /\ path[q].pc = "judged" => path[q].verdict # "rejected"
                        /\ \A t \in Task : queue[t] \in {None, stored}
    BY <2>2, QuietPaths
  <2> QED
    BY <1>3, <1>4, <1>5, <2>3, <2>4, <2>5 DEF Moved, KeepRow, Path
<1>10. SpacedStep
  BY <1>3, <1>4, <1>5, SpacedMoves
<1> QED
  BY <1>6, <1>7, <1>8, <1>9, <1>10, TypePartsNext DEF Inv, Good


\* reloadAccount ends the watcher or starts it over, with a fresh copy or the old.
LEMMA ReloadMoves ==
    ASSUME Inv, NEW w \in Watcher, path[w].pc # "idle", Reload(w)
    PROVE  /\ StoreFails \/ UNCHANGED errors
           /\ \E l \in Login :
                /\ Moved(w, l)
                /\ l.pc \in {"idle", "top"}
                /\ Quiet /\ l.pc # "idle" => l.cred = stored
                /\ l.pc = "idle" \/ l.cancelled \/ w = mapped
<1>1. RowType /\ Paths /\ RestType /\ OneWatcher
  BY TypeParts DEF Inv
<1>2. w \in Path /\ stored \in Password
  BY <1>1 DEF Path, RestType
<1>3. path[w].cancelled \/ w = mapped
  BY <1>1 DEF OneWatcher
<1>4. Quiet => path[w].cred = stored
  BY <1>2, QuietPaths
<1>5. ASSUME NEW cred \in Password \cup {None}, Set(w, "top", cred, "none"),
             Quiet => cred = stored
      PROVE  \E l \in Login :
                /\ Moved(w, l)
                /\ l.pc \in {"idle", "top"}
                /\ Quiet /\ l.pc # "idle" => l.cred = stored
                /\ l.pc = "idle" \/ l.cancelled \/ w = mapped
  <2> DEFINE l == [pc |-> "top", cred |-> cred, verdict |-> "none",
                   cancelled |-> path[w].cancelled]
  <2>1. Moved(w, l) /\ path[w].cancelled \in BOOLEAN
    BY <1>1, <1>2, <1>5, SetMoves DEF Kind, Verdict
  <2>2. l \in Login /\ l.pc = "top" /\ l.cred = cred /\ l.cancelled = path[w].cancelled
    BY <2>1 DEF Login
  <2> HIDE DEF l
  <2> QED
    BY <1>3, <1>5, <2>1, <2>2
<1>6. CASE enabled /\ Set(w, "top", stored, "none") /\ UNCHANGED errors
  BY <1>2, <1>5, <1>6
<1>7. CASE ~enabled /\ Exit(w) /\ UNCHANGED errors
  BY <1>1, <1>2, <1>7, ExitMoves, IdleIsLogin DEF Exit
<1>8. CASE StoreFails /\ Set(w, "top", path[w].cred, "none")
  <2>1. path[w].cred \in Password \cup {None}
    BY <1>1, <1>2, Fields
  <2> QED
    BY <1>4, <1>5, <1>8, <2>1
<1> QED
  BY <1>6, <1>7, <1>8 DEF Reload

\* What the four steps of a watcher have in common.
LEMMA WatcherStepLemma ==
    ASSUME Inv, NEW w \in Watcher, path[w].pc # "idle", UNCHANGED Others,
           Sound, StoreFails \/ UNCHANGED errors, NEW l, Moved(w, l),
           l.pc = "idle" \/ l.cancelled \/ w = mapped,
           Quiet /\ l.pc # "idle" => l.cred = stored,
           l.pc # "judged",
           Quiet /\ row = None => row' = None,
           l.pc = "login" /\ row # None /\ errors' = errors => gap = Step[1]
    PROVE  Good
<1>1. w \in Path /\ RestType
  BY TypeParts DEF Path, Inv
<1>2. /\ queue' \in [Task -> Password \cup {None}]
      /\ \A u \in Task : queue'[u] \in {None, queue[u], stored}
  BY <1>1 DEF Others, RestType
<1>3. UNCHANGED <<stored, enabled, edit, good, mapped, tried, overtaken>>
  BY DEF Others
<1> QED
  BY <1>1, <1>2, <1>3, PathStep

\* The watcher's loop, at its top.
LEMMA WatcherTopStep ==
    ASSUME Inv, NEW w \in Watcher, WatcherTop(w)
    PROVE  Good
<1>1. RowType /\ Paths /\ RestType /\ RowInv /\ OneWatcher
  BY TypeParts DEF Inv
<1>2. path[w].pc = "top" /\ UNCHANGED Others /\ w \in Path
  BY DEF WatcherTop, Path
<1>3. path[w].cancelled \/ w = mapped
  BY <1>1, <1>2 DEF OneWatcher
<1>4. Quiet => path[w].cred = stored
  BY <1>2, QuietPaths
<1>5. path[w].cred \in Password \cup {None}
  BY <1>1, <1>2, Fields
<1>6. CASE path[w].cancelled /\ Exit(w) /\ KeepRow /\ UNCHANGED errors
  <2>1. Moved(w, Idle) /\ Idle.pc = "idle" /\ Sound /\ row' = row
    BY <1>1, <1>2, <1>6, ExitMoves, IdleIsLogin, KeptRow DEF Exit, KeepRow
  <2> QED
    BY <1>2, <1>6, <2>1, WatcherStepLemma
<1>7. ASSUME NEW pc \in {"login", "paused"}, Set(w, pc, path[w].cred, "none")
      PROVE  \E l \in Login : /\ Moved(w, l) /\ l.pc = pc /\ l.cred = path[w].cred
                              /\ l.cancelled = path[w].cancelled
  <2> DEFINE l == [pc |-> pc, cred |-> path[w].cred, verdict |-> "none",
                   cancelled |-> path[w].cancelled]
  <2>1. Moved(w, l) /\ path[w].cancelled \in BOOLEAN
    BY <1>1, <1>2, <1>5, <1>7, SetMoves DEF Kind, Verdict
  <2>2. l \in Login
    BY <1>5, <2>1 DEF Login
  <2> QED
    BY <2>1, <2>2
<1>8. CASE Admit /\ Set(w, "login", path[w].cred, "none")
  <2>1. PICK l \in Login : /\ Moved(w, l) /\ l.pc = "login" /\ l.cred = path[w].cred
                           /\ l.cancelled = path[w].cancelled
    BY <1>7, <1>8
  <2>2. Sound /\ (StoreFails \/ UNCHANGED errors)
    BY <1>1, <1>8, AdmittedRow DEF Admit
  <2>3. row # None /\ errors' = errors => gap = Step[1]
    BY <1>1, <1>8, AdmittedIsSpaced, LoginBackoffAssumption DEF RestType
  <2>4. row = None => row' = None
    BY <1>8, AdmitMakesNone
  <2> QED
    BY <1>2, <1>3, <1>4, <2>1, <2>2, <2>3, <2>4, WatcherStepLemma
<1>9. CASE Refuse /\ Set(w, "paused", path[w].cred, "none")
  <2>1. PICK l \in Login : /\ Moved(w, l) /\ l.pc = "paused" /\ l.cred = path[w].cred
                           /\ l.cancelled = path[w].cancelled
    BY <1>7, <1>9
  <2>2. Sound /\ row' = row /\ UNCHANGED errors
    BY <1>1, <1>9, KeptRow DEF Refuse, KeepRow
  <2> QED
    BY <1>2, <1>3, <1>4, <2>1, <2>2, WatcherStepLemma
<1> QED
  BY <1>6, <1>8, <1>9 DEF WatcherTop

\* Those that wait, for the end of a pause or to connect again.
LEMMA WatcherWaitStep ==
    ASSUME Inv, NEW w \in Watcher, WatcherPaused(w) \/ WatcherAway(w)
    PROVE  Good
<1>1. RowType /\ Paths /\ RestType /\ RowInv
  BY TypeParts DEF Inv
<1>2. path[w].pc # "idle" /\ UNCHANGED Others /\ w \in Path /\ KeepRow
  BY DEF WatcherPaused, WatcherAway, Path
<1>3. Sound /\ row' = row
  BY <1>1, <1>2, KeptRow DEF KeepRow
<1>4. CASE Exit(w) /\ UNCHANGED errors
  <2>1. Moved(w, Idle) /\ Idle.pc = "idle"
    BY <1>1, <1>2, <1>4, ExitMoves, IdleIsLogin DEF Exit
  <2> QED
    BY <1>2, <1>3, <1>4, <2>1, WatcherStepLemma
<1>5. CASE Reload(w)
  <2>1. PICK l \in Login :
          /\ Moved(w, l)
          /\ l.pc \in {"idle", "top"}
          /\ Quiet /\ l.pc # "idle" => l.cred = stored
          /\ l.pc = "idle" \/ l.cancelled \/ w = mapped
    BY <1>2, <1>5, ReloadMoves
  <2>2. StoreFails \/ UNCHANGED errors
    BY <1>2, <1>5, ReloadMoves
  <2> QED
    BY <1>2, <1>3, <2>1, <2>2, WatcherStepLemma
<1> QED
  BY <1>4, <1>5 DEF WatcherPaused, WatcherAway

\* The watcher, after its login.
LEMMA WatcherJudgedStep ==
    ASSUME Inv, NEW w \in Watcher, WatcherJudged(w)
    PROVE  Good
<1>1. RowType /\ Paths /\ RestType /\ RowInv /\ OneWatcher
  BY TypeParts DEF Inv
<1>2. path[w].pc = "judged" /\ UNCHANGED Others /\ w \in Path
  BY DEF WatcherJudged, Path
<1>3. path[w].cancelled \/ w = mapped
  BY <1>1, <1>2 DEF OneWatcher
<1>4. Quiet => path[w].cred = stored /\ path[w].verdict # "rejected"
  BY <1>2, QuietPaths
<1>5. path[w].cred \in Password \cup {None}
  BY <1>1, <1>2, Fields
<1>6. CASE Exit(w) /\ KeepRow /\ UNCHANGED errors
  <2>1. Moved(w, Idle) /\ Idle.pc = "idle" /\ Sound /\ row' = row
    BY <1>1, <1>2, <1>6, ExitMoves, IdleIsLogin, KeptRow DEF Exit, KeepRow
  <2> QED
    BY <1>2, <1>6, <2>1, WatcherStepLemma
<1>7. CASE /\ Record(path[w].verdict)
           /\ Set(w, IF path[w].verdict = "rejected" THEN "top" ELSE "away",
                     path[w].cred, "none")
  <2> DEFINE pc == IF path[w].verdict = "rejected" THEN "top" ELSE "away"
             l == [pc |-> pc, cred |-> path[w].cred, verdict |-> "none",
                   cancelled |-> path[w].cancelled]
  <2>1. pc \in {"top", "away"}
    OBVIOUS
  <2>2. Set(w, pc, path[w].cred, "none")
    BY <1>7
  <2> HIDE DEF pc
  <2>3. Moved(w, l)
    BY <1>1, <1>2, <1>5, <2>1, <2>2, SetMoves DEF Kind, Verdict
  <2>4. l.pc \in {"top", "away"} /\ l.cred = path[w].cred /\ l.cancelled = path[w].cancelled
    BY <2>1
  <2>5. Sound /\ (StoreFails \/ UNCHANGED errors)
    BY <1>1, <1>7, RecordedRow DEF Record
  <2>6. Quiet /\ row = None => row' = None
    BY <1>4, <1>7 DEF Record, Drop, KeepRow
  <2> HIDE DEF l
  <2> QED
    BY <1>2, <1>3, <1>4, <2>3, <2>4, <2>5, <2>6, WatcherStepLemma
<1> QED
  BY <1>6, <1>7 DEF WatcherJudged


\* The manager starts a watcher when it has none, and cancels the one it has.
LEMMA RefreshStep ==
    ASSUME Inv, RefreshWatchers
    PROVE  Good
<1>1. RowType /\ Paths /\ RestType /\ RowInv /\ OneWatcher
  BY TypeParts DEF Inv
<1>2. /\ KeepRow
      /\ UNCHANGED <<stored, enabled, edit, good, queue, errors, tried, overtaken>>
  BY DEF RefreshWatchers
<1>3. RowType' /\ RowInv' /\ GrowsStep /\ row' = row
  BY <1>1, <1>2, KeptRow, SoundGrows DEF KeepRow
<1>4. CASE \E w \in Watcher : /\ mapped = None /\ path[w].pc = "idle"
                              /\ Set(w, "top", stored, "none") /\ mapped' = w
  <2>1. PICK w \in Watcher : /\ mapped = None /\ path[w].pc = "idle"
                             /\ Set(w, "top", stored, "none") /\ mapped' = w
    BY <1>4
  <2>2. w \in Path /\ stored \in Password
    BY <1>1 DEF Path, RestType
  <2> DEFINE l == [pc |-> "top", cred |-> stored, verdict |-> "none",
                   cancelled |-> path[w].cancelled]
  <2>3. Moved(w, l)
    BY <1>1, <2>1, <2>2, SetMoves DEF Kind, Verdict
  <2>4. l.pc = "top" /\ l.cred = stored
    OBVIOUS
  <2> HIDE DEF l
  <2>5. Paths' /\ RestType'
    BY <1>1, <1>2, <2>1, <2>3 DEF Moved, Paths, RestType
  <2>6. None \notin Watcher
    BY LoginBackoffAssumption DEF Path
  <2>7. OneWatcher'
    <3>1. \A u \in Watcher : path[u].pc # "idle" => path[u].cancelled
      BY <1>1, <2>1, <2>6 DEF OneWatcher
    <3> QED
      BY <2>1, <2>3, <3>1 DEF OneWatcher, Moved, Path
  <2>8. CauseInv'
    BY <1>2, <1>3, <2>2, <2>3, <2>4, CauseMoves DEF Inv, CauseInv
  <2>9. SpacedStep
    BY <2>2, <2>3, <2>4, SpacedMoves
  <2> QED
    BY <1>3, <2>5, <2>7, <2>8, <2>9, TypePartsNext DEF Inv, Good
<1>5. CASE Cancels
  <2>1. mapped \in Watcher /\ mapped' = None
    BY <1>1, <1>5 DEF RestType, Cancels
  <2>2. /\ path' \in [Path -> Login]
        /\ path'[mapped].cancelled = (path[mapped].pc # "idle")
        /\ \A q \in Path : q # mapped => path'[q] = path[q]
        /\ \A q \in Path : /\ path'[q].pc = path[q].pc /\ path'[q].cred = path[q].cred
                           /\ path'[q].verdict = path[q].verdict
    BY <1>1, <1>5, <2>1, CancelMoves
  <2>3. Paths' /\ RestType'
    BY <1>1, <1>2, <2>1, <2>2 DEF Paths, RestType
  <2>4. OneWatcher'
    BY <1>1, <2>1, <2>2 DEF OneWatcher, Path
  <2>5. CauseInv'
    BY <1>2, <1>3, <2>2 DEF Inv, CauseInv
  <2>6. SpacedStep
    BY <2>2 DEF SpacedStep, Path
  <2> QED
    BY <1>3, <2>3, <2>4, <2>5, <2>6, TypePartsNext DEF Inv, Good
<1> QED
  BY <1>4, <1>5 DEF RefreshWatchers, Cancels

\* A password that nobody is under way with is not paused by anything old.
LEMMA SaveStep ==
    ASSUME Inv, NEW password \in Password, NEW on \in BOOLEAN, SaveAccount(password, on)
    PROVE  Good
<1>1. RowType /\ Paths /\ RestType /\ RowInv /\ OneWatcher
  BY TypeParts DEF Inv
<1>2. /\ stored' = password /\ enabled' = on /\ edit' = TRUE /\ tried' = FALSE
      /\ overtaken' = UnderWay(password) /\ KeepRow
      /\ UNCHANGED <<good, queue, path, mapped, errors>>
  BY DEF SaveAccount
<1>3. RowType' /\ RowInv' /\ GrowsStep
  BY <1>1, <1>2, KeptRow, SoundGrows
<1>4. UnderWay(password) \in BOOLEAN
  BY DEF UnderWay
<1>5. Paths' /\ RestType' /\ OneWatcher' /\ SpacedStep
  BY <1>1, <1>2, <1>4 DEF Paths, RestType, OneWatcher, SpacedStep
<1>6. CauseInv'
  BY <1>2 DEF CauseInv, UnderWay
<1> QED
  BY <1>3, <1>5, <1>6, TypePartsNext DEF Inv, Good

\* The pause that a new password lifts.
LEMMA LiftStep ==
    ASSUME Inv, LiftPause
    PROVE  Good
<1>1. RowType /\ Paths /\ RestType /\ RowInv /\ OneWatcher
  BY TypeParts DEF Inv
<1>2. /\ edit' = FALSE /\ UNCHANGED <<stored, enabled, good, queue, path, mapped, tried>>
      /\ \/ Drop /\ UNCHANGED <<errors, overtaken>>
         \/ StoreFails /\ KeepRow /\ overtaken' = TRUE
  BY DEF LiftPause
<1>3. RowType' /\ RowInv' /\ GrowsStep
  BY <1>1, <1>2, KeptRow, DroppedRow, SoundGrows
<1>4. Paths' /\ RestType' /\ OneWatcher' /\ SpacedStep
  <2>1. errors' \in 0 .. MaxErrors /\ overtaken' \in BOOLEAN
    BY <1>1, <1>2, ErrorsBounded DEF RestType
  <2> QED
    BY <1>1, <1>2, <2>1 DEF Paths, RestType, OneWatcher, SpacedStep
<1>5. CauseInv'
  BY <1>2 DEF Inv, CauseInv, Drop
<1> QED
  BY <1>3, <1>4, <1>5, TypePartsNext DEF Inv, Good

\* Time takes from the pause what it adds to the distance from the last attempt.
LEMMA TickStep ==
    ASSUME Inv, Tick
    PROVE  Good
<1>1. RowType /\ Paths /\ RestType /\ RowInv /\ OneWatcher
  BY TypeParts DEF Inv
<1> DEFINE w == IF row.wait > 0 THEN row.wait - 1 ELSE 0
           a == Later(row.last, Burst)
           b == Later(row.first, Long)
           r1 == [row EXCEPT !.wait = w]
           r2 == [r1 EXCEPT !.last = a]
           r3 == [r2 EXCEPT !.first = b]
<1>2. /\ row # None /\ row' = r3
      /\ gap' = Later(gap, Step[1])
      /\ UNCHANGED <<stored, enabled, edit, good, queue, path, mapped, errors, tried, overtaken>>
  BY DEF Tick
<1>3. row \in Row /\ Long \in Nat /\ Burst \in Nat /\ Slow \in Nat
  BY <1>1, <1>2, LoginBackoffAssumption DEF RowType
<1>4. /\ row.wait \in Pause /\ row.wait \in Nat /\ row.first \in 0 .. Long
      /\ row.failures \in 1 .. (Len(Step) + 1) /\ row.last \in 0 .. Burst
  BY <1>3, RowFields
<1>5. w \in Pause /\ w \in Nat /\ w <= row.wait /\ w + 1 >= row.wait /\ (row.wait = 0 => w = 0)
  BY <1>3, <1>4 DEF Pause
<1>6. a \in 0 .. Burst /\ b \in 0 .. Long /\ b >= row.first
  BY <1>3, <1>4 DEF Later
<1> HIDE DEF w, a, b
<1>7. r1 \in Row /\ r1.wait = w /\ r1.first = row.first /\ r1.failures = row.failures
  BY <1>3, <1>5 DEF Row
<1> HIDE DEF r1
<1>8. r2 \in Row /\ r2.wait = w /\ r2.failures = row.failures
  BY <1>6, <1>7 DEF Row
<1> HIDE DEF r2
<1>9. r3 \in Row /\ r3.wait = w /\ r3.failures = row.failures /\ r3.first = b
  BY <1>6, <1>8 DEF Row
<1> HIDE DEF r3
<1>10. RowType' /\ RowInv'
  <2>1. Delay(row.failures, row.first) <= Delay(row.failures, b)
    <3>1. row.first \in Nat /\ b \in Nat /\ row.first <= b
      BY <1>3, <1>4, <1>6
    <3> QED
      BY <1>4, <3>1, DelayGrows
  <2>2. Delay(row.failures, row.first) \in Nat /\ Delay(row.failures, b) \in Nat
    <3>1. row.failures \in 1 .. (Len(Step) + 2) /\ row.first \in Nat /\ b \in Nat
      BY <1>3, <1>4, <1>6, RowFields
    <3>2. Delay(row.failures, row.first) \in Pause /\ Delay(row.failures, b) \in Pause
      BY <3>1, DelayRange
    <3> QED
      BY <3>2, LoginBackoffAssumption DEF Pause
  <2>3. row.wait <= Delay(row.failures, row.first) /\ gap + row.wait >= Step[1]
    BY <1>1, <1>2 DEF RowInv
  <2>4. row'.wait <= Delay(row'.failures, row'.first)
    BY <1>2, <1>4, <1>5, <1>9, <2>1, <2>2, <2>3
  <2>5. gap' \in 0 .. Step[1] /\ gap' + row'.wait >= Step[1]
    BY <1>1, <1>2, <1>4, <1>5, <1>9, <2>3, StepOne DEF RowType, Later
  <2> QED
    BY <1>2, <1>9, <2>4, <2>5 DEF RowType, RowInv
<1>11. Paths' /\ RestType' /\ OneWatcher' /\ SpacedStep
  BY <1>1, <1>2 DEF Paths, RestType, OneWatcher, SpacedStep
<1>12. CauseInv' /\ GrowsStep
  BY <1>2 DEF Inv, CauseInv, GrowsStep
<1> QED
  BY <1>10, <1>11, <1>12, TypePartsNext DEF Inv, Good

-----------------------------------------------------------------------------
(* The theorems.                                                           *)

\* The invariant holds at the start.
LEMMA InitInv == Init => Inv
<1> SUFFICES ASSUME Init PROVE Inv
  OBVIOUS
<1>1. RowType /\ Paths /\ RestType
  <2>1. RowType /\ Paths
    BY StepOne, IdleIsLogin DEF Init, RowType, Paths
  <2>2. queue \in [Task -> Password \cup {None}]
    BY DEF Init
  <2>3. errors \in 0 .. MaxErrors
    <3>1. MaxErrors \in Nat /\ errors = 0
      BY LoginBackoffAssumption DEF Init
    <3> QED
      BY <3>1
  <2> QED
    BY <2>1, <2>2, <2>3 DEF Init, RestType
<1>2. RowInv /\ OneWatcher /\ CauseInv
  BY IdleIsLogin DEF Init, RowInv, OneWatcher, CauseInv, Path
<1> QED
  BY <1>1, <1>2, TypeParts DEF Inv

\* Every step keeps the invariant, and is good.
LEMMA NextGood == Inv /\ [Next]_vars => Good
<1> SUFFICES ASSUME Inv, [Next]_vars PROVE Good
  OBVIOUS
<1>1. CASE \E t \in Task : Submit(t) \/ Start(t)
  BY <1>1, SubmitStep, StartStep
<1>2. CASE \E r \in Manual : StartManual(r)
  BY <1>2, StartManualStep
<1>3. CASE \E p \in Path : Judge(p) \/ Report(p)
  BY <1>3, JudgeStep, ReportStep
<1>4. CASE \E w \in Watcher : \/ WatcherTop(w) \/ WatcherPaused(w) \/ WatcherJudged(w)
                              \/ WatcherAway(w)
  BY <1>4, WatcherTopStep, WatcherWaitStep, WatcherJudgedStep
<1>5. CASE RefreshWatchers
  BY <1>5, RefreshStep
<1>6. CASE \E p \in Password, on \in BOOLEAN : SaveAccount(p, on)
  BY <1>6, SaveStep
<1>7. CASE LiftPause
  BY <1>7, LiftStep
<1>8. CASE ProviderChanges
  BY <1>8, ProviderStep
<1>9. CASE Tick
  BY <1>9, TickStep
<1>10. CASE UNCHANGED vars
  <2>1. Inv'
    BY <1>10 DEF vars, Inv, TypeOK, RowInv, OneWatcher, CauseInv
  <2>2. SpacedStep /\ GrowsStep
    BY <1>10 DEF vars, SpacedStep, GrowsStep
  <2> QED
    BY <2>1, <2>2 DEF Good
<1> QED
  BY <1>1, <1>2, <1>3, <1>4, <1>5, <1>6, <1>7, <1>8, <1>9, <1>10 DEF Next

\* The invariant always holds.
LEMMA Invariant == Spec => []Inv
<1>1. Inv /\ [Next]_vars => Inv'
  BY NextGood DEF Good
<1> QED
  BY InitInv, <1>1, PTL DEF Spec

\* The paths, the row and the account keep the types that the code gives them.
THEOREM TypeCorrect == Spec => []TypeOK
<1>1. Inv => TypeOK
  BY DEF Inv
<1> QED
  BY Invariant, <1>1, PTL

\* A pause has a cause: the provider rejected the saved password, or another
\* copy of the account was under way, or the pause could not be lifted.
THEOREM PausesHaveCauses == Spec => []PausedForACause
<1>1. Inv => PausedForACause
  BY DEF Inv, TypeOK, CauseInv, PausedForACause
<1> QED
  BY Invariant, <1>1, PTL

\* However many tasks and watchers wait for the end of a pause, one of them logs
\* in, and the next one the shortest pause later (AcquireAuthAttempt).
THEOREM AttemptsSpaced == Spec => AttemptsAreSpaced
<1>1. Inv /\ [Next]_vars => SpacedStep
  BY NextGood DEF Good
<1>2. SpacedStep <=>
        \A p \in Task \cup Watcher :
          path[p].pc # "login" /\ path'[p].pc = "login" /\ row # None /\ errors' = errors
             => gap = Step[1]
  BY DEF SpacedStep
<1> QED
  BY Invariant, <1>1, <1>2, PTL DEF Spec, AttemptsAreSpaced

\* Nothing but time takes from the pause of an incident (recordAuthFailure).
THEOREM PausesGrow == Spec => PauseOnlyGrows
<1>1. Inv /\ [Next]_vars => GrowsStep
  BY NextGood DEF Good
<1>2. GrowsStep <=> (row # None /\ row' # None /\ row'.wait < row.wait => UNCHANGED path)
  BY DEF GrowsStep
<1> QED
  BY Invariant, <1>1, <1>2, PTL DEF Spec, PauseOnlyGrows

\* An account never has two watchers that nobody has cancelled.
THEOREM WatchedOnce == Spec => []OneWatcher
<1>1. Inv => OneWatcher
  BY DEF Inv
<1> QED
  BY Invariant, <1>1, PTL

=============================================================================
