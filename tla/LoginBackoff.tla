----------------------------- MODULE LoginBackoff -----------------------------
(***************************************************************************)
(* The pause between logins of one external IMAP account whose provider    *)
(* rejects the credentials, and everybody who logs in with them:           *)
(*                                                                         *)
(*   auth_backoff    the row of the subject: how many rejections in a row, *)
(*                   when the next attempt is allowed                      *)
(*   pool tasks      sync and flag sync: submitted with a copy of the      *)
(*                   account, they ask the guard, log in, report           *)
(*   manual syncs    "Sync now": the same, without asking                  *)
(*   IDLE watchers   a goroutine with a copy of the account that logs in,  *)
(*                   holds a session, waits, reads the account again       *)
(*   IDLE manager    starts and cancels watchers, once per refresh         *)
(*   the user        edits the account, which lifts the pause              *)
(*   scheduler       submits tasks while there is no pause                 *)
(*                                                                         *)
(* Times are relative and capped, so time passes for ever in a finite      *)
(* model: `wait' is what is left until next_attempt_at, `last' and `first' *)
(* are what has passed since last_failure_at and first_failure_at.         *)
(***************************************************************************)
EXTENDS Naturals, Sequences, FiniteSets

CONSTANTS Task,      \* keys of the pool's tasks of the account
          Manual,    \* web requests that sync the account
          Watcher,   \* slots for watcher goroutines
          Password,  \* passwords the user may save
          Step,      \* the pauses after the first failures: 1, 5, 15, 60 minutes
          Slow,      \* the pause after a day of rejections: 6 hours
          Long,      \* what counts as a day of rejections
          Burst,     \* rejections closer than this are one incident: 30 seconds
          MaxErrors, \* bound: failed calls of the store
          None

Path == Task \cup Manual \cup Watcher
Pause == 0 .. Slow
Row == [failures : 1 .. (Len(Step) + 1), wait : Pause, last : 0 .. Burst,
        first : 0 .. Long]

ASSUME LoginBackoffAssumption ==
    /\ Step \in Seq(Nat \ {0})
    /\ Len(Step) > 0
    /\ \A i, j \in 1 .. Len(Step) : i <= j => Step[i] <= Step[j]
    /\ Slow \in Nat /\ Step[Len(Step)] <= Slow
    /\ Long \in Nat /\ Burst \in Nat \ {0} /\ MaxErrors \in Nat
    /\ IsFiniteSet(Watcher)
    /\ Task \cap Manual = {} /\ Task \cap Watcher = {} /\ Manual \cap Watcher = {}
    /\ None \notin Password \cup Row \cup Path

VARIABLES row,      \* the auth_backoff row, or None
          stored,   \* the password in the accounts table
          enabled,  \* the account is enabled
          edit,     \* the account is saved but its pause not yet lifted
          good,     \* the password the provider accepts, or None
          queue,    \* what each queued pool task holds: a password, or None
          path,     \* who logs in, with what, how far
          mapped,   \* IdleManager.watchers: the account's watcher, or None
          errors,   \* how often the store failed
          tried,    \* history: the stored password was rejected since it was saved
          overtaken,\* history: copies of the account were under way when it was saved,
                    \* or the user was told that the pause stays
          gap       \* history: time since the last attempt a pause let through

vars == <<row, stored, enabled, edit, good, queue, path, mapped, errors,
          tried, overtaken, gap>>

Login == [pc : {"idle", "top", "paused", "login", "judged", "away"},
          cred : Password \cup {None}, verdict : {"none", "network", "ok", "rejected"},
          cancelled : BOOLEAN]

TypeOK ==
    /\ row \in Row \cup {None}
    /\ stored \in Password
    /\ enabled \in BOOLEAN
    /\ edit \in BOOLEAN
    /\ good \in Password \cup {None}
    /\ queue \in [Task -> Password \cup {None}]
    /\ path \in [Path -> Login]
    /\ mapped \in Watcher \cup {None}
    /\ errors \in 0 .. MaxErrors
    /\ tried \in BOOLEAN /\ overtaken \in BOOLEAN
    /\ gap \in 0 .. Step[1]

Idle == [pc |-> "idle", cred |-> None, verdict |-> "none", cancelled |-> FALSE]

Init ==
    /\ row = None
    /\ stored \in Password
    /\ enabled = TRUE
    /\ edit = FALSE
    /\ good = stored
    /\ queue = [t \in Task |-> None]
    /\ path = [p \in Path |-> Idle]
    /\ mapped = None
    /\ errors = 0
    /\ tried = FALSE
    /\ overtaken = FALSE
    /\ gap = Step[1]

-----------------------------------------------------------------------------
(* The schedule and the row.                                               *)

Delay(failures, since) ==
    IF failures <= Len(Step) THEN Step[failures]
    ELSE IF since >= Long THEN Slow ELSE Step[Len(Step)]

\* Failures beyond the last step are all alike to Delay.
Capped(failures) == IF failures > Len(Step) THEN Len(Step) + 1 ELSE failures

Paused == row # None /\ row.wait > 0

\* A rejection of a row that is there, or of credentials that were fine.
AfterFailure ==
    IF row = None
    THEN [failures |-> 1, wait |-> Delay(1, 0), last |-> 0, first |-> 0]
    ELSE IF row.last < Burst
         THEN [row EXCEPT !.last = 0]
         ELSE [row EXCEPT !.failures = Capped(row.failures + 1), !.last = 0,
                          !.wait = Delay(row.failures + 1, row.first)]

\* The row goes: login accepted, or account edited.
Drop ==
    /\ row' = None
    /\ gap' = Step[1]

KeepRow == UNCHANGED <<row, gap>>

\* One more call of the store fails.
StoreFails == errors < MaxErrors /\ errors' = errors + 1

\* Mutant: nothing is pushed out.
AdmitUnleased ==
    \/ /\ row = None
       /\ KeepRow /\ UNCHANGED errors
    \/ /\ row # None /\ ~Paused
       /\ gap' = 0
       /\ UNCHANGED <<row, errors>>

\* Guard.Allow says yes.  Without a row nothing is written; after an expired
\* pause the next attempt is pushed out; a failing store allows.
Admit ==
    \/ /\ row = None
       /\ KeepRow /\ UNCHANGED errors
    \/ /\ row # None /\ ~Paused
       /\ row' = [row EXCEPT !.wait = Delay(row.failures, row.first)]
       /\ gap' = 0
       /\ UNCHANGED errors
    \/ /\ StoreFails
       /\ KeepRow

Refuse == Paused /\ KeepRow /\ UNCHANGED errors

\* Guard.Report of a verdict.  A failing store leaves the row as it is; a
\* rejection that meets a concurrent delete of its row fails in the same way.
Record(verdict) ==
    \/ /\ verdict = "ok"
       /\ Drop /\ UNCHANGED errors
    \/ /\ verdict = "rejected"
       /\ row' = AfterFailure
       /\ UNCHANGED <<gap, errors>>
    \/ /\ verdict = "network"
       /\ KeepRow /\ UNCHANGED errors
    \/ /\ verdict # "network"
       /\ StoreFails
       /\ KeepRow

-----------------------------------------------------------------------------
(* Tasks of the pool and web requests.                                     *)

Set(p, pc, cred, verdict) ==
    path' = [path EXCEPT ![p].pc = pc, ![p].cred = cred, ![p].verdict = verdict]

\* The scheduler offers an enabled account that is not paused; a task already
\* queued is refused as a duplicate and keeps the copy it was made with.
Submit(t) ==
    /\ enabled
    /\ queue[t] = None
    /\ \/ ~Paused /\ UNCHANGED errors
       \/ StoreFails
    /\ queue' = [queue EXCEPT ![t] = stored]
    /\ KeepRow
    /\ UNCHANGED <<stored, enabled, edit, good, path, mapped, tried, overtaken>>

Start(t) ==
    /\ path[t].pc = "idle"
    /\ queue[t] # None
    /\ \/ Admit /\ Set(t, "login", queue[t], "none")
       \/ Refuse /\ UNCHANGED path
    /\ queue' = [queue EXCEPT ![t] = None]
    /\ UNCHANGED <<stored, enabled, edit, good, mapped, tried, overtaken>>

\* One click is one login, paused or not.
StartManual(r) ==
    /\ path[r].pc = "idle"
    /\ Set(r, "login", stored, "none")
    /\ KeepRow
    /\ UNCHANGED <<stored, enabled, edit, good, queue, mapped, errors, tried, overtaken>>

\* The provider answers the login of p, or nobody does.
Judge(p) ==
    /\ path[p].pc = "login"
    /\ \E verdict \in {"network", IF path[p].cred = good THEN "ok" ELSE "rejected"} :
         /\ Set(p, "judged", path[p].cred, verdict)
         /\ tried' = (tried \/ (verdict = "rejected" /\ path[p].cred = stored))
    /\ KeepRow
    /\ UNCHANGED <<stored, enabled, edit, good, queue, mapped, errors, overtaken>>

Report(p) ==
    /\ p \in Task \cup Manual
    /\ path[p].pc = "judged"
    /\ Record(path[p].verdict)
    /\ path' = [path EXCEPT ![p] = Idle]
    /\ UNCHANGED <<stored, enabled, edit, good, queue, mapped, tried, overtaken>>

-----------------------------------------------------------------------------
(* IDLE watchers.                                                          *)

Others == <<stored, enabled, edit, good, queue, mapped, tried, overtaken>>

\* watchAccount returns; the manager's map is not told.
Exit(w) == path' = [path EXCEPT ![w] = Idle]

\* reloadAccount: a fresh copy, the end when the account is disabled, the old
\* copy when it cannot be read.
Reload(w) ==
    \/ /\ enabled
       /\ Set(w, "top", stored, "none")
       /\ UNCHANGED errors
    \/ /\ ~enabled
       /\ Exit(w)
       /\ UNCHANGED errors
    \/ /\ StoreFails
       /\ Set(w, "top", path[w].cred, "none")

\* The head of the reconnect loop.
WatcherTop(w) ==
    /\ path[w].pc = "top"
    /\ \/ path[w].cancelled /\ Exit(w) /\ KeepRow /\ UNCHANGED errors
       \/ /\ ~path[w].cancelled
          /\ \/ Admit /\ Set(w, "login", path[w].cred, "none")
             \/ Refuse /\ Set(w, "paused", path[w].cred, "none")
    /\ UNCHANGED Others

\* waitAuthPause polls the row, then the account is read again.
WatcherPaused(w) ==
    /\ path[w].pc = "paused"
    /\ \/ path[w].cancelled /\ Exit(w) /\ UNCHANGED errors
       \/ ~path[w].cancelled /\ ~Paused /\ Reload(w)
    /\ KeepRow
    /\ UNCHANGED Others

\* runIdleSession reports a success itself; a rejection is reported by the loop,
\* unless it was cancelled, and the loop starts over with the same copy.
WatcherJudged(w) ==
    /\ path[w].pc = "judged"
    /\ IF path[w].verdict # "ok" /\ path[w].cancelled
       THEN Exit(w) /\ KeepRow /\ UNCHANGED errors
       ELSE /\ Record(path[w].verdict)
            /\ Set(w, IF path[w].verdict = "rejected" THEN "top" ELSE "away",
                      path[w].cred, "none")
    /\ UNCHANGED Others

\* The session ends, its 15 minutes over or the connection broken, or nobody
\* answered the login; the reconnect delay passes and the account is read again.
WatcherAway(w) ==
    /\ path[w].pc = "away"
    /\ \/ path[w].cancelled /\ Exit(w) /\ UNCHANGED errors
       \/ ~path[w].cancelled /\ Reload(w)
    /\ KeepRow
    /\ UNCHANGED Others

-----------------------------------------------------------------------------
(* The IDLE manager: every five minutes.                                   *)

\* Mutant: a disabled account's watcher is forgotten, not cancelled.
RefreshWatchersNoCancel ==
    /\ \/ /\ enabled
          /\ mapped = None
          /\ \E w \in Watcher :
               /\ path[w].pc = "idle"
               /\ Set(w, "top", stored, "none")
               /\ mapped' = w
       \/ /\ ~enabled
          /\ mapped # None
          /\ mapped' = None
          /\ UNCHANGED path
    /\ KeepRow
    /\ UNCHANGED <<stored, enabled, edit, good, queue, errors, tried, overtaken>>

\* An account that is not in the map gets a watcher; a disabled one's watcher
\* is cancelled and forgotten.
RefreshWatchers ==
    /\ \/ /\ enabled
          /\ mapped = None
          /\ \E w \in Watcher :
               /\ path[w].pc = "idle"
               /\ Set(w, "top", stored, "none")
               /\ mapped' = w
       \/ /\ ~enabled
          /\ mapped # None
          /\ path' = [path EXCEPT ![mapped].cancelled = path[mapped].pc # "idle"]
          /\ mapped' = None
    /\ KeepRow
    /\ UNCHANGED <<stored, enabled, edit, good, queue, errors, tried, overtaken>>

-----------------------------------------------------------------------------
(* The user, the provider and time.                                        *)

\* Who may still report on something else than what is now saved.
UnderWay(password) ==
    \/ \E p \in Path : path[p].pc \in {"login", "judged"}
    \/ \E p \in Path : path[p].pc # "idle" /\ path[p].cred # password
    \/ \E t \in Task : queue[t] \notin {None, password}

\* updateAccount, its first statement: the account form or the switch.
SaveAccount(password, on) ==
    /\ ~edit
    /\ stored' = password
    /\ enabled' = on
    /\ edit' = TRUE
    /\ tried' = FALSE
    /\ overtaken' = UnderWay(password)
    /\ KeepRow
    /\ UNCHANGED <<good, queue, path, mapped, errors>>

\* Mutant: the edit leaves the pause alone.
LiftPauseNot ==
    /\ edit
    /\ edit' = FALSE
    /\ KeepRow
    /\ UNCHANGED <<stored, enabled, good, queue, path, mapped, errors, tried, overtaken>>

\* Its second one, resetAccountAuthBackoff; when it fails the user is told so.
LiftPause ==
    /\ edit
    /\ edit' = FALSE
    /\ \/ Drop /\ UNCHANGED <<errors, overtaken>>
       \/ StoreFails /\ KeepRow /\ overtaken' = TRUE
    /\ UNCHANGED <<stored, enabled, good, queue, path, mapped, tried>>

ProviderChanges ==
    /\ \E g \in Password \cup {None} : good' = g
    /\ KeepRow
    /\ UNCHANGED <<stored, enabled, edit, queue, path, mapped, errors, tried, overtaken>>

Later(n, cap) == IF n < cap THEN n + 1 ELSE cap

Tick ==
    /\ row # None
    /\ row' = [row EXCEPT !.wait = IF @ > 0 THEN @ - 1 ELSE 0,
                          !.last = Later(@, Burst), !.first = Later(@, Long)]
    /\ gap' = Later(gap, Step[1])
    /\ UNCHANGED <<stored, enabled, edit, good, queue, path, mapped, errors,
                   tried, overtaken>>

Next ==
    \/ \E t \in Task : Submit(t) \/ Start(t)
    \/ \E r \in Manual : StartManual(r)
    \/ \E p \in Path : Judge(p) \/ Report(p)
    \/ \E w \in Watcher : \/ WatcherTop(w) \/ WatcherPaused(w) \/ WatcherJudged(w)
                          \/ WatcherAway(w)
    \/ RefreshWatchers
    \/ \E p \in Password, on \in BOOLEAN : SaveAccount(p, on)
    \/ LiftPause
    \/ ProviderChanges
    \/ Tick

Spec == Init /\ [][Next]_vars

\* A provider that is asked again and again answers in the end.
Answer(p) == Judge(p) /\ path'[p].verdict # "network"

\* A watcher that has just reported a rejection asks the guard at once: another
\* path's success does not come in between every time.
WatcherRefused(w) == WatcherTop(w) /\ path'[w].pc = "paused"

TaskStep(t) == Start(t) \/ Judge(t) \/ Report(t)
WatcherStep(w) == Judge(w) \/ WatcherTop(w) \/ WatcherPaused(w) \/ WatcherJudged(w) \/ WatcherAway(w)

\* The scheduler ticks, the pool runs what it took, logins are answered, time
\* passes, and a handler that has saved the account goes on.
FairSpec ==
    /\ Spec
    /\ \A t \in Task : WF_vars(Submit(t)) /\ WF_vars(TaskStep(t)) /\ SF_vars(Answer(t))
    /\ \A w \in Watcher : /\ WF_vars(WatcherStep(w)) /\ SF_vars(Answer(w))
                          /\ SF_vars(WatcherRefused(w))
    /\ WF_vars(RefreshWatchers)
    /\ WF_vars(LiftPause)
    /\ WF_vars(Tick)

-----------------------------------------------------------------------------
(* Properties.                                                             *)

\* A pause has a cause (updateAccount, db/accounts.go): the provider rejected
\* the saved password, or a login with another copy of the account was under
\* way when it was saved, or the pause could not be lifted.
PausedForACause == row # None => tried \/ overtaken \/ edit

\* What the code says of an edit: the next cycle tries the new password at once
\* instead of sitting out the rest of the old one's pause.
NewPasswordNotPaused == row # None => tried \/ edit

\* However many paths wake up when a pause is over (AcquireAuthAttempt), one
\* logs in: attempts that a pause let through are the shortest pause apart,
\* unless the store failed.
AttemptsAreSpaced ==
    [][\A p \in Task \cup Watcher :
         path[p].pc # "login" /\ path'[p].pc = "login" /\ row # None /\ errors' = errors
            => gap = Step[1]]_vars

\* As long as an incident lasts nothing but time takes from its pause: not a
\* second rejection, late or close, and not the lease of an attempt.
PauseOnlyGrows ==
    [][row # None /\ row' # None /\ row'.wait < row.wait => UNCHANGED path]_vars

\* Only the watcher in the map runs uncancelled (refreshWatchers): an account
\* is never watched twice for longer than a cancelled session takes to end.
OneWatcher == \A w \in Watcher : path[w].pc # "idle" /\ ~path[w].cancelled => w = mapped

\* A rejection is over when its reason is: once the provider accepts the saved
\* password and nobody edits the account, the pause goes for good.
GoodPasswordGetsIn == <>[](good = stored /\ enabled /\ ~edit) => <>[](row = None)

\* What the comment of refreshWatchers says: it starts watchers for accounts
\* that are enabled.
EnabledIsWatched ==
    <>[](enabled /\ ~edit) => []<>(mapped # None /\ path[mapped].pc # "idle")

=============================================================================
