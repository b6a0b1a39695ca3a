---------------------------- MODULE CalendarSync ----------------------------
(***************************************************************************)
(* Two-way synchronization of one calendar with its CalDAV server.         *)
(*                                                                         *)
(* Three parties write the same events: the user, through the CalDAV       *)
(* server, the desktop API and the web API; the push task, which drains    *)
(* calendar_event_sync_queue towards the remote; and the pull task, which  *)
(* lists the remote and rewrites the local rows.  Push and pull are tasks  *)
(* of the same pool and run side by side; each is a sequence of requests   *)
(* and SQL statements between which everything else may happen.            *)
(*                                                                         *)
(* Data: a change is a number, drawn from one counter by every user and    *)
(* remote write; it stands for the iCalendar body (or the deletion), for   *)
(* the ETag the remote gives that body, and for the queue's created_at.    *)
(* 0 is "no such event" on the remote, and the empty ETag in a row (or one *)
(* made up locally, which no remote ETag equals).                          *)
(***************************************************************************)
EXTENDS Naturals, FiniteSets

CONSTANTS
  Event,        \* UIDs of the calendar
  Recurring,    \* the events no windowed listing can prove gone (keepReason)
  EventId,      \* primary keys of calendar_events: numbers
  None,
  GiveUp,       \* attempts after which a permanent refusal retires an entry
  PushLimit,    \* entries a push round reads
  MaxChanges,   \* bound: user and remote writes
  MaxFailures,  \* bound: requests, statements and rounds that fail
  MaxToggles    \* bound: times the calendar is switched off, on or demoted

ASSUME CalendarAssumption ==
  /\ Recurring \subseteq Event
  /\ EventId \subseteq Nat
  /\ None \notin Nat
  /\ GiveUp \in Nat \ {0} /\ PushLimit \in Nat \ {0}
  /\ MaxChanges \in Nat /\ MaxFailures \in Nat /\ MaxToggles \in Nat

VARIABLES
  server,    \* the remote collection: the change it holds of each event
  calendar,  \* "writable", "readonly" or "disabled"
  row,       \* calendar_events
  queue,     \* calendar_event_sync_queue, by event_id
  dead,      \* calendar_event_sync_dead_letters: the changes retired
  push,      \* the push round
  pull,      \* the pull round (its fields at and unasked are history)
  changes, failures, toggles,
  owed,      \* history: the user's last queued change of each event that
             \* neither reached the remote nor was retired
  risky,     \* history: changes queued while the entry they replace was in
             \* a push round, or without knowing that the remote has the event
  stranded   \* history: bodies of rows left marked modified with nothing
             \* queued that would ever clear the mark

vars == <<server, calendar, row, queue, dead, push, pull,
          changes, failures, toggles, owed, risky, stranded>>

Change == 0..MaxChanges
Op     == {"save", "delete"}   \* "create" and "update" are pushed alike
Row    == [id : EventId, body : Change, etag : Change,
           modified : BOOLEAN, remote : BOOLEAN]
Entry  == [event : Event, change : Change, op : Op,
           remote : BOOLEAN, tries : Nat]

\* NULL is no row.
ASSUME NoneAssumption == None \notin Row /\ None \notin Entry

PushIdle == [pc |-> "idle", todo |-> [i \in EventId |-> None],
             id |-> None, answer |-> None]
PullIdle == [pc |-> "idle", got |-> [e \in Event |-> 0], complete |-> TRUE, at |-> 0,
             prunable |-> {}, creates |-> {}, updates |-> {}, deletes |-> {},
             unasked |-> {}]

TypeOK ==
  /\ server \in [Event -> Change]
  /\ calendar \in {"writable", "readonly", "disabled"}
  /\ row \in [Event -> Row \cup {None}]
  /\ queue \in [EventId -> Entry \cup {None}]
  /\ dead \subseteq Change
  /\ push \in [pc : {"idle", "next", "answered", "mark"},
               todo : [EventId -> Entry \cup {None}],
               id : EventId \cup {None},
               answer : {None, "ok", "failed", "refused"}]
  /\ pull \in [pc : {"idle", "fetch", "prune", "decide", "apply"},
               got : [Event -> Change], complete : BOOLEAN, at : Change,
               prunable : SUBSET Event, creates : SUBSET Event,
               updates : SUBSET (Event \X EventId), deletes : SUBSET Event,
               unasked : SUBSET Event]
  /\ changes \in Change /\ failures \in 0..MaxFailures
  /\ toggles \in 0..MaxToggles
  /\ owed \in [Event -> Change] /\ risky \subseteq Change /\ stranded \subseteq Change

-----------------------------------------------------------------------------
Enabled  == calendar # "disabled"
CanWrite == calendar = "writable"
CanFail  == failures < MaxFailures

Queued         == {i \in EventId : queue[i] # None}
QueuedFor(e)   == {i \in Queued : queue[i].event = e}
PendingDelete(e) == \E i \in QueuedFor(e) : queue[i].op = "delete"

(* Serial keys are never reused: one that nothing refers to any more is as *)
(* good as a new one.                                                      *)
UsedIds == Queued \cup {i \in EventId : push.todo[i] # None}
                  \cup {row[e].id : e \in {f \in Event : row[f] # None}}
                  \cup {u[2] : u \in pull.updates}
NewId   == CHOOSE i \in EventId : i \notin UsedIds

(* The queue keeps one entry per event row.  A later change replaces what  *)
(* is to be sent; the path and the attempts stay those of the first.       *)
UpsertedOnce(old, new) == IF old = None THEN new ELSE old   \* mutant: DO NOTHING
Upserted(old, new) ==
  IF old = None THEN new ELSE [old EXCEPT !.change = new.change, !.op = new.op]

QueueCalendarEventSync(i, e, remote, op) ==
  queue' = [queue EXCEPT ![i] = Upserted(@,
              [event |-> e, change |-> changes', op |-> op,
               remote |-> remote, tries |-> 0])]

(* What the history variables note when a change is queued.                *)
Note(i, e, op) ==
  /\ owed' = [owed EXCEPT ![e] = changes']
  /\ risky' = IF \/ push.todo[i] # None
                 \/ op = "delete" /\ ~queue'[i].remote /\ server[e] # 0
              THEN risky \cup {changes'} ELSE risky

(* A handler's attempt to queue.  Only an enabled calendar queues, and a   *)
(* queue that cannot be written is logged and forgotten.                   *)
QueueEventSync(i, e, remote, op) ==
  \/ /\ Enabled
     /\ QueueCalendarEventSync(i, e, remote, op)
     /\ Note(i, e, op)
     /\ UNCHANGED <<failures, stranded>>
  \/ /\ \/ ~Enabled /\ UNCHANGED failures
        \/ Enabled /\ CanFail /\ failures' = failures + 1
     /\ stranded' = stranded \cup {changes'}
     /\ UNCHANGED <<queue, owed, risky>>

NewChange == changes < MaxChanges /\ changes' = changes + 1

-----------------------------------------------------------------------------
(* The user                                                                *)

(* PUT of an event: the CalDAV server creates it or rewrites it.  The ETag *)
(* becomes one of our own.                                                 *)
HandlePut(e) ==
  /\ CanWrite /\ NewChange
  /\ IF row[e] # None
     THEN /\ row' = [row EXCEPT ![e] =
                       [@ EXCEPT !.body = changes', !.etag = 0, !.modified = TRUE]]
          /\ QueueEventSync(row[e].id, e, row[e].remote, "save")
     ELSE /\ UsedIds # EventId
          /\ row' = [row EXCEPT ![e] =
                       [id |-> NewId, body |-> changes', etag |-> 0,
                        modified |-> TRUE, remote |-> FALSE]]
          /\ QueueEventSync(NewId, e, FALSE, "save")
  /\ UNCHANGED <<server, calendar, dead, push, pull, toggles>>

(* An edit through the desktop API keeps the ETag, and asks only that the  *)
(* source is not a feed: neither can_write nor enabled is looked at.       *)
DesktopPatch(e) ==
  /\ row[e] # None /\ NewChange
  /\ row' = [row EXCEPT ![e].body = changes', ![e].modified = TRUE]
  /\ QueueEventSync(row[e].id, e, row[e].remote, "save")
  /\ UNCHANGED <<server, calendar, dead, push, pull, toggles>>

(* DELETE, by the CalDAV server or the desktop API: the operation is       *)
(* queued first, while the row can still tell its path; the row may then   *)
(* fail to go.                                                             *)
HandleDelete(e) ==
  /\ CanWrite /\ row[e] # None /\ NewChange
  /\ \/ /\ row' = [row EXCEPT ![e] = None]
        /\ QueueEventSync(row[e].id, e, row[e].remote, "delete")
     \/ /\ CanFail /\ failures' = failures + 1
        /\ QueueCalendarEventSync(row[e].id, e, row[e].remote, "delete")
        /\ Note(row[e].id, e, "delete")
        /\ stranded' = stranded \cup {row[e].body}
        /\ UNCHANGED row
  /\ UNCHANGED <<server, calendar, dead, push, pull, toggles>>

(* The web API's edit marks the row and queues nothing.                    *)
HandleUpdateEvent(e) ==
  /\ CanWrite /\ row[e] # None /\ NewChange
  /\ row' = [row EXCEPT ![e].body = changes', ![e].modified = TRUE]
  /\ stranded' = stranded \cup {changes'}
  /\ UNCHANGED <<server, calendar, queue, dead, push, pull, failures, toggles,
                 owed, risky>>

(* Nor does its deletion.                                                  *)
HandleDeleteEvent(e) ==
  /\ CanWrite /\ row[e] # None /\ NewChange
  /\ row' = [row EXCEPT ![e] = None]
  /\ UNCHANGED <<server, calendar, queue, dead, push, pull, failures, toggles,
                 owed, risky, stranded>>

(* The calendar is switched off or on.                                     *)
SetCalendarEnabled ==
  /\ toggles < MaxToggles /\ toggles' = toggles + 1
  /\ calendar' = IF Enabled THEN "disabled" ELSE "writable"
  /\ UNCHANGED <<server, row, queue, dead, push, pull, changes, failures,
                 owed, risky, stranded>>

(* Discovery finds the real collections: the placeholder that holds events *)
(* becomes read-only.                                                      *)
DemoteDirectURLCalendar ==
  /\ toggles < MaxToggles /\ toggles' = toggles + 1
  /\ CanWrite /\ calendar' = "readonly"
  /\ UNCHANGED <<server, row, queue, dead, push, pull, changes, failures,
                 owed, risky, stranded>>

(* Another client of the remote writes or deletes an event there.          *)
RemoteSave(e) ==
  /\ NewChange
  /\ server' = [server EXCEPT ![e] = changes']
  /\ UNCHANGED <<calendar, row, queue, dead, push, pull, failures, toggles,
                 owed, risky, stranded>>

RemoteDelete(e) ==
  /\ server[e] # 0 /\ NewChange
  /\ server' = [server EXCEPT ![e] = 0]
  /\ UNCHANGED <<calendar, row, queue, dead, push, pull, failures, toggles,
                 owed, risky, stranded>>

-----------------------------------------------------------------------------
(* The push task                                                           *)

Todo    == {i \in EventId : push.todo[i] # None}
Current == CHOOSE i \in Todo : \A j \in Todo : push.todo[i].change <= push.todo[j].change
Rest(i) == [push EXCEPT !.pc = "next", !.todo = [@ EXCEPT ![i] = None],
                        !.id = None, !.answer = None]

Oldest(due) == {i \in due :
  Cardinality({j \in due : queue[j].change < queue[i].change}) < PushLimit}

(* A round reads its entries once: those never tried, and the failed ones  *)
(* whose pause has elapsed, the oldest first.                              *)
GetPendingCalendarEventSync ==
  /\ push.pc = "idle"
  /\ \E elapsed \in SUBSET {i \in Queued : queue[i].tries > 0} :
       LET due == elapsed \cup {i \in Queued : queue[i].tries = 0}
       IN  /\ due # {}
           /\ push' = [PushIdle EXCEPT !.pc = "next",
                         !.todo = [i \in EventId |->
                           IF i \in Oldest(due) THEN queue[i] ELSE None]]
  /\ UNCHANGED <<server, calendar, row, queue, dead, pull,
                 changes, failures, toggles, owed, risky, stranded>>

PushEnds ==
  /\ push.pc = "next" /\ Todo = {}
  /\ push' = PushIdle
  /\ UNCHANGED <<server, calendar, row, queue, dead, pull,
                 changes, failures, toggles, owed, risky, stranded>>

Settled(e, change) == IF owed[e] = change THEN [owed EXCEPT ![e] = 0] ELSE owed

(* Retiring copies the entry as the queue holds it now, not as it was read.*)
DeadLetter(i) ==
  /\ queue' = [queue EXCEPT ![i] = None]
  /\ IF queue[i] = None THEN UNCHANGED <<dead, owed>>
     ELSE /\ dead' = dead \cup {queue[i].change}
          /\ owed' = Settled(queue[i].event, queue[i].change)

(* An entry that cannot be sent: its calendar is off; it is read-only or   *)
(* does not take this component, and the row is then given back to the     *)
(* pull; or the remote never had the event, and there is nothing to delete.*)
PushRetire ==
  /\ push.pc = "next" /\ Todo # {}
  /\ LET i == Current  entry == push.todo[i]
     IN  \/ /\ ~Enabled
            /\ DeadLetter(i) /\ push' = Rest(i)
         \/ /\ calendar = "readonly" /\ entry.op = "save"
            /\ DeadLetter(i) /\ push' = [push EXCEPT !.pc = "mark", !.id = i]
         \/ /\ Enabled /\ entry.op = "delete" /\ ~entry.remote
            /\ queue' = [queue EXCEPT ![i] = None]
            /\ owed' = IF entry.change \in risky
                       THEN owed ELSE Settled(entry.event, entry.change)
            /\ push' = Rest(i) /\ UNCHANGED dead
  /\ UNCHANGED <<server, calendar, row, pull, changes, failures, toggles, risky, stranded>>

(* The request: PUT, without If-Match, or DELETE.  It is answered, or it   *)
(* reaches the remote and its answer is lost, or it fails, or the remote   *)
(* refuses it for good.                                                    *)
PushSend ==
  /\ push.pc = "next" /\ Todo # {} /\ Enabled
  /\ LET i == Current  entry == push.todo[i]
     IN  /\ IF entry.op = "save" THEN CanWrite ELSE entry.remote
         /\ \E answer \in {"ok"} \cup (IF CanFail THEN {"failed", "refused"} ELSE {}),
               arrives \in BOOLEAN :
              /\ answer = "ok" => arrives
              /\ answer = "refused" => ~arrives
              /\ push' = [push EXCEPT !.pc = "answered", !.id = i, !.answer = answer]
              /\ failures' = IF answer = "ok" THEN failures ELSE failures + 1
              /\ IF arrives
                 THEN /\ server' = [server EXCEPT ![entry.event] =
                                      IF entry.op = "save" THEN entry.change ELSE 0]
                      /\ owed' = Settled(entry.event, entry.change)
                 ELSE UNCHANGED <<server, owed>>
  /\ UNCHANGED <<calendar, row, queue, dead, pull, changes, toggles, risky, stranded>>

(* After an accepted request: the path a new event got is written to its   *)
(* row, and the entry is removed, by its key.                              *)
PushAccepted ==
  /\ push.pc = "answered" /\ push.answer = "ok"
  /\ LET i == push.id  entry == push.todo[i]
     IN  /\ row' = [e \in Event |->
                      IF entry.op = "save" /\ row[e] # None /\ row[e].id = i
                      THEN [row[e] EXCEPT !.remote = TRUE] ELSE row[e]]
         /\ queue' = [queue EXCEPT ![i] = None]
         /\ push' = IF entry.op = "save" THEN [push EXCEPT !.pc = "mark"] ELSE Rest(i)
  /\ UNCHANGED <<server, calendar, dead, pull, changes, failures, toggles,
                 owed, risky, stranded>>

(* The row of the pushed event is clean, and of no known ETag, so that the *)
(* next pull takes the remote's.                                           *)
SyncedStillMarked(r) == [r EXCEPT !.etag = 0]   \* mutant: the mark stays
Synced(r) == [r EXCEPT !.modified = FALSE, !.etag = 0]

MarkEventSynced ==
  /\ push.pc = "mark"
  /\ row' = [e \in Event |->
               IF row[e] # None /\ row[e].id = push.id THEN Synced(row[e]) ELSE row[e]]
  /\ push' = Rest(push.id)
  /\ UNCHANGED <<server, calendar, queue, dead, pull, changes, failures, toggles,
                 owed, risky, stranded>>

(* An entry that was removed meanwhile has no attempts to count.           *)
TriedAgain(entry) ==
  IF entry = None THEN None ELSE [entry EXCEPT !.tries = @ + 1]

(* After a failure the entry waits, one attempt older; a refusal at the    *)
(* last attempt retires it and gives the row of a save back to the pull.   *)
PushFailed ==
  /\ push.pc = "answered" /\ push.answer # "ok"
  /\ LET i == push.id  entry == push.todo[i]
     IN  IF push.answer = "refused" /\ entry.tries + 1 >= GiveUp
         THEN /\ DeadLetter(i)
              /\ push' = IF entry.op = "save" THEN [push EXCEPT !.pc = "mark"] ELSE Rest(i)
         ELSE /\ queue' = [queue EXCEPT ![i] = TriedAgain(@)]
              /\ push' = Rest(i)
              /\ UNCHANGED <<dead, owed>>
  /\ UNCHANGED <<server, calendar, row, pull, changes, failures, toggles, risky, stranded>>

(* The round ends early: the credentials are rejected, its time is over,   *)
(* or the process stops.                                                   *)
PushStops ==
  /\ push.pc # "idle" /\ CanFail
  /\ push' = PushIdle /\ failures' = failures + 1
  /\ stranded' = stranded \cup (IF push.pc = "mark" THEN
       {row[e].body : e \in {f \in Event : row[f] # None /\ row[f].id = push.id}}
       ELSE {})
  /\ UNCHANGED <<server, calendar, row, queue, dead, pull, changes, toggles,
                 owed, risky>>

-----------------------------------------------------------------------------
(* The pull task: SyncCalendar                                             *)

(* The listing: paths only.  A disabled calendar is not listed.            *)
QueryCalendar ==
  /\ pull.pc = "idle" /\ Enabled
  /\ pull' = [PullIdle EXCEPT !.pc = "fetch", !.got = server]
  /\ UNCHANGED <<server, calendar, row, queue, dead, push,
                 changes, failures, toggles, owed, risky, stranded>>

(* One GET per listed path (a single step here).  An object that is gone   *)
(* by now, or cannot be read, leaves the listing incomplete.               *)
GetCalendarObjects ==
  /\ pull.pc = "fetch"
  /\ LET listed == {e \in Event : pull.got[e] # 0}
     IN  \E unread \in {{}} \cup (IF CanFail THEN {{e} : e \in listed} ELSE {}) :
           LET got == [e \in Event |->
                         IF e \in listed \ unread THEN server[e] ELSE 0]
           IN  /\ pull' = [pull EXCEPT !.pc = "prune", !.got = got,
                             !.complete = \A e \in listed : got[e] # 0]
               /\ failures' = IF unread = {} THEN failures ELSE failures + 1
  /\ UNCHANGED <<server, calendar, row, queue, dead, push,
                 changes, toggles, owed, risky, stranded>>

Seen == {e \in Event : pull.got[e] # 0}

(* Why a row survives its absence from the listing.                        *)
KeepReason(e) ==
  \/ row[e].modified
  \/ QueuedFor(e) # {} \/ row[e].id \in Queued
  \/ e \in Recurring

(* The rows there are, and which of them absence may delete.               *)
GetCalendarPruneState ==
  /\ pull.pc = "prune"
  /\ pull' = [pull EXCEPT !.pc = "decide",
                !.prunable = {e \in Event : row[e] # None /\ ~KeepReason(e)}]
  /\ UNCHANGED <<server, calendar, row, queue, dead, push,
                 changes, failures, toggles, owed, risky, stranded>>

(* Each object read is compared with its row as it is now.  One whose row  *)
(* cannot be looked up is passed over, yet counts as seen.  An event that  *)
(* has no row is created unless its deletion is queued; if that cannot be  *)
(* asked, the error is logged and the event created all the same.          *)
CreatesAnyAbsent(failed, unasked) ==   \* mutant: queue not asked
  {e \in Seen \ failed : row[e] = None}
Creates(failed, unasked) ==
  {e \in Seen \ failed : row[e] = None /\ (PendingDelete(e) => e \in unasked)}

DecideChanges ==
  /\ pull.pc = "decide"
  /\ \E failed \in SUBSET Seen :
     \E unasked \in SUBSET {e \in Seen \ failed : row[e] = None /\ PendingDelete(e)} :
       /\ IF failed \cup unasked = {} THEN UNCHANGED failures
          ELSE CanFail /\ failures' = failures + 1
       /\ pull' = [pull EXCEPT
            !.pc = "apply", !.at = changes, !.unasked = unasked,
            !.updates = {<<e, row[e].id>> : e \in {f \in Seen \ failed :
                           row[f] # None /\ ~row[f].modified /\ row[f].etag # pull.got[f]}},
            !.creates = Creates(failed, unasked),
            !.deletes = IF pull.complete THEN pull.prunable \ Seen ELSE {}]
  /\ UNCHANGED <<server, calendar, row, queue, dead, push,
                 changes, toggles, owed, risky, stranded>>

(* One transaction.  A deletion spares a row modified meanwhile; an update *)
(* goes by the row's key and does not; a creation that meets a row fails   *)
(* the transaction.                                                        *)
DeletableAsDecided(e) == row[e] # None   \* mutant: the caller's check is enough
Deletable(e) == row[e] # None /\ ~row[e].modified

AfterDeletes == [e \in Event |->
  IF e \in pull.deletes /\ Deletable(e) THEN None ELSE row[e]]

Pulled(id, e) == [id |-> id, body |-> pull.got[e], etag |-> pull.got[e],
                  modified |-> FALSE, remote |-> TRUE]

FreshIds(new) == {f \in [new -> EventId \ UsedIds] :
                    \A d, e \in new : d # e => f[d] # f[e]}

ApplySyncChanges ==
  /\ pull.pc = "apply"
  /\ pull' = PullIdle
  /\ IF \E e \in pull.creates : AfterDeletes[e] # None
     THEN UNCHANGED row
     ELSE /\ FreshIds(pull.creates) # {}
          /\ LET id == CHOOSE f \in FreshIds(pull.creates) : TRUE
             IN  row' = [e \in Event |->
                   CASE e \in pull.creates -> Pulled(id[e], e)
                     [] AfterDeletes[e] # None /\ <<e, row[e].id>> \in pull.updates
                          -> [Pulled(row[e].id, e) EXCEPT !.remote = row[e].remote]
                     [] OTHER -> AfterDeletes[e]]
  /\ UNCHANGED <<server, calendar, queue, dead, push,
                 changes, failures, toggles, owed, risky, stranded>>

(* The round fails, runs out of time, or dies with the process.            *)
PullStops ==
  /\ pull.pc # "idle" /\ CanFail
  /\ pull' = PullIdle /\ failures' = failures + 1
  /\ UNCHANGED <<server, calendar, row, queue, dead, push, changes, toggles,
                 owed, risky, stranded>>

-----------------------------------------------------------------------------
(* The calendar was discovered and is empty here.                          *)
Init ==
  /\ server = [e \in Event |-> 0]
  /\ calendar = "writable"
  /\ row = [e \in Event |-> None]
  /\ queue = [i \in EventId |-> None]
  /\ dead = {}
  /\ push = PushIdle /\ pull = PullIdle
  /\ changes = 0 /\ failures = 0 /\ toggles = 0
  /\ owed = [e \in Event |-> 0] /\ risky = {} /\ stranded = {}

PushStep == \/ GetPendingCalendarEventSync \/ PushEnds \/ PushRetire \/ PushSend
            \/ PushAccepted \/ MarkEventSynced \/ PushFailed
PullStep == \/ QueryCalendar \/ GetCalendarObjects \/ GetCalendarPruneState
            \/ DecideChanges \/ ApplySyncChanges
User(e)  == \/ HandlePut(e) \/ DesktopPatch(e) \/ HandleDelete(e)
            \/ HandleUpdateEvent(e) \/ HandleDeleteEvent(e)

Next ==
  \/ \E e \in Event : User(e) \/ RemoteSave(e) \/ RemoteDelete(e)
  \/ SetCalendarEnabled \/ DemoteDirectURLCalendar
  \/ PushStep \/ PushStops
  \/ PullStep \/ PullStops

Spec == Init /\ [][Next]_vars

(* The scheduler submits both tasks again and again and the pool runs them;*)
(* a failed entry's pause ends, so a round that could take every entry     *)
(* eventually does.                                                        *)
FairSpec == Spec /\ WF_vars(PushStep) /\ WF_vars(PullStep)
                 /\ \A i \in EventId : SF_vars(PushStep /\ push'.todo[i] # None)

-----------------------------------------------------------------------------
(* A change the user made through an interface that queues it stays in the *)
(* queue, as made, until the remote has it or it is retired to the dead    *)
(* letters, unless it was risky when queued: it replaced an entry that a   *)
(* push round had already read, or deleted an event of which our row does  *)
(* not know that the remote has it.                                        *)
ChangesAreNotLost ==
  \A e \in Event : owed[e] # 0 =>
    \/ owed[e] \in risky
    \/ \E i \in QueuedFor(e) : queue[i].change = owed[e]

(* What the pull deletes, the user had not touched: a row goes while it is *)
(* marked modified only by the user's own deletion.                        *)
UnsentIsNotDeleted ==
  [][\A e \in Event : row[e] # None /\ row[e].modified /\ row'[e] = None
       => changes' # changes]_vars

(* The pull does not bring back an event whose deletion is queued, unless  *)
(* it decided to (pull.at) before that deletion, or the queue could not be *)
(* asked when it decided.                                                  *)
DeletedStaysDeleted ==
  [][\A e \in Event : \A i \in QueuedFor(e) :
       row[e] = None /\ row'[e] # None /\ queue[i].op = "delete"
       => changes' # changes \/ queue[i].change > pull.at \/ e \in pull.unasked]_vars

(* When the writing stops, both sides come to agree on every event, but    *)
(* for those the code leaves: a row stranded with its mark, by an edit     *)
(* that was not queued, a deletion that failed, a push round that died     *)
(* before clearing it, an entry retired while the calendar was off or one  *)
(* lost to a race; a recurring event deleted at the remote; and a calendar *)
(* switched off.                                                           *)
Agree(e) ==
  \/ IF row[e] = None THEN server[e] = 0 ELSE row[e].body = server[e]
  \/ row[e] # None /\ row[e].modified /\ row[e].body \in stranded \cup dead \cup risky
  \/ row[e] # None /\ server[e] = 0 /\ e \in Recurring
  \/ ~Enabled
BothSidesAgree == \A e \in Event : <>[]Agree(e)

(* Not so: a queued deletion is not undone by a pull that could not ask.   *)
DeletedNeverRevived ==
  [][\A e \in Event : \A i \in QueuedFor(e) :
       row[e] = None /\ row'[e] # None /\ queue[i].op = "delete"
       => changes' # changes \/ queue[i].change > pull.at]_vars

(* Not so: every change either reaches the remote or is retired.           *)
EveryChangeArrives ==
  \A e \in Event : owed[e] # 0 => \E i \in QueuedFor(e) : queue[i].change = owed[e]
=============================================================================
