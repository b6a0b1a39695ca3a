----------------------------- MODULE ContactSync -----------------------------
(***************************************************************************)
(* Two-way synchronization of one address book with its CardDAV server:    *)
(* the sibling of CalendarSync, and not its copy.  The push task keeps no  *)
(* attempts, no pauses and no dead letters, and the pull task compares its *)
(* listing with one reading of the book, asks neither the queue nor, for   *)
(* its deletions, the mark of a local change, and its creations are        *)
(* upserts that spare a modified row.                                      *)
(*                                                                         *)
(* The book is enabled, writable and synchronized in both directions.      *)
(* A change is a number, as in CalendarSync: it stands for the vCard, the  *)
(* remote's ETag of it and the queue's created_at; 0 is "no such contact". *)
(***************************************************************************)
EXTENDS Naturals, FiniteSets

CONSTANTS
  Contact,      \* UIDs of the address book
  ContactId,    \* primary keys of contacts: numbers
  None,
  PushLimit,    \* entries a push round reads
  MaxChanges,   \* bound: user and remote writes
  MaxFailures   \* bound: requests, statements and rounds that fail

\* What the constants must be, ContactBook assumes of its instance
\* (BookAssumption).

VARIABLES
  server,   \* the remote collection: the change it holds of each contact
  row,      \* contacts
  queue,    \* contact_sync_queue, by contact_id
  push,     \* the push round
  pull,     \* the pull round (its field at is history)
  changes, failures,
  owed,     \* history: the user's last queued change of each contact that
            \* has not reached the remote
  risky,    \* history: changes queued while the entry they replace was in a
            \* push round, or without knowing that the remote has the contact
  stranded  \* history: bodies of rows left marked modified with nothing
            \* queued, and contacts deleted here with nothing queued

vars == <<server, row, queue, push, pull, changes, failures,
          owed, risky, stranded>>

Change == 0..MaxChanges
Op     == {"save", "delete"}
Row    == [id : ContactId, body : Change, etag : Change,
           modified : BOOLEAN, remote : BOOLEAN]
Entry  == [contact : Contact, change : Change, op : Op, remote : BOOLEAN]

PushIdle == [pc |-> "idle", todo |-> [i \in ContactId |-> None], id |-> None]
PullIdle == [pc |-> "idle", got |-> [c \in Contact |-> 0], complete |-> TRUE, at |-> 0,
             creates |-> {}, updates |-> {}, deletes |-> {}]

TypeOK ==
  /\ server \in [Contact -> Change]
  /\ row \in [Contact -> Row \cup {None}]
  /\ queue \in [ContactId -> Entry \cup {None}]
  /\ push \in [pc : {"idle", "next", "accepted", "mark"},
               todo : [ContactId -> Entry \cup {None}],
               id : ContactId \cup {None}]
  /\ pull \in [pc : {"idle", "compare", "apply"},
               got : [Contact -> Change], complete : BOOLEAN, at : Change,
               creates : SUBSET Contact,
               updates : SUBSET (Contact \X ContactId),
               deletes : SUBSET Contact]
  /\ changes \in Change /\ failures \in 0..MaxFailures
  /\ owed \in [Contact -> Change] /\ risky \subseteq Change
  /\ stranded \subseteq Change

-----------------------------------------------------------------------------
CanFail == failures < MaxFailures

Queued       == {i \in ContactId : queue[i] # None}
QueuedFor(c) == {i \in Queued : queue[i].contact = c}

(* Serial keys are never reused: one that nothing refers to any more is as *)
(* good as a new one.                                                      *)
UsedIds == Queued \cup {i \in ContactId : push.todo[i] # None}
                  \cup {row[c].id : c \in {d \in Contact : row[d] # None}}
                  \cup {u[2] : u \in pull.updates}
NewId   == CHOOSE i \in ContactId : i \notin UsedIds

(* One entry per row; a later change replaces what is to be sent, the path *)
(* stays that of the first.                                                *)
UpsertedOnce(old, new) == IF old = None THEN new ELSE old   \* mutant: DO NOTHING
Upserted(old, new) ==
  IF old = None THEN new ELSE [old EXCEPT !.change = new.change, !.op = new.op]

QueueContactSync(i, c, remote, op) ==
  /\ queue' = [queue EXCEPT ![i] = Upserted(@,
                 [contact |-> c, change |-> changes', op |-> op, remote |-> remote])]
  /\ owed' = [owed EXCEPT ![c] = changes']
  /\ risky' = IF \/ push.todo[i] # None
                 \/ op = "delete" /\ ~queue'[i].remote /\ server[c] # 0
              THEN risky \cup {changes'} ELSE risky

(* A handler's attempt to queue; its failure is ignored or logged.         *)
TryQueue(i, c, remote, op) ==
  \/ /\ QueueContactSync(i, c, remote, op)
     /\ UNCHANGED <<failures, stranded>>
  \/ /\ CanFail /\ failures' = failures + 1
     /\ stranded' = stranded \cup {changes'}
     /\ UNCHANGED <<queue, owed, risky>>

NewChange == changes < MaxChanges /\ changes' = changes + 1

-----------------------------------------------------------------------------
(* The user                                                                *)

CreateContact(c) ==
  /\ row[c] = None /\ UsedIds # ContactId
  /\ row' = [row EXCEPT ![c] = [id |-> NewId, body |-> changes', etag |-> 0,
                               modified |-> TRUE, remote |-> FALSE]]
  /\ TryQueue(NewId, c, FALSE, "save")

(* PUT by the CardDAV server.                                              *)
HandlePut(c) ==
  /\ NewChange
  /\ \/ /\ row[c] # None
        /\ row' = [row EXCEPT ![c].body = changes', ![c].etag = 0, ![c].modified = TRUE]
        /\ TryQueue(row[c].id, c, row[c].remote, "save")
     \/ CreateContact(c)
  /\ UNCHANGED <<server, push, pull>>

(* The desktop API creates a contact under a UID of its own making.        *)
HandleDesktopContactCreate(c) ==
  /\ server[c] = 0 /\ QueuedFor(c) = {} /\ owed[c] = 0
  /\ NewChange
  /\ CreateContact(c)
  /\ UNCHANGED <<server, push, pull>>

(* An edit by the desktop API keeps the ETag.                              *)
HandleDesktopContactPatch(c) ==
  /\ row[c] # None /\ NewChange
  /\ row' = [row EXCEPT ![c].body = changes', ![c].modified = TRUE]
  /\ TryQueue(row[c].id, c, row[c].remote, "save")
  /\ UNCHANGED <<server, push, pull>>

(* DELETE by the CardDAV server queues first; the row may fail to go.      *)
HandleDelete(c) ==
  /\ row[c] # None /\ NewChange
  /\ \/ /\ row' = [row EXCEPT ![c] = None]
        /\ TryQueue(row[c].id, c, row[c].remote, "delete")
     \/ /\ CanFail /\ failures' = failures + 1
        /\ QueueContactSync(row[c].id, c, row[c].remote, "delete")
        /\ stranded' = stranded \cup {row[c].body}
        /\ UNCHANGED row
  /\ UNCHANGED <<server, push, pull>>

(* The desktop API deletes the row, and queues if that went well.          *)
HandleDesktopContactDelete(c) ==
  /\ row[c] # None /\ NewChange
  /\ row' = [row EXCEPT ![c] = None]
  /\ TryQueue(row[c].id, c, row[c].remote, "delete")
  /\ UNCHANGED <<server, push, pull>>

(* Another client of the remote writes or deletes a contact there.         *)
RemoteSave(c) ==
  /\ NewChange
  /\ server' = [server EXCEPT ![c] = changes']
  /\ UNCHANGED <<row, queue, push, pull, failures, owed, risky, stranded>>

RemoteDelete(c) ==
  /\ server[c] # 0 /\ NewChange
  /\ server' = [server EXCEPT ![c] = 0]
  /\ UNCHANGED <<row, queue, push, pull, failures, owed, risky, stranded>>

-----------------------------------------------------------------------------
(* The push task                                                           *)

Todo    == {i \in ContactId : push.todo[i] # None}
Current == CHOOSE i \in Todo : \A j \in Todo : push.todo[i].change <= push.todo[j].change
Rest(i) == [push EXCEPT !.pc = "next", !.todo = [@ EXCEPT ![i] = None], !.id = None]

Oldest == {i \in Queued :
  Cardinality({j \in Queued : queue[j].change < queue[i].change}) < PushLimit}

(* A round reads the oldest entries, failed before or not.                 *)
GetPendingContactSync ==
  /\ push.pc = "idle" /\ Queued # {}
  /\ push' = [PushIdle EXCEPT !.pc = "next",
                !.todo = [i \in ContactId |-> IF i \in Oldest THEN queue[i] ELSE None]]
  /\ UNCHANGED <<server, row, queue, pull, changes, failures, owed, risky, stranded>>

PushEnds ==
  /\ push.pc = "next" /\ Todo = {}
  /\ push' = PushIdle
  /\ UNCHANGED <<server, row, queue, pull, changes, failures, owed, risky, stranded>>

Settled(c, change) == IF owed[c] = change THEN [owed EXCEPT ![c] = 0] ELSE owed

(* A deletion of a contact without a remote path is dropped.               *)
PushDrop ==
  /\ push.pc = "next" /\ Todo # {}
  /\ LET i == Current  entry == push.todo[i]
     IN  /\ entry.op = "delete" /\ ~entry.remote
         /\ queue' = [queue EXCEPT ![i] = None]
         /\ owed' = IF entry.change \in risky THEN owed
                    ELSE Settled(entry.contact, entry.change)
         /\ push' = Rest(i)
  /\ UNCHANGED <<server, row, pull, changes, failures, risky, stranded>>

(* The request: PUT, without If-Match, or DELETE.  It is answered, or it   *)
(* arrives and its answer is lost, or it fails; the entry of one that was  *)
(* not answered stays as it is.                                            *)
PushSend ==
  /\ push.pc = "next" /\ Todo # {}
  /\ LET i == Current  entry == push.todo[i]
     IN  /\ entry.op = "save" \/ entry.remote
         /\ \E answered, arrives \in BOOLEAN :
              /\ answered => arrives
              /\ answered \/ CanFail
              /\ failures' = IF answered THEN failures ELSE failures + 1
              /\ push' = IF answered THEN [push EXCEPT !.pc = "accepted", !.id = i]
                         ELSE Rest(i)
              /\ IF arrives
                 THEN /\ server' = [server EXCEPT ![entry.contact] =
                                      IF entry.op = "save" THEN entry.change ELSE 0]
                      /\ owed' = Settled(entry.contact, entry.change)
                 ELSE UNCHANGED <<server, owed>>
  /\ UNCHANGED <<row, queue, pull, changes, risky, stranded>>

(* The path a new contact got is written to its row, and the entry is      *)
(* removed, by its key.                                                    *)
PushAccepted ==
  /\ push.pc = "accepted"
  /\ LET i == push.id  entry == push.todo[i]
     IN  /\ row' = [c \in Contact |->
                      IF entry.op = "save" /\ row[c] # None /\ row[c].id = i
                      THEN [row[c] EXCEPT !.remote = TRUE] ELSE row[c]]
         /\ queue' = [queue EXCEPT ![i] = None]
         /\ push' = IF entry.op = "save" THEN [push EXCEPT !.pc = "mark"] ELSE Rest(i)
  /\ UNCHANGED <<server, pull, changes, failures, owed, risky, stranded>>

SyncedStillMarked(r) == [r EXCEPT !.etag = 0]   \* mutant: the mark stays
Synced(r) == [r EXCEPT !.modified = FALSE, !.etag = 0]

MarkContactSynced ==
  /\ push.pc = "mark"
  /\ row' = [c \in Contact |->
               IF row[c] # None /\ row[c].id = push.id THEN Synced(row[c]) ELSE row[c]]
  /\ push' = Rest(push.id)
  /\ UNCHANGED <<server, queue, pull, changes, failures, owed, risky, stranded>>

(* The round ends early: the credentials are rejected, its time is over,   *)
(* or the process stops.                                                   *)
PushStops ==
  /\ push.pc # "idle" /\ CanFail
  /\ push' = PushIdle /\ failures' = failures + 1
  /\ stranded' = stranded \cup (IF push.pc = "mark" THEN
       {row[c].body : c \in {d \in Contact : row[d] # None /\ row[d].id = push.id}}
       ELSE {})
  /\ UNCHANGED <<server, row, queue, pull, changes, owed, risky>>

-----------------------------------------------------------------------------
(* The pull task: SyncAddressBook                                          *)

(* The listing brings the cards along.  The fallback, multiget, may come   *)
(* back without some and then knows that it is incomplete.                 *)
QueryAddressBook ==
  /\ pull.pc = "idle"
  /\ \E missing \in {{}} \cup (IF CanFail
                               THEN {{c} : c \in {d \in Contact : server[d] # 0}} ELSE {}) :
       /\ pull' = [PullIdle EXCEPT !.pc = "compare", !.complete = missing = {},
                     !.got = [c \in Contact |-> IF c \in missing THEN 0 ELSE server[c]]]
       /\ failures' = IF missing = {} THEN failures ELSE failures + 1
  /\ UNCHANGED <<server, row, queue, push, changes, owed, risky, stranded>>

Seen == {c \in Contact : pull.got[c] # 0}
Rows == {c \in Contact : row[c] # None}

(* The book is read once and compared.                                     *)
CompareContacts ==
  /\ pull.pc = "compare"
  /\ pull' = [pull EXCEPT
       !.pc = "apply", !.at = changes,
       !.creates = Seen \ Rows,
       !.updates = {<<c, row[c].id>> : c \in {d \in Seen \cap Rows :
                      ~row[d].modified /\ row[d].etag # pull.got[d]}},
       !.deletes = IF pull.complete THEN Rows \ Seen ELSE {}]
  /\ UNCHANGED <<server, row, queue, push, changes, failures, owed, risky, stranded>>

(* One transaction: deletions, upserts that spare a modified row, updates  *)
(* by key.                                                                 *)
AfterDeletes == [c \in Contact |-> IF c \in pull.deletes THEN None ELSE row[c]]

Pulled(id, c, remote) == [id |-> id, body |-> pull.got[c], etag |-> pull.got[c],
                          modified |-> FALSE, remote |-> remote]

UpsertOverAny(r, c) == Pulled(r.id, c, TRUE)   \* mutant: without the WHERE
UpsertOver(r, c) == IF r.modified THEN r ELSE Pulled(r.id, c, TRUE)

FreshIds(new) == {f \in [new -> ContactId \ UsedIds] :
                    \A c, d \in new : c # d => f[c] # f[d]}

ApplyContactSyncChanges ==
  /\ pull.pc = "apply"
  /\ pull' = PullIdle
  /\ LET inserted == {c \in pull.creates : AfterDeletes[c] = None}
     IN  /\ FreshIds(inserted) # {}
         /\ LET id == CHOOSE f \in FreshIds(inserted) : TRUE
            IN  row' = [c \in Contact |->
                  IF c \in inserted THEN Pulled(id[c], c, TRUE)
                  ELSE IF c \in pull.creates THEN UpsertOver(AfterDeletes[c], c)
                  ELSE IF AfterDeletes[c] # None /\ <<c, row[c].id>> \in pull.updates
                       THEN Pulled(row[c].id, c, row[c].remote)
                  ELSE AfterDeletes[c]]
  /\ UNCHANGED <<server, queue, push, changes, failures, owed, risky, stranded>>

(* The round fails, runs out of time, or dies with the process.            *)
PullStops ==
  /\ pull.pc # "idle" /\ CanFail
  /\ pull' = PullIdle /\ failures' = failures + 1
  /\ UNCHANGED <<server, row, queue, push, changes, owed, risky, stranded>>

-----------------------------------------------------------------------------
Init ==
  /\ server = [c \in Contact |-> 0]
  /\ row = [c \in Contact |-> None]
  /\ queue = [i \in ContactId |-> None]
  /\ push = PushIdle /\ pull = PullIdle
  /\ changes = 0 /\ failures = 0
  /\ owed = [c \in Contact |-> 0] /\ risky = {} /\ stranded = {}

PushStep == \/ GetPendingContactSync \/ PushEnds \/ PushDrop \/ PushSend
            \/ PushAccepted \/ MarkContactSynced
PullStep == QueryAddressBook \/ CompareContacts \/ ApplyContactSyncChanges
User(c)  == \/ HandlePut(c) \/ HandleDelete(c) \/ HandleDesktopContactCreate(c)
            \/ HandleDesktopContactPatch(c) \/ HandleDesktopContactDelete(c)

Next ==
  \/ \E c \in Contact : User(c) \/ RemoteSave(c) \/ RemoteDelete(c)
  \/ PushStep \/ PushStops
  \/ PullStep \/ PullStops

Spec == Init /\ [][Next]_vars

(* The scheduler submits both tasks again and again and the pool runs them.*)
FairSpec == Spec /\ WF_vars(PushStep) /\ WF_vars(PullStep)

-----------------------------------------------------------------------------
(* A change that was queued stays in the queue, as made, until the remote  *)
(* has it, unless it was risky when queued: it replaced an entry that a    *)
(* push round had already read, or deleted a contact of which our row does *)
(* not know that the remote has it.                                        *)
ChangesAreNotLost ==
  \A c \in Contact : owed[c] # 0 =>
    \/ owed[c] \in risky
    \/ \E i \in QueuedFor(c) : queue[i].change = owed[c]

(* The pull puts the remote's card over an unsent edit only if the edit    *)
(* was made after it compared (pull.at) with a row that was clean: one it  *)
(* could see, or one of a contact that had no row then, it spares.         *)
EditsAreSpared ==
  [][\A c \in Contact :
       row[c] # None /\ row[c].modified /\ row'[c] # None /\ changes' = changes
       => \/ row'[c].body = row[c].body
          \/ <<c, row[c].id>> \in pull.updates /\ row[c].body > pull.at]_vars

(* When the writing stops, both sides come to agree on every contact, but  *)
(* for a row stranded with its mark and for a change lost to a race.       *)
Agree(c) ==
  \/ IF row[c] = None THEN server[c] = 0 ELSE row[c].body = server[c]
  \/ row[c] # None /\ row[c].modified /\ row[c].body \in stranded \cup risky
BothSidesAgree == \A c \in Contact : <>[]Agree(c)

(* Not so: the pull keeps off the rows the user edited locally.            *)
UnsentIsNotDeleted ==
  [][\A c \in Contact : row[c] # None /\ row[c].modified /\ row'[c] = None
       => changes' # changes]_vars
=============================================================================
