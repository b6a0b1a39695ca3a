-------------------------- MODULE TwoWaySyncProofs --------------------------
(***************************************************************************)
(* What holds of the two-way synchronization of a calendar and of an       *)
(* address book, for any number of events or contacts, rows, changes,      *)
(* failures and rounds: their types, that a queued change is not lost, and *)
(* what the pull may do to rows the user has changed.  The two components  *)
(* are siblings, and so are their proofs.                                  *)
(***************************************************************************)
EXTENDS CalendarSync, ContactBook, WellFoundedInduction, TLAPS

-----------------------------------------------------------------------------
(* The operators of the queue.                                             *)

\* A non-empty set of numbers has a least one.
LEMMA LeastNumber ==
  ASSUME NEW T \in SUBSET Nat, T # {}
  PROVE  \E x \in T : \A y \in T : x <= y
  <1> DEFINE Less == {p \in Nat \X Nat : p[1] < p[2]}
  <1>1. IsWellFoundedOn(Less, Nat)
    BY NatLessThanWellFounded DEF OpToRel
  <1>2. \A x, y \in Nat : y < x => <<y, x>> \in Less
    OBVIOUS
  <1> HIDE DEF Less
  <1>3. PICK x \in T : \A y \in T : ~(<<y, x>> \in Less)
    BY <1>1, WFMin
  <1>4. ASSUME NEW y \in T PROVE x <= y
    <2>1. ~(y < x)
      BY <1>2, <1>3
    <2> QED BY <2>1
  <1> QED BY <1>4

\* A round that has entries left takes one of them.
LEMMA CurrentIsTodo ==
  ASSUME TypeOK, Todo # {}
  PROVE  Current \in Todo
  <1> DEFINE T == {push.todo[i].change : i \in Todo}
  <1>1. \A i \in Todo : push.todo[i].change \in Nat
    BY CalendarAssumption DEF TypeOK, Todo, Entry, Change
  <1>2. T \in SUBSET Nat /\ T # {}
    BY <1>1
  <1>3. PICK x \in T : \A y \in T : x <= y
    BY <1>2, LeastNumber
  <1>4. \E i \in Todo : \A j \in Todo : push.todo[i].change <= push.todo[j].change
    BY <1>3
  <1> QED BY <1>4 DEF Current

\* A new key is a key, and names nothing yet.
LEMMA NewIdIsFresh ==
  ASSUME TypeOK, UsedIds # EventId
  PROVE  NewId \in EventId \ UsedIds
  <1>1. UsedIds \subseteq EventId
    BY DEF UsedIds, Queued, TypeOK, Row
  <1>2. \E i \in EventId : i \notin UsedIds
    BY <1>1
  <1> QED BY <1>2 DEF NewId

\* What is queued under a key is an entry; it carries the new change and,
\* where there was one before, keeps its event.
LEMMA UpsertedEntry ==
  ASSUME NEW old \in Entry \cup {None}, NEW new \in Entry
  PROVE  /\ Upserted(old, new) \in Entry
         /\ Upserted(old, new).change = new.change
         /\ Upserted(old, new).op = new.op
         /\ Upserted(old, new).event = IF old = None THEN new.event ELSE old.event
  BY DEF Upserted, Entry

\* Queueing a change touches one key.
LEMMA QueueingFields ==
  ASSUME TypeOK, NEW i \in EventId, NEW e \in Event, NEW remote \in BOOLEAN,
         NEW op \in Op, NewChange, QueueCalendarEventSync(i, e, remote, op)
  PROVE  /\ queue' \in [EventId -> Entry \cup {None}]
         /\ \A j \in EventId : j # i => queue'[j] = queue[j]
         /\ queue'[i] # None
         /\ queue'[i].change = changes' /\ queue'[i].op = op
         /\ queue'[i].event = IF queue[i] = None THEN e ELSE queue[i].event
  <1> DEFINE new == [event |-> e, change |-> changes', op |-> op,
                     remote |-> remote, tries |-> 0]
  <1>1. new \in Entry /\ new.change = changes' /\ new.op = op /\ new.event = e
    BY CalendarAssumption DEF Entry, NewChange, TypeOK, Change
  <1>2. queue[i] \in Entry \cup {None}
    BY DEF TypeOK
  <1>3. queue' = [queue EXCEPT ![i] = Upserted(queue[i], new)]
    BY DEF QueueCalendarEventSync, TypeOK
  <1> HIDE DEF new
  <1>4. Upserted(queue[i], new) # None
    BY <1>1, <1>2, UpsertedEntry, NoneAssumption
  <1> QED BY <1>1, <1>2, <1>3, <1>4, UpsertedEntry DEF TypeOK

\* An entry tried again is the same entry.
LEMMA TriedEntry ==
  ASSUME NEW entry \in Entry \cup {None}
  PROVE  /\ TriedAgain(entry) \in Entry \cup {None}
         /\ entry = None <=> TriedAgain(entry) = None
         /\ entry # None => /\ TriedAgain(entry).event = entry.event
                            /\ TriedAgain(entry).change = entry.change
                            /\ TriedAgain(entry).op = entry.op
  <1>1. CASE entry = None
    BY <1>1 DEF TriedAgain
  <1>2. CASE entry # None
    <2>1. entry \in Entry /\ TriedAgain(entry) = [entry EXCEPT !.tries = @ + 1]
      BY <1>2 DEF TriedAgain
    <2>2. TriedAgain(entry) \in Entry
      BY <2>1 DEF Entry
    <2> QED BY <1>2, <2>1, <2>2, NoneAssumption DEF Entry
  <1> QED BY <1>1, <1>2

\* An edited row keeps its key.
LEMMA EditedRow ==
  ASSUME NEW r \in Row, NEW n \in Change
  PROVE  /\ [r EXCEPT !.body = n, !.modified = TRUE] \in Row
         /\ [r EXCEPT !.body = n, !.modified = TRUE].id = r.id
         /\ [r EXCEPT !.body = n, !.etag = 0, !.modified = TRUE] \in Row
         /\ [r EXCEPT !.body = n, !.etag = 0, !.modified = TRUE].id = r.id
  <1>1. 0 \in Change
    BY CalendarAssumption DEF Change
  <1> QED BY <1>1 DEF Row

\* What is left of a round after an entry.
LEMMA RestFields ==
  ASSUME TypeOK, NEW i
  PROVE  /\ Rest(i).pc = "next" /\ Rest(i).id = None /\ Rest(i).answer = None
         /\ Rest(i).todo \in [EventId -> Entry \cup {None}]
         /\ \A j \in EventId : Rest(i).todo[j] = IF j = i THEN None ELSE push.todo[j]
         /\ Rest(i) \in [pc : {"idle", "next", "answered", "mark"},
               todo : [EventId -> Entry \cup {None}],
               id : EventId \cup {None},
               answer : {None, "ok", "failed", "refused"}]
  BY DEF TypeOK, Rest

-----------------------------------------------------------------------------
(* What the user's handlers do.                                            *)

\* The row of e keeps its key, goes, or comes with a new one.
RowMoves(e) ==
  /\ row' \in [Event -> Row \cup {None}]
  /\ \A d \in Event : d # e => row'[d] = row[d]
  /\ \/ row'[e] = None
     \/ row[e] # None /\ row'[e] # None /\ row'[e].id = row[e].id
     \/ row[e] = None /\ row'[e] # None /\ row'[e].id \in EventId \ UsedIds

\* The key under which a change of e is queued.
Key(i, e) == IF row[e] # None THEN i = row[e].id ELSE row'[e] # None /\ i = row'[e].id

\* A change of e is queued under key i.
Queues(i, e) ==
  /\ i \in EventId
  /\ queue' \in [EventId -> Entry \cup {None}]
  /\ \A j \in EventId : j # i => queue'[j] = queue[j]
  /\ queue'[i] # None
  /\ queue'[i].change = changes'
  /\ queue'[i].event = IF queue[i] = None THEN e ELSE queue[i].event
  /\ owed' = [owed EXCEPT ![e] = changes']
  /\ risky' \in {risky, risky \cup {changes'}}
  /\ push.todo[i] # None => changes' \in risky'

QueueMoves(e) == \/ UNCHANGED <<queue, owed, risky>>
                 \/ \E i \in EventId : Key(i, e) /\ Queues(i, e)

UserMoves(e) ==
  /\ RowMoves(e) /\ QueueMoves(e)
  /\ changes' = changes + 1 /\ changes' \in Change
  /\ failures' \in 0..MaxFailures /\ stranded' \subseteq Change
  /\ UNCHANGED <<server, calendar, dead, push, pull, toggles>>

\* A change that is queued and noted.
LEMMA NotedQueues ==
  ASSUME TypeOK, NEW i \in EventId, NEW e \in Event, NEW remote \in BOOLEAN,
         NEW op \in Op, NewChange, QueueCalendarEventSync(i, e, remote, op), Note(i, e, op)
  PROVE  Queues(i, e)
  BY QueueingFields DEF Queues, Note

\* A handler's attempt to queue.
LEMMA QueueingMoves ==
  ASSUME TypeOK, NEW i \in EventId, NEW e \in Event, NEW remote \in BOOLEAN,
         NEW op \in Op, NewChange, Key(i, e), QueueEventSync(i, e, remote, op)
  PROVE  QueueMoves(e) /\ failures' \in 0..MaxFailures /\ stranded' \subseteq Change
  <1>1. changes' \in Change
    BY CalendarAssumption DEF NewChange, TypeOK, Change
  <1>2. CASE /\ QueueCalendarEventSync(i, e, remote, op) /\ Note(i, e, op)
             /\ UNCHANGED <<failures, stranded>>
    BY <1>2, NotedQueues DEF QueueMoves, TypeOK
  <1>3. CASE /\ \/ ~Enabled /\ UNCHANGED failures
                \/ Enabled /\ CanFail /\ failures' = failures + 1
             /\ stranded' = stranded \cup {changes'}
             /\ UNCHANGED <<queue, owed, risky>>
    BY <1>1, <1>3, CalendarAssumption DEF QueueMoves, TypeOK, CanFail
  <1> QED BY <1>2, <1>3 DEF QueueEventSync

\* Every handler of the user makes a new change, moves one row, and queues at
\* most one entry, under the row's key.
LEMMA UserMovesHolds ==
  ASSUME TypeOK, NEW e \in Event, User(e)
  PROVE  UserMoves(e)
  <1>1. NewChange
    BY DEF User, HandlePut, DesktopPatch, HandleDelete, HandleUpdateEvent, HandleDeleteEvent
  <1>2. changes' = changes + 1 /\ changes' \in Change
    BY <1>1, CalendarAssumption DEF NewChange, TypeOK, Change
  <1>3. row[e] # None => row[e] \in Row /\ row[e].id \in EventId
        /\ row[e].remote \in BOOLEAN
    BY DEF TypeOK, Row
  <1>4. ASSUME NEW r \in Row, row' = [row EXCEPT ![e] = r],
               IF row[e] # None THEN r.id = row[e].id ELSE r.id \in EventId \ UsedIds
        PROVE  RowMoves(e) /\ row'[e] = r /\ r # None
    <2>1. row' \in [Event -> Row \cup {None}] /\ row'[e] = r
      BY <1>4 DEF TypeOK
    <2>2. \A d \in Event : d # e => row'[d] = row[d]
      BY <1>4 DEF TypeOK
    <2>3. r # None
      BY NoneAssumption
    <2> QED BY <1>4, <2>1, <2>2, <2>3 DEF RowMoves
  <1>5. row' = [row EXCEPT ![e] = None] => RowMoves(e)
    BY DEF RowMoves, TypeOK
  <1>6. UNCHANGED row => RowMoves(e)
    <2> SUFFICES ASSUME UNCHANGED row PROVE RowMoves(e)
      OBVIOUS
    <2>1. row'[e] = None \/ (row[e] # None /\ row'[e] # None /\ row'[e].id = row[e].id)
      OBVIOUS
    <2> QED BY <2>1 DEF RowMoves, TypeOK
  <1>7. CASE HandlePut(e)
    <2>1. CASE row[e] # None
      <3> DEFINE r == [row[e] EXCEPT !.body = changes', !.etag = 0, !.modified = TRUE]
      <3>1. r \in Row /\ r.id = row[e].id
        BY <1>2, <1>3, <2>1, EditedRow
      <3>2. row' = [row EXCEPT ![e] = r]
        BY <1>7, <2>1 DEF HandlePut, TypeOK
      <3> HIDE DEF r
      <3>3. RowMoves(e) /\ Key(row[e].id, e)
        BY <1>4, <2>1, <3>1, <3>2 DEF Key
      <3>4. QueueEventSync(row[e].id, e, row[e].remote, "save")
        BY <1>7, <2>1 DEF HandlePut
      <3>5. "save" \in Op
        BY DEF Op
      <3>6. QueueMoves(e) /\ failures' \in 0..MaxFailures /\ stranded' \subseteq Change
        BY <1>1, <1>3, <2>1, <3>3, <3>4, <3>5, QueueingMoves
      <3> QED BY <1>2, <1>7, <3>3, <3>6 DEF UserMoves, HandlePut
    <2>2. CASE row[e] = None
      <3> DEFINE r == [id |-> NewId, body |-> changes', etag |-> 0,
                       modified |-> TRUE, remote |-> FALSE]
      <3>0. NewId \in EventId \ UsedIds
        BY <1>7, <2>2, NewIdIsFresh DEF HandlePut
      <3>1. r \in Row /\ r.id = NewId
        BY <1>2, <3>0, CalendarAssumption DEF Row, Change
      <3>2. row' = [row EXCEPT ![e] = r]
        BY <1>7, <2>2 DEF HandlePut, TypeOK
      <3> HIDE DEF r
      <3>3. RowMoves(e) /\ Key(NewId, e)
        BY <1>4, <2>2, <3>0, <3>1, <3>2 DEF Key
      <3>4. QueueEventSync(NewId, e, FALSE, "save")
        BY <1>7, <2>2 DEF HandlePut
      <3>5. "save" \in Op
        BY DEF Op
      <3>6. QueueMoves(e) /\ failures' \in 0..MaxFailures /\ stranded' \subseteq Change
        BY <1>1, <2>2, <3>0, <3>3, <3>4, <3>5, QueueingMoves
      <3> QED BY <1>2, <1>7, <3>3, <3>6 DEF UserMoves, HandlePut
    <2> QED BY <2>1, <2>2
  <1>8. CASE DesktopPatch(e) \/ HandleUpdateEvent(e)
    <2> DEFINE r == [row[e] EXCEPT !.body = changes', !.modified = TRUE]
    <2>0. row[e] # None
      BY <1>8 DEF DesktopPatch, HandleUpdateEvent
    <2>1. r \in Row /\ r.id = row[e].id
      BY <1>2, <1>3, <2>0, EditedRow
    <2>2. row' = [row EXCEPT ![e] = r]
      BY <1>8 DEF DesktopPatch, HandleUpdateEvent, TypeOK
    <2> HIDE DEF r
    <2>3. RowMoves(e) /\ Key(row[e].id, e)
      BY <1>4, <2>0, <2>1, <2>2 DEF Key
    <2>4. CASE DesktopPatch(e)
      <3>1. QueueEventSync(row[e].id, e, row[e].remote, "save")
        BY <2>4 DEF DesktopPatch
      <3>2. "save" \in Op
        BY DEF Op
      <3>3. QueueMoves(e) /\ failures' \in 0..MaxFailures /\ stranded' \subseteq Change
        BY <1>1, <1>3, <2>0, <2>3, <3>1, <3>2, QueueingMoves
      <3> QED BY <1>2, <2>3, <2>4, <3>3 DEF UserMoves, DesktopPatch
    <2>5. CASE HandleUpdateEvent(e)
      BY <1>2, <2>3, <2>5 DEF UserMoves, QueueMoves, HandleUpdateEvent, TypeOK
    <2> QED BY <1>8, <2>4, <2>5
  <1>9. CASE HandleDelete(e)
    <2>0. row[e] # None /\ Key(row[e].id, e) /\ "delete" \in Op
      BY <1>9 DEF HandleDelete, Key, Op
    <2>1. CASE /\ row' = [row EXCEPT ![e] = None]
               /\ QueueEventSync(row[e].id, e, row[e].remote, "delete")
      <3>1. QueueMoves(e) /\ failures' \in 0..MaxFailures /\ stranded' \subseteq Change
        BY <1>1, <1>3, <2>0, <2>1, QueueingMoves
      <3> QED BY <1>2, <1>5, <1>9, <2>1, <3>1 DEF UserMoves, HandleDelete
    <2>2. CASE /\ CanFail /\ failures' = failures + 1
               /\ QueueCalendarEventSync(row[e].id, e, row[e].remote, "delete")
               /\ Note(row[e].id, e, "delete")
               /\ stranded' = stranded \cup {row[e].body}
               /\ UNCHANGED row
      <3>1. Queues(row[e].id, e)
        BY <1>1, <1>3, <2>0, <2>2, NotedQueues
      <3>2. failures' \in 0..MaxFailures /\ stranded' \subseteq Change
        BY <1>3, <2>0, <2>2, CalendarAssumption DEF CanFail, TypeOK, Row
      <3>3. QueueMoves(e)
        BY <1>3, <2>0, <3>1 DEF QueueMoves
      <3> QED BY <1>2, <1>6, <1>9, <2>2, <3>2, <3>3 DEF UserMoves, HandleDelete
    <2> QED BY <1>9, <2>1, <2>2 DEF HandleDelete
  <1>10. CASE HandleDeleteEvent(e)
    BY <1>2, <1>5, <1>10 DEF UserMoves, QueueMoves, HandleDeleteEvent, TypeOK
  <1> QED BY <1>7, <1>8, <1>9, <1>10 DEF User

-----------------------------------------------------------------------------
(* Type correctness.                                                       *)

\* The entry a round works on.
LEMMA CurrentEntry ==
  ASSUME TypeOK, Todo # {}
  PROVE  Current \in EventId /\ Current \in Todo /\ push.todo[Current] \in Entry
  <1>1. Current \in Todo
    BY CurrentIsTodo
  <1> QED BY <1>1 DEF Todo, TypeOK

\* A settled change is owed no more.
LEMMA SettledFields ==
  ASSUME TypeOK, NEW e \in Event, NEW change \in Change, owed' = Settled(e, change)
  PROVE  /\ owed' \in [Event -> Change]
         /\ \A d \in Event : owed'[d] \in {owed[d], 0}
         /\ owed[e] = change => owed'[e] = 0
         /\ change # 0 => owed'[e] # change
  <1>1. 0 \in Change
    BY CalendarAssumption DEF Change
  <1>2. CASE owed[e] = change
    <2>1. owed' = [owed EXCEPT ![e] = 0]
      BY <1>2 DEF Settled
    <2> QED BY <1>1, <2>1 DEF TypeOK
  <1>3. CASE owed[e] # change
    BY <1>3 DEF Settled, TypeOK
  <1> QED BY <1>2, <1>3

\* A retired entry leaves the queue, and settles what the queue held.
LEMMA DeadLetterFields ==
  ASSUME TypeOK, NEW i \in EventId, DeadLetter(i)
  PROVE  /\ queue' \in [EventId -> Entry \cup {None}]
         /\ \A j \in EventId : j # i => queue'[j] = queue[j]
         /\ queue'[i] = None
         /\ dead' \subseteq Change
         /\ owed' \in [Event -> Change]
         /\ \A d \in Event : owed'[d] \in {owed[d], 0}
         /\ queue[i] # None /\ owed[queue[i].event] = queue[i].change
              => owed'[queue[i].event] = 0
  <1>1. /\ queue' \in [EventId -> Entry \cup {None}]
        /\ \A j \in EventId : j # i => queue'[j] = queue[j]
        /\ queue'[i] = None
    BY DEF DeadLetter, TypeOK
  <1>2. CASE queue[i] = None
    BY <1>1, <1>2 DEF DeadLetter, TypeOK
  <1>3. CASE queue[i] # None
    <2>1. queue[i].event \in Event /\ queue[i].change \in Change
      BY <1>3 DEF TypeOK, Entry
    <2>2. owed' = Settled(queue[i].event, queue[i].change) /\ dead' \subseteq Change
      BY <1>3, <2>1 DEF DeadLetter, TypeOK
    <2> QED BY <1>1, <2>1, <2>2, SettledFields
  <1> QED BY <1>2, <1>3

\* What a push does to rows: each keeps its key and its body.
RowsKept ==
  /\ row' \in [Event -> Row \cup {None}]
  /\ \A e \in Event : /\ row[e] = None <=> row'[e] = None
                      /\ row[e] # None => row'[e].id = row[e].id
                           /\ row'[e].body = row[e].body

\* A push keeps the keys and the bodies of the rows.
LEMMA PushedRows ==
  ASSUME TypeOK, PushAccepted \/ MarkEventSynced
  PROVE  RowsKept
  <1>1. 0 \in Change
    BY CalendarAssumption DEF Change
  <1>2. ASSUME NEW r \in Row
        PROVE  /\ [r EXCEPT !.remote = TRUE] \in Row
               /\ [r EXCEPT !.remote = TRUE].id = r.id
               /\ [r EXCEPT !.remote = TRUE].body = r.body
               /\ Synced(r) \in Row /\ Synced(r).id = r.id /\ Synced(r).body = r.body
    BY <1>1 DEF Row, Synced
  <1>3. CASE PushAccepted
    <2> DEFINE entry == push.todo[push.id]
               NewRow(e) == IF entry.op = "save" /\ row[e] # None /\ row[e].id = push.id
                            THEN [row[e] EXCEPT !.remote = TRUE] ELSE row[e]
    <2>1. row' = [e \in Event |-> NewRow(e)]
      BY <1>3 DEF PushAccepted
    <2>2. ASSUME NEW e \in Event
          PROVE  /\ NewRow(e) \in Row \cup {None}
                 /\ row[e] = None <=> NewRow(e) = None
                 /\ row[e] # None => NewRow(e).id = row[e].id
                      /\ NewRow(e).body = row[e].body
      <3>1. row[e] \in Row \cup {None}
        BY DEF TypeOK
      <3> QED BY <1>2, <3>1, NoneAssumption
    <2> HIDE DEF NewRow
    <2> QED BY <2>1, <2>2 DEF RowsKept
  <1>4. CASE MarkEventSynced
    <2> DEFINE NewRow(e) == IF row[e] # None /\ row[e].id = push.id
                            THEN Synced(row[e]) ELSE row[e]
    <2>1. row' = [e \in Event |-> NewRow(e)]
      BY <1>4 DEF MarkEventSynced
    <2>2. ASSUME NEW e \in Event
          PROVE  /\ NewRow(e) \in Row \cup {None}
                 /\ row[e] = None <=> NewRow(e) = None
                 /\ row[e] # None => NewRow(e).id = row[e].id
                      /\ NewRow(e).body = row[e].body
      <3>1. row[e] \in Row \cup {None}
        BY DEF TypeOK
      <3> QED BY <1>2, <3>1, NoneAssumption
    <2> HIDE DEF NewRow
    <2> QED BY <2>1, <2>2 DEF RowsKept
  <1> QED BY <1>3, <1>4

\* A pull's row is a row.
LEMMA PulledRow ==
  ASSUME TypeOK, NEW i \in EventId, NEW e \in Event
  PROVE  /\ Pulled(i, e) \in Row /\ Pulled(i, e).id = i
         /\ \A b \in BOOLEAN : /\ [Pulled(i, e) EXCEPT !.remote = b] \in Row
                               /\ [Pulled(i, e) EXCEPT !.remote = b].id = i
  BY DEF Pulled, Row, TypeOK

\* What a pull does to rows: a key that stays names the same event, a new one
\* named nothing, and rows come only where the pull decided to create them.
LEMMA AppliedRows ==
  ASSUME TypeOK, ApplySyncChanges
  PROVE  /\ row' \in [Event -> Row \cup {None}]
         /\ \A e \in Event : row'[e] # None =>
              \/ row[e] # None /\ row'[e].id = row[e].id
              \/ e \in pull.creates /\ row'[e].id \in EventId \ UsedIds
         /\ \A d, e \in Event :
              /\ d # e /\ row'[d] # None /\ row'[e] # None
              /\ row'[d].id \notin UsedIds /\ row'[e].id \notin UsedIds
              => row'[d].id # row'[e].id
         /\ \A e \in Event : row[e] = None /\ row'[e] # None => e \in pull.creates
         /\ \A e \in Event : row[e] # None /\ row[e].modified => row'[e] # None
  <1>0. UsedIds \subseteq EventId /\ pull.creates \subseteq Event
    BY DEF UsedIds, Queued, TypeOK, Row
  <1>1. \A e \in Event : row[e] # None => row[e].id \in UsedIds
    BY DEF UsedIds
  <1>2. CASE \E e \in pull.creates : AfterDeletes[e] # None
    <2>1. UNCHANGED row
      BY <1>2 DEF ApplySyncChanges
    <2> QED BY <1>1, <2>1 DEF TypeOK
  <1>3. CASE ~\E e \in pull.creates : AfterDeletes[e] # None
    <2> DEFINE id == CHOOSE f \in FreshIds(pull.creates) : TRUE
               NewRow(e) == CASE e \in pull.creates -> Pulled(id[e], e)
                              [] AfterDeletes[e] # None /\ <<e, row[e].id>> \in pull.updates
                                   -> [Pulled(row[e].id, e) EXCEPT !.remote = row[e].remote]
                              [] OTHER -> AfterDeletes[e]
    <2>1. id \in FreshIds(pull.creates)
      BY <1>3 DEF ApplySyncChanges
    <2>2. /\ \A e \in pull.creates : id[e] \in EventId \ UsedIds
          /\ \A d, e \in pull.creates : d # e => id[d] # id[e]
      BY <2>1 DEF FreshIds
    <2>3. row' = [e \in Event |-> NewRow(e)]
      BY <1>3 DEF ApplySyncChanges
    <2> HIDE DEF id
    <2>4. ASSUME NEW e \in Event
          PROVE  /\ NewRow(e) \in Row \cup {None}
                 /\ IF e \in pull.creates
                    THEN NewRow(e) # None /\ NewRow(e).id = id[e]
                    ELSE /\ NewRow(e) # None => row[e] # None /\ NewRow(e).id = row[e].id
                         /\ row[e] # None /\ row[e].modified => NewRow(e) # None
      <3>1. row[e] \in Row \cup {None}
        BY DEF TypeOK
      <3>2. AfterDeletes[e] \in {row[e], None}
            /\ (row[e] # None /\ row[e].modified => AfterDeletes[e] = row[e])
        BY DEF AfterDeletes, Deletable
      <3>3. CASE e \in pull.creates
        <4>1. AfterDeletes[e] = None
          BY <1>3, <3>3
        <4>2. NewRow(e) = Pulled(id[e], e)
          BY <3>3, <4>1
        <4> HIDE DEF NewRow
        <4> QED BY <4>2, <2>2, <3>3, <4>1, PulledRow, NoneAssumption
      <3>4. CASE e \notin pull.creates /\ AfterDeletes[e] # None
                 /\ <<e, row[e].id>> \in pull.updates
        <4>1. NewRow(e) = [Pulled(row[e].id, e) EXCEPT !.remote = row[e].remote]
          BY <3>4
        <4>2. row[e] # None /\ row[e].id \in EventId /\ row[e].remote \in BOOLEAN
          BY <3>1, <3>2, <3>4 DEF Row
        <4> HIDE DEF NewRow
        <4> QED BY <3>4, <4>1, <4>2, PulledRow, NoneAssumption
      <3>5. CASE e \notin pull.creates
                 /\ ~(AfterDeletes[e] # None /\ <<e, row[e].id>> \in pull.updates)
        <4>1. NewRow(e) = AfterDeletes[e]
          BY <3>5
        <4> HIDE DEF NewRow
        <4> QED BY <3>1, <3>2, <3>5, <4>1
      <3> QED BY <3>3, <3>4, <3>5
    <2> HIDE DEF NewRow
    <2>5. \A e \in Event : row'[e] = NewRow(e)
      BY <2>3
    <2>6. row' \in [Event -> Row \cup {None}]
      BY <2>3, <2>4
    <2>7. \A e \in Event : row'[e] # None =>
            IF e \in pull.creates THEN row'[e].id = id[e] /\ id[e] \in EventId \ UsedIds
            ELSE row[e] # None /\ row'[e].id = row[e].id /\ row'[e].id \in UsedIds
      BY <1>1, <2>2, <2>4, <2>5
    <2>8. \A e \in Event : row[e] # None /\ row[e].modified => row'[e] # None
      BY <2>4, <2>5
    <2>9. \A e \in Event : row'[e] # None /\ row'[e].id \notin UsedIds => e \in pull.creates
      BY <2>7
    <2> QED BY <2>2, <2>6, <2>7, <2>8, <2>9
  <1> QED BY <1>2, <1>3

\* A round begins with entries of the queue as they are.
LEMMA RoundRead ==
  ASSUME TypeOK, GetPendingCalendarEventSync
  PROVE  /\ push' \in [pc : {"idle", "next", "answered", "mark"},
               todo : [EventId -> Entry \cup {None}],
               id : EventId \cup {None},
               answer : {None, "ok", "failed", "refused"}]
         /\ push'.pc = "next"
         /\ \A i \in EventId : push'.todo[i] \in {None, queue[i]}
  <1>1. PICK elapsed \in SUBSET {i \in Queued : queue[i].tries > 0} :
          LET due == elapsed \cup {i \in Queued : queue[i].tries = 0}
          IN  push' = [PushIdle EXCEPT !.pc = "next",
                         !.todo = [i \in EventId |->
                           IF i \in Oldest(due) THEN queue[i] ELSE None]]
    BY DEF GetPendingCalendarEventSync
  <1> DEFINE due == elapsed \cup {i \in Queued : queue[i].tries = 0}
             todo == [i \in EventId |-> IF i \in Oldest(due) THEN queue[i] ELSE None]
  <1>2. todo \in [EventId -> Entry \cup {None}]
        /\ \A i \in EventId : todo[i] \in {None, queue[i]}
    BY DEF TypeOK
  <1>3. push' = [PushIdle EXCEPT !.pc = "next", !.todo = todo]
    BY <1>1
  <1> HIDE DEF todo
  <1> QED BY <1>2, <1>3 DEF PushIdle

\* TypeOK is not enough: a round that waits for an answer, or has a row to
\* clear, has the entry it works on.
AtWork == push.pc \in {"answered", "mark"} => push.id \in Todo

\* The initial state is well typed.
LEMMA TypeInit == Init => TypeOK /\ AtWork
  <1>1. 0 \in Change /\ 0 \in 0..MaxFailures /\ 0 \in 0..MaxToggles
    BY CalendarAssumption DEF Change
  <1> QED BY <1>1 DEF Init, TypeOK, AtWork, PushIdle, PullIdle

\* Every step keeps the types.
LEMMA TypeNext == TypeOK /\ AtWork /\ [Next]_vars => TypeOK'
  <1> SUFFICES ASSUME TypeOK, AtWork, [Next]_vars PROVE TypeOK'
    OBVIOUS
  <1>0. 0 \in Change /\ MaxFailures \in Nat /\ MaxToggles \in Nat /\ MaxChanges \in Nat
    BY CalendarAssumption DEF Change
  <1>1. ASSUME CanFail, failures' = failures + 1 PROVE failures' \in 0..MaxFailures
    BY <1>0, <1>1 DEF CanFail, TypeOK
  <1>2. ASSUME NEW e \in Event, User(e) PROVE TypeOK'
    <2>1. UserMoves(e)
      BY <1>2, UserMovesHolds
    <2>2. queue' \in [EventId -> Entry \cup {None}] /\ owed' \in [Event -> Change]
            /\ risky' \subseteq Change
      <3>1. CASE UNCHANGED <<queue, owed, risky>>
        BY <3>1 DEF TypeOK
      <3>2. CASE \E i \in EventId : Key(i, e) /\ Queues(i, e)
        BY <2>1, <3>2 DEF UserMoves, Queues, TypeOK
      <3> QED BY <2>1, <3>1, <3>2 DEF UserMoves, QueueMoves
    <2> QED BY <2>1, <2>2 DEF TypeOK, UserMoves, RowMoves
  <1>3. ASSUME NEW e \in Event, RemoteSave(e) \/ RemoteDelete(e) PROVE TypeOK'
    <2>1. changes' \in Change
      BY <1>0, <1>3 DEF RemoteSave, RemoteDelete, NewChange, TypeOK, Change
    <2>2. server' \in [Event -> Change]
      BY <1>0, <1>3, <2>1 DEF RemoteSave, RemoteDelete, TypeOK
    <2> QED BY <1>3, <2>1, <2>2 DEF RemoteSave, RemoteDelete, TypeOK
  <1>4. CASE SetCalendarEnabled \/ DemoteDirectURLCalendar
    <2>1. toggles' \in 0..MaxToggles
      BY <1>0, <1>4 DEF SetCalendarEnabled, DemoteDirectURLCalendar, TypeOK
    <2> QED BY <1>4, <2>1 DEF SetCalendarEnabled, DemoteDirectURLCalendar, TypeOK
  <1>5. CASE GetPendingCalendarEventSync
    BY <1>5, RoundRead DEF GetPendingCalendarEventSync, TypeOK
  <1>6. CASE PushEnds
    BY <1>6 DEF PushEnds, PushIdle, TypeOK
  <1>7. CASE PushRetire
    <2> DEFINE i == Current
               entry == push.todo[i]
    <2>1. i \in EventId /\ entry \in Entry /\ entry.event \in Event
          /\ entry.change \in Change
      BY <1>7, CurrentEntry DEF PushRetire, Entry
    <2>2. CASE DeadLetter(i) /\ push' \in {Rest(i), [push EXCEPT !.pc = "mark", !.id = i]}
      <3>1. queue' \in [EventId -> Entry \cup {None}] /\ owed' \in [Event -> Change]
              /\ dead' \subseteq Change
        BY <2>1, <2>2, DeadLetterFields
      <3>2. push' \in [pc : {"idle", "next", "answered", "mark"},
               todo : [EventId -> Entry \cup {None}],
               id : EventId \cup {None},
               answer : {None, "ok", "failed", "refused"}]
        <4>1. CASE push' = Rest(i)
          BY <4>1, RestFields
        <4>2. CASE push' = [push EXCEPT !.pc = "mark", !.id = i]
          BY <2>1, <4>2 DEF TypeOK
        <4> QED BY <2>2, <4>1, <4>2
      <3> QED BY <1>7, <3>1, <3>2 DEF PushRetire, TypeOK
    <2>3. CASE /\ queue' = [queue EXCEPT ![i] = None]
               /\ owed' = IF entry.change \in risky
                          THEN owed ELSE Settled(entry.event, entry.change)
               /\ push' = Rest(i) /\ UNCHANGED dead
      <3>1. owed' \in [Event -> Change]
        BY <2>1, <2>3, SettledFields DEF TypeOK
      <3> QED BY <1>7, <2>1, <2>3, <3>1, RestFields DEF PushRetire, TypeOK
    <2> QED BY <1>7, <2>2, <2>3 DEF PushRetire
  <1>8. CASE PushSend
    <2> DEFINE i == Current
               entry == push.todo[i]
    <2>1. i \in EventId /\ entry \in Entry /\ entry.event \in Event
          /\ entry.change \in Change
      BY <1>8, CurrentEntry DEF PushSend, Entry
    <2>2. PICK answer \in {"ok"} \cup (IF CanFail THEN {"failed", "refused"} ELSE {}),
               arrives \in BOOLEAN :
            /\ push' = [push EXCEPT !.pc = "answered", !.id = i, !.answer = answer]
            /\ failures' = IF answer = "ok" THEN failures ELSE failures + 1
            /\ IF arrives
               THEN /\ server' = [server EXCEPT ![entry.event] =
                                    IF entry.op = "save" THEN entry.change ELSE 0]
                    /\ owed' = Settled(entry.event, entry.change)
               ELSE UNCHANGED <<server, owed>>
      BY <1>8 DEF PushSend
    <2>3. failures' \in 0..MaxFailures
      BY <1>1, <2>2 DEF TypeOK
    <2>4. server' \in [Event -> Change]
      BY <1>0, <2>1, <2>2 DEF TypeOK
    <2>5. owed' \in [Event -> Change]
      BY <2>1, <2>2, SettledFields DEF TypeOK
    <2>6. push' \in [pc : {"idle", "next", "answered", "mark"},
               todo : [EventId -> Entry \cup {None}],
               id : EventId \cup {None},
               answer : {None, "ok", "failed", "refused"}]
      BY <2>1, <2>2 DEF TypeOK
    <2> QED BY <1>8, <2>3, <2>4, <2>5, <2>6 DEF PushSend, TypeOK
  <1>9. CASE PushAccepted
    <2>1. push' \in {[push EXCEPT !.pc = "mark"], Rest(push.id)}
      BY <1>9 DEF PushAccepted
    <2>2. queue' \in [EventId -> Entry \cup {None}]
      BY <1>9 DEF PushAccepted, TypeOK
    <2> QED BY <1>9, <2>1, <2>2, PushedRows, RestFields DEF PushAccepted, RowsKept, TypeOK
  <1>10. CASE MarkEventSynced
    <2>1. push' = Rest(push.id)
      BY <1>10 DEF MarkEventSynced
    <2> QED BY <1>10, <2>1, PushedRows, RestFields DEF MarkEventSynced, RowsKept, TypeOK
  <1>11. CASE PushFailed
    <2>0. push.id \in EventId
      BY <1>11 DEF PushFailed, AtWork, Todo
    <2>1. push' \in {Rest(push.id), [push EXCEPT !.pc = "mark"]}
      BY <1>11 DEF PushFailed
    <2>2. CASE DeadLetter(push.id)
      BY <1>11, <2>0, <2>1, <2>2, DeadLetterFields, RestFields DEF PushFailed, TypeOK
    <2>3. CASE queue' = [queue EXCEPT ![push.id] = TriedAgain(@)]
               /\ UNCHANGED <<dead, owed>>
      <3>1. queue' \in [EventId -> Entry \cup {None}]
        BY <2>0, <2>3, TriedEntry DEF TypeOK
      <3> QED BY <1>11, <2>1, <2>3, <3>1, RestFields DEF PushFailed, TypeOK
    <2> QED BY <1>11, <2>2, <2>3 DEF PushFailed
  <1>12. CASE PushStops
    <2>1. {row[e].body : e \in {f \in Event : row[f] # None
          /\ row[f].id = push.id}} \subseteq Change
      BY DEF TypeOK, Row
    <2>2. stranded' \subseteq Change
      BY <1>12, <2>1 DEF PushStops, TypeOK
    <2>3. failures' \in 0..MaxFailures
      BY <1>1, <1>12 DEF PushStops
    <2>4. push' \in [pc : {"idle", "next", "answered", "mark"},
               todo : [EventId -> Entry \cup {None}],
               id : EventId \cup {None},
               answer : {None, "ok", "failed", "refused"}]
      BY <1>12 DEF PushStops, PushIdle
    <2> QED BY <1>12, <2>2, <2>3, <2>4 DEF PushStops, TypeOK
  <1>13. CASE QueryCalendar
    BY <1>0, <1>13 DEF QueryCalendar, PullIdle, TypeOK
  <1>14. CASE GetCalendarObjects
    <2> DEFINE listed == {e \in Event : pull.got[e] # 0}
               Got(unread) == [e \in Event |-> IF e \in listed \ unread THEN server[e]
                 ELSE 0]
    <2>1. PICK unread \in {{}} \cup (IF CanFail THEN {{e} : e \in listed} ELSE {}) :
            /\ pull' = [pull EXCEPT !.pc = "prune", !.got = Got(unread),
                         !.complete = \A e \in listed : Got(unread)[e] # 0]
            /\ failures' = IF unread = {} THEN failures ELSE failures + 1
      BY <1>14 DEF GetCalendarObjects
    <2> DEFINE got == Got(unread)
               complete == \A e \in listed : got[e] # 0
    <2>2. got \in [Event -> Change]
      BY <1>0 DEF TypeOK
    <2>3. complete \in BOOLEAN
      OBVIOUS
    <2>4. pull' = [pull EXCEPT !.pc = "prune", !.got = got, !.complete = complete]
      BY <2>1
    <2>5. failures' \in 0..MaxFailures
      BY <1>1, <2>1 DEF TypeOK
    <2> HIDE DEF got, complete
    <2> QED BY <1>14, <2>2, <2>3, <2>4, <2>5 DEF GetCalendarObjects, TypeOK
  <1>15. CASE GetCalendarPruneState
    BY <1>15 DEF GetCalendarPruneState, TypeOK
  <1>16. CASE DecideChanges
    <2> DEFINE updates(failed) == {<<e, row[e].id>> : e \in {f \in Seen \ failed :
                      row[f] # None /\ ~row[f].modified /\ row[f].etag # pull.got[f]}}
               deletes == IF pull.complete THEN pull.prunable \ Seen ELSE {}
               creates(failed, unasked) == Creates(failed, unasked)
    <2>1. PICK failed \in SUBSET Seen, unasked \in SUBSET Seen :
            /\ IF failed \cup unasked = {} THEN UNCHANGED failures
               ELSE CanFail /\ failures' = failures + 1
            /\ pull' = [pull EXCEPT !.pc = "apply", !.at = changes, !.unasked = unasked,
                          !.updates = updates(failed), !.creates = creates(failed, unasked),
                          !.deletes = deletes]
      BY <1>16, Zenon DEF DecideChanges
    <2>2. updates(failed) \in SUBSET (Event \X EventId)
      BY DEF TypeOK, Row, Seen
    <2>3. /\ deletes \in SUBSET Event /\ creates(failed, unasked) \in SUBSET Event
          /\ unasked \in SUBSET Event
      BY DEF TypeOK, Creates, Seen
    <2>4. failures' \in 0..MaxFailures
      BY <1>1, <2>1 DEF TypeOK
    <2>5. UNCHANGED <<server, calendar, row, queue, dead, push,
                      changes, toggles, owed, risky, stranded>>
      BY <1>16 DEF DecideChanges
    <2> HIDE DEF updates, deletes, creates
    <2>6. PICK u \in SUBSET (Event \X EventId), c \in SUBSET Event, d \in SUBSET Event,
               n \in SUBSET Event :
            pull' = [pull EXCEPT !.pc = "apply", !.at = changes, !.unasked = n,
                          !.updates = u, !.creates = c, !.deletes = d]
      BY <2>1, <2>2, <2>3
    <2> QED BY <2>4, <2>5, <2>6 DEF TypeOK
  <1>17. CASE ApplySyncChanges
    <2>1. row' \in [Event -> Row \cup {None}]
      BY <1>17, AppliedRows
    <2> QED BY <1>0, <1>17, <2>1 DEF ApplySyncChanges, PullIdle, TypeOK
  <1>18. CASE PullStops
    BY <1>0, <1>1, <1>18 DEF PullStops, PullIdle, TypeOK
  <1>19. CASE UNCHANGED vars
    BY <1>19 DEF vars, TypeOK
  <1> QED BY <1>2, <1>3, <1>4, <1>5, <1>6, <1>7, <1>8, <1>9, <1>10, <1>11, <1>12, <1>13,
             <1>14, <1>15, <1>16, <1>17, <1>18, <1>19 DEF Next, PushStep, PullStep

\* Work is done on an entry that the round has read.
LEMMA AtWorkNext == TypeOK /\ AtWork /\ [Next]_vars => AtWork'
  <1> SUFFICES ASSUME TypeOK, AtWork, [Next]_vars PROVE AtWork'
    OBVIOUS
  <1>1. CASE UNCHANGED push
    BY <1>1 DEF AtWork, Todo
  <1>2. CASE GetPendingCalendarEventSync \/ PushEnds \/ PushStops
    <2>1. CASE GetPendingCalendarEventSync
      BY <2>1, RoundRead DEF AtWork
    <2>2. CASE PushEnds \/ PushStops
      BY <2>2 DEF PushEnds, PushStops, PushIdle, AtWork
    <2> QED BY <1>2, <2>1, <2>2
  <1>3. CASE \E i : push' = Rest(i)
    BY <1>3, RestFields DEF AtWork
  <1>4. CASE PushSend
    <2>1. push'.id = Current /\ push'.todo = push.todo
      BY <1>4 DEF PushSend, TypeOK
    <2> QED BY <1>4, <2>1, CurrentEntry DEF AtWork, Todo, PushSend
  <1>5. CASE PushRetire /\ push' = [push EXCEPT !.pc = "mark", !.id = Current]
    <2>1. push'.id = Current /\ push'.todo = push.todo
      BY <1>5 DEF TypeOK
    <2> QED BY <1>5, <2>1, CurrentEntry DEF AtWork, Todo, PushRetire
  <1>6. CASE push.pc = "answered" /\ push' = [push EXCEPT !.pc = "mark"]
    BY <1>6 DEF AtWork, Todo, TypeOK
  <1>7. ASSUME NEW e \in Event, User(e) \/ RemoteSave(e) \/ RemoteDelete(e)
        PROVE  UNCHANGED push
    BY <1>7, UserMovesHolds DEF UserMoves, RemoteSave, RemoteDelete
  <1>8. CASE PushRetire \/ PushAccepted \/ MarkEventSynced \/ PushFailed
    BY <1>3, <1>5, <1>6, <1>8 DEF PushRetire, PushAccepted, MarkEventSynced, PushFailed
  <1>9. CASE SetCalendarEnabled \/ DemoteDirectURLCalendar \/ PullStep \/ PullStops
    BY <1>1, <1>9 DEF SetCalendarEnabled, DemoteDirectURLCalendar, PullStep, PullStops,
         QueryCalendar, GetCalendarObjects, GetCalendarPruneState, DecideChanges,
           ApplySyncChanges
  <1> QED BY <1>1, <1>2, <1>4, <1>7, <1>8, <1>9 DEF Next, PushStep, vars

\* Every variable keeps its type.
THEOREM TypeCorrect == Spec => []TypeOK
  BY TypeInit, TypeNext, AtWorkNext, PTL DEF Spec

-----------------------------------------------------------------------------
(* Changes are not lost.                                                   *)

\* Every entry, in the queue or in the round, is of a change that was made.
EntriesAreDated ==
  \A i \in EventId :
    /\ queue[i] # None => queue[i].change \in 1..changes
    /\ push.todo[i] # None => push.todo[i].change \in 1..changes

\* The queue still holds what the round read, unless the change that replaced
\* it is risky.
ReadIsCurrent ==
  \A i \in EventId : push.todo[i] # None /\ queue[i] # None =>
    \/ queue[i].change \in risky
    \/ queue[i].change = push.todo[i].change /\ queue[i].event = push.todo[i].event

\* What the remote accepted is owed no more.
AcceptedIsSettled ==
  push.pc = "answered" /\ push.answer = "ok" =>
    owed[push.todo[push.id].event] # push.todo[push.id].change

\* The entry under a row's key is of the row's event.
RowsNameEntries ==
  \A e \in Event : row[e] # None /\ queue[row[e].id] # None => queue[row[e].id].event = e

\* No key names two rows.
RowsApart ==
  \A d, e \in Event : row[d] # None /\ row[e] # None /\ d # e => row[d].id # row[e].id

Inv ==
  /\ TypeOK /\ AtWork
  /\ EntriesAreDated /\ ReadIsCurrent /\ AcceptedIsSettled
  /\ RowsNameEntries /\ RowsApart
  /\ ChangesAreNotLost

\* The invariant holds initially.
LEMMA InvInit == Init => Inv
  <1> SUFFICES ASSUME Init PROVE Inv
    OBVIOUS
  <1>1. EntriesAreDated /\ ReadIsCurrent /\ AcceptedIsSettled
    BY DEF Init, PushIdle, EntriesAreDated, ReadIsCurrent, AcceptedIsSettled
  <1>2. RowsNameEntries /\ RowsApart /\ ChangesAreNotLost
    BY DEF Init, RowsNameEntries, RowsApart, ChangesAreNotLost
  <1> QED BY <1>1, <1>2, TypeInit DEF Inv

\* What every step but the user's does to the queue, the round and the keys:
\* entries go or stay as they are, the round reads what is there, keys stay
\* with their events or are new.
QueueShrinks ==
  \A i \in EventId : queue'[i] # None =>
    /\ queue[i] # None
    /\ queue'[i].event = queue[i].event /\ queue'[i].change = queue[i].change
    /\ queue'[i].op = queue[i].op

TodoShrinks ==
  \A i \in EventId : push'.todo[i] # None =>
    push'.todo[i] = push.todo[i] \/ (push'.todo[i] = queue[i] /\ queue' = queue)

KeysStay ==
  /\ \A e \in Event : row'[e] # None =>
       \/ row[e] # None /\ row'[e].id = row[e].id
       \/ row'[e].id \in EventId \ UsedIds
  /\ \A d, e \in Event :
       /\ d # e /\ row'[d] # None /\ row'[e] # None
       /\ row'[d].id \notin UsedIds /\ row'[e].id \notin UsedIds
       => row'[d].id # row'[e].id

Machine == \/ \E e \in Event : RemoteSave(e) \/ RemoteDelete(e)
           \/ SetCalendarEnabled \/ DemoteDirectURLCalendar
           \/ PushStep \/ PushStops \/ PullStep \/ PullStops

\* That is what every such step does.
LEMMA MachineMoves ==
  ASSUME TypeOK, AtWork, Machine
  PROVE  /\ QueueShrinks /\ TodoShrinks /\ KeysStay
         /\ risky' = risky /\ changes' \in {changes, changes + 1}
  <1>1. UNCHANGED queue => QueueShrinks
    BY DEF QueueShrinks
  <1>2. UNCHANGED push => TodoShrinks
    BY DEF TodoShrinks
  <1>3. RowsKept => KeysStay
    BY DEF RowsKept, KeysStay, UsedIds
  <1>4. UNCHANGED row => KeysStay
    BY DEF KeysStay, UsedIds
  <1>5. \A i : push' = Rest(i) => TodoShrinks
    <2> SUFFICES ASSUME NEW i, push' = Rest(i) PROVE TodoShrinks
      OBVIOUS
    <2> QED BY RestFields DEF TodoShrinks
  <1>6. \A i : push' = [push EXCEPT !.pc = "mark", !.id = i] => TodoShrinks
    BY DEF TodoShrinks, TypeOK
  <1>7. push' = [push EXCEPT !.pc = "mark"] => TodoShrinks
    BY DEF TodoShrinks, TypeOK
  <1>8. push' = PushIdle => TodoShrinks
    BY DEF TodoShrinks, PushIdle
  <1>9. \A i \in EventId : queue' = [queue EXCEPT ![i] = None] => QueueShrinks
    BY DEF QueueShrinks, TypeOK
  <1>10. ASSUME NEW i \in EventId, DeadLetter(i) PROVE QueueShrinks
    BY <1>9, <1>10 DEF DeadLetter
  <1>11. ASSUME NEW e \in Event, RemoteSave(e) \/ RemoteDelete(e)
         PROVE  /\ QueueShrinks /\ TodoShrinks /\ KeysStay
                /\ risky' = risky /\ changes' \in {changes, changes + 1}
    BY <1>1, <1>2, <1>4, <1>11 DEF RemoteSave, RemoteDelete, NewChange
  <1>12. CASE SetCalendarEnabled \/ DemoteDirectURLCalendar
    BY <1>1, <1>2, <1>4, <1>12 DEF SetCalendarEnabled, DemoteDirectURLCalendar
  <1>13. CASE GetPendingCalendarEventSync
    <2>1. TodoShrinks
      BY <1>13, RoundRead DEF TodoShrinks, GetPendingCalendarEventSync
    <2> QED BY <1>1, <1>4, <1>13, <2>1 DEF GetPendingCalendarEventSync
  <1>14. CASE PushEnds \/ PushStops
    BY <1>1, <1>4, <1>8, <1>14 DEF PushEnds, PushStops
  <1>15. CASE PushRetire
    <2>1. Current \in EventId
      BY <1>15, CurrentEntry DEF PushRetire
    <2>2. QueueShrinks
      BY <1>9, <1>10, <1>15, <2>1 DEF PushRetire
    <2>3. TodoShrinks
      BY <1>5, <1>6, <1>15 DEF PushRetire
    <2> QED BY <1>4, <1>15, <2>2, <2>3 DEF PushRetire
  <1>16. CASE PushSend
    <2>1. PICK answer : push' = [push EXCEPT !.pc = "answered", !.id = Current,
               !.answer = answer]
      BY <1>16 DEF PushSend
    <2>2. TodoShrinks
      BY <2>1 DEF TodoShrinks, TypeOK
    <2> QED BY <1>1, <1>4, <1>16, <2>2 DEF PushSend
  <1>17. CASE PushAccepted
    <2>1. push.id \in EventId
      BY <1>17 DEF PushAccepted, AtWork, Todo
    <2>2. QueueShrinks
      BY <1>9, <1>17, <2>1 DEF PushAccepted
    <2>3. TodoShrinks
      BY <1>5, <1>7, <1>17 DEF PushAccepted
    <2> QED BY <1>3, <1>17, <2>2, <2>3, PushedRows DEF PushAccepted
  <1>18. CASE MarkEventSynced
    BY <1>1, <1>3, <1>5, <1>18, PushedRows DEF MarkEventSynced
  <1>19. CASE PushFailed
    <2>1. push.id \in EventId
      BY <1>19 DEF PushFailed, AtWork, Todo
    <2>2. ASSUME queue' = [queue EXCEPT ![push.id] = TriedAgain(@)] PROVE QueueShrinks
      BY <2>1, <2>2, TriedEntry DEF QueueShrinks, TypeOK
    <2>3. QueueShrinks
      BY <1>10, <1>19, <2>1, <2>2 DEF PushFailed
    <2>4. TodoShrinks
      BY <1>5, <1>7, <1>19 DEF PushFailed
    <2> QED BY <1>4, <1>19, <2>3, <2>4 DEF PushFailed
  <1>20. CASE QueryCalendar \/ GetCalendarObjects \/ GetCalendarPruneState \/ DecideChanges
              \/ PullStops
    BY <1>1, <1>2, <1>4, <1>20 DEF QueryCalendar, GetCalendarObjects, GetCalendarPruneState,
         DecideChanges, PullStops
  <1>21. CASE ApplySyncChanges
    <2>1. KeysStay
      BY <1>21, AppliedRows DEF KeysStay
    <2> QED BY <1>1, <1>2, <1>21, <2>1 DEF ApplySyncChanges
  <1> QED BY <1>11, <1>12, <1>13, <1>14, <1>15, <1>16, <1>17, <1>18, <1>19, <1>20, <1>21
          DEF Machine, PushStep, PullStep

\* Rows that keep their keys, or get new ones, stay apart and keep the names of
\* their entries.
LEMMA KeysNext ==
  ASSUME TypeOK, RowsNameEntries, RowsApart, KeysStay, QueueShrinks
  PROVE  RowsNameEntries' /\ RowsApart'
  <1>1. \A i \in EventId \ UsedIds : queue[i] = None
    BY DEF UsedIds, Queued
  <1>2. \A e \in Event : row[e] # None => row[e].id \in UsedIds /\ row[e].id \in EventId
    BY DEF UsedIds, TypeOK, Row
  <1>3. RowsNameEntries'
    BY <1>1, <1>2 DEF RowsNameEntries, KeysStay, QueueShrinks
  <1>4. RowsApart'
    BY <1>2 DEF RowsApart, KeysStay
  <1> QED BY <1>3, <1>4

\* A step that only lets entries go leaves no entry of the future, and none
\* that differs from what was read.
LEMMA EntriesNext ==
  ASSUME TypeOK, EntriesAreDated, ReadIsCurrent, QueueShrinks, TodoShrinks,
         risky' = risky, changes' \in {changes, changes + 1}
  PROVE  EntriesAreDated' /\ ReadIsCurrent'
  <1>1. changes \in Nat
    BY CalendarAssumption DEF TypeOK, Change
  <1>2. \A n \in 1..changes : n \in 1..changes'
    BY <1>1
  <1>3. EntriesAreDated'
    BY <1>2 DEF EntriesAreDated, QueueShrinks, TodoShrinks
  <1>4. ReadIsCurrent'
    BY DEF ReadIsCurrent, QueueShrinks, TodoShrinks
  <1> QED BY <1>3, <1>4

\* A change is lost only with its entry.
LEMMA OwedNext ==
  ASSUME TypeOK, ChangesAreNotLost, QueueShrinks, risky' = risky,
         \A e \in Event : owed'[e] \in {owed[e], 0},
         \A i \in EventId :
           queue[i] # None /\ queue'[i] = None /\ queue[i].change = owed[queue[i].event]
           => owed'[queue[i].event] = 0 \/ queue[i].change \in risky
  PROVE  ChangesAreNotLost'
  <1> SUFFICES ASSUME NEW e \in Event, owed'[e] # 0, owed'[e] \notin risky
               PROVE  \E i \in QueuedFor(e)' : queue'[i].change = owed'[e]
    BY DEF ChangesAreNotLost
  <1>1. owed'[e] = owed[e]
    OBVIOUS
  <1>2. PICK i \in QueuedFor(e) : queue[i].change = owed[e]
    BY <1>1 DEF ChangesAreNotLost
  <1>3. i \in EventId /\ queue[i] # None /\ queue[i].event = e
    BY DEF QueuedFor, Queued
  <1>4. queue'[i] # None
    BY <1>1, <1>2, <1>3
  <1>5. queue'[i].event = e /\ queue'[i].change = owed'[e]
    BY <1>1, <1>2, <1>3, <1>4 DEF QueueShrinks
  <1>6. i \in QueuedFor(e)'
    BY <1>3, <1>4, <1>5 DEF QueuedFor, Queued
  <1> QED BY <1>5, <1>6

\* The user's steps keep the invariant.
LEMMA InvUser ==
  ASSUME Inv, Inv => TypeOK', NEW e \in Event, User(e)
  PROVE  /\ EntriesAreDated' /\ ReadIsCurrent' /\ AcceptedIsSettled'
         /\ RowsNameEntries' /\ RowsApart' /\ ChangesAreNotLost'
  <1>0. TypeOK /\ AtWork /\ UserMoves(e)
    BY UserMovesHolds DEF Inv
  <1>1. changes \in Nat /\ changes' = changes + 1 /\ push' = push
    BY <1>0, CalendarAssumption DEF UserMoves, TypeOK, Change
  <1>2. \A i \in EventId \ UsedIds : queue[i] = None
    BY DEF UsedIds, Queued
  <1>3. \A d \in Event : row[d] # None => row[d].id \in UsedIds /\ row[d].id \in EventId
    BY <1>0 DEF UsedIds, TypeOK, Row
  <1>4. RowsApart'
    BY <1>0, <1>3 DEF Inv, RowsApart, UserMoves, RowMoves
  <1>5. CASE UNCHANGED <<queue, owed, risky>>
    <2>1. EntriesAreDated' /\ ReadIsCurrent' /\ AcceptedIsSettled'
      BY <1>1, <1>5 DEF Inv, EntriesAreDated, ReadIsCurrent, AcceptedIsSettled
    <2>2. RowsNameEntries'
      BY <1>0, <1>2, <1>3, <1>5 DEF Inv, RowsNameEntries, UserMoves, RowMoves
    <2>3. ChangesAreNotLost'
      BY <1>5 DEF Inv, ChangesAreNotLost, QueuedFor, Queued
    <2> QED BY <1>4, <2>1, <2>2, <2>3
  <1>6. ASSUME NEW i \in EventId, Key(i, e), Queues(i, e)
        PROVE  /\ EntriesAreDated' /\ ReadIsCurrent' /\ AcceptedIsSettled'
               /\ RowsNameEntries' /\ ChangesAreNotLost'
    <2>1. queue'[i].event = e
      BY <1>0, <1>2, <1>3, <1>6 DEF Inv, RowsNameEntries, Key, Queues, UserMoves, RowMoves
    <2>2. /\ \A j \in EventId : j # i => queue'[j] = queue[j]
          /\ queue'[i] # None /\ queue'[i].change = changes'
      BY <1>6 DEF Queues
    <2>3. \A d \in Event : owed'[d] = IF d = e THEN changes' ELSE owed[d]
      BY <1>0, <1>6 DEF Queues, TypeOK
    <2>4. risky \subseteq risky' /\ (push.todo[i] # None => changes' \in risky')
      BY <1>6 DEF Queues
    <2>5. EntriesAreDated'
      BY <1>1, <2>2 DEF Inv, EntriesAreDated
    <2>6. ReadIsCurrent'
      BY <1>1, <2>2, <2>4 DEF Inv, ReadIsCurrent
    <2>7. AcceptedIsSettled'
      <3> SUFFICES ASSUME push.pc = "answered", push.answer = "ok"
                   PROVE  owed'[push.todo[push.id].event] # push.todo[push.id].change
        BY <1>1 DEF AcceptedIsSettled
      <3>1. push.id \in EventId /\ push.todo[push.id] # None
        BY <1>0 DEF AtWork, Todo
      <3>2. push.todo[push.id].change \in 1..changes /\ push.todo[push.id].event \in Event
        BY <1>0, <3>1 DEF Inv, EntriesAreDated, TypeOK, Entry
      <3>3. owed[push.todo[push.id].event] # push.todo[push.id].change
        BY DEF Inv, AcceptedIsSettled
      <3> QED BY <1>1, <2>3, <3>2, <3>3
    <2>8. RowsNameEntries'
      <3> SUFFICES ASSUME NEW d \in Event, row'[d] # None, queue'[row'[d].id] # None
                   PROVE  queue'[row'[d].id].event = d
        BY DEF RowsNameEntries
      <3>1. CASE d = e
        <4>1. row'[e].id = i
          BY <1>0, <1>6, <3>1 DEF Key, UserMoves, RowMoves
        <4> QED BY <2>1, <3>1, <4>1
      <3>2. CASE d # e
        <4>1. row'[d] = row[d] /\ row[d].id \in EventId
          BY <1>0, <1>3, <3>2 DEF UserMoves, RowMoves
        <4>2. row[d].id # i
          BY <1>0, <1>3, <1>6, <3>2, <4>1 DEF Inv, RowsApart, Key, UserMoves, RowMoves
        <4> QED BY <2>2, <4>1, <4>2 DEF Inv, RowsNameEntries
      <3> QED BY <3>1, <3>2
    <2>9. ChangesAreNotLost'
      <3> SUFFICES ASSUME NEW d \in Event, owed'[d] # 0, owed'[d] \notin risky'
                   PROVE  \E j \in QueuedFor(d)' : queue'[j].change = owed'[d]
        BY DEF ChangesAreNotLost
      <3>1. CASE d = e
        BY <2>1, <2>2, <2>3, <3>1 DEF QueuedFor, Queued
      <3>2. CASE d # e
        <4>1. PICK j \in QueuedFor(d) : queue[j].change = owed[d]
          BY <2>3, <2>4, <3>2 DEF Inv, ChangesAreNotLost
        <4>2. j \in EventId /\ queue[j] # None /\ queue[j].event = d
          BY DEF QueuedFor, Queued
        <4>3. j # i
          BY <1>6, <2>1, <3>2, <4>2 DEF Queues
        <4> QED BY <2>2, <2>3, <3>2, <4>1, <4>2, <4>3 DEF QueuedFor, Queued
      <3> QED BY <3>1, <3>2
    <2> QED BY <2>5, <2>6, <2>7, <2>8, <2>9
  <1> QED BY <1>0, <1>4, <1>5, <1>6 DEF UserMoves, QueueMoves

\* So do the steps of push and pull, of the remote's other clients and of the
\* calendar's settings: an entry goes only when its change is settled, or when
\* it was replaced by a risky one.
LEMMA InvMachine ==
  ASSUME Inv, Machine
  PROVE  /\ EntriesAreDated' /\ ReadIsCurrent' /\ AcceptedIsSettled'
         /\ RowsNameEntries' /\ RowsApart' /\ ChangesAreNotLost'
  <1>0. /\ TypeOK /\ AtWork
        /\ QueueShrinks /\ TodoShrinks /\ KeysStay
        /\ risky' = risky /\ changes' \in {changes, changes + 1}
    BY MachineMoves DEF Inv
  <1>1. EntriesAreDated' /\ ReadIsCurrent'
    BY <1>0, EntriesNext DEF Inv
  <1>2. RowsNameEntries' /\ RowsApart'
    BY <1>0, KeysNext DEF Inv
  <1>3. UNCHANGED owed => \A e \in Event : owed'[e] \in {owed[e], 0}
    OBVIOUS
  <1>4. ASSUME UNCHANGED <<owed, queue>> PROVE ChangesAreNotLost'
    BY <1>0, <1>4 DEF Inv, ChangesAreNotLost, QueuedFor, Queued
  <1>5. ASSUME UNCHANGED <<owed, push>> PROVE AcceptedIsSettled'
    BY <1>5 DEF Inv, AcceptedIsSettled
  <1>6. push'.pc # "answered" => AcceptedIsSettled'
    BY DEF AcceptedIsSettled
  <1>7. ASSUME NEW i \in EventId, DeadLetter(i) PROVE ChangesAreNotLost'
    <2>1. /\ \A j \in EventId : j # i => queue'[j] = queue[j]
          /\ \A d \in Event : owed'[d] \in {owed[d], 0}
          /\ queue[i] # None /\ owed[queue[i].event] = queue[i].change
               => owed'[queue[i].event] = 0
      BY <1>0, <1>7, DeadLetterFields
    <2> QED BY <1>0, <2>1, OwedNext DEF Inv
  <1>8. CASE \/ \E e \in Event : RemoteSave(e) \/ RemoteDelete(e)
             \/ SetCalendarEnabled \/ DemoteDirectURLCalendar \/ PullStep \/ PullStops
    <2>1. UNCHANGED <<owed, queue, push>>
      BY <1>8 DEF RemoteSave, RemoteDelete, SetCalendarEnabled, DemoteDirectURLCalendar,
           PullStep, PullStops, QueryCalendar, GetCalendarObjects, GetCalendarPruneState,
           DecideChanges, ApplySyncChanges
    <2> QED BY <1>1, <1>2, <1>4, <1>5, <2>1
  <1>9. CASE GetPendingCalendarEventSync
    <2>1. UNCHANGED <<owed, queue>> /\ push'.pc = "next"
      BY <1>0, <1>9, RoundRead DEF GetPendingCalendarEventSync
    <2> QED BY <1>1, <1>2, <1>4, <1>6, <2>1
  <1>10. CASE PushEnds \/ PushStops
    <2>1. UNCHANGED <<owed, queue>> /\ push'.pc = "idle"
      BY <1>10 DEF PushEnds, PushStops, PushIdle
    <2> QED BY <1>1, <1>2, <1>4, <1>6, <2>1
  <1>11. CASE PushRetire
    <2> DEFINE i == Current
               entry == push.todo[i]
    <2>1. i \in EventId /\ entry \in Entry /\ entry # None
      BY <1>0, <1>11, CurrentEntry, NoneAssumption DEF PushRetire
    <2>2. push'.pc \in {"next", "mark"}
      <3>1. Rest(i).pc = "next" /\ [push EXCEPT !.pc = "mark", !.id = i].pc = "mark"
        BY <1>0, RestFields DEF TypeOK
      <3>2. push' \in {Rest(i), [push EXCEPT !.pc = "mark", !.id = i]}
        BY <1>11 DEF PushRetire
      <3> QED BY <3>1, <3>2
    <2>3. ASSUME queue' = [queue EXCEPT ![i] = None],
                 owed' = IF entry.change \in risky
                         THEN owed ELSE Settled(entry.event, entry.change)
          PROVE  ChangesAreNotLost'
      <3>1. entry.event \in Event /\ entry.change \in Change
        BY <2>1 DEF Entry
      <3>2. \A d \in Event : owed'[d] \in {owed[d], 0}
        BY <1>0, <2>3, <3>1, SettledFields
      <3>3. \A j \in EventId : j # i => queue'[j] = queue[j]
        BY <1>0, <2>3 DEF TypeOK
      <3>4. ASSUME queue[i] # None, queue[i].change = owed[queue[i].event],
                   queue[i].change \notin risky
            PROVE  owed'[queue[i].event] = 0
        <4>1. queue[i].change = entry.change /\ queue[i].event = entry.event
          BY <2>1, <3>4 DEF Inv, ReadIsCurrent
        <4> QED BY <1>0, <2>3, <3>1, <3>4, <4>1, SettledFields
      <3> QED BY <1>0, <3>2, <3>3, <3>4, OwedNext DEF Inv
    <2>4. ChangesAreNotLost'
      BY <1>7, <1>11, <2>1, <2>3 DEF PushRetire
    <2> QED BY <1>1, <1>2, <1>6, <2>2, <2>4
  <1>12. CASE PushSend
    <2> DEFINE i == Current
               entry == push.todo[i]
    <2>1. i \in EventId /\ i \in Todo /\ entry \in Entry /\ entry # None
      BY <1>0, <1>12, CurrentEntry, NoneAssumption DEF PushSend
    <2>2. entry.event \in Event /\ entry.change \in Change /\ entry.change # 0
      BY <2>1 DEF Inv, EntriesAreDated, Entry
    <2>3. PICK answer \in {"ok"} \cup (IF CanFail THEN {"failed", "refused"} ELSE {}),
               arrives \in BOOLEAN :
            /\ answer = "ok" => arrives
            /\ push' = [push EXCEPT !.pc = "answered", !.id = i, !.answer = answer]
            /\ IF arrives THEN owed' = Settled(entry.event, entry.change)
               ELSE UNCHANGED owed
      BY <1>12 DEF PushSend
    <2>4. push'.id = i /\ push'.todo = push.todo /\ push'.answer = answer
      BY <1>0, <2>3 DEF TypeOK
    <2>5. AcceptedIsSettled'
      BY <1>0, <2>2, <2>3, <2>4, SettledFields DEF AcceptedIsSettled
    <2>6. \A d \in Event : owed'[d] \in {owed[d], 0}
      BY <1>0, <2>2, <2>3, SettledFields
    <2>7. ChangesAreNotLost'
      BY <1>0, <1>12, <2>6, OwedNext DEF Inv, PushSend
    <2> QED BY <1>1, <1>2, <2>5, <2>7
  <1>13. CASE PushAccepted
    <2> DEFINE i == push.id
               entry == push.todo[i]
    <2>1. i \in EventId /\ entry # None /\ owed' = owed
          /\ queue' = [queue EXCEPT ![i] = None]
      BY <1>0, <1>13 DEF PushAccepted, AtWork, Todo
    <2>2. push'.pc \in {"next", "mark"}
      BY <1>0, <1>13, RestFields DEF PushAccepted, TypeOK
    <2>3. owed[entry.event] # entry.change
      BY <1>13 DEF PushAccepted, Inv, AcceptedIsSettled
    <2>4. \A j \in EventId : j # i => queue'[j] = queue[j]
      BY <1>0, <2>1 DEF TypeOK
    <2>5. queue[i] # None /\ queue[i].change = owed[queue[i].event]
          => queue[i].change \in risky
      BY <2>1, <2>3 DEF Inv, ReadIsCurrent
    <2>6. ChangesAreNotLost'
      BY <1>0, <1>3, <2>1, <2>4, <2>5, OwedNext DEF Inv
    <2> QED BY <1>1, <1>2, <1>6, <2>2, <2>6
  <1>14. CASE MarkEventSynced
    <2>1. UNCHANGED <<owed, queue>> /\ push'.pc = "next"
      BY <1>0, <1>14, RestFields DEF MarkEventSynced
    <2> QED BY <1>1, <1>2, <1>4, <1>6, <2>1
  <1>15. CASE PushFailed
    <2>1. push.id \in EventId
      BY <1>0, <1>15 DEF PushFailed, AtWork, Todo
    <2>2. push'.pc \in {"next", "mark"}
      BY <1>0, <1>15, RestFields DEF PushFailed, TypeOK
    <2>3. ASSUME queue' = [queue EXCEPT ![push.id] = TriedAgain(@)], UNCHANGED owed
          PROVE  ChangesAreNotLost'
      <3>1. \A j \in EventId : queue[j] # None => queue'[j] # None
        BY <1>0, <2>3, TriedEntry DEF TypeOK
      <3> QED BY <1>0, <1>3, <2>3, <3>1, OwedNext DEF Inv
    <2>4. ChangesAreNotLost'
      BY <1>7, <1>15, <2>1, <2>3 DEF PushFailed
    <2> QED BY <1>1, <1>2, <1>6, <2>2, <2>4
  <1> QED BY <1>8, <1>9, <1>10, <1>11, <1>12, <1>13, <1>14, <1>15 DEF Machine, PushStep

\* Every step keeps the invariant.
LEMMA InvNext == Inv /\ [Next]_vars => Inv'
  <1> SUFFICES ASSUME Inv, [Next]_vars PROVE Inv'
    OBVIOUS
  <1>1. TypeOK' /\ AtWork'
    BY TypeNext, AtWorkNext DEF Inv
  <1>2. CASE \E e \in Event : User(e)
    BY <1>1, <1>2, InvUser DEF Inv
  <1>3. CASE Machine
    BY <1>1, <1>3, InvMachine DEF Inv
  <1>4. CASE UNCHANGED vars
    BY <1>1, <1>4 DEF Inv, vars, EntriesAreDated, ReadIsCurrent, AcceptedIsSettled,
         RowsNameEntries, RowsApart, ChangesAreNotLost, QueuedFor, Queued
  <1> QED BY <1>2, <1>3, <1>4 DEF Next, Machine

\* The conjunction the property follows from is inductive.
THEOREM Invariance == Spec => []Inv
  BY InvInit, InvNext, PTL DEF Spec

\* A change the user made through an interface that queues it stays in the queue
\* until the remote has it or it is retired, but for the two races the code
\* leaves open, for any number of events, rounds and failures.
THEOREM ChangesAreNotLostHolds == Spec => []ChangesAreNotLost
  <1>1. Inv => ChangesAreNotLost
    BY DEF Inv
  <1> QED BY <1>1, Invariance, PTL

-----------------------------------------------------------------------------
(* What the pull may do to rows.                                           *)

\* A row marked as modified goes only with a change of the user's.
THEOREM UnsentIsNotDeletedHolds == Spec => UnsentIsNotDeleted
  <1> DEFINE Kept == \A e \in Event : row[e] # None /\ row[e].modified /\ row'[e] = None
                       => changes' # changes
  <1>1. ASSUME TypeOK, [Next]_vars PROVE Kept
    <2>1. CASE \E e \in Event : User(e)
      BY <1>1, <2>1, UserMovesHolds, CalendarAssumption DEF UserMoves, TypeOK, Change
    <2>2. CASE PushAccepted \/ MarkEventSynced
      BY <1>1, <2>2, PushedRows DEF RowsKept
    <2>3. CASE ApplySyncChanges
      BY <1>1, <2>3, AppliedRows
    <2>4. CASE UNCHANGED row
      BY <2>4
    <2> QED BY <1>1, <2>1, <2>2, <2>3, <2>4 DEF Next, PushStep, PullStep, vars, RemoteSave,
         RemoteDelete, SetCalendarEnabled, DemoteDirectURLCalendar,
         GetPendingCalendarEventSync, PushEnds, PushRetire, PushSend, PushFailed, PushStops,
         QueryCalendar, GetCalendarObjects, GetCalendarPruneState, DecideChanges, PullStops
  <1> QED BY <1>1, TypeCorrect, PTL DEF Spec, UnsentIsNotDeleted

\* While the pull's decision waits to be applied, the deletions queued for what
\* it will create, and could ask about, are younger than the decision.
CreatesAreFree ==
  pull.pc = "apply" =>
    /\ pull.at <= changes
    /\ \A e \in pull.creates \ pull.unasked : \A i \in QueuedFor(e) :
         queue[i].op = "delete" => queue[i].change > pull.at

\* Every step keeps that.
LEMMA CreatesNext == Inv /\ CreatesAreFree /\ [Next]_vars => CreatesAreFree'
  <1> SUFFICES ASSUME Inv, CreatesAreFree, [Next]_vars PROVE CreatesAreFree'
    OBVIOUS
  <1>0. TypeOK /\ AtWork /\ changes \in Nat /\ pull.at \in Nat
    BY CalendarAssumption DEF Inv, TypeOK, Change
  <1>1. ASSUME UNCHANGED pull, QueueShrinks, changes' \in {changes, changes + 1}
        PROVE  CreatesAreFree'
    <2>1. pull.at <= changes => pull.at <= changes'
      BY <1>0, <1>1
    <2>2. \A e \in Event : \A i \in QueuedFor(e)' :
            i \in QueuedFor(e) /\ queue'[i].op = queue[i].op
              /\ queue'[i].change = queue[i].change
      BY <1>1 DEF QueueShrinks, QueuedFor, Queued
    <2>3. pull.creates \subseteq Event
      BY <1>0 DEF TypeOK
    <2> QED BY <1>1, <2>1, <2>2, <2>3 DEF CreatesAreFree
  <1>2. ASSUME NEW e \in Event, User(e) PROVE CreatesAreFree'
    <2>1. UserMoves(e)
      BY <1>0, <1>2, UserMovesHolds
    <2>2. UNCHANGED pull /\ changes' = changes + 1
      BY <2>1 DEF UserMoves
    <2>3. CASE UNCHANGED <<queue, owed, risky>>
      BY <1>1, <2>2, <2>3 DEF QueueShrinks
    <2>4. ASSUME NEW i \in EventId, Key(i, e), Queues(i, e) PROVE CreatesAreFree'
      <3> SUFFICES ASSUME pull.pc = "apply"
                   PROVE  /\ pull.at <= changes'
                          /\ \A d \in pull.creates \ pull.unasked : \A j \in QueuedFor(d)' :
                               queue'[j].op = "delete" => queue'[j].change > pull.at
        BY <2>2 DEF CreatesAreFree
      <3>1. pull.at <= changes /\ pull.at <= changes' /\ changes' > pull.at
        BY <1>0, <2>2 DEF CreatesAreFree
      <3>2. ASSUME NEW d \in pull.creates \ pull.unasked, NEW j \in QueuedFor(d)', queue'[j].op = "delete"
            PROVE  queue'[j].change > pull.at
        <4>1. j \in EventId /\ queue'[j] # None /\ queue'[j].event = d
          BY DEF QueuedFor, Queued
        <4>2. CASE j = i
          BY <2>4, <3>1, <4>2 DEF Queues
        <4>3. CASE j # i
          <5>1. queue'[j] = queue[j]
            BY <2>4, <4>1, <4>3 DEF Queues
          <5>2. j \in QueuedFor(d)
            BY <4>1, <5>1 DEF QueuedFor, Queued
          <5> QED BY <3>2, <5>1, <5>2 DEF CreatesAreFree
        <4> QED BY <4>2, <4>3
      <3> QED BY <3>1, <3>2
    <2> QED BY <2>1, <2>3, <2>4 DEF UserMoves, QueueMoves
  <1>3. CASE Machine /\ UNCHANGED pull
    BY <1>0, <1>1, <1>3, MachineMoves
  <1>4. CASE DecideChanges
    <2>1. PICK failed, unasked :
            /\ pull'.at = changes /\ pull'.unasked = unasked
            /\ pull'.creates = Creates(failed, unasked)
      <3> DEFINE updates(failed) == {<<e, row[e].id>> : e \in {f \in Seen \ failed :
                        row[f] # None /\ ~row[f].modified /\ row[f].etag # pull.got[f]}}
                 deletes == IF pull.complete THEN pull.prunable \ Seen ELSE {}
                 creates(failed, unasked) == Creates(failed, unasked)
      <3>1. PICK failed, unasked :
              pull' = [pull EXCEPT !.pc = "apply", !.at = changes, !.unasked = unasked,
                         !.updates = updates(failed), !.creates = creates(failed, unasked),
                         !.deletes = deletes]
        BY <1>4, Zenon DEF DecideChanges
      <3> HIDE DEF updates, deletes, creates
      <3>2. /\ pull'.at = changes /\ pull'.unasked = unasked
            /\ pull'.creates = creates(failed, unasked)
        BY <1>0, <3>1 DEF TypeOK
      <3> QED BY <3>2 DEF creates
    <2>2. UNCHANGED <<queue, changes>>
      BY <1>4 DEF DecideChanges
    <2>3. \A e \in Creates(failed, unasked) \ unasked :
            \A i \in QueuedFor(e) : queue[i].op # "delete"
      BY DEF Creates, PendingDelete
    <2> QED BY <1>0, <2>1, <2>2, <2>3 DEF CreatesAreFree, QueuedFor, Queued
  <1>5. CASE QueryCalendar \/ GetCalendarObjects \/ GetCalendarPruneState
             \/ ApplySyncChanges \/ PullStops
    <2>1. pull'.pc # "apply"
      <3>1. CASE GetCalendarObjects
        <4>1. PICK got, complete :
                pull' = [pull EXCEPT !.pc = "prune", !.got = got, !.complete = complete]
          BY <3>1 DEF GetCalendarObjects
        <4> QED BY <1>0, <4>1 DEF TypeOK
      <3>2. CASE QueryCalendar
        BY <1>0, <3>2 DEF QueryCalendar, PullIdle
      <3>3. CASE GetCalendarPruneState
        BY <1>0, <3>3 DEF GetCalendarPruneState, TypeOK
      <3>4. CASE ApplySyncChanges \/ PullStops
        BY <1>0, <3>4 DEF ApplySyncChanges, PullStops, PullIdle
      <3> QED BY <1>5, <3>1, <3>2, <3>3, <3>4
    <2> QED BY <2>1 DEF CreatesAreFree
  <1>6. CASE UNCHANGED vars
    BY <1>1, <1>6 DEF vars, QueueShrinks
  <1>7. ASSUME Machine, ~(PullStep \/ PullStops) PROVE UNCHANGED pull
    BY <1>7 DEF Machine, RemoteSave, RemoteDelete, SetCalendarEnabled,
       DemoteDirectURLCalendar, PushStep, GetPendingCalendarEventSync, PushEnds, PushRetire,
       PushSend, PushAccepted, MarkEventSynced, PushFailed, PushStops
  <1> QED BY <1>2, <1>3, <1>4, <1>5, <1>6, <1>7 DEF Next, Machine, PullStep

\* The pull brings back an event whose deletion is queued only if that was queued
\* after the pull had decided to create the event, or could not be asked.
THEOREM DeletedStaysDeletedHolds == Spec => DeletedStaysDeleted
  <1> DEFINE Stays == \A e \in Event : \A i \in QueuedFor(e) :
                row[e] = None /\ row'[e] # None /\ queue[i].op = "delete"
                => changes' # changes \/ queue[i].change > pull.at \/ e \in pull.unasked
  <1>1. ASSUME Inv, CreatesAreFree, [Next]_vars PROVE Stays
    <2>0. TypeOK
      BY <1>1 DEF Inv
    <2>1. CASE \E e \in Event : User(e)
      BY <2>0, <2>1, UserMovesHolds, CalendarAssumption DEF UserMoves, TypeOK, Change
    <2>2. CASE PushAccepted \/ MarkEventSynced
      BY <2>0, <2>2, PushedRows DEF RowsKept
    <2>3. CASE ApplySyncChanges
      <3>1. pull.pc = "apply"
        BY <2>3 DEF ApplySyncChanges
      <3> QED BY <1>1, <2>0, <2>3, <3>1, AppliedRows DEF CreatesAreFree
    <2>4. CASE UNCHANGED row
      BY <2>4
    <2> QED BY <1>1, <2>1, <2>2, <2>3, <2>4 DEF Next, PushStep, PullStep, vars, RemoteSave,
         RemoteDelete, SetCalendarEnabled, DemoteDirectURLCalendar,
         GetPendingCalendarEventSync, PushEnds, PushRetire, PushSend, PushFailed, PushStops,
         QueryCalendar, GetCalendarObjects, GetCalendarPruneState, DecideChanges, PullStops
  <1>2. Init => CreatesAreFree
    BY DEF Init, PullIdle, CreatesAreFree
  <1>3. Spec => []CreatesAreFree
    BY <1>2, CreatesNext, Invariance, PTL DEF Spec
  <1> QED BY <1>1, <1>3, Invariance, PTL DEF Spec, DeletedStaysDeleted

-----------------------------------------------------------------------------
(* The sibling: an address book and its CardDAV server (ContactBook).      *)

\* The states of a push round.
BookRound == [pc : {"idle", "next", "accepted", "mark"},
              todo : [ContactId -> Book!Entry \cup {NoCard}],
              id : ContactId \cup {NoCard}]

\* A change of c is queued under key i.
BookQueues(i, c) ==
  /\ i \in ContactId
  /\ cardQueue' \in [ContactId -> Book!Entry \cup {NoCard}]
  /\ \A j \in ContactId : j # i => cardQueue'[j] = cardQueue[j]
  /\ cardQueue'[i] # NoCard
  /\ cardQueue'[i].change = cardChanges'
  /\ cardQueue'[i].contact = IF cardQueue[i] = NoCard THEN c ELSE cardQueue[i].contact
  /\ cardOwed' = [cardOwed EXCEPT ![c] = cardChanges']
  /\ cardRisky' \in {cardRisky, cardRisky \cup {cardChanges'}}
  /\ cardPush.todo[i] # NoCard => cardChanges' \in cardRisky'

-----------------------------------------------------------------------------
(* The address book: the operators of its queue.                           *)

\* A round that has entries left takes one of them.
LEMMA BookCurrent ==
  ASSUME Book!TypeOK, Book!Todo # {}
  PROVE  Book!Current \in ContactId /\ Book!Current \in Book!Todo
         /\ cardPush.todo[Book!Current] \in Book!Entry
  <1> DEFINE T == {cardPush.todo[i].change : i \in Book!Todo}
  <1>1. \A i \in Book!Todo : cardPush.todo[i].change \in Nat
    <2>1. \A i \in Book!Todo : cardPush.todo[i] \in Book!Entry
      BY DEF Book!TypeOK, Book!Todo
    <2>2. Book!Change \subseteq Nat
      BY BookAssumption DEF Book!Change
    <2> QED BY <2>1, <2>2 DEF Book!Entry
  <1>2. T \in SUBSET Nat /\ T # {}
    BY <1>1
  <1>3. PICK x \in T : \A y \in T : x <= y
    BY <1>2, LeastNumber
  <1>4. \E i \in Book!Todo : \A j \in Book!Todo :
           cardPush.todo[i].change <= cardPush.todo[j].change
    BY <1>3
  <1>5. Book!Current \in Book!Todo
    BY <1>4 DEF Book!Current
  <1> QED BY <1>5 DEF Book!Todo, Book!TypeOK

\* A new key is a key, and names nothing yet.
LEMMA BookNewId ==
  ASSUME Book!TypeOK, Book!UsedIds # ContactId
  PROVE  Book!NewId \in ContactId \ Book!UsedIds
  <1>1. Book!UsedIds \subseteq ContactId
    BY DEF Book!UsedIds, Book!Queued, Book!TypeOK, Book!Row
  <1>2. \E i \in ContactId : i \notin Book!UsedIds
    BY <1>1
  <1> QED BY <1>2 DEF Book!NewId

\* A card that is queued touches one key; an entry that was there keeps its
\* contact.
LEMMA BookQueueingFields ==
  ASSUME Book!TypeOK, NEW i \in ContactId, NEW c \in Contact, NEW remote \in BOOLEAN,
         NEW op \in Book!Op, Book!NewChange, Book!QueueContactSync(i, c, remote, op)
  PROVE  BookQueues(i, c)
  <1> DEFINE new == [contact |-> c, change |-> cardChanges', op |-> op, remote |-> remote]
  <1>1. new \in Book!Entry /\ new.change = cardChanges' /\ new.contact = c
    BY BookAssumption DEF Book!Entry, Book!NewChange, Book!TypeOK, Book!Change
  <1>2. cardQueue[i] \in Book!Entry \cup {NoCard}
    BY DEF Book!TypeOK
  <1>3. cardQueue' = [cardQueue EXCEPT ![i] = Book!Upserted(cardQueue[i], new)]
    BY DEF Book!QueueContactSync, Book!TypeOK
  <1> HIDE DEF new
  <1>4. /\ Book!Upserted(cardQueue[i], new) \in Book!Entry
        /\ Book!Upserted(cardQueue[i], new).change = new.change
        /\ Book!Upserted(cardQueue[i], new).contact =
             IF cardQueue[i] = NoCard THEN new.contact ELSE cardQueue[i].contact
    BY <1>1, <1>2 DEF Book!Upserted, Book!Entry
  <1>5. Book!Upserted(cardQueue[i], new) # NoCard
    BY <1>4, BookAssumption
  <1>6. /\ cardQueue' \in [ContactId -> Book!Entry \cup {NoCard}]
        /\ \A j \in ContactId : j # i => cardQueue'[j] = cardQueue[j]
        /\ cardQueue'[i] = Book!Upserted(cardQueue[i], new)
    BY <1>3, <1>4 DEF Book!TypeOK
  <1>7. /\ cardOwed' = [cardOwed EXCEPT ![c] = cardChanges']
        /\ cardRisky' \in {cardRisky, cardRisky \cup {cardChanges'}}
        /\ cardPush.todo[i] # NoCard => cardChanges' \in cardRisky'
    BY DEF Book!QueueContactSync
  <1> QED BY <1>1, <1>4, <1>5, <1>6, <1>7 DEF BookQueues

\* What is left of a round after an entry.
LEMMA BookRest ==
  ASSUME Book!TypeOK, NEW i
  PROVE  /\ Book!Rest(i).pc = "next" /\ Book!Rest(i).id = NoCard
         /\ Book!Rest(i).todo \in [ContactId -> Book!Entry \cup {NoCard}]
         /\ \A j \in ContactId : Book!Rest(i).todo[j] = IF j = i THEN NoCard
              ELSE cardPush.todo[j]
         /\ Book!Rest(i) \in BookRound
  BY DEF Book!TypeOK, Book!Rest, BookRound

\* A settled change is owed no more.
LEMMA BookSettled ==
  ASSUME Book!TypeOK, NEW c \in Contact, NEW change \in Book!Change,
         cardOwed' = Book!Settled(c, change)
  PROVE  /\ cardOwed' \in [Contact -> Book!Change]
         /\ \A d \in Contact : cardOwed'[d] \in {cardOwed[d], 0}
         /\ cardOwed[c] = change => cardOwed'[c] = 0
         /\ change # 0 => cardOwed'[c] # change
  <1>1. 0 \in Book!Change
    BY BookAssumption DEF Book!Change
  <1>2. CASE cardOwed[c] = change
    <2>1. cardOwed' = [cardOwed EXCEPT ![c] = 0]
      BY <1>2 DEF Book!Settled
    <2> QED BY <1>1, <2>1 DEF Book!TypeOK
  <1>3. CASE cardOwed[c] # change
    BY <1>3 DEF Book!Settled, Book!TypeOK
  <1> QED BY <1>2, <1>3

\* A round begins with entries of the queue as they are.
LEMMA BookRoundRead ==
  ASSUME Book!TypeOK, Book!GetPendingContactSync
  PROVE  /\ cardPush' \in BookRound /\ cardPush'.pc = "next"
         /\ \A i \in ContactId : cardPush'.todo[i] \in {NoCard, cardQueue[i]}
  <1> DEFINE todo == [i \in ContactId |-> IF i \in Book!Oldest THEN cardQueue[i] ELSE NoCard]
  <1>1. todo \in [ContactId -> Book!Entry \cup {NoCard}]
        /\ \A i \in ContactId : todo[i] \in {NoCard, cardQueue[i]}
    BY DEF Book!TypeOK
  <1>2. cardPush' = [Book!PushIdle EXCEPT !.pc = "next", !.todo = todo]
    BY DEF Book!GetPendingContactSync
  <1> HIDE DEF todo
  <1> QED BY <1>1, <1>2 DEF Book!PushIdle, BookRound

-----------------------------------------------------------------------------
(* The address book: what the user's handlers and the two tasks do to it.  *)

\* The key under which a change of c is queued.
BookKey(i, c) == IF card[c] # NoCard THEN i = card[c].id ELSE card'[c] # NoCard
  /\ i = card'[c].id

\* The card keeps its key, goes, or comes with a new one.
BookRowMoves(c) ==
  /\ card' \in [Contact -> Book!Row \cup {NoCard}]
  /\ \A d \in Contact : d # c => card'[d] = card[d]
  /\ \/ card'[c] = NoCard
     \/ card[c] # NoCard /\ card'[c] # NoCard /\ card'[c].id = card[c].id
     \/ card[c] = NoCard /\ card'[c] # NoCard /\ card'[c].id \in ContactId \ Book!UsedIds

\* At most one entry is queued, under the card's key.
BookQueueMoves(c) == \/ UNCHANGED <<cardQueue, cardOwed, cardRisky>>
                     \/ \E i \in ContactId : BookKey(i, c) /\ BookQueues(i, c)

\* A step of the user's.
BookUserMoves(c) ==
  /\ BookRowMoves(c) /\ BookQueueMoves(c)
  /\ cardChanges' = cardChanges + 1 /\ cardChanges' \in Book!Change
  /\ cardFailures' \in 0..MaxCardFailures /\ cardStranded' \subseteq Book!Change
  /\ UNCHANGED <<cardServer, cardPush, cardPull>>

\* A handler's attempt to queue.
LEMMA BookTryQueue ==
  ASSUME Book!TypeOK, NEW i \in ContactId, NEW c \in Contact, NEW remote \in BOOLEAN,
         NEW op \in Book!Op, Book!NewChange, BookKey(i, c), Book!TryQueue(i, c, remote, op)
  PROVE  BookQueueMoves(c) /\ cardFailures' \in 0..MaxCardFailures
         /\ cardStranded' \subseteq Book!Change
  <1>1. cardChanges' \in Book!Change
    BY BookAssumption DEF Book!NewChange, Book!TypeOK, Book!Change
  <1>2. CASE Book!QueueContactSync(i, c, remote, op)
             /\ UNCHANGED <<cardFailures, cardStranded>>
    BY <1>2, BookQueueingFields DEF BookQueueMoves, Book!TypeOK
  <1>3. CASE /\ Book!CanFail /\ cardFailures' = cardFailures + 1
             /\ cardStranded' = cardStranded \cup {cardChanges'}
             /\ UNCHANGED <<cardQueue, cardOwed, cardRisky>>
    BY <1>1, <1>3, BookAssumption DEF BookQueueMoves, Book!TypeOK, Book!CanFail
  <1> QED BY <1>2, <1>3 DEF Book!TryQueue

\* An edited card keeps its key.
LEMMA BookEditedRow ==
  ASSUME NEW r \in Book!Row, NEW n \in Book!Change
  PROVE  /\ [r EXCEPT !.body = n, !.modified = TRUE] \in Book!Row
         /\ [r EXCEPT !.body = n, !.modified = TRUE].id = r.id
         /\ [r EXCEPT !.body = n, !.etag = 0, !.modified = TRUE] \in Book!Row
         /\ [r EXCEPT !.body = n, !.etag = 0, !.modified = TRUE].id = r.id
  <1>1. 0 \in Book!Change
    BY BookAssumption DEF Book!Change
  <1> QED BY <1>1 DEF Book!Row

\* Every handler of the user makes a new change, moves one card, and queues at
\* most one entry, under the card's key.
LEMMA BookUserMovesHolds ==
  ASSUME Book!TypeOK, NEW c \in Contact, Book!User(c)
  PROVE  BookUserMoves(c)
  <1>1. Book!NewChange
    BY DEF Book!User, Book!HandlePut, Book!HandleDelete, Book!HandleDesktopContactCreate,
         Book!HandleDesktopContactPatch, Book!HandleDesktopContactDelete
  <1>2. cardChanges' = cardChanges + 1 /\ cardChanges' \in Book!Change
        /\ "save" \in Book!Op /\ "delete" \in Book!Op
    BY <1>1, BookAssumption DEF Book!NewChange, Book!TypeOK, Book!Change,
       Book!Op
  <1>3. card[c] # NoCard => card[c] \in Book!Row /\ card[c].id \in ContactId
        /\ card[c].remote \in BOOLEAN
    BY DEF Book!TypeOK, Book!Row
  <1>4. ASSUME NEW r \in Book!Row, card' = [card EXCEPT ![c] = r],
               IF card[c] # NoCard THEN r.id = card[c].id
                 ELSE r.id \in ContactId \ Book!UsedIds
        PROVE  BookRowMoves(c) /\ card'[c] = r /\ r # NoCard
    <2>1. card' \in [Contact -> Book!Row \cup {NoCard}] /\ card'[c] = r
      BY <1>4 DEF Book!TypeOK
    <2>2. \A d \in Contact : d # c => card'[d] = card[d]
      BY <1>4 DEF Book!TypeOK
    <2>3. r # NoCard
      BY BookAssumption
    <2> QED BY <1>4, <2>1, <2>2, <2>3 DEF BookRowMoves
  <1>5. card' = [card EXCEPT ![c] = NoCard] => BookRowMoves(c)
    BY DEF BookRowMoves, Book!TypeOK
  <1>6. UNCHANGED card => BookRowMoves(c)
    <2> SUFFICES ASSUME UNCHANGED card PROVE BookRowMoves(c)
      OBVIOUS
    <2>1. \/ card'[c] = NoCard
          \/ card[c] # NoCard /\ card'[c] # NoCard /\ card'[c].id = card[c].id
      OBVIOUS
    <2> QED BY <2>1 DEF BookRowMoves, Book!TypeOK
  <1>7. ASSUME UNCHANGED <<cardServer, cardPush, cardPull>>, BookRowMoves(c),
               NEW i \in ContactId, BookKey(i, c), NEW remote \in BOOLEAN,
                 NEW op \in Book!Op,
               Book!TryQueue(i, c, remote, op)
        PROVE  BookUserMoves(c)
    BY <1>1, <1>2, <1>7, BookTryQueue DEF BookUserMoves
  <1>8. ASSUME Book!CreateContact(c), UNCHANGED <<cardServer, cardPush, cardPull>>
               PROVE BookUserMoves(c)
    <2> DEFINE r == [id |-> Book!NewId, body |-> cardChanges', etag |-> 0,
                     modified |-> TRUE, remote |-> FALSE]
    <2>1. Book!NewId \in ContactId \ Book!UsedIds /\ card[c] = NoCard
      BY <1>8, BookNewId DEF Book!CreateContact
    <2>2. r \in Book!Row /\ r.id = Book!NewId
      BY <1>2, <2>1, BookAssumption DEF Book!Row, Book!Change
    <2>3. card' = [card EXCEPT ![c] = r]
      BY <1>8 DEF Book!CreateContact
    <2> HIDE DEF r
    <2>4. BookRowMoves(c) /\ BookKey(Book!NewId, c)
      BY <1>4, <2>1, <2>2, <2>3 DEF BookKey
    <2>5. Book!TryQueue(Book!NewId, c, FALSE, "save")
      BY <1>8 DEF Book!CreateContact
    <2> QED BY <1>2, <1>7, <1>8, <2>1, <2>4, <2>5
  <1>9. ASSUME card[c] # NoCard, UNCHANGED <<cardServer, cardPush, cardPull>>,
               Book!TryQueue(card[c].id, c, card[c].remote, "save"),
               \/ card' = [card EXCEPT ![c].body = cardChanges', ![c].modified = TRUE]
               \/ card' = [card EXCEPT ![c].body = cardChanges', ![c].etag = 0,
                    ![c].modified = TRUE]
        PROVE  BookUserMoves(c)
    <2>1. PICK r \in Book!Row : r.id = card[c].id /\ card' = [card EXCEPT ![c] = r]
      <3> DEFINE kept == [card[c] EXCEPT !.body = cardChanges', !.modified = TRUE]
                 made == [card[c] EXCEPT !.body = cardChanges', !.etag = 0,
                   !.modified = TRUE]
      <3>1. /\ kept \in Book!Row /\ kept.id = card[c].id
            /\ made \in Book!Row /\ made.id = card[c].id
        <4>1. card[c] \in Book!Row
          BY <1>3, <1>9
        <4> QED BY <1>2, <4>1, BookEditedRow
      <3>2. card' = [card EXCEPT ![c] = kept] \/ card' = [card EXCEPT ![c] = made]
        BY <1>9 DEF Book!TypeOK
      <3> HIDE DEF kept, made
      <3> QED BY <3>1, <3>2
    <2>2. BookRowMoves(c) /\ BookKey(card[c].id, c)
      BY <1>4, <1>9, <2>1 DEF BookKey
    <2> QED BY <1>2, <1>3, <1>7, <1>9, <2>2
  <1>10. ASSUME card[c] # NoCard, UNCHANGED <<cardServer, cardPush, cardPull>>,
                card' = [card EXCEPT ![c] = NoCard],
                Book!TryQueue(card[c].id, c, card[c].remote, "delete")
         PROVE  BookUserMoves(c)
    <2>1. BookKey(card[c].id, c)
      BY <1>10 DEF BookKey
    <2> QED BY <1>2, <1>3, <1>5, <1>7, <1>10, <2>1
  <1>11. CASE Book!HandlePut(c)
    BY <1>8, <1>9, <1>11 DEF Book!HandlePut
  <1>12. CASE Book!HandleDesktopContactCreate(c)
    BY <1>8, <1>12 DEF Book!HandleDesktopContactCreate
  <1>13. CASE Book!HandleDesktopContactPatch(c)
    BY <1>9, <1>13 DEF Book!HandleDesktopContactPatch
  <1>14. CASE Book!HandleDesktopContactDelete(c)
    BY <1>10, <1>14 DEF Book!HandleDesktopContactDelete
  <1>15. CASE Book!HandleDelete(c)
    <2>1. ASSUME Book!CanFail, cardFailures' = cardFailures + 1,
                 Book!QueueContactSync(card[c].id, c, card[c].remote, "delete"),
                 cardStranded' = cardStranded \cup {card[c].body}, UNCHANGED card
          PROVE  BookUserMoves(c)
      <3>1. card[c] # NoCard /\ UNCHANGED <<cardServer, cardPush, cardPull>>
        BY <1>15 DEF Book!HandleDelete
      <3>2. BookQueues(card[c].id, c) /\ BookKey(card[c].id, c)
        BY <1>1, <1>2, <1>3, <2>1, <3>1, BookQueueingFields DEF BookKey
      <3>3. cardFailures' \in 0..MaxCardFailures /\ cardStranded' \subseteq Book!Change
        BY <1>3, <2>1, <3>1, BookAssumption DEF Book!CanFail, Book!TypeOK,
           Book!Row
      <3>4. BookQueueMoves(c)
        BY <1>3, <3>1, <3>2 DEF BookQueueMoves
      <3> QED BY <1>2, <1>6, <2>1, <3>1, <3>3, <3>4 DEF BookUserMoves
    <2> QED BY <1>10, <1>15, <2>1 DEF Book!HandleDelete
  <1> QED BY <1>11, <1>12, <1>13, <1>14, <1>15 DEF Book!User

\* What a push does to cards: each keeps its key and its body, and none is marked.
BookRowsKept ==
  /\ card' \in [Contact -> Book!Row \cup {NoCard}]
  /\ \A c \in Contact : /\ card[c] = NoCard <=> card'[c] = NoCard
                        /\ card[c] # NoCard => card'[c].id = card[c].id
                             /\ card'[c].body = card[c].body
                             /\ (card'[c].modified => card[c].modified)

\* A push keeps the keys and the bodies of the cards.
LEMMA BookPushed ==
  ASSUME Book!TypeOK, Book!PushAccepted \/ Book!MarkContactSynced
  PROVE  BookRowsKept
  <1>1. 0 \in Book!Change
    BY BookAssumption DEF Book!Change
  <1>2. ASSUME NEW r \in Book!Row
        PROVE  /\ [r EXCEPT !.remote = TRUE] \in Book!Row
               /\ [r EXCEPT !.remote = TRUE].id = r.id
               /\ [r EXCEPT !.remote = TRUE].body = r.body
               /\ [r EXCEPT !.remote = TRUE].modified = r.modified
               /\ Book!Synced(r) \in Book!Row /\ Book!Synced(r).id = r.id
                    /\ Book!Synced(r).body = r.body /\ ~Book!Synced(r).modified
    BY <1>1 DEF Book!Row, Book!Synced
  <1>3. CASE Book!PushAccepted
    <2> DEFINE NewRow(c) == IF cardPush.todo[cardPush.id].op = "save" /\ card[c] # NoCard
                               /\ card[c].id = cardPush.id
                            THEN [card[c] EXCEPT !.remote = TRUE] ELSE card[c]
    <2>1. card' = [c \in Contact |-> NewRow(c)]
      BY <1>3 DEF Book!PushAccepted
    <2>2. ASSUME NEW c \in Contact
          PROVE  /\ NewRow(c) \in Book!Row \cup {NoCard}
                 /\ card[c] = NoCard <=> NewRow(c) = NoCard
                 /\ card[c] # NoCard => NewRow(c).id = card[c].id
                      /\ NewRow(c).body = card[c].body
                      /\ (NewRow(c).modified => card[c].modified)
      <3>1. card[c] \in Book!Row \cup {NoCard}
        BY DEF Book!TypeOK
      <3> QED BY <1>2, <3>1, BookAssumption
    <2> HIDE DEF NewRow
    <2> QED BY <2>1, <2>2 DEF BookRowsKept
  <1>4. CASE Book!MarkContactSynced
    <2> DEFINE NewRow(c) == IF card[c] # NoCard /\ card[c].id = cardPush.id
                            THEN Book!Synced(card[c]) ELSE card[c]
    <2>1. card' = [c \in Contact |-> NewRow(c)]
      BY <1>4 DEF Book!MarkContactSynced
    <2>2. ASSUME NEW c \in Contact
          PROVE  /\ NewRow(c) \in Book!Row \cup {NoCard}
                 /\ card[c] = NoCard <=> NewRow(c) = NoCard
                 /\ card[c] # NoCard => NewRow(c).id = card[c].id
                      /\ NewRow(c).body = card[c].body
                      /\ (NewRow(c).modified => card[c].modified)
      <3>1. card[c] \in Book!Row \cup {NoCard}
        BY DEF Book!TypeOK
      <3> QED BY <1>2, <3>1, BookAssumption
    <2> HIDE DEF NewRow
    <2> QED BY <2>1, <2>2 DEF BookRowsKept
  <1> QED BY <1>3, <1>4

\* A card from the remote is a card.
LEMMA BookPulledRow ==
  ASSUME Book!TypeOK, NEW i \in ContactId, NEW c \in Contact, NEW b \in BOOLEAN
  PROVE  Book!Pulled(i, c, b) \in Book!Row /\ Book!Pulled(i, c, b).id = i
  BY DEF Book!Pulled, Book!Row, Book!TypeOK

\* What a pull does to cards: keys that stay keep their contact, new ones named
\* nothing, and a modified card keeps its body unless an update was decided for
\* its key, or it is deleted and created at once.
LEMMA BookApplied ==
  ASSUME Book!TypeOK, Book!ApplyContactSyncChanges
  PROVE  /\ card' \in [Contact -> Book!Row \cup {NoCard}]
         /\ \A c \in Contact : card'[c] # NoCard =>
              \/ card[c] # NoCard /\ card'[c].id = card[c].id
              \/ card'[c].id \in ContactId \ Book!UsedIds
         /\ \A d, c \in Contact :
              /\ d # c /\ card'[d] # NoCard /\ card'[c] # NoCard
              /\ card'[d].id \notin Book!UsedIds /\ card'[c].id \notin Book!UsedIds
              => card'[d].id # card'[c].id
         /\ \A c \in Contact :
              card[c] # NoCard /\ card[c].modified /\ card'[c] # NoCard
              => \/ card'[c].body = card[c].body
                 \/ <<c, card[c].id>> \in cardPull.updates
                 \/ c \in cardPull.creates \cap cardPull.deletes
  <1>0. cardPull.creates \subseteq Contact
    BY DEF Book!TypeOK
  <1>1. \A c \in Contact : card[c] # NoCard => card[c].id \in Book!UsedIds
    BY DEF Book!UsedIds
  <1> DEFINE inserted == {c \in cardPull.creates : Book!AfterDeletes[c] = NoCard}
             id == CHOOSE f \in Book!FreshIds(inserted) : TRUE
             NewRow(c) == IF c \in inserted THEN Book!Pulled(id[c], c, TRUE)
                          ELSE IF c \in cardPull.creates
                            THEN Book!UpsertOver(Book!AfterDeletes[c], c)
                          ELSE IF Book!AfterDeletes[c] # NoCard
                            /\ <<c, card[c].id>> \in cardPull.updates
                               THEN Book!Pulled(card[c].id, c, card[c].remote)
                          ELSE Book!AfterDeletes[c]
  <1>2. id \in Book!FreshIds(inserted)
    BY DEF Book!ApplyContactSyncChanges
  <1>3. /\ \A c \in inserted : id[c] \in ContactId \ Book!UsedIds
        /\ \A d, c \in inserted : d # c => id[d] # id[c]
    BY <1>2 DEF Book!FreshIds
  <1>4. card' = [c \in Contact |-> NewRow(c)]
    BY DEF Book!ApplyContactSyncChanges
  <1> HIDE DEF id
  <1>5. ASSUME NEW c \in Contact
        PROVE  /\ NewRow(c) \in Book!Row \cup {NoCard}
               /\ IF c \in inserted
                  THEN NewRow(c) # NoCard /\ NewRow(c).id = id[c]
                  ELSE NewRow(c) # NoCard => card[c] # NoCard /\ NewRow(c).id = card[c].id
               /\ card[c] # NoCard /\ card[c].modified /\ NewRow(c) # NoCard
                  => \/ NewRow(c).body = card[c].body
                     \/ <<c, card[c].id>> \in cardPull.updates
                     \/ c \in cardPull.creates \cap cardPull.deletes
    <2>1. card[c] \in Book!Row \cup {NoCard}
      BY DEF Book!TypeOK
    <2>2. Book!AfterDeletes[c] = IF c \in cardPull.deletes THEN NoCard ELSE card[c]
      BY DEF Book!AfterDeletes
    <2>3. CASE c \in inserted
      <3>1. Book!AfterDeletes[c] = NoCard /\ c \in cardPull.creates
        BY <2>3
      <3>2. NewRow(c) = Book!Pulled(id[c], c, TRUE)
        BY <2>3, <3>1
      <3> HIDE DEF NewRow, inserted
      <3>3. NewRow(c) \in Book!Row /\ NewRow(c).id = id[c]
        BY <1>3, <2>3, <3>2, BookPulledRow
      <3> QED BY <2>2, <2>3, <3>1, <3>3, BookAssumption DEF Book!TypeOK
    <2>4. CASE c \notin inserted /\ Book!AfterDeletes[c] = NoCard
      <3>1. c \notin cardPull.creates
        BY <2>4
      <3>2. NewRow(c) = NoCard
        BY <2>4, <3>1
      <3> HIDE DEF NewRow, inserted
      <3> QED BY <2>4, <3>2
    <2>5. CASE c \notin inserted /\ Book!AfterDeletes[c] # NoCard
      <3>1. card[c] # NoCard /\ Book!AfterDeletes[c] = card[c] /\ card[c] \in Book!Row
            /\ card[c].id \in ContactId /\ card[c].remote \in BOOLEAN
        BY <2>1, <2>2, <2>5 DEF Book!Row
      <3>2. Book!UpsertOver(card[c], c) \in Book!Row
            /\ Book!UpsertOver(card[c], c).id = card[c].id
            /\ (card[c].modified => Book!UpsertOver(card[c], c) = card[c])
        BY <3>1, BookPulledRow DEF Book!UpsertOver
      <3>3. Book!Pulled(card[c].id, c, card[c].remote) \in Book!Row
            /\ Book!Pulled(card[c].id, c, card[c].remote).id = card[c].id
        BY <3>1, BookPulledRow
      <3>4. \/ NewRow(c) = Book!UpsertOver(card[c], c)
            \/ /\ NewRow(c) = Book!Pulled(card[c].id, c, card[c].remote)
               /\ <<c, card[c].id>> \in cardPull.updates
            \/ NewRow(c) = card[c]
        BY <2>5, <3>1
      <3> HIDE DEF NewRow, inserted
      <3> QED BY <2>5, <3>1, <3>2, <3>3, <3>4
    <2> QED BY <2>3, <2>4, <2>5
  <1> HIDE DEF NewRow
  <1>6. \A c \in Contact : card'[c] = NewRow(c)
    BY <1>4
  <1>7. card' \in [Contact -> Book!Row \cup {NoCard}]
    BY <1>4, <1>5
  <1>8. \A c \in Contact : card'[c] # NoCard =>
          IF c \in inserted THEN card'[c].id = id[c] /\ id[c] \in ContactId \ Book!UsedIds
          ELSE card[c] # NoCard /\ card'[c].id = card[c].id /\ card'[c].id \in Book!UsedIds
    <2> HIDE DEF inserted
    <2> QED BY <1>1, <1>3, <1>5, <1>6
  <1>9. \A c \in Contact : card[c] # NoCard /\ card[c].modified /\ card'[c] # NoCard
              => \/ card'[c].body = card[c].body
                 \/ <<c, card[c].id>> \in cardPull.updates
                 \/ c \in cardPull.creates \cap cardPull.deletes
    BY <1>5, <1>6
  <1> HIDE DEF inserted
  <1>10. \A c \in Contact : card'[c] # NoCard /\ card'[c].id \notin Book!UsedIds
         => c \in inserted
    BY <1>8
  <1> QED BY <1>3, <1>7, <1>8, <1>9, <1>10

-----------------------------------------------------------------------------
(* The address book: types.                                                *)

\* A round that has been answered, or has a card to clear, has the entry it
\* works on; what the pull creates, it does not delete.
BookAtWork == cardPush.pc \in {"accepted", "mark"} => cardPush.id \in Book!Todo
BookDecided == cardPull.creates \cap cardPull.deletes = {}

BookTypeInv == Book!TypeOK /\ BookAtWork /\ BookDecided

\* The initial state is well typed.
LEMMA BookTypeInit == Book!Init => BookTypeInv
  <1>1. 0 \in Book!Change /\ 0 \in 0..MaxCardFailures
    BY BookAssumption DEF Book!Change
  <1> QED BY <1>1 DEF Book!Init, Book!TypeOK, BookTypeInv, BookAtWork, BookDecided,
             Book!PushIdle, Book!PullIdle

\* Every step keeps the types.
LEMMA BookTypeNext == BookTypeInv /\ [Book!Next]_(Book!vars) => Book!TypeOK'
  <1> SUFFICES ASSUME BookTypeInv, [Book!Next]_(Book!vars) PROVE Book!TypeOK'
    OBVIOUS
  <1>0. Book!TypeOK /\ 0 \in Book!Change /\ MaxCardFailures \in Nat
        /\ MaxCardChanges \in Nat
    BY BookAssumption DEF Book!Change, BookTypeInv, Book!TypeOK, BookRound
  <1>1. ASSUME Book!CanFail, cardFailures' = cardFailures + 1
               PROVE cardFailures' \in 0..MaxCardFailures
    BY <1>0, <1>1 DEF Book!CanFail, Book!TypeOK
  <1>2. ASSUME NEW c \in Contact, Book!User(c) PROVE Book!TypeOK'
    <2>1. BookUserMoves(c)
      BY <1>0, <1>2, BookUserMovesHolds
    <2>2. cardQueue' \in [ContactId -> Book!Entry \cup {NoCard}]
          /\ cardOwed' \in [Contact -> Book!Change]
            /\ cardRisky' \subseteq Book!Change
      <3>1. CASE UNCHANGED <<cardQueue, cardOwed, cardRisky>>
        BY <1>0, <3>1 DEF Book!TypeOK
      <3>2. CASE \E i \in ContactId : BookKey(i, c) /\ BookQueues(i, c)
        BY <1>0, <2>1, <3>2 DEF BookUserMoves, BookQueues, Book!TypeOK
      <3> QED BY <2>1, <3>1, <3>2 DEF BookUserMoves, BookQueueMoves
    <2> QED BY <1>0, <2>1, <2>2 DEF Book!TypeOK, BookUserMoves, BookRowMoves
  <1>3. ASSUME NEW c \in Contact, Book!RemoteSave(c) \/ Book!RemoteDelete(c)
               PROVE Book!TypeOK'
    <2>1. cardChanges' \in Book!Change
      BY <1>0, <1>3 DEF Book!RemoteSave, Book!RemoteDelete, Book!NewChange, Book!TypeOK,
         Book!Change
    <2>2. cardServer' \in [Contact -> Book!Change]
      BY <1>0, <1>3, <2>1 DEF Book!RemoteSave, Book!RemoteDelete, Book!TypeOK
    <2> QED BY <1>0, <1>3, <2>1, <2>2 DEF Book!RemoteSave, Book!RemoteDelete, Book!TypeOK
  <1>4. CASE Book!GetPendingContactSync
    BY <1>0, <1>4, BookRoundRead DEF Book!GetPendingContactSync, Book!TypeOK, BookRound
  <1>5. CASE Book!PushEnds
    BY <1>0, <1>5 DEF Book!PushEnds, Book!PushIdle, Book!TypeOK
  <1>6. CASE Book!PushDrop
    <2> DEFINE entry == cardPush.todo[Book!Current]
    <2>1. Book!Current \in ContactId /\ entry \in Book!Entry /\ entry.contact \in Contact
          /\ entry.change \in Book!Change
      BY <1>0, <1>6, BookCurrent DEF Book!PushDrop, Book!Entry
    <2>2. cardOwed' \in [Contact -> Book!Change]
      BY <1>0, <1>6, <2>1, BookSettled DEF Book!PushDrop, Book!TypeOK
    <2>3. cardPush' \in BookRound
      BY <1>0, <1>6, BookRest DEF Book!PushDrop
    <2> QED BY <1>0, <1>6, <2>1, <2>2, <2>3 DEF Book!PushDrop, Book!TypeOK, BookRound
  <1>7. CASE Book!PushSend
    <2> DEFINE i == Book!Current
               entry == cardPush.todo[i]
    <2>1. i \in ContactId /\ entry \in Book!Entry /\ entry.contact \in Contact
          /\ entry.change \in Book!Change
      BY <1>0, <1>7, BookCurrent DEF Book!PushSend, Book!Entry
    <2>2. PICK answered, arrives \in BOOLEAN :
            /\ answered \/ Book!CanFail
            /\ cardFailures' = IF answered THEN cardFailures ELSE cardFailures + 1
            /\ cardPush' = IF answered THEN [cardPush EXCEPT !.pc = "accepted", !.id = i]
                 ELSE Book!Rest(i)
            /\ IF arrives
               THEN /\ cardServer' = [cardServer EXCEPT ![entry.contact] =
                                    IF entry.op = "save" THEN entry.change ELSE 0]
                    /\ cardOwed' = Book!Settled(entry.contact, entry.change)
               ELSE UNCHANGED <<cardServer, cardOwed>>
      BY <1>7 DEF Book!PushSend
    <2>3. cardFailures' \in 0..MaxCardFailures
      BY <1>0, <1>1, <2>2 DEF Book!TypeOK
    <2>4. cardServer' \in [Contact -> Book!Change]
      BY <1>0, <2>1, <2>2 DEF Book!TypeOK
    <2>5. cardOwed' \in [Contact -> Book!Change]
      BY <1>0, <2>1, <2>2, BookSettled DEF Book!TypeOK
    <2>6. cardPush' \in BookRound
      <3>1. [cardPush EXCEPT !.pc = "accepted", !.id = i] \in BookRound
        BY <1>0, <2>1 DEF Book!TypeOK, BookRound
      <3> QED BY <1>0, <2>2, <3>1, BookRest
    <2> QED BY <1>0, <1>7, <2>3, <2>4, <2>5, <2>6 DEF Book!PushSend, Book!TypeOK, BookRound
  <1>8. CASE Book!PushAccepted
    <2>1. cardPush' \in {[cardPush EXCEPT !.pc = "mark"], Book!Rest(cardPush.id)}
      BY <1>8 DEF Book!PushAccepted
    <2>2. cardPush' \in BookRound
      <3>1. [cardPush EXCEPT !.pc = "mark"] \in BookRound
        BY <1>0 DEF Book!TypeOK, BookRound
      <3> QED BY <1>0, <2>1, <3>1, BookRest
    <2>3. cardQueue' \in [ContactId -> Book!Entry \cup {NoCard}]
      BY <1>0, <1>8 DEF Book!PushAccepted, Book!TypeOK
    <2> QED BY <1>0, <1>8, <2>2, <2>3, BookPushed DEF Book!PushAccepted, BookRowsKept,
               Book!TypeOK, BookRound
  <1>9. CASE Book!MarkContactSynced
    <2>1. cardPush' \in BookRound
      BY <1>0, <1>9, BookRest DEF Book!MarkContactSynced
    <2> QED BY <1>0, <1>9, <2>1, BookPushed DEF Book!MarkContactSynced, BookRowsKept,
               Book!TypeOK, BookRound
  <1>10. CASE Book!PushStops
    <2>1. {card[c].body : c \in {d \in Contact : card[d] # NoCard
          /\ card[d].id = cardPush.id}} \subseteq Book!Change
      BY <1>0 DEF Book!TypeOK, Book!Row
    <2>2. cardStranded' \subseteq Book!Change
      BY <1>0, <1>10, <2>1 DEF Book!PushStops, Book!TypeOK
    <2>3. cardFailures' \in 0..MaxCardFailures
      BY <1>1, <1>10 DEF Book!PushStops
    <2>4. cardPush' \in BookRound
      BY <1>10 DEF Book!PushStops, Book!PushIdle, BookRound
    <2> QED BY <1>0, <1>10, <2>2, <2>3, <2>4 DEF Book!PushStops, Book!TypeOK, BookRound
  <1>11. CASE Book!QueryAddressBook
    <2>1. PICK missing \in {{}} \cup (IF Book!CanFail
                               THEN {{c} : c \in {d \in Contact : cardServer[d] # 0}}
                                 ELSE {}) :
            /\ cardPull' = [Book!PullIdle EXCEPT !.pc = "compare",
                 !.complete = missing = {},
                          !.got = [c \in Contact |-> IF c \in missing THEN 0
                            ELSE cardServer[c]]]
            /\ cardFailures' = IF missing = {} THEN cardFailures ELSE cardFailures + 1
      BY <1>11 DEF Book!QueryAddressBook
    <2> DEFINE got == [c \in Contact |-> IF c \in missing THEN 0 ELSE cardServer[c]]
               complete == missing = {}
    <2>2. got \in [Contact -> Book!Change]
      BY <1>0 DEF Book!TypeOK
    <2>3. complete \in BOOLEAN
      OBVIOUS
    <2>4. cardPull' = [Book!PullIdle EXCEPT !.pc = "compare", !.complete = complete,
          !.got = got]
      BY <2>1
    <2>5. cardFailures' \in 0..MaxCardFailures
      BY <1>0, <1>1, <2>1 DEF Book!TypeOK
    <2> HIDE DEF got, complete
    <2> QED BY <1>0, <1>11, <2>2, <2>3, <2>4, <2>5 DEF Book!QueryAddressBook, Book!PullIdle,
               Book!TypeOK
  <1>12. CASE Book!CompareContacts
    <2> DEFINE updates == {<<c, card[c].id>> : c \in {d \in Book!Seen \cap Book!Rows :
                      ~card[d].modified /\ card[d].etag # cardPull.got[d]}}
               creates == Book!Seen \ Book!Rows
               deletes == IF cardPull.complete THEN Book!Rows \ Book!Seen ELSE {}
    <2>1. updates \in SUBSET (Contact \X ContactId)
      BY <1>0 DEF Book!TypeOK, Book!Row, Book!Seen, Book!Rows
    <2>2. deletes \in SUBSET Contact /\ creates \in SUBSET Contact
      BY DEF Book!Rows, Book!Seen
    <2>3. cardPull' = [cardPull EXCEPT !.pc = "apply", !.at = cardChanges,
                         !.creates = creates, !.updates = updates, !.deletes = deletes]
      BY <1>12 DEF Book!CompareContacts
    <2> HIDE DEF updates, deletes, creates
    <2> QED BY <1>0, <1>12, <2>1, <2>2, <2>3 DEF Book!CompareContacts, Book!TypeOK
  <1>13. CASE Book!ApplyContactSyncChanges
    <2>1. card' \in [Contact -> Book!Row \cup {NoCard}]
      BY <1>0, <1>13, BookApplied
    <2> QED BY <1>0, <1>13, <2>1 DEF Book!ApplyContactSyncChanges, Book!PullIdle,
               Book!TypeOK
  <1>14. CASE Book!PullStops
    BY <1>0, <1>1, <1>14 DEF Book!PullStops, Book!PullIdle, Book!TypeOK
  <1>15. CASE UNCHANGED Book!vars
    BY <1>0, <1>15 DEF Book!vars, Book!TypeOK
  <1> QED BY <1>2, <1>3, <1>4, <1>5, <1>6, <1>7, <1>8, <1>9, <1>10, <1>11, <1>12, <1>13,
             <1>14, <1>15 DEF Book!Next, Book!PushStep, Book!PullStep

\* Work is done on an entry that was read; a comparison decides one thing only.
LEMMA BookAtWorkNext == BookTypeInv /\ [Book!Next]_(Book!vars) => BookAtWork'
    /\ BookDecided'
  <1> SUFFICES ASSUME BookTypeInv, [Book!Next]_(Book!vars) PROVE BookAtWork' /\ BookDecided'
    OBVIOUS
  <1>0. Book!TypeOK
    BY DEF BookTypeInv, Book!TypeOK
  <1>1. UNCHANGED cardPush => BookAtWork'
    BY DEF BookTypeInv, BookAtWork, Book!Todo
  <1>2. UNCHANGED cardPull => BookDecided'
    BY DEF BookTypeInv, BookDecided
  <1>3. ASSUME NEW c \in Contact, Book!User(c) \/ Book!RemoteSave(c) \/ Book!RemoteDelete(c)
        PROVE  UNCHANGED <<cardPush, cardPull>>
    BY <1>0, <1>3, BookUserMovesHolds DEF BookUserMoves, Book!RemoteSave, Book!RemoteDelete
  <1>4. Book!PushStep \/ Book!PushStops => UNCHANGED cardPull
    BY DEF Book!PushStep, Book!PushStops, Book!GetPendingContactSync, Book!PushEnds,
       Book!PushDrop, Book!PushSend,
       Book!PushAccepted, Book!MarkContactSynced
  <1>5. Book!PullStep \/ Book!PullStops => UNCHANGED cardPush
    BY DEF Book!PullStep, Book!PullStops, Book!QueryAddressBook, Book!CompareContacts,
       Book!ApplyContactSyncChanges
  <1>6. ASSUME Book!PushStep \/ Book!PushStops PROVE BookAtWork'
    <2>1. \A i : cardPush' = Book!Rest(i) => BookAtWork'
      BY <1>0, BookRest DEF BookAtWork
    <2>2. CASE Book!GetPendingContactSync
      BY <1>0, <2>2, BookRoundRead DEF BookAtWork
    <2>3. CASE Book!PushEnds \/ Book!PushStops
      BY <2>3 DEF Book!PushEnds, Book!PushStops, Book!PushIdle, BookAtWork
    <2>4. CASE Book!PushSend
      <3>1. cardPush' \in {[cardPush EXCEPT !.pc = "accepted", !.id = Book!Current],
            Book!Rest(Book!Current)}
        BY <2>4 DEF Book!PushSend
      <3>2. CASE cardPush' = [cardPush EXCEPT !.pc = "accepted", !.id = Book!Current]
        <4>1. cardPush'.id = Book!Current /\ cardPush'.todo = cardPush.todo
          BY <1>0, <3>2 DEF Book!TypeOK
        <4>2. Book!Current \in Book!Todo
          BY <1>0, <2>4, BookCurrent DEF Book!PushSend
        <4> QED BY <4>1, <4>2 DEF BookAtWork, Book!Todo
      <3> QED BY <2>1, <3>1, <3>2
    <2>5. CASE Book!PushAccepted
      <3>1. cardPush' \in {[cardPush EXCEPT !.pc = "mark"], Book!Rest(cardPush.id)}
        BY <2>5 DEF Book!PushAccepted
      <3>2. CASE cardPush' = [cardPush EXCEPT !.pc = "mark"]
        <4>1. cardPush'.id = cardPush.id /\ cardPush'.todo = cardPush.todo
          BY <1>0, <3>2 DEF Book!TypeOK
        <4> QED BY <2>5, <4>1 DEF BookTypeInv, BookAtWork, Book!Todo, Book!PushAccepted
      <3> QED BY <2>1, <3>1, <3>2
    <2>6. CASE Book!PushDrop \/ Book!MarkContactSynced
      BY <2>1, <2>6 DEF Book!PushDrop, Book!MarkContactSynced
    <2> QED BY <1>6, <2>2, <2>3, <2>4, <2>5, <2>6 DEF Book!PushStep
  <1>7. ASSUME Book!PullStep \/ Book!PullStops PROVE BookDecided'
    <2>1. CASE Book!QueryAddressBook
      <3>1. PICK got, complete : cardPull' = [Book!PullIdle EXCEPT !.pc = "compare",
                                            !.complete = complete, !.got = got]
        BY <2>1 DEF Book!QueryAddressBook
      <3> QED BY <3>1 DEF Book!PullIdle, BookDecided
    <2>2. CASE Book!CompareContacts
      <3>1. /\ cardPull'.creates = Book!Seen \ Book!Rows
            /\ cardPull'.deletes = IF cardPull.complete THEN Book!Rows \ Book!Seen ELSE {}
        BY <1>0, <2>2 DEF Book!CompareContacts, Book!TypeOK
      <3> QED BY <3>1 DEF BookDecided
    <2>3. CASE Book!ApplyContactSyncChanges \/ Book!PullStops
      <3>1. cardPull' = Book!PullIdle
        BY <2>3 DEF Book!ApplyContactSyncChanges, Book!PullStops
      <3> QED BY <3>1 DEF Book!PullIdle, BookDecided
    <2> QED BY <1>7, <2>1, <2>2, <2>3 DEF Book!PullStep
  <1>8. CASE UNCHANGED Book!vars
    BY <1>1, <1>2, <1>8 DEF Book!vars
  <1> QED BY <1>1, <1>2, <1>3, <1>4, <1>5, <1>6, <1>7, <1>8 DEF Book!Next

\* The three together are inductive.
LEMMA BookTypeInvNext == BookTypeInv /\ [Book!Next]_(Book!vars) => BookTypeInv'
  <1> QED BY BookTypeNext, BookAtWorkNext DEF BookTypeInv, Book!TypeOK

-----------------------------------------------------------------------------
(* The address book: changes are not lost.                                 *)

\* The parts of the inductive invariant, as for the calendar.
BookDated ==
  \A i \in ContactId :
    /\ cardQueue[i] # NoCard => cardQueue[i].change \in 1..cardChanges
    /\ cardPush.todo[i] # NoCard => cardPush.todo[i].change \in 1..cardChanges

BookReadIsCurrent ==
  \A i \in ContactId : cardPush.todo[i] # NoCard /\ cardQueue[i] # NoCard =>
    \/ cardQueue[i].change \in cardRisky
    \/ cardQueue[i].change = cardPush.todo[i].change
         /\ cardQueue[i].contact = cardPush.todo[i].contact

BookAcceptedIsSettled ==
  cardPush.pc = "accepted"
    => cardOwed[cardPush.todo[cardPush.id].contact] # cardPush.todo[cardPush.id].change

BookRowsNameEntries ==
  \A c \in Contact : card[c] # NoCard /\ cardQueue[card[c].id] # NoCard
    => cardQueue[card[c].id].contact = c

BookRowsApart ==
  \A d, c \in Contact : card[d] # NoCard /\ card[c] # NoCard /\ d # c => card[d].id # card[c].id

BookInv ==
  /\ BookTypeInv
  /\ BookDated /\ BookReadIsCurrent /\ BookAcceptedIsSettled
  /\ BookRowsNameEntries /\ BookRowsApart
  /\ Book!ChangesAreNotLost

\* The invariant holds initially.
LEMMA BookInvInit == Book!Init => BookInv
  <1> SUFFICES ASSUME Book!Init PROVE BookInv
    OBVIOUS
  <1>1. BookDated /\ BookReadIsCurrent /\ BookAcceptedIsSettled
    BY DEF Book!Init, Book!PushIdle, BookDated, BookReadIsCurrent, BookAcceptedIsSettled
  <1>2. BookRowsNameEntries /\ BookRowsApart /\ Book!ChangesAreNotLost
    BY DEF Book!Init, BookRowsNameEntries, BookRowsApart, Book!ChangesAreNotLost
  <1> QED BY <1>1, <1>2, BookTypeInit DEF BookInv

\* The user's steps keep the invariant.
LEMMA BookInvUser ==
  ASSUME BookInv, NEW c \in Contact, Book!User(c)
  PROVE  /\ BookDated' /\ BookReadIsCurrent' /\ BookAcceptedIsSettled'
         /\ BookRowsNameEntries' /\ BookRowsApart' /\ Book!ChangesAreNotLost'
  <1>0. Book!TypeOK /\ BookAtWork /\ BookUserMoves(c)
    BY BookUserMovesHolds DEF BookInv, BookTypeInv, Book!TypeOK
  <1>1. cardChanges \in Nat /\ cardChanges' = cardChanges + 1 /\ cardPush' = cardPush
    BY <1>0, BookAssumption DEF BookUserMoves, Book!TypeOK, Book!Change
  <1>2. \A i \in ContactId \ Book!UsedIds : cardQueue[i] = NoCard
    BY DEF Book!UsedIds, Book!Queued
  <1>3. \A d \in Contact : card[d] # NoCard => card[d].id \in Book!UsedIds
        /\ card[d].id \in ContactId
    BY <1>0 DEF Book!UsedIds, Book!TypeOK, Book!Row
  <1>4. BookRowsApart'
    BY <1>0, <1>3 DEF BookInv, BookRowsApart, BookUserMoves, BookRowMoves
  <1>5. CASE UNCHANGED <<cardQueue, cardOwed, cardRisky>>
    <2>1. BookDated' /\ BookReadIsCurrent' /\ BookAcceptedIsSettled'
      BY <1>1, <1>5 DEF BookInv, BookDated, BookReadIsCurrent, BookAcceptedIsSettled
    <2>2. BookRowsNameEntries'
      BY <1>0, <1>2, <1>3, <1>5 DEF BookInv, BookRowsNameEntries, BookUserMoves,
         BookRowMoves
    <2>3. Book!ChangesAreNotLost'
      BY <1>5 DEF BookInv, Book!ChangesAreNotLost, Book!QueuedFor, Book!Queued
    <2> QED BY <1>4, <2>1, <2>2, <2>3
  <1>6. ASSUME NEW i \in ContactId, BookKey(i, c), BookQueues(i, c)
        PROVE  /\ BookDated' /\ BookReadIsCurrent' /\ BookAcceptedIsSettled'
               /\ BookRowsNameEntries' /\ Book!ChangesAreNotLost'
    <2>1. cardQueue'[i].contact = c
      BY <1>0, <1>2, <1>3, <1>6 DEF BookInv, BookRowsNameEntries, BookKey, BookQueues,
           BookUserMoves, BookRowMoves
    <2>2. /\ \A j \in ContactId : j # i => cardQueue'[j] = cardQueue[j]
          /\ cardQueue'[i] # NoCard /\ cardQueue'[i].change = cardChanges'
      BY <1>6 DEF BookQueues
    <2>3. \A d \in Contact : cardOwed'[d] = IF d = c THEN cardChanges' ELSE cardOwed[d]
      BY <1>0, <1>6 DEF BookQueues, Book!TypeOK
    <2>4. cardRisky \subseteq cardRisky'
          /\ (cardPush.todo[i] # NoCard => cardChanges' \in cardRisky')
      BY <1>6 DEF BookQueues
    <2>5. BookDated'
      BY <1>1, <2>2 DEF BookInv, BookDated
    <2>6. BookReadIsCurrent'
      BY <1>1, <2>2, <2>4 DEF BookInv, BookReadIsCurrent
    <2>7. BookAcceptedIsSettled'
      <3> SUFFICES ASSUME cardPush.pc = "accepted"
                   PROVE  cardOwed'[cardPush.todo[cardPush.id].contact] # cardPush.todo[cardPush.id].change
        BY <1>1 DEF BookAcceptedIsSettled
      <3>1. cardPush.id \in ContactId /\ cardPush.todo[cardPush.id] # NoCard
        BY <1>0 DEF BookAtWork, Book!Todo
      <3>2. cardPush.todo[cardPush.id].change \in 1..cardChanges
            /\ cardPush.todo[cardPush.id].contact \in Contact
        BY <1>0, <3>1 DEF BookInv, BookDated, Book!TypeOK, Book!Entry
      <3>3. cardOwed[cardPush.todo[cardPush.id].contact] # cardPush.todo[cardPush.id].change
        BY DEF BookInv, BookAcceptedIsSettled
      <3> QED BY <1>1, <2>3, <3>2, <3>3
    <2>8. BookRowsNameEntries'
      <3> SUFFICES ASSUME NEW d \in Contact, card'[d] # NoCard, cardQueue'[card'[d].id] # NoCard
                   PROVE  cardQueue'[card'[d].id].contact = d
        BY DEF BookRowsNameEntries
      <3>1. CASE d = c
        <4>1. card'[c].id = i
          BY <1>0, <1>6, <3>1 DEF BookKey, BookUserMoves, BookRowMoves
        <4> QED BY <2>1, <3>1, <4>1
      <3>2. CASE d # c
        <4>1. card'[d] = card[d] /\ card[d].id \in ContactId
          BY <1>0, <1>3, <3>2 DEF BookUserMoves, BookRowMoves
        <4>2. card[d].id # i
          BY <1>0, <1>3, <1>6, <3>2, <4>1 DEF BookInv, BookRowsApart, BookKey,
               BookUserMoves, BookRowMoves
        <4> QED BY <2>2, <4>1, <4>2 DEF BookInv, BookRowsNameEntries
      <3> QED BY <3>1, <3>2
    <2>9. Book!ChangesAreNotLost'
      <3> SUFFICES ASSUME NEW d \in Contact, cardOwed'[d] # 0,
                          cardOwed'[d] \notin cardRisky'
                   PROVE  \E j \in Book!QueuedFor(d)' : cardQueue'[j].change = cardOwed'[d]
        BY DEF Book!ChangesAreNotLost
      <3>1. CASE d = c
        BY <2>1, <2>2, <2>3, <3>1 DEF Book!QueuedFor, Book!Queued
      <3>2. CASE d # c
        <4>1. PICK j \in Book!QueuedFor(d) : cardQueue[j].change = cardOwed[d]
          BY <2>3, <2>4, <3>2 DEF BookInv, Book!ChangesAreNotLost
        <4>2. j \in ContactId /\ cardQueue[j] # NoCard /\ cardQueue[j].contact = d
          BY DEF Book!QueuedFor, Book!Queued
        <4>3. j # i
          BY <1>6, <2>1, <3>2, <4>2 DEF BookQueues
        <4> QED BY <2>2, <2>3, <3>2, <4>1, <4>2, <4>3 DEF Book!QueuedFor, Book!Queued
      <3> QED BY <3>1, <3>2
    <2> QED BY <2>5, <2>6, <2>7, <2>8, <2>9
  <1> QED BY <1>0, <1>4, <1>5, <1>6 DEF BookUserMoves, BookQueueMoves

\* Entries only go.
BookQueueShrinks ==
  \A i \in ContactId : cardQueue'[i] # NoCard => cardQueue'[i] = cardQueue[i]

\* The round works on what it read.
BookTodoShrinks ==
  \A i \in ContactId : cardPush'.todo[i] # NoCard =>
    cardPush'.todo[i] = cardPush.todo[i]
      \/ (cardPush'.todo[i] = cardQueue[i] /\ cardQueue' = cardQueue)

\* Keys stay with their cards, or are new.
BookKeysStay ==
  /\ \A c \in Contact : card'[c] # NoCard =>
       \/ card[c] # NoCard /\ card'[c].id = card[c].id
       \/ card'[c].id \in ContactId \ Book!UsedIds
  /\ \A d, c \in Contact :
       /\ d # c /\ card'[d] # NoCard /\ card'[c] # NoCard
       /\ card'[d].id \notin Book!UsedIds /\ card'[c].id \notin Book!UsedIds
       => card'[d].id # card'[c].id

\* What the invariant needs of a step that is not the user's: entries only go,
\* keys stay, and an entry goes with its change settled or replaced at risk.
BookMachine ==
  /\ BookQueueShrinks /\ BookTodoShrinks /\ BookKeysStay
  /\ cardRisky' = cardRisky /\ cardChanges' \in {cardChanges, cardChanges + 1}
  /\ \A c \in Contact : cardOwed'[c] \in {cardOwed[c], 0}
  /\ \A i \in ContactId :
       cardQueue[i] # NoCard /\ cardQueue'[i] = NoCard
         /\ cardQueue[i].change = cardOwed[cardQueue[i].contact]
       => cardOwed'[cardQueue[i].contact] = 0 \/ cardQueue[i].change \in cardRisky
  /\ BookAcceptedIsSettled'

\* Such a step keeps the invariant.
LEMMA BookMachineKeeps ==
  ASSUME BookInv, BookMachine
  PROVE  /\ BookDated' /\ BookReadIsCurrent' /\ BookAcceptedIsSettled'
         /\ BookRowsNameEntries' /\ BookRowsApart' /\ Book!ChangesAreNotLost'
  <1>0. Book!TypeOK /\ cardChanges \in Nat
    BY BookAssumption DEF BookInv, BookTypeInv, Book!TypeOK, Book!Change
  <1>1. \A n \in 1..cardChanges : n \in 1..cardChanges'
    BY <1>0 DEF BookMachine
  <1>2. BookDated'
    BY <1>1 DEF BookInv, BookMachine, BookDated, BookQueueShrinks, BookTodoShrinks
  <1>3. BookReadIsCurrent'
    BY DEF BookInv, BookMachine, BookReadIsCurrent, BookQueueShrinks, BookTodoShrinks
  <1>4. \A i \in ContactId \ Book!UsedIds : cardQueue[i] = NoCard
    BY DEF Book!UsedIds, Book!Queued
  <1>5. \A c \in Contact : card[c] # NoCard => card[c].id \in Book!UsedIds
        /\ card[c].id \in ContactId
    BY <1>0 DEF Book!UsedIds, Book!TypeOK, Book!Row
  <1>6. BookRowsNameEntries'
    BY <1>4, <1>5 DEF BookInv, BookMachine, BookRowsNameEntries, BookKeysStay,
       BookQueueShrinks
  <1>7. BookRowsApart'
    BY <1>5 DEF BookInv, BookMachine, BookRowsApart, BookKeysStay
  <1>8. Book!ChangesAreNotLost'
    <2> SUFFICES ASSUME NEW c \in Contact, cardOwed'[c] # 0, cardOwed'[c] \notin cardRisky'
                 PROVE  \E i \in Book!QueuedFor(c)' : cardQueue'[i].change = cardOwed'[c]
      BY DEF Book!ChangesAreNotLost
    <2>1. cardOwed'[c] = cardOwed[c] /\ cardRisky' = cardRisky
      BY DEF BookMachine
    <2>2. PICK i \in Book!QueuedFor(c) : cardQueue[i].change = cardOwed[c]
      BY <2>1 DEF BookInv, Book!ChangesAreNotLost
    <2>3. i \in ContactId /\ cardQueue[i] # NoCard /\ cardQueue[i].contact = c
      BY DEF Book!QueuedFor, Book!Queued
    <2>4. cardQueue'[i] # NoCard
      BY <2>1, <2>2, <2>3 DEF BookMachine
    <2>5. cardQueue'[i] = cardQueue[i]
      BY <2>3, <2>4 DEF BookMachine, BookQueueShrinks
    <2> QED BY <2>1, <2>2, <2>3, <2>4, <2>5 DEF Book!QueuedFor, Book!Queued
  <1> QED BY <1>2, <1>3, <1>6, <1>7, <1>8 DEF BookMachine

\* Every step but the user's is such a step.
LEMMA BookMachineHolds ==
  ASSUME BookInv,
         \/ \E c \in Contact : Book!RemoteSave(c) \/ Book!RemoteDelete(c)
         \/ Book!PushStep \/ Book!PushStops \/ Book!PullStep \/ Book!PullStops
  PROVE  BookMachine
  <1>0. Book!TypeOK /\ BookAtWork
    BY DEF BookInv, BookTypeInv, Book!TypeOK
  <1>1. UNCHANGED cardQueue => BookQueueShrinks
    BY DEF BookQueueShrinks
  <1>2. UNCHANGED cardPush => BookTodoShrinks
    BY DEF BookTodoShrinks
  <1>3. \A i : cardPush' = Book!Rest(i) => BookTodoShrinks
    <2> SUFFICES ASSUME NEW i, cardPush' = Book!Rest(i) PROVE BookTodoShrinks
      OBVIOUS
    <2> QED BY <1>0, BookRest DEF BookTodoShrinks
  <1>4. cardPush' = Book!PushIdle => BookTodoShrinks
    BY DEF BookTodoShrinks, Book!PushIdle
  <1>5. ASSUME NEW i \in ContactId, cardQueue' = [cardQueue EXCEPT ![i] = NoCard]
        PROVE  BookQueueShrinks /\ \A j \in ContactId : j # i
               => cardQueue'[j] = cardQueue[j]
    BY <1>0, <1>5 DEF BookQueueShrinks, Book!TypeOK
  <1>6. ASSUME UNCHANGED <<cardOwed, cardPush>> PROVE BookAcceptedIsSettled'
    BY <1>6 DEF BookInv, BookAcceptedIsSettled
  <1>7. cardPush'.pc # "accepted" => BookAcceptedIsSettled'
    BY DEF BookAcceptedIsSettled
  <1>8. BookRowsKept => BookKeysStay
    BY DEF BookRowsKept, BookKeysStay, Book!UsedIds
  <1>9. UNCHANGED card => BookKeysStay
    BY DEF BookKeysStay, Book!UsedIds
  <1>10. CASE \E c \in Contact : Book!RemoteSave(c) \/ Book!RemoteDelete(c)
    BY <1>1, <1>2, <1>6, <1>9, <1>10 DEF Book!RemoteSave, Book!RemoteDelete, Book!NewChange,
       BookMachine
  <1>11. CASE Book!QueryAddressBook \/ Book!CompareContacts \/ Book!PullStops
    BY <1>1, <1>2, <1>6, <1>9, <1>11 DEF Book!QueryAddressBook, Book!CompareContacts,
       Book!PullStops, BookMachine
  <1>12. CASE Book!ApplyContactSyncChanges
    <2>1. BookKeysStay
      BY <1>0, <1>12, BookApplied DEF BookKeysStay
    <2> QED BY <1>1, <1>2, <1>6, <1>12, <2>1 DEF Book!ApplyContactSyncChanges, BookMachine
  <1>13. CASE Book!GetPendingContactSync
    <2>1. BookTodoShrinks /\ cardPush'.pc = "next"
      BY <1>0, <1>13, BookRoundRead DEF BookTodoShrinks, Book!GetPendingContactSync
    <2> QED BY <1>1, <1>7, <1>9, <1>13, <2>1 DEF Book!GetPendingContactSync, BookMachine
  <1>14. CASE Book!PushEnds \/ Book!PushStops
    <2>1. cardPush' = Book!PushIdle /\ cardPush'.pc = "idle"
      BY <1>14 DEF Book!PushEnds, Book!PushStops, Book!PushIdle
    <2> QED BY <1>1, <1>4, <1>7, <1>9, <1>14, <2>1 DEF Book!PushEnds, Book!PushStops,
               BookMachine
  <1>15. CASE Book!PushDrop
    <2> DEFINE i == Book!Current
               entry == cardPush.todo[i]
    <2>1. i \in ContactId /\ i \in Book!Todo /\ entry \in Book!Entry /\ entry # NoCard
      BY <1>0, <1>15, BookCurrent DEF Book!PushDrop, Book!Todo
    <2>2. entry.contact \in Contact /\ entry.change \in Book!Change
      BY <2>1 DEF Book!Entry
    <2>3. /\ cardQueue' = [cardQueue EXCEPT ![i] = NoCard] /\ cardPush' = Book!Rest(i)
          /\ cardOwed' = IF entry.change \in cardRisky THEN cardOwed
               ELSE Book!Settled(entry.contact, entry.change)
      BY <1>15 DEF Book!PushDrop
    <2>4. cardPush'.pc = "next"
      BY <1>0, <2>3, BookRest
    <2>5. \A d \in Contact : cardOwed'[d] \in {cardOwed[d], 0}
      BY <1>0, <2>2, <2>3, BookSettled
    <2>6. ASSUME cardQueue[i] # NoCard, cardQueue[i].change = cardOwed[cardQueue[i].contact],
                 cardQueue[i].change \notin cardRisky
          PROVE  cardOwed'[cardQueue[i].contact] = 0
      <3>1. cardQueue[i].change = entry.change /\ cardQueue[i].contact = entry.contact
        BY <2>1, <2>6 DEF BookInv, BookReadIsCurrent
      <3> QED BY <1>0, <2>2, <2>3, <2>6, <3>1, BookSettled
    <2>7. BookQueueShrinks /\ \A j \in ContactId : j # i => cardQueue'[j] = cardQueue[j]
      BY <1>5, <2>1, <2>3
    <2> QED BY <1>3, <1>7, <1>9, <1>15, <2>3, <2>4, <2>5, <2>6, <2>7 DEF Book!PushDrop,
               BookMachine
  <1>16. CASE Book!PushSend
    <2> DEFINE i == Book!Current
               entry == cardPush.todo[i]
    <2>1. i \in ContactId /\ i \in Book!Todo /\ entry \in Book!Entry /\ entry # NoCard
      BY <1>0, <1>16, BookCurrent DEF Book!PushSend, Book!Todo
    <2>2. entry.contact \in Contact /\ entry.change \in Book!Change /\ entry.change # 0
      BY <2>1 DEF BookInv, BookDated, Book!Entry
    <2>3. PICK answered, arrives \in BOOLEAN :
            /\ answered => arrives
            /\ cardPush' = IF answered THEN [cardPush EXCEPT !.pc = "accepted", !.id = i]
                 ELSE Book!Rest(i)
            /\ IF arrives THEN cardOwed' = Book!Settled(entry.contact, entry.change)
               ELSE UNCHANGED cardOwed
      BY <1>16 DEF Book!PushSend
    <2>4. \A d \in Contact : cardOwed'[d] \in {cardOwed[d], 0}
      BY <1>0, <2>2, <2>3, BookSettled
    <2>5. CASE answered
      <3>1. cardPush'.id = i /\ cardPush'.todo = cardPush.todo
        BY <1>0, <2>3, <2>5 DEF Book!TypeOK
      <3>2. BookAcceptedIsSettled'
        BY <1>0, <2>2, <2>3, <2>5, <3>1, BookSettled DEF BookAcceptedIsSettled
      <3>3. BookTodoShrinks
        BY <3>1 DEF BookTodoShrinks
      <3> QED BY <1>1, <1>9, <1>16, <2>4, <3>2, <3>3 DEF Book!PushSend, BookMachine
    <2>6. CASE ~answered
      <3>1. cardPush' = Book!Rest(i) /\ cardPush'.pc = "next"
        BY <1>0, <2>3, <2>6, BookRest
      <3> QED BY <1>1, <1>3, <1>7, <1>9, <1>16, <2>4, <3>1 DEF Book!PushSend, BookMachine
    <2> QED BY <2>5, <2>6
  <1>17. CASE Book!PushAccepted
    <2> DEFINE i == cardPush.id
               entry == cardPush.todo[i]
    <2>1. i \in ContactId /\ entry # NoCard /\ cardOwed' = cardOwed
          /\ cardQueue' = [cardQueue EXCEPT ![i] = NoCard]
      BY <1>0, <1>17 DEF Book!PushAccepted, BookAtWork, Book!Todo
    <2>2. cardPush' \in {[cardPush EXCEPT !.pc = "mark"], Book!Rest(i)}
      BY <1>17 DEF Book!PushAccepted
    <2>3. cardPush'.pc # "accepted" /\ BookTodoShrinks
      <3>1. CASE cardPush' = [cardPush EXCEPT !.pc = "mark"]
        <4>1. cardPush'.pc = "mark" /\ cardPush'.todo = cardPush.todo
          BY <1>0, <3>1 DEF Book!TypeOK
        <4> QED BY <4>1 DEF BookTodoShrinks
      <3>2. CASE cardPush' = Book!Rest(i)
        BY <1>0, <1>3, <3>2, BookRest
      <3> QED BY <2>2, <3>1, <3>2
    <2>4. cardOwed[entry.contact] # entry.change
      BY <1>17 DEF Book!PushAccepted, BookInv, BookAcceptedIsSettled
    <2>5. cardQueue[i] # NoCard /\ cardQueue[i].change = cardOwed[cardQueue[i].contact]
          => cardQueue[i].change \in cardRisky
      BY <2>1, <2>4 DEF BookInv, BookReadIsCurrent
    <2>6. BookQueueShrinks /\ \A j \in ContactId : j # i => cardQueue'[j] = cardQueue[j]
      BY <1>5, <2>1
    <2> QED BY <1>0, <1>7, <1>8, <1>17, <2>1, <2>3, <2>5, <2>6, BookPushed
            DEF Book!PushAccepted, BookMachine
  <1>18. CASE Book!MarkContactSynced
    <2>1. cardPush' = Book!Rest(cardPush.id) /\ cardPush'.pc = "next"
      BY <1>0, <1>18, BookRest DEF Book!MarkContactSynced
    <2> QED BY <1>0, <1>1, <1>3, <1>7, <1>8, <1>18, <2>1,
               BookPushed DEF Book!MarkContactSynced, BookMachine
  <1> QED BY <1>10, <1>11, <1>12, <1>13, <1>14, <1>15, <1>16, <1>17,
             <1>18 DEF Book!PushStep, Book!PullStep

\* Every step of the address book keeps the invariant.
LEMMA BookInvNext == BookInv /\ [Book!Next]_(Book!vars) => BookInv'
  <1> SUFFICES ASSUME BookInv, [Book!Next]_(Book!vars) PROVE BookInv'
    OBVIOUS
  <1>1. BookTypeInv'
    BY BookTypeInvNext DEF BookInv
  <1>2. CASE \E c \in Contact : Book!User(c)
    BY <1>1, <1>2, BookInvUser DEF BookInv
  <1>3. CASE BookMachine
    BY <1>1, <1>3, BookMachineKeeps DEF BookInv
  <1>4. CASE UNCHANGED Book!vars
    BY <1>1, <1>4 DEF BookInv, Book!vars, BookDated, BookReadIsCurrent,
         BookAcceptedIsSettled, BookRowsNameEntries, BookRowsApart, Book!ChangesAreNotLost,
         Book!QueuedFor, Book!Queued
  <1> QED BY <1>2, <1>3, <1>4, BookMachineHolds DEF Book!Next

\* The address book's invariant is inductive.
THEOREM BookInvariance == Book!Spec => []BookInv
  BY BookInvInit, BookInvNext, PTL DEF Book!Spec

\* Every variable of the address book keeps its type.
THEOREM BookTypeCorrect == Book!Spec => []Book!TypeOK
  <1>1. BookInv => Book!TypeOK
    BY DEF BookInv, BookTypeInv
  <1> QED BY <1>1, BookInvariance, PTL

\* A card that was queued stays in the queue until the remote has it, but for
\* the same two races.
THEOREM BookChangesAreNotLost == Book!Spec => []CardChangesAreNotLost
  <1>1. BookInv => CardChangesAreNotLost
    BY DEF BookInv, CardChangesAreNotLost
  <1> QED BY <1>1, BookInvariance, PTL

\* An update is decided for a card that is clean then: one marked since has a
\* body made since.
UpdatesWereClean ==
  /\ cardPull.at <= cardChanges
  /\ \A c \in Contact :
       card[c] # NoCard /\ card[c].modified /\ <<c, card[c].id>> \in cardPull.updates
       => card[c].body > cardPull.at

\* A handler of the user leaves a card, deletes it, or gives it the new change.
LEMMA BookUserBody ==
  ASSUME Book!TypeOK, NEW c \in Contact, Book!User(c)
  PROVE  card'[c] = card[c] \/ card'[c] = NoCard \/ card'[c].body = cardChanges'
  <1>1. card' \in [Contact -> Book!Row \cup {NoCard}] /\ card \in [Contact -> Book!Row \cup {NoCard}]
    BY BookUserMovesHolds DEF BookUserMoves, BookRowMoves, Book!TypeOK
  <1>2. CASE Book!CreateContact(c)
    <2>1. card'[c] = [id |-> Book!NewId, body |-> cardChanges', etag |-> 0,
                      modified |-> TRUE, remote |-> FALSE]
      BY <1>1, <1>2 DEF Book!CreateContact
    <2> QED BY <2>1
  <1>3. ASSUME card[c] # NoCard,
               \/ card' = [card EXCEPT ![c].body = cardChanges', ![c].modified = TRUE]
               \/ card' = [card EXCEPT ![c].body = cardChanges', ![c].etag = 0,
                    ![c].modified = TRUE]
        PROVE  card'[c].body = cardChanges'
    <2>1. card[c] \in Book!Row
      BY <1>1, <1>3
    <2>2. \/ card'[c] = [card[c] EXCEPT !.body = cardChanges', !.modified = TRUE]
          \/ card'[c] = [card[c] EXCEPT !.body = cardChanges', !.etag = 0,
                           !.modified = TRUE]
      BY <1>1, <1>3
    <2> QED BY <2>1, <2>2 DEF Book!Row
  <1>4. card' = [card EXCEPT ![c] = NoCard] => card'[c] = NoCard
    BY <1>1
  <1> QED BY <1>2, <1>3, <1>4 DEF Book!User, Book!HandlePut, Book!HandleDelete,
          Book!HandleDesktopContactCreate, Book!HandleDesktopContactPatch,
          Book!HandleDesktopContactDelete

\* What is marked between the comparison and the writing is younger than the
\* comparison, in every step.
LEMMA UpdatesNext == BookInv /\ UpdatesWereClean /\ [Book!Next]_(Book!vars)
    => UpdatesWereClean'
  <1> SUFFICES ASSUME BookInv, UpdatesWereClean, [Book!Next]_(Book!vars)
               PROVE  UpdatesWereClean'
    OBVIOUS
  <1>0. /\ Book!TypeOK /\ cardChanges \in Nat /\ cardPull.at \in Nat
        /\ card \in [Contact -> Book!Row \cup {NoCard}]
    BY BookAssumption DEF BookInv, BookTypeInv, Book!TypeOK, Book!Change
  <1>1. \A c \in Contact : card[c] # NoCard => card[c].body \in Nat
    BY <1>0, BookAssumption DEF Book!Row, Book!Change
  <1>2. CASE \E c \in Contact : Book!User(c)
    <2> PICK c \in Contact : Book!User(c)
      BY <1>2
    <2>1. BookRowMoves(c) /\ cardChanges' = cardChanges + 1 /\ cardPull' = cardPull
      BY <1>0, BookUserMovesHolds DEF BookUserMoves
    <2>2. card'[c] = card[c] \/ card'[c] = NoCard \/ card'[c].body = cardChanges'
      BY <1>0, BookUserBody
    <2>3. cardChanges' > cardPull'.at
      BY <1>0, <2>1 DEF UpdatesWereClean
    <2>4. \A d \in Contact : d # c => card'[d] = card[d]
      BY <2>1 DEF BookRowMoves
    <2>5. ASSUME NEW d \in Contact, card'[d] # NoCard, card'[d].modified,
                 <<d, card'[d].id>> \in cardPull'.updates
          PROVE  card'[d].body > cardPull'.at
      <3>1. CASE card'[d] = card[d]
        BY <2>1, <2>5, <3>1 DEF UpdatesWereClean
      <3>2. CASE card'[d] # card[d]
        BY <2>2, <2>3, <2>4, <2>5, <3>2
      <3> QED BY <3>1, <3>2
    <2> QED BY <1>0, <2>1, <2>3, <2>5 DEF UpdatesWereClean
  <1>3. CASE \E c \in Contact : Book!RemoteSave(c) \/ Book!RemoteDelete(c)
    <2>1. cardChanges' = cardChanges + 1 /\ UNCHANGED <<card, cardPull>>
      BY <1>3 DEF Book!RemoteSave, Book!RemoteDelete, Book!NewChange
    <2> QED BY <1>0, <2>1 DEF UpdatesWereClean
  <1>4. CASE Book!PushAccepted \/ Book!MarkContactSynced
    <2>1. BookRowsKept
      BY <1>0, <1>4, BookPushed
    <2>2. UNCHANGED <<cardPull, cardChanges>>
      BY <1>4 DEF Book!PushAccepted, Book!MarkContactSynced
    <2>3. ASSUME NEW d \in Contact, card'[d] # NoCard, card'[d].modified,
                 <<d, card'[d].id>> \in cardPull'.updates
          PROVE  card'[d].body > cardPull'.at
      <3>1. /\ card[d] # NoCard /\ card'[d].id = card[d].id
            /\ card'[d].body = card[d].body /\ card[d].modified
        BY <2>1, <2>3 DEF BookRowsKept
      <3> QED BY <2>2, <2>3, <3>1 DEF UpdatesWereClean
    <2> QED BY <2>2, <2>3 DEF UpdatesWereClean
  <1>5. ASSUME cardPull'.updates = {}, cardPull'.at = 0, cardChanges' = cardChanges
        PROVE  UpdatesWereClean'
    BY <1>0, <1>5 DEF UpdatesWereClean
  <1>6. CASE Book!QueryAddressBook
    <2>1. PICK missing :
            cardPull' = [Book!PullIdle EXCEPT !.pc = "compare", !.complete = missing = {},
                           !.got = [c \in Contact |-> IF c \in missing THEN 0
                                                      ELSE cardServer[c]]]
      BY <1>6 DEF Book!QueryAddressBook
    <2>2. cardPull'.updates = {} /\ cardPull'.at = 0
      BY <2>1 DEF Book!PullIdle
    <2> QED BY <1>5, <1>6, <2>2 DEF Book!QueryAddressBook
  <1>7. CASE Book!ApplyContactSyncChanges \/ Book!PullStops
    <2>1. cardPull' = Book!PullIdle /\ cardChanges' = cardChanges
      BY <1>7 DEF Book!ApplyContactSyncChanges, Book!PullStops
    <2> QED BY <1>5, <2>1 DEF Book!PullIdle
  <1>8. CASE Book!CompareContacts
    <2> DEFINE updates == {<<c, card[c].id>> : c \in {d \in Book!Seen \cap Book!Rows :
                      ~card[d].modified /\ card[d].etag # cardPull.got[d]}}
    <2>1. cardPull'.updates = updates /\ cardPull'.at = cardChanges
      BY <1>0, <1>8 DEF Book!CompareContacts, Book!TypeOK
    <2>2. UNCHANGED <<card, cardChanges>>
      BY <1>8 DEF Book!CompareContacts
    <2>3. \A c \in Contact : <<c, card[c].id>> \in updates => ~card[c].modified
      OBVIOUS
    <2> HIDE DEF updates
    <2> QED BY <1>0, <2>1, <2>2, <2>3 DEF UpdatesWereClean
  <1>9. CASE UNCHANGED <<card, cardPull, cardChanges>>
    BY <1>9 DEF UpdatesWereClean
  <1> QED BY <1>2, <1>3, <1>4, <1>6, <1>7, <1>8, <1>9
          DEF Book!Next, Book!PushStep, Book!PullStep, Book!vars,
              Book!GetPendingContactSync, Book!PushEnds, Book!PushDrop, Book!PushSend,
              Book!PushStops

\* The pull spares an unsent edit that it could have seen: the card it puts over a
\* modified one is for a row that was clean when it compared, and the edit is younger.
THEOREM BookEditsAreSpared == Book!Spec => EditsAreSpared
  <1> DEFINE Spared ==
        \A c \in Contact :
          card[c] # NoCard /\ card[c].modified /\ card'[c] # NoCard
            /\ cardChanges' = cardChanges
          => \/ card'[c].body = card[c].body
             \/ <<c, card[c].id>> \in cardPull.updates /\ card[c].body > cardPull.at
  <1>1. ASSUME BookInv, UpdatesWereClean, [Book!Next]_(Book!vars) PROVE Spared
    <2>0. Book!TypeOK /\ BookDecided /\ cardChanges \in Nat
      BY <1>1, BookAssumption DEF BookInv, BookTypeInv, Book!TypeOK, Book!Change
    <2>1. CASE \E c \in Contact : Book!User(c)
      <3>1. cardChanges' = cardChanges + 1
        BY <2>0, <2>1, BookUserMovesHolds DEF BookUserMoves
      <3> QED BY <2>0, <3>1
    <2>2. CASE Book!PushAccepted \/ Book!MarkContactSynced
      BY <2>0, <2>2, BookPushed DEF BookRowsKept
    <2>3. CASE Book!ApplyContactSyncChanges
      <3>1. \A c \in Contact : card[c] # NoCard /\ card[c].modified /\ card'[c] # NoCard
              => \/ card'[c].body = card[c].body
                 \/ <<c, card[c].id>> \in cardPull.updates
        BY <2>0, <2>3, BookApplied DEF BookDecided
      <3> QED BY <1>1, <3>1 DEF UpdatesWereClean
    <2>4. CASE UNCHANGED card
      BY <2>4
    <2> QED BY <1>1, <2>1, <2>2, <2>3, <2>4 DEF Book!Next, Book!PushStep, Book!PullStep,
         Book!vars, Book!RemoteSave, Book!RemoteDelete, Book!GetPendingContactSync,
         Book!PushEnds, Book!PushDrop, Book!PushSend, Book!PushStops,
         Book!QueryAddressBook, Book!CompareContacts, Book!PullStops
  <1>2. Book!Init => UpdatesWereClean
    BY DEF Book!Init, Book!PullIdle, UpdatesWereClean
  <1>3. Book!Spec => []UpdatesWereClean
    BY <1>2, UpdatesNext, BookInvariance, PTL DEF Book!Spec
  <1> QED BY <1>1, <1>3, BookInvariance, PTL
          DEF Book!Spec, Book!EditsAreSpared, EditsAreSpared

=============================================================================
