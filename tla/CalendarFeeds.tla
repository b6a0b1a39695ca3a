--------------------------- MODULE CalendarFeeds ---------------------------
(***************************************************************************)
(* Calendars read from a URL: worker/ics_sync_task.go with ics_match.go,   *)
(* the manual synchronisation of the web UI, which is a second             *)
(* implementation of it (web/handlers_calendar_web.go), the upload of a    *)
(* file (caldav/importer/ics.go) and the repair of guest lists at startup. *)
(*                                                                         *)
(* One source.  A synchronisation fetches, looks for the source's          *)
(* calendar, makes it if there is none, reads the rows, compares, and      *)
(* writes in one transaction; the task and the web request interleave at   *)
(* each of these, and each may fail.                                       *)
(***************************************************************************)
EXTENDS Integers, Sequences, FiniteSets, FiniteSetsExt, SequencesExt

CONSTANTS Uid,         \* UIDs of components
          Content,     \* title and start, what contentKey is made of
          Version,     \* everything else of a component, what its ETag tells apart
          Feeds,       \* what the URL may serve: see Body
          Files,       \* what the user may upload: sequences of components, as far
                       \* as the decoder gets
          None,
          MaxRow,      \* bound: rows ever created
          MaxCalendar, \* bound: calendars ever created
          MaxFetches,  \* bound: synchronisations
          MaxRequests  \* bound: uploads, switches, deletions and restarts

\* A component as it stands in the text.  It may lack a UID, or have a start, or
\* an end (a task's DUE), that cannot be read.
Component == [uid : Uid \cup {None}, content : Content, version : Version,
              todo : BOOLEAN, starts : BOOLEAN, ends : BOOLEAN]

\* The answer to a GET: nothing (an error, another status than 200), a page that
\* is not iCalendar, or a text of calendars; the decoder gets through those that
\* hold the first `decodes` components, and stops.
Body == [kind : {"down", "page", "calendar"}, decodes : Nat, parts : Seq(Component)]

Sync == {"task", "manual"}

VARIABLES calendar,  \* calendars of the source: id -> enabled, or None
          row,       \* calendar_events: id -> row, or None
          sync,      \* Sync -> the synchronisation under way
          upload,    \* the upload under way
          lastRow, lastCalendar, fetches, requests, \* bounded counters
          disturbed  \* history: synchronisations whose rows another has changed since

vars == <<calendar, row, sync, upload, lastRow, lastCalendar, fetches, requests,
                   disturbed>>

CalendarId == 1..MaxCalendar
RowId == 1..MaxRow

\* What the texts hold in the end is a function from positions to components:
\* positions that are passed over are missing, the order is kept.  creates are
\* positions, and an update writes the component at its position into a row.
NoBody == [kind |-> "down", decodes |-> 0, parts |-> << >>]
Idle == [pc |-> "idle", body |-> NoBody, parts |-> << >>, cal |-> 0, known |-> {},
         creates |-> {}, updates |-> {}, deletes |-> {},
         lost |-> {}]     \* look-ups that failed
NoUpload == [cal |-> 0, parts |-> << >>]

RowsOf(c) == {i \in RowId : row[i] # None /\ row[i].cal = c}
Calendars == {c \in CalendarId : calendar[c] # None}

-----------------------------------------------------------------------------
(* Parsing: which components of a text become events.                        *)

\* parseICalEvent fails a component without UID or with an unreadable date.
parseICalEvent(p) == p.uid # None /\ p.starts /\ p.ends

\* parseVEvent, of the text parser, drops an unreadable end and keeps the event.
parseVEvent(p) == p.uid # None /\ p.starts

\* The text parser knows nothing of tasks (VTODO).
extractVEvents(parts) == {j \in DOMAIN parts : ~parts[j].todo}

\* ParseICS falls back on the text parser if the decoder yields no event, be it
\* that it refuses the text or that every component fails.
ParseICS(body) ==
    LET parts == body.parts
        decoded == {j \in DOMAIN parts : j <= body.decodes /\ parseICalEvent(parts[j])}
    IN  Restrict(parts, IF decoded # {} THEN decoded
                        ELSE {j \in extractVEvents(parts) : parseVEvent(parts[j])})

-----------------------------------------------------------------------------
(* Matching the events of a feed with the rows of a calendar.  `known` is    *)
(* the calendar's rows as they were read, with their ids.                    *)

Holder(known, uid) == {k \in known : k.uid = uid}
Alike(known, content) == {k \in known : k.content = content}
Occurrences(parts, content) == Cardinality({j \in DOMAIN parts : parts[j].content = content})

\* Pass one, in the order of the feed: the first event with a row's UID takes it.
ByUid(known, parts) ==
    {j \in DOMAIN parts :
        /\ Holder(known, parts[j].uid) # {}
        /\ \A i \in DOMAIN parts : i < j => parts[i].uid # parts[j].uid}

ClaimedByUid(known, parts) ==
    UNION {Holder(known, parts[j].uid) : j \in ByUid(known, parts)}

\* Mutant: content is tried although the row's own UID is in the feed.
ByContentAnyRow(known, parts) ==
    {j \in DOMAIN parts \ ByUid(known, parts) :
        /\ Occurrences(parts, parts[j].content) = 1
        /\ Cardinality(Alike(known, parts[j].content)) = 1}

\* Pass two: an event that is the only one of its content, of which there is
\* one row, unclaimed.  Pass two cannot claim a row twice.
ByContent(known, parts) ==
    {j \in DOMAIN parts \ ByUid(known, parts) :
        /\ Occurrences(parts, parts[j].content) = 1
        /\ Cardinality(Alike(known, parts[j].content)) = 1
        /\ Alike(known, parts[j].content) \cap ClaimedByUid(known, parts) = {}}

\* matchFeedEvents: pairs of event and row, events to create, UIDs to delete.
matchFeedEvents(known, parts) ==
    LET uidMatches == UNION {{[at |-> j, id |-> k.id, byContent |-> FALSE] :
                                 k \in Holder(known, parts[j].uid)} :
                             j \in ByUid(known, parts)}
        contentMatches == UNION {{[at |-> j, id |-> k.id, byContent |-> TRUE] :
                                     k \in Alike(known, parts[j].content)} :
                                 j \in ByContent(known, parts)}
        matches == uidMatches \cup contentMatches
    IN  [matches |-> matches,
         creates |-> DOMAIN parts \ (ByUid(known, parts) \cup ByContent(known, parts)),
         deletes |-> {k.uid : k \in {k \in known : \A m \in matches : m.id # k.id}}]

-----------------------------------------------------------------------------
(* The feed and the synchronisations.                                        *)

Init ==
    /\ calendar = [c \in CalendarId |-> None]
    /\ row = [i \in RowId |-> None]
    /\ sync = [p \in Sync |-> Idle]
    /\ upload = NoUpload
    /\ lastRow = 0 /\ lastCalendar = 0 /\ fetches = 0 /\ requests = 0
    /\ disturbed = {}

\* A GET: the URL may serve anything at any time.  Anything but 200 ends the
\* synchronisation, with the error recorded for the user; so does the task's check
\* that the answer is a calendar at all.
fetchICS(p) ==
    /\ sync[p].pc = "idle" /\ fetches < MaxFetches
    /\ \E body \in Feeds :
          /\ body.kind # "down"
          /\ p = "task" => body.kind = "calendar"
          /\ sync' = [sync EXCEPT ![p].pc = "fetched", ![p].body = body,
                                  ![p].parts = ParseICS(body)]
    /\ fetches' = fetches + 1
    /\ UNCHANGED <<calendar, row, upload, lastRow, lastCalendar, requests, disturbed>>

\* The source's calendars are read; the task leaves a disabled one alone.
FindCalendar(p) ==
    /\ sync[p].pc = "fetched"
    /\ \/ /\ Calendars = {}
          /\ sync' = [sync EXCEPT ![p].pc = "make"]
       \/ \E c \in Calendars :
             /\ p = "manual" \/ calendar[c]
             /\ sync' = [sync EXCEPT ![p].pc = "found", ![p].cal = c]
       \/ \E c \in Calendars :
             /\ p = "task" /\ ~calendar[c]
             /\ sync' = [sync EXCEPT ![p] = Idle]
    /\ UNCHANGED <<calendar, row, upload, lastRow, lastCalendar, fetches, requests,
                   disturbed>>

\* The task's calendar is enabled; the web request leaves the field at its zero
\* value, so that its calendar is disabled.
CreateCalendar(p) ==
    /\ sync[p].pc = "make" /\ lastCalendar < MaxCalendar
    /\ lastCalendar' = lastCalendar + 1
    /\ calendar' = [calendar EXCEPT ![lastCalendar'] = (p = "task")]
    /\ sync' = [sync EXCEPT ![p].pc = "found", ![p].cal = lastCalendar']
    /\ UNCHANGED <<row, upload, lastRow, fetches, requests, disturbed>>

\* The task reads the identities of the rows and refuses a feed without events
\* while there are rows.
Identities(c) ==
    {[id |-> i, uid |-> row[i].uid, content |-> row[i].content] : i \in RowsOf(c)}

\* Mutant: an empty feed is believed.
RefusesNever(p, known) == FALSE

Refuses(p, known) == p = "task" /\ sync[p].parts = << >> /\ known # {}

ReadRows(p) ==
    LET known == Identities(sync[p].cal) IN
    /\ sync[p].pc = "found"
    /\ sync' = [sync EXCEPT ![p] = IF Refuses(p, known) THEN Idle
                                   ELSE [@ EXCEPT !.pc = "read", !.known = known]]
    /\ UNCHANGED <<calendar, row, upload, lastRow, lastCalendar, fetches, requests,
                   disturbed>>

\* The ETag is a hash of the whole component, its UID included.
Changed(r, p) == <<r.uid, r.content, r.version>> # <<p.uid, p.content, p.version>>

\* The task loads the matched rows again, drops a match whose row is gone or
\* cannot be loaded (`lost`), and updates a row that differs or was matched by
\* content.  The loaded row has no guest list, and the task does not fill it in.
CompareTask ==
    LET s == sync["task"]
        m == matchFeedEvents(s.known, s.parts)
    IN  /\ s.pc = "read"
        /\ \E lost \in SUBSET m.matches :
              LET stale == {x \in m.matches \ lost :
                              /\ row[x.id] # None
                              /\ x.byContent \/ Changed(row[x.id], s.parts[x.at])}
              IN  sync' = [sync EXCEPT !["task"] =
                    [s EXCEPT !.pc = "compared", !.creates = m.creates, !.deletes = m.deletes,
                              !.updates = {[at |-> x.at, id |-> x.id, guests |-> None] :
                                              x \in stale},
                              !.lost = lost]]
        /\ UNCHANGED <<calendar, row, upload, lastRow, lastCalendar, fetches, requests,
                       disturbed>>

\* The web request looks every event up by its UID, fills the guest list in, and
\* deletes every UID it read before that the feed lacks.  A look-up that fails is
\* taken for an event that is not there.
syncICSURLSource ==
    LET s == sync["manual"]
        Now(j) == {i \in RowsOf(s.cal) : row[i].uid = s.parts[j].uid}
    IN  /\ s.pc = "read"
        /\ \E lost \in SUBSET DOMAIN s.parts :
              LET stale == {j \in DOMAIN s.parts \ lost :
                              \E i \in Now(j) : Changed(row[i], s.parts[j])}
              IN  sync' = [sync EXCEPT !["manual"] =
                    [s EXCEPT !.pc = "compared",
                              !.creates = {j \in DOMAIN s.parts : Now(j) = {}} \cup lost,
                              !.updates = {[at |-> j, id |-> CHOOSE i \in Now(j) : TRUE,
                                            guests |-> s.parts[j].version] : j \in stale},
                              !.deletes = {k.uid : k \in s.known}
                                             \ {p.uid : p \in ToSet(s.parts)}]]
        /\ UNCHANGED <<calendar, row, upload, lastRow, lastCalendar, fetches, requests,
                       disturbed>>

-----------------------------------------------------------------------------
(* One transaction: deletes by UID, then creates, then updates by id.        *)

Made(c, p, guests) ==
    [cal |-> c, uid |-> p.uid, content |-> p.content, version |-> p.version, guests |-> guests]

Kept(s) == {i \in RowId : row[i] # None /\ ~(row[i].cal = s.cal /\ row[i].uid \in s.deletes)}

\* The new rows get the next ids, in one order or another.
Fresh(s) == (lastRow + 1)..(lastRow + Cardinality(s.creates))

Created(s) ==
    [i \in RowId |->
        IF i \in Fresh(s)
        THEN LET p == s.parts[SetToSeq(s.creates)[i - lastRow]] IN Made(s.cal, p, p.version)
        ELSE IF i \in Kept(s) THEN row[i] ELSE None]

\* Updates follow the order of the feed, so that the last one of a row stays.
Updated(s) ==
    [i \in RowId |->
        LET mine == {u \in s.updates : u.id = i}
            last == CHOOSE u \in mine : \A v \in mine : v.at <= u.at
        IN  IF mine = {} \/ Created(s)[i] = None THEN Created(s)[i]
            ELSE Made(s.cal, s.parts[last.at], last.guests)]

\* UNIQUE(calendar_id, uid).
Unique(rows) ==
    \A i, j \in RowId : i # j /\ rows[i] # None /\ rows[j] # None /\ rows[i].cal = rows[j].cal
                          => rows[i].uid # rows[j].uid

\* A constraint rolls everything back: a UID twice, a guest list for a row that
\* is gone, a row for a calendar that is gone.
Sound(s) ==
    /\ Unique(Created(s)) /\ Unique(Updated(s))
    /\ \A u \in s.updates : u.guests = None \/ u.id \in Kept(s)
    /\ s.creates # {} => calendar[s.cal] # None

Touched(c) == {q \in Sync : sync[q].pc \in {"read", "compared"} /\ sync[q].cal = c}

ApplySyncChanges(p) ==
    LET s == sync[p] IN
    /\ s.pc = "compared" /\ lastRow + Cardinality(s.creates) <= MaxRow
    /\ IF Sound(s)
       THEN /\ row' = Updated(s)
            /\ lastRow' = lastRow + Cardinality(s.creates)
            /\ disturbed' = (disturbed \cup (IF row' = row THEN {} ELSE Touched(s.cal))) \ {p}
       ELSE /\ UNCHANGED <<row, lastRow>>
            /\ disturbed' = disturbed \ {p}
    /\ sync' = [sync EXCEPT ![p] = Idle]
    /\ UNCHANGED <<calendar, upload, lastCalendar, fetches, requests>>

\* Any other statement that fails ends the synchronisation.
StatementFails(p) ==
    /\ sync[p].pc # "idle"
    /\ sync' = [sync EXCEPT ![p] = Idle]
    /\ disturbed' = disturbed \ {p}
    /\ UNCHANGED <<calendar, row, upload, lastRow, lastCalendar, fetches, requests>>

-----------------------------------------------------------------------------
(* Requests of the user.                                                     *)

\* The web form's upload goes through the decoder, without the fallback, and into
\* any calendar of the user: CanWrite, which stops the API's, is not asked for.
HandleImportICSWeb(c) ==
    /\ upload = NoUpload /\ requests < MaxRequests
    /\ c \in Calendars
    /\ \E file \in Files :
          /\ RestrictValues(file, parseICalEvent) # << >>
          /\ upload' = [cal |-> c, parts |-> RestrictValues(file, parseICalEvent)]
    /\ requests' = requests + 1
    /\ UNCHANGED <<calendar, row, sync, lastRow, lastCalendar, fetches, disturbed>>

\* One component of the file: its row is updated, or made, and its guest list is
\* written, by another statement; an error ends the import and leaves what is done.
ImportICS ==
    LET c == upload.cal
        first == Min(DOMAIN upload.parts)
        p == upload.parts[first]
        rest == Restrict(upload.parts, DOMAIN upload.parts \ {first})
        known == {i \in RowsOf(c) : row[i].uid = p.uid}
        old == CHOOSE i \in known : TRUE
    IN  /\ upload # NoUpload
        /\ \/ upload' = NoUpload /\ UNCHANGED <<row, lastRow, disturbed>>
           \/ /\ known # {} \/ (calendar[c] # None /\ lastRow < MaxRow)
              /\ lastRow' = IF known = {} THEN lastRow + 1 ELSE lastRow
              /\ \E guests \in {p.version, IF known = {} THEN None ELSE row[old].guests} :
                    /\ row' = [row EXCEPT ![IF known = {} THEN lastRow' ELSE old]
                                   = Made(c, p, guests)]
                    /\ upload' = IF rest = << >> \/ guests # p.version THEN NoUpload
                                 ELSE [upload EXCEPT !.parts = rest]
              /\ disturbed' = disturbed \cup Touched(c)
        /\ UNCHANGED <<calendar, sync, lastCalendar, fetches, requests>>

\* The master switch of a calendar.
HandleToggleCalendarEnabled(c) ==
    /\ c \in Calendars /\ requests < MaxRequests
    /\ calendar' = [calendar EXCEPT ![c] = ~@]
    /\ requests' = requests + 1
    /\ UNCHANGED <<row, sync, upload, lastRow, lastCalendar, fetches, disturbed>>

\* The calendar goes with its events; the source stays and makes a new one.
HandleDeleteCalendarWeb(c) ==
    /\ c \in Calendars /\ requests < MaxRequests
    /\ calendar' = [calendar EXCEPT ![c] = None]
    /\ row' = [i \in RowId |-> IF i \in RowsOf(c) THEN None ELSE row[i]]
    /\ disturbed' = disturbed \cup Touched(c)
    /\ requests' = requests + 1
    /\ UNCHANGED <<sync, upload, lastRow, lastCalendar, fetches>>

\* At every start, guest lists that are empty are read from the event again.
BackfillAttendees(r) == IF r = None THEN None ELSE [r EXCEPT !.guests = r.version]

Restart ==
    /\ requests < MaxRequests
    /\ sync' = [p \in Sync |-> Idle] /\ upload' = NoUpload /\ disturbed' = {}
    /\ row' = [i \in RowId |-> BackfillAttendees(row[i])]
    /\ requests' = requests + 1
    /\ UNCHANGED <<calendar, lastRow, lastCalendar, fetches>>

Next ==
    \/ \E p \in Sync : fetchICS(p) \/ FindCalendar(p) \/ CreateCalendar(p) \/ ReadRows(p)
                      \/ ApplySyncChanges(p) \/ StatementFails(p)
    \/ CompareTask \/ syncICSURLSource
    \/ \E c \in CalendarId : \/ HandleImportICSWeb(c) \/ HandleToggleCalendarEnabled(c)
                            \/ HandleDeleteCalendarWeb(c)
    \/ ImportICS
    \/ Restart

Spec == Init /\ [][Next]_vars

-----------------------------------------------------------------------------
(* Properties.                                                               *)

EventRow == [cal : CalendarId, uid : Uid, content : Content, version : Version,
             guests : Version \cup {None}]

TypeOK ==
    /\ calendar \in [CalendarId -> BOOLEAN \cup {None}]
    /\ row \in [RowId -> EventRow \cup {None}]
    /\ \A p \in Sync : /\ sync[p].pc \in {"idle", "fetched", "make", "found", "read", "compared"}
                        /\ sync[p].cal \in CalendarId \cup {0}
    /\ upload.cal \in CalendarId \cup {0}
    /\ lastRow \in 0..MaxRow /\ lastCalendar \in 0..MaxCalendar
    /\ disturbed \subseteq Sync

\* The step is the transaction of p's synchronisation, committed.
Commits(p) == ApplySyncChanges(p) /\ Sound(sync[p])

\* Nothing is wrong with the component at j of the text: one parser or the other
\* reads it.
Intact(body, j) ==
    LET p == body.parts[j] IN
    /\ p.uid # None /\ p.starts /\ p.ends
    /\ j <= body.decodes \/ (body.decodes = 0 /\ ~p.todo)

\* The text still holds row i, intact although under another UID: title and start
\* say so, and nothing else has them, neither in the text nor among the rows.
Reissued(i, known, body) ==
    /\ Cardinality(Alike(known, row[i].content)) = 1
    /\ Occurrences(body.parts, row[i].content) = 1
    /\ \E j \in DOMAIN body.parts :
          /\ Intact(body, j)
          /\ body.parts[j].content = row[i].content
          /\ Holder(known, body.parts[j].uid) = {}

\* The task deletes a row only for a text from which at least one event was read,
\* and in which no component that is intact has the row's UID, nor, with rows
\* untouched since they were read, its content under a new UID.  So an outage, an
\* error page, an empty calendar or a feed that reissues its UIDs costs no row, and
\* with it no reminder that hangs on the row's id (ics_match.go, the refusal in
\* ics_sync_task.go); one damaged component does (DamageCostsNoRow).
OnlyTheFeedDeletes ==
    [][Commits("task") =>
          \A i \in RowId : row[i] # None /\ row'[i] = None =>
              LET s == sync["task"] IN
              /\ s.parts # << >>
              /\ \A j \in DOMAIN s.body.parts :
                    Intact(s.body, j) => s.body.parts[j].uid # row[i].uid
              /\ "task" \in disturbed \/ ~Reissued(i, s.known, s.body)]_vars

\* A task that commits, with rows nobody else touched since it read them, leaves
\* exactly the events it read from the feed, each in its latest version; but a row
\* whose second look-up failed is left as it was, and the rest is committed all
\* the same.
TaskShowsTheFeed ==
    [][Commits("task") /\ "task" \notin disturbed =>
          LET s == sync["task"]
              lostRows == {x.id : x \in s.lost}
              shown == {i \in RowId \ lostRows : row'[i] # None /\ row'[i].cal = s.cal}
              due == DOMAIN s.parts \ {x.at : x \in s.lost}
          IN  /\ \A i \in lostRows : row'[i] = row[i]
              /\ {<<row'[i].uid, row'[i].content, row'[i].version>> : i \in shown}
                 = {<<s.parts[j].uid, s.parts[j].content, s.parts[j].version>> : j \in due}]_vars

-----------------------------------------------------------------------------
(* What the code, or a comment of it, says and does not hold.                *)

\* A damaged component costs its row nothing either (ics_sync_task.go: "the events
\* stay, the error surfaces on the source"): the refusal looks at feeds without any
\* event, so one unreadable date deletes the row of its event.
DamageCostsNoRow ==
    [][Commits("task") =>
          \A i \in RowId : row[i] # None /\ row'[i] = None =>
              \A p \in ToSet(sync["task"].body.parts) : p.uid # row[i].uid]_vars

\* A committed synchronisation, which clears the source's error, shows the feed.
CommitShowsTheFeed ==
    [][Commits("task") /\ "task" \notin disturbed => sync["task"].lost = {}]_vars

\* The manual synchronisation deletes nothing for a feed without events either.
ManualRefusesToo ==
    [][Commits("manual") /\ sync["manual"].parts = << >> => row' = row]_vars

\* A stored event has the guest list of its text (handlers_calendar_web.go: "a nil
\* slice there would erase the rows the feed still lists").
GuestsAreKept == \A i \in RowId : row[i] # None => row[i].guests = row[i].version

\* A source has one calendar (ics_sync_task.go: "owns exactly one calendar").
OneCalendar == Cardinality(Calendars) <= 1

\* A synchronisation nobody disturbs is committed, whatever the feed holds.
UndisturbedCommits ==
    [][ApplySyncChanges("task") /\ "task" \notin disturbed => Sound(sync["task"])]_vars
=============================================================================
