---------------------------- MODULE Invitations ----------------------------
(***************************************************************************)
(* Invitations by mail (iTIP): calendar/incoming.go, calendar/invite.go,   *)
(* their callers in the MX delivery and the IMAP pull, and the web         *)
(* handlers that answer and organise.                                      *)
(*                                                                         *)
(* A message that carries calendar objects is stored like any other, then  *)
(* they are applied to the calendar, each in its turn whatever became of   *)
(* the last, and the message is taken away if one of them succeeded.  Each *)
(* of these is a statement of its own; deliveries, pulls and the user's    *)
(* own requests interleave, and the process may die in between.  One event *)
(* UID is modelled.                                                        *)
(***************************************************************************)
EXTENDS Naturals, FiniteSets, Sequences

CONSTANTS Message,     \* messages with calendar objects for the event
          ObjectsOf,   \* [Message -> Seq(Object)], the attachments that parse
          Via,         \* [Message -> {"mx", "imap"}]
          Person, Me,  \* attendees; the address the messages came to
          Calendar,    \* the user's calendars, by id, newest last
          SourceOf,    \* [Calendar -> id of its source]
          BoundTo,     \* sources bound to the account that pulls
          LogsInAs,    \* sources that log in as Me
          Local,       \* local sources, all others are CalDAV
          Declares,    \* sources whose identity is Me
          Writable,    \* calendars with can_write
          Handler,     \* deliveries, pulls and requests under way
          MaxId,       \* bound: rows ever created
          MaxArrivals, \* bound: times a message is delivered or pulled
          MaxRequests, \* bound: what the user asks for
          MaxFailures  \* bound: statements that fail, and crashes

\* METHOD, "none" when it has none; SEQUENCE; the ATTENDEEs.
Methods == {"none", "REQUEST", "COUNTER", "PUBLISH", "CANCEL", "REPLY", "OTHER"}
Object == [method : Methods, seq : Nat, guests : SUBSET Person]

ASSUME InvitationsAssumption ==
    /\ ObjectsOf \in [Message -> Seq(Object) \ {<< >>}]
    /\ Via \in [Message -> {"mx", "imap"}]
    /\ Me \in Person
    /\ Calendar \subseteq Nat \ {0} /\ IsFiniteSet(Calendar)
    /\ SourceOf \in [Calendar -> Nat]
    /\ Writable \subseteq Calendar
    /\ MaxId \in Nat /\ MaxArrivals \in Nat
    /\ MaxRequests \in Nat /\ MaxFailures \in Nat

VARIABLES event,      \* calendar_events, the row of the UID in each calendar
          roster,     \* calendar_attendees of that row
          enabled,    \* calendars.enabled
          mail,       \* messages
          handler,    \* what is under way
          lastId,     \* the serial of calendar_events
          arrivals, requests, failures, \* bounded counters
          consumed,   \* history: messages taken away after they were applied
          dispatched, \* history: pulled messages applied to the calendar, and twice
          bereft,     \* history: handlers whose row was deleted before they updated it
          overlapped, \* history: the last update wrote over a change made since the read
          withdrawn   \* history: the event was cancelled, or deleted by the user

vars == <<event, roster, enabled, mail, handler, lastId, arrivals, requests,
          failures, consumed, dispatched, bereft, overlapped, withdrawn>>

NoRow == [id |-> 0, seq |-> 0, status |-> "none", modified |-> FALSE]
Nobody == [p \in Person |-> "absent"]
Idle == [pc |-> "idle", msg |-> {}, at |-> 0, handled |-> FALSE, filed |-> {},
         passed |-> {}, guests |-> {}, cal |-> 0, seen |-> NoRow]

EventRow == [id : 0..MaxId, seq : Nat, modified : BOOLEAN,
             status : {"none", "CONFIRMED", "CANCELLED"}]
HandlerState ==
    [pc : {"idle", "dispatch", "read", "update", "create", "roster", "delete", "reply",
           "drop", "answer", "edit", "cancel"},
     msg : {{m} : m \in Message} \cup {{}},   \* the message, none for a request
     at : Nat, handled : BOOLEAN,             \* the object it is at; one has succeeded
     filed : SUBSET Nat,      \* history: objects a row was written from, or was newer than
     passed : SUBSET Nat,     \* history: objects that did not succeed
     guests : SUBSET Person,                  \* whom the user invites
     cal : Calendar \cup {0},
     seen : EventRow]                         \* the row as it was read

TypeOK ==
    /\ event \in [Calendar -> EventRow]
    /\ roster \in [Calendar -> [Person -> {"absent", "NEEDS-ACTION", "ACCEPTED"}]]
    /\ enabled \subseteq Calendar
    /\ mail \in [Message -> {"unknown", "inbox", "vault"}]
    /\ handler \in [Handler -> HandlerState]
    /\ lastId \in 0..MaxId
    /\ arrivals \in 0..MaxArrivals /\ requests \in 0..MaxRequests
    /\ failures \in 0..MaxFailures
    /\ consumed \subseteq Message /\ bereft \subseteq Handler
    /\ dispatched \in [Message -> 0..2]
    /\ overlapped \in BOOLEAN /\ withdrawn \in BOOLEAN

Init ==
    /\ event = [c \in Calendar |-> NoRow]
    /\ roster = [c \in Calendar |-> Nobody]
    /\ enabled = Calendar       \* the column's default
    /\ mail = [m \in Message |-> "unknown"]
    /\ handler = [h \in Handler |-> Idle]
    /\ lastId = 0 /\ arrivals = 0 /\ requests = 0 /\ failures = 0
    /\ consumed = {} /\ bereft = {} /\ dispatched = [m \in Message |-> 0]
    /\ overlapped = FALSE /\ withdrawn = FALSE

-----------------------------------------------------------------------------
(* The destination. *)

\* ParseICSInvite: no METHOD is a REQUEST.
Method(x) == IF x.method = "none" THEN "REQUEST" ELSE x.method
Invites(x) == Method(x) \in {"REQUEST", "COUNTER", "PUBLISH"}

\* A PUBLISH that does not name the user is somebody's feed.
Addressed(x) == Method(x) = "PUBLISH" => Me \in x.guests

\* Mutant: the calendar added most recently, as it once was.
FirstCalendarOfNewest(sources, on) ==
    LET cs == {c \in on \cap Writable : SourceOf[c] \in sources}
    IN  IF cs = {} THEN 0 ELSE CHOOSE c \in cs : \A d \in cs : d <= c

\* The lowest source, its lowest calendar.
FirstCalendarOf(sources, on) ==
    LET cs == {c \in on \cap Writable : SourceOf[c] \in sources}
    IN  IF cs = {} THEN 0
        ELSE CHOOSE c \in cs : \A d \in cs :
                SourceOf[c] < SourceOf[d] \/ (SourceOf[c] = SourceOf[d] /\ c <= d)

\* The sources each pass looks through, in order of priority; what nobody was
\* invited by name for is not looked through for a name.
Passes(via, guests) ==
    <<IF via = "imap" THEN BoundTo ELSE {},
      IF Me \in guests THEN LogsInAs ELSE {},
      Local,
      IF Me \in guests THEN Declares ELSE {}>>

\* chooseInviteCalendar; 0 is ErrNoInviteCalendar.  The last pass must not pick
\* one of several.
ChooseInviteCalendar(on, via, guests) ==
    LET pass == Passes(via, guests)
        found == {i \in 1..3 : FirstCalendarOf(pass[i], on) # 0}
        claims == {s \in pass[4] : FirstCalendarOf({s}, on) # 0}
    IN  IF found # {}
        THEN FirstCalendarOf(pass[CHOOSE i \in found : \A j \in found : i <= j], on)
        ELSE IF Cardinality(claims) = 1 THEN FirstCalendarOf(claims, on) ELSE 0

-----------------------------------------------------------------------------
(* Arrival. *)

Is(h, pc) == handler[h].pc = pc
MessageOf(h) == CHOOSE m \in Message : m \in handler[h].msg
ObjectAt(h) == ObjectsOf[MessageOf(h)][handler[h].at]
GoWith(h, pc, c, row) ==
    handler' = [handler EXCEPT ![h] = [@ EXCEPT !.pc = pc, !.cal = c, !.seen = row]]
Stop(h) == handler' = [handler EXCEPT ![h] = Idle]
History == <<consumed, dispatched, bereft, overlapped, withdrawn>>
Counters == <<arrivals, requests, failures>>

\* The loop of ProcessAndDispatch: the next object, or the end.  One that
\* succeeded is enough for the message to be taken away.
After(h, handled, filed, passed) ==
    LET next == handler[h].at + 1
        more == next \in DOMAIN ObjectsOf[MessageOf(h)]
    IN  IF more \/ handled
        THEN [Idle EXCEPT !.pc = IF more THEN "dispatch" ELSE "drop",
                          !.msg = handler[h].msg, !.at = next, !.handled = handled,
                          !.filed = filed, !.passed = passed]
        ELSE Idle

\* The object is done with, `filed` being those on record; or it is given up.
Settle(h, filed) ==
    handler' = [handler EXCEPT ![h] = After(h, TRUE, filed, @.passed)]
PassOver(h) ==
    handler' = [handler EXCEPT ![h] = After(h, @.handled, @.filed, @.passed \cup {@.at})]
Recording(h) == handler[h].filed \cup {handler[h].at}

Arrive(h, m, via) ==
    /\ Is(h, "idle") /\ Via[m] = via
    /\ arrivals < MaxArrivals
    /\ arrivals' = arrivals + 1
    /\ UNCHANGED <<event, roster, enabled, lastId, requests, failures,
                   consumed, bereft, overlapped, withdrawn>>

\* What handling the message starts from.
Taken(m) == [Idle EXCEPT !.pc = "dispatch", !.msg = {m}, !.at = 1]

\* The delivery to a local mailbox.  A sender who got no answer sends again;
\* spam is stored and goes no further.
DeliverOne(h, m) ==
    /\ Arrive(h, m, "mx")
    /\ mail' = [mail EXCEPT ![m] = IF @ = "unknown" THEN "inbox" ELSE @]
    /\ \/ UNCHANGED handler
       \/ /\ mail[m] = "unknown"
          /\ handler' = [handler EXCEPT ![h] = Taken(m)]
    /\ UNCHANGED dispatched

\* The pull; a message that is known, in the vault too, is not looked at again.
SaveMessageToInbox(h, m) ==
    /\ Arrive(h, m, "imap")
    /\ IF mail[m] # "unknown" THEN UNCHANGED <<mail, handler, dispatched>>
       ELSE /\ mail' = [mail EXCEPT ![m] = "inbox"]
            /\ dispatched' = [dispatched EXCEPT ![m] = IF @ < 2 THEN @ + 1 ELSE @]
            /\ handler' = [handler EXCEPT ![h] = Taken(m)]

\* findEventByUIDForUser: every calendar, disabled ones too, the newest first.
\* A look-up that fails (`blind`) is logged, and the next calendar is looked at.
Holding == {c \in Calendar : event[c].id # 0}
FindEventByUIDForUser(blind) ==
    LET cs == Holding \ blind
    IN  IF cs = {} THEN 0 ELSE CHOOSE c \in cs : \A d \in cs : d <= c

\* What becomes of no calendar: somebody's feed, an invite without a
\* destination, a REPLY of nobody and an unknown METHOD.
Unwanted(x, dest) ==
    \/ Invites(x) /\ (Addressed(x) => dest = 0)
    \/ Method(x) = "REPLY" /\ x.guests = {}
    \/ Method(x) = "OTHER"

\* dispatchInvite.  An event that is not found needs neither a CANCEL nor a
\* REPLY.
DispatchInvite(h) ==
    LET x == ObjectAt(h)
        dest == ChooseInviteCalendar(enabled, Via[MessageOf(h)], x.guests)
    IN  /\ Is(h, "dispatch")
        /\ \/ /\ Unwanted(x, dest)
              /\ PassOver(h)
              /\ UNCHANGED failures
           \/ /\ ~Unwanted(x, dest) /\ Invites(x)
              /\ GoWith(h, "read", dest, NoRow)
              /\ UNCHANGED failures
           \/ /\ ~Unwanted(x, dest) /\ ~Invites(x)
              /\ \E blind \in SUBSET Holding :
                    LET known == FindEventByUIDForUser(blind) IN
                    /\ failures + Cardinality(blind) <= MaxFailures
                    /\ failures' = failures + Cardinality(blind)
                    /\ IF known = 0 THEN Settle(h, handler[h].filed)
                       ELSE GoWith(h, IF Method(x) = "CANCEL" THEN "delete" ELSE "reply",
                                   known, event[known])
        /\ UNCHANGED <<event, roster, enabled, mail, lastId, arrivals, requests, History>>

-----------------------------------------------------------------------------
(* A REQUEST is applied. *)

\* Mutant: an older sequence number is not told from a newer one.
ReadExistingAnySequence(h) ==
    LET c == handler[h].cal IN
    /\ Is(h, "read")
    /\ GoWith(h, IF event[c].id = 0 THEN "create" ELSE "update", c, event[c])
    /\ UNCHANGED <<event, roster, enabled, mail, lastId, Counters, History>>

\* GetEventByUID, and what HandleInviteRequest makes of it; a stale invite is
\* handled.
ReadExisting(h) ==
    LET c == handler[h].cal
        stale == event[c].id # 0 /\ ObjectAt(h).seq < event[c].seq
    IN  /\ Is(h, "read")
        /\ IF stale THEN Settle(h, Recording(h))
           ELSE GoWith(h, IF event[c].id = 0 THEN "create" ELSE "update", c, event[c])
        /\ UNCHANGED <<event, roster, enabled, mail, lastId, Counters, History>>

\* UpdateCalendarEvent writes every column of the row it is given, by its id; no
\* row with the id is no error.
UpdateCalendarEvent(c, seen, seq, status, modified) ==
    IF event[c].id # seen.id THEN UNCHANGED <<event, overlapped>>
    ELSE /\ event' = [event EXCEPT ![c] = [id |-> seen.id, seq |-> seq, status |-> status,
                                           modified |-> modified]]
         /\ overlapped' = (event[c] # seen)

\* The row has been written; the attendees are next, if the object names any.
Written(h, row, filed) ==
    IF ObjectAt(h).guests = {} THEN Settle(h, filed)
    ELSE handler' = [handler EXCEPT ![h] = [@ EXCEPT !.pc = "roster", !.seen = row,
                                                     !.filed = filed]]

UpdateExisting(h) ==
    LET c == handler[h].cal
        seen == handler[h].seen
        filed == IF event[c].id = seen.id \/ h \in bereft THEN Recording(h)
                 ELSE handler[h].filed
    IN  /\ Is(h, "update")
        /\ UpdateCalendarEvent(c, seen, ObjectAt(h).seq, "CONFIRMED", seen.modified)
        /\ Written(h, seen, filed)
        /\ bereft' = bereft \ {h}
        /\ UNCHANGED <<roster, enabled, mail, lastId, Counters, consumed, dispatched, withdrawn>>

InsertEvent(h) ==
    LET row == [id |-> lastId + 1, seq |-> ObjectAt(h).seq, status |-> "CONFIRMED",
                modified |-> FALSE]
    IN  /\ lastId < MaxId
        /\ lastId' = lastId + 1
        /\ event' = [event EXCEPT ![handler[h].cal] = row]
        /\ Written(h, row, Recording(h))

\* Mutant: that the calendar has got the UID meanwhile is taken for success.
CreateEventConsumes(h) ==
    /\ Is(h, "create")
    /\ IF event[handler[h].cal].id = 0 THEN InsertEvent(h)
       ELSE Settle(h, handler[h].filed) /\ UNCHANGED <<event, lastId>>
    /\ UNCHANGED <<roster, enabled, mail, Counters, History>>

\* CreateCalendarEvent; the calendar may have got the UID meanwhile, which is an
\* error.
CreateEvent(h) ==
    /\ Is(h, "create")
    /\ IF event[handler[h].cal].id = 0 THEN InsertEvent(h)
       ELSE PassOver(h) /\ UNCHANGED <<event, lastId>>
    /\ UNCHANGED <<roster, enabled, mail, Counters, History>>

\* ReplaceAttendees, one transaction; without the row it fails, and a failure is
\* only logged.  Whoever is invited has to answer again.
ReplaceAttendees(h) ==
    LET c == handler[h].cal
        invited == IF handler[h].msg = {} THEN handler[h].guests ELSE ObjectAt(h).guests
    IN  /\ Is(h, "roster")
        /\ roster' = IF event[c].id # handler[h].seen.id THEN roster
                     ELSE [roster EXCEPT ![c] =
                             [p \in Person |-> IF p \in invited THEN "NEEDS-ACTION"
                                               ELSE "absent"]]
        /\ IF handler[h].msg = {} THEN Stop(h) ELSE Settle(h, handler[h].filed)
        /\ UNCHANGED <<event, enabled, mail, lastId, Counters, History>>

-----------------------------------------------------------------------------
(* A CANCEL and a REPLY, and the end of each. *)

DeleteCalendarEvent(c) ==
    /\ event' = [event EXCEPT ![c] = NoRow]
    /\ roster' = [roster EXCEPT ![c] = Nobody]
    /\ bereft' = bereft \cup {k \in Handler : Is(k, "update") /\ handler[k].cal = c}

HandleCancel(h) ==
    LET c == handler[h].cal IN
    /\ Is(h, "delete")
    /\ IF event[c].id = handler[h].seen.id THEN DeleteCalendarEvent(c)
       ELSE UNCHANGED <<event, roster, bereft>>
    /\ withdrawn' = TRUE
    /\ Settle(h, handler[h].filed)
    /\ UNCHANGED <<enabled, mail, lastId, Counters, consumed, dispatched, overlapped>>

\* UpdateAttendeePartStat; who is not on the roster is an error.
UpdateAttendeePartStat(c, id, p) ==
    IF event[c].id # id \/ roster[c][p] = "absent" THEN UNCHANGED roster
    ELSE roster' = [roster EXCEPT ![c] = [@ EXCEPT ![p] = "ACCEPTED"]]

\* handleReply: the one ATTENDEE is who replied.
HandleReply(h) ==
    LET c == handler[h].cal IN
    /\ Is(h, "reply")
    /\ \E p \in ObjectAt(h).guests :
          /\ UpdateAttendeePartStat(c, handler[h].seen.id, p)
          /\ IF event[c].id # handler[h].seen.id \/ roster[c][p] = "absent"
             THEN PassOver(h) ELSE Settle(h, handler[h].filed)
    /\ UNCHANGED <<event, enabled, mail, lastId, Counters, History>>

\* Mutant: a pulled message is removed for good, and is new to the next pull.
DropHard(h) ==
    LET m == MessageOf(h) IN
    /\ Is(h, "drop")
    /\ mail' = [mail EXCEPT ![m] = "unknown"]
    /\ consumed' = consumed \cup {m}
    /\ Stop(h)
    /\ UNCHANGED <<event, roster, enabled, lastId, Counters, dispatched, bereft,
                   overlapped, withdrawn>>

\* A delivered message is removed, a pulled one is put in the vault.
Drop(h) ==
    LET m == MessageOf(h) IN
    /\ Is(h, "drop")
    /\ mail' = [mail EXCEPT ![m] = IF Via[m] = "mx" THEN "unknown" ELSE "vault"]
    /\ consumed' = consumed \cup {m}
    /\ Stop(h)
    /\ UNCHANGED <<event, roster, enabled, lastId, Counters, dispatched, bereft,
                   overlapped, withdrawn>>

Break ==
    /\ failures < MaxFailures
    /\ failures' = failures + 1
    /\ UNCHANGED <<event, roster, enabled, mail, lastId, arrivals, requests, consumed,
                   dispatched, overlapped, withdrawn>>

\* A statement fails: the object is given up, but for the attendees' list; what
\* else fails ends there.
StatementFails(h) ==
    /\ ~Is(h, "idle")
    /\ Break
    /\ bereft' = bereft \ {h}
    /\ IF handler[h].msg = {} \/ Is(h, "drop") THEN Stop(h)
       ELSE IF Is(h, "roster") THEN Settle(h, handler[h].filed) ELSE PassOver(h)

Crash == Break /\ bereft' = {} /\ handler' = [h \in Handler |-> Idle]

-----------------------------------------------------------------------------
(* The user, and the calendar pull. *)

Request ==
    /\ requests < MaxRequests
    /\ requests' = requests + 1
    /\ UNCHANGED <<mail, arrivals, failures, consumed, dispatched>>

\* The handlers that read a row, and do something with it later.
ReadEvent(h, c, pc) ==
    /\ Is(h, "idle") /\ event[c].id # 0
    /\ Request
    /\ GoWith(h, pc, c, event[c])
    /\ UNCHANGED <<event, roster, enabled, lastId, bereft, overlapped, withdrawn>>

RespondRead(h, c) == ReadEvent(h, c, "answer")
UpdateRead(h, c) == c \in Writable /\ ReadEvent(h, c, "edit")
CancelRead(h, c) == c \in Writable /\ ReadEvent(h, c, "cancel")

\* HandleRespondToInvite: the organizer has been written to.
Respond(h) ==
    /\ Is(h, "answer")
    /\ UpdateAttendeePartStat(handler[h].cal, handler[h].seen.id, Me)
    /\ Stop(h)
    /\ UNCHANGED <<event, enabled, mail, lastId, Counters, History>>

\* HandleUpdateEvent, and HandleCancelEvent once it has written to everybody.
Rewrite(h, pc, status, modified) ==
    LET c == handler[h].cal
        seen == handler[h].seen
    IN  /\ Is(h, pc)
        /\ UpdateCalendarEvent(c, seen, seen.seq, status, modified)
        /\ Stop(h)
        /\ UNCHANGED <<roster, enabled, mail, lastId, Counters, consumed, dispatched,
                       bereft, withdrawn>>

HandleUpdateEvent(h) == Rewrite(h, "edit", handler[h].seen.status, TRUE)
HandleCancelEvent(h) == Rewrite(h, "cancel", "CANCELLED", handler[h].seen.modified)

\* HandleCreateEventWithAttendees, up to the roster.
CreateEventWithAttendees(h, c, guests) ==
    LET row == [id |-> lastId + 1, seq |-> 0, status |-> "CONFIRMED", modified |-> TRUE] IN
    /\ Is(h, "idle") /\ c \in Writable /\ event[c].id = 0
    /\ lastId < MaxId
    /\ Request
    /\ lastId' = lastId + 1
    /\ event' = [event EXCEPT ![c] = row]
    /\ handler' = IF guests = {} THEN handler
                  ELSE [handler EXCEPT ![h] = [Idle EXCEPT !.pc = "roster", !.guests = guests,
                                                           !.cal = c, !.seen = row]]
    /\ UNCHANGED <<roster, enabled, bereft, overlapped, withdrawn>>

\* HandleUpdateEventAttendees; the client sends the answers, too.
HandleUpdateEventAttendees(c, people) ==
    /\ c \in Writable /\ event[c].id # 0
    /\ Request
    /\ roster' = [roster EXCEPT ![c] = people]
    /\ UNCHANGED <<event, enabled, handler, lastId, bereft, overlapped, withdrawn>>

HandleDeleteEvent(c) ==
    /\ c \in Writable /\ event[c].id # 0
    /\ Request
    /\ DeleteCalendarEvent(c)
    /\ withdrawn' = TRUE
    /\ UNCHANGED <<enabled, handler, lastId, overlapped>>

SetCalendarEnabled(c) ==
    /\ Request
    /\ enabled' = IF c \in enabled THEN enabled \ {c} ELSE enabled \cup {c}
    /\ UNCHANGED <<event, roster, handler, lastId, bereft, overlapped, withdrawn>>

\* PurgeVaultMessages.
PurgeVault(m) ==
    /\ mail[m] = "vault"
    /\ mail' = [mail EXCEPT ![m] = "unknown"]
    /\ dispatched' = [dispatched EXCEPT ![m] = 0]
    /\ UNCHANGED <<event, roster, enabled, handler, lastId, Counters, consumed, bereft,
                   overlapped, withdrawn>>

\* The calendar is pulled from a server that knows nothing of the invitation:
\* the row an invite left is neither modified nor queued to be pushed.
ApplySyncChanges(c) ==
    /\ SourceOf[c] \notin Local /\ c \in enabled
    /\ event[c].id # 0 /\ ~event[c].modified
    /\ DeleteCalendarEvent(c)
    /\ UNCHANGED <<enabled, mail, handler, lastId, Counters, consumed, dispatched,
                   overlapped, withdrawn>>

-----------------------------------------------------------------------------
Handle(h) ==
    \/ \E m \in Message : DeliverOne(h, m) \/ SaveMessageToInbox(h, m)
    \/ DispatchInvite(h)
    \/ ReadExisting(h) \/ UpdateExisting(h) \/ CreateEvent(h) \/ ReplaceAttendees(h)
    \/ HandleCancel(h) \/ HandleReply(h) \/ Drop(h)
    \/ StatementFails(h)
    \/ \E c \in Calendar :
          \/ RespondRead(h, c) \/ UpdateRead(h, c) \/ CancelRead(h, c)
          \/ \E guests \in SUBSET Person : CreateEventWithAttendees(h, c, guests)
    \/ Respond(h) \/ HandleUpdateEvent(h) \/ HandleCancelEvent(h)

Next ==
    \/ \E h \in Handler : Handle(h)
    \/ Crash
    \/ \E c \in Calendar :
          \/ \E people \in [Person -> {"absent", "NEEDS-ACTION", "ACCEPTED"}] :
                HandleUpdateEventAttendees(c, people)
          \/ HandleDeleteEvent(c) \/ SetCalendarEnabled(c) \/ ApplySyncChanges(c)
    \/ \E m \in Message : PurgeVault(m)

Spec == Init /\ [][Next]_vars

-----------------------------------------------------------------------------
(* Properties. *)

TakenFromInbox(m) == mail[m] = "inbox" /\ mail'[m] # "inbox"

\* A message is taken from the inbox only by the handler that applied it, with one
\* object done at least; and for each invite in it a row has been written from it
\* or was found to be newer, whatever failed and whoever wrote the row meanwhile.
\* Excepted are an invite that was given up (the loop goes on, EveryInviteFiled
\* is refuted), and a row deleted between the read and the write: the write then
\* hits nothing, and is no error.
ConsumedWasFiled ==
    [][\A m \in Message : TakenFromInbox(m) =>
          \E h \in Handler :
             /\ handler[h].msg = {m}
             /\ \E i \in DOMAIN ObjectsOf[m] : i \notin handler[h].passed
             /\ \A i \in DOMAIN ObjectsOf[m] :
                   Invites(ObjectsOf[m][i]) => i \in handler[h].filed \cup handler[h].passed
      ]_vars

\* A message that stays on the source server is applied to the calendar once,
\* however often it is pulled, until the vault is purged: "the same invite got
\* re-fetched, re-dispatched and re-announced every cycle, forever".
PulledInviteAppliedOnce == \A m \in Message : dispatched[m] <= 1

\* "Stale invite - keep what we have": no invite, edit or cancellation brings an
\* older version of a row back.  An update of a row that was changed since it
\* was read is excepted, as the statement writes every column.
SequenceNeverFalls ==
    [][\A c \in Calendar : event[c].id # 0 /\ event'[c].id = event[c].id
          => event'[c].seq >= event[c].seq \/ overlapped']_vars

\* "a calendar list reordered by every new subscription silently moves where
\* invites land": switching on a calendar newer than the others leaves the
\* destination, unless an earlier pass finds the new one or it makes the last
\* pass ambiguous.
DestinationIsStable ==
    \A c \in Calendar \ enabled, via \in {"mx", "imap"}, guests \in SUBSET Person :
        LET old == ChooseInviteCalendar(enabled, via, guests)
            new == ChooseInviteCalendar(enabled \cup {c}, via, guests)
            pass == Passes(via, guests)
            Rank(d) == IF \E i \in 1..3 : SourceOf[d] \in pass[i]
                       THEN CHOOSE i \in 1..3 : /\ SourceOf[d] \in pass[i]
                                               /\ \A j \in 1..(i - 1) : SourceOf[d] \notin pass[j]
                       ELSE 4
        IN  old # 0 /\ (\A d \in enabled : d < c /\ SourceOf[d] <= SourceOf[c])
            => \/ new = old
               \/ new = c /\ Rank(c) < Rank(old)
               \/ new = 0 /\ Rank(old) = 4

\* "Consuming it would delete the mail and the invite would exist nowhere at
\* all" (dispatchInvite).  The code refutes it in two ways.  An invite that was
\* given up goes with the mail when another object in it succeeded.
EveryInviteFiled ==
    [][\A m \in Message : TakenFromInbox(m) =>
          \E h \in Handler :
             /\ handler[h].msg = {m}
             /\ \A i \in DOMAIN ObjectsOf[m] :
                   LET x == ObjectsOf[m][i] IN
                   Invites(x) /\ Addressed(x) => i \in handler[h].filed
      ]_vars

\* And the pull of a CalDAV calendar deletes the row an invite left there.
InviteIsSomewhere ==
    \/ withdrawn
    \/ \A m \in consumed :
          (\A i \in DOMAIN ObjectsOf[m] : Invites(ObjectsOf[m][i]))
          => mail[m] = "inbox" \/ \E c \in Calendar : event[c].id # 0

\* "hard-deletes the matching event row across all of the user's calendars"
\* (handleCancel).  The code refutes it: the first row found is deleted.
CancelTakesAll ==
    [][\A h \in Handler :
          Is(h, "delete") /\ handler'[h].pc # "delete" /\ UNCHANGED failures
          => \A c \in Calendar : event'[c].id = 0
      ]_vars
=============================================================================
