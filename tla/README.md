# TLA+ models of ddmailserver

ddmailserver aggregates mail: one Go process and one Postgres database give a
user's external IMAP/SMTP accounts, the mailboxes of domains hosted here,
calendars and contacts one IMAP, SMTP, CalDAV, CardDAV and HTTP face. A Rust
desktop client talks to the HTTP side. This directory models the parts of it
where concurrency, failure and ordering decide whether mail is lost, sent twice
or shown wrongly, model-checks them with TLC on small instances, and proves
their main safety properties with TLAPS for every instance.

All paths below are relative to the repository root.

## 1. The system

### Parts and how they interact

| part | code | state it keeps | operations |
|---|---|---|---|
| worker pool | `internal/worker/pool.go` | four channels, `queued`, `running`, `deferred`, `stopped`, statistics | Submit, dispatch, runTask, Stop |
| scheduler | `internal/worker/scheduler.go` | tickers, `sendMu` | periodic scans that Submit tasks, TriggerOutbox |
| local changes, reverse flag sync | `internal/service/messages`, `internal/db/flag_sync.go`, `internal/worker/flag_sync_task.go` | rows of `messages`, `flag_sync_queue` | SetFlags, Delete, Purge, Transfer, push |
| mail pull | `internal/imap/client/sync_*.go` | `remote_folder_state`, rows, `remote_uid` | full and incremental sync, vanished check |
| outbox | `internal/db/outbox.go`, `internal/smtp/client/*send_task.go` | `outbox_messages` | queue, scan, claim, deliver, count, bounce, mark |
| local delivery | `internal/smtp/localdelivery` | rows of local INBOXes | Lookup, Deliver |
| MX and submission servers | `internal/smtp/mx`, `internal/smtp/server` | one session | RCPT, DATA |
| change journal | `internal/db/message_changes.go`, triggers in `migrations/043` | `message_changes`, `journal_meta` | append by trigger, list, compact |
| login back-off | `internal/db/auth_backoff.go`, `internal/authfail` | `auth_backoff` | Acquire, Record, Clear, reset |
| IMAP server | `internal/imap/server` | folders, UIDs, per-session view | APPEND, COPY, MOVE, STORE, EXPUNGE, CREATE, RENAME, DELETE, IDLE |
| IDLE manager | `internal/imap/client/idle_manager.go` | watcher map | refresh, watch, reconnect |
| notification hub | `internal/notify/hub.go` | subscribers, bounded channels | Subscribe, Publish, Unsubscribe |
| calendar and contact sync | `internal/worker/calendar_*.go`, `contact_*.go` | sync queues, dead letters of events | pull, push |
| feeds | `internal/worker/ics_sync_task.go`, `ics_match.go`, `internal/web/handlers_calendar_web.go` | calendars and events of a URL | fetch, match, apply; upload |
| iTIP | `internal/calendar` | events, attendees | REQUEST, CANCEL, REPLY; answers |
| CalDAV/CardDAV servers | `internal/caldav/server`, `internal/carddav/server` | events, contacts | PUT, DELETE, REPORT |
| login rate limit | `internal/authlimit` | map of failures | Allow, Fail, sweep |
| web UI, desktop API | `internal/web` | sessions | translate requests into the services |
| desktop client | `desktop/` | local cache, cursor | delta sync, IMAP, rendering |

The scheduler's scans and the IDLE manager turn rows of the database into tasks
and Submit them to the pool; the pool runs them. A task talks to an external
server and then writes the database. Users' requests (IMAP, HTTP) write the
database in transactions of their own. So almost everything interacts through
**rows that a task read earlier and a user has changed since**; the hub carries
hints only, and nobody relies on them.

### What is hard, and what must be true

* **Pool.** Workers, submitters and Stop interleave at every lock. Two runs of a
  key must not overlap, a trigger during a run earns one more run, no key is
  left behind in `queued` (its task would be refused for ever), nothing starts
  after Stop.
* **Flag sync.** A user's change, the push of an earlier change and a pull that
  fetched before either meet on one row and one queue entry. Changes must reach
  the server, through crashes and outages, and the pull must not undo them.
* **Outbox.** Scans race, answers get lost, the process dies with a message half
  sent. A message must go out, not twice, nobody may be dropped between
  "delivered", "refused" and "retry", and the sender must hear of failures.
* **Mail pull.** Bookmarks must not move past unsaved mail; absence on the
  server is judged from lists that are stale when acted on.
* **Change journal.** Numbers are taken before commit, so they appear out of
  order; a poll is several statements and two requests. The desktop client must
  come to show what the server lists, and know what it still has to ask for.
* **Login back-off.** A rejection of the old password arrives after the new one
  was saved; one probe at a time may log in.
* **Folders and UIDs.** A client knows a message by (folder, UIDVALIDITY, UID) for
  ever, while deliveries, moves, restores and folder commands claim numbers and
  use them in different transactions.
* **Calendars and contacts.** Push, pull and the user write one row and one queue
  entry. No change may be dropped silently, the pull may delete nothing unsent and
  revive nothing deleted.
* **Invitations.** A mail carries several calendar objects. They are applied one by one,
  each in several statements, and the mail goes when one succeeded: every invite that
  was not given up must be in the calendar by then, once, in its latest version.
* **Feeds.** A URL may serve anything. An outage, an error page, an empty feed or one
  that reissues its UIDs must cost no row; one damaged component does (section 4).

`PROJECT.json` lists every hazard with its line ("hazards") and the properties
that cover it.

## 2. Modules

| module | models | proofs | instance for TLC |
|---|---|---|---|
| `TaskPool` | the worker pool | `TaskPoolProofs` | `MCTaskPool`, `MCSourceNames` |
| `CoalescingScheduler` | what the pool promises, without workers, lanes or locks | (refinement, in `TaskPoolProofs`) | |
| `FlagSync` | users' changes, the push, the pull's flag refresh | `FlagSyncProofs` | `MCFlagSync` |
| `Outbox` | outbox, send tasks, delivery, restart | `OutboxProofs` | `MCOutbox` |
| `SendQueue` | what the outbox promises, without rows, attempts or the stages of a task | (refinement, in `OutboxProofs`) | |
| `ChangeJournal` | the journal of message changes and the desktop client that reads it | `ChangeJournalProofs` | `MCChangeJournal` |
| `LoginBackoff` | the pause after rejected logins, tasks and IDLE watchers | `LoginBackoffProofs` | `MCLoginBackoff` |
| `MailPull` | the sync of one external mailbox | `IncomingProofs` (as `Pull`) | `MCMailPull` |
| `PulledMail` | its instance `Pull`, with the properties of its own | `IncomingProofs` | `MCMailPull` |
| `FolderUids` | local folders and their UIDs | `FolderUidsProofs` | `MCFolderUids` |
| `CalendarSync` | two-way sync of a calendar | `TwoWaySyncProofs` | `MCCalendarSync` |
| `ContactSync` | two-way sync of an address book | `TwoWaySyncProofs` (as `Book`) | `MCContactSync` |
| `ContactBook` | its instance `Book`, with the properties of its own | `TwoWaySyncProofs` | `MCContactSync` |
| `Invitations` | iTIP from delivery, pull and the user | `IncomingProofs` | `MCInvitations` |
| `CalendarFeeds` | calendars read from a URL | `IncomingProofs` (as `Feed`) | `MCInvitations` (as `Feed`) |
| `CalendarEvents` | the two, side by side | `IncomingProofs` | `MCInvitations` |

Definitions whose comment starts with "Mutant" are never part of a
specification: each is a plausible bug in the definition below it, used to see
that a property notices it.

### TaskPool

| model | code (`internal/worker/pool.go`) |
|---|---|
| `lane[<<kind, "fast" or "bulk">>]` | `imapQueue`, `imapFastQueue`, `smtpQueue`, `smtpFastQueue` |
| `queued`, `running`, `deferred` | the maps of the same names, keyed by `Task.String()` |
| `pc`, `hand` | where a worker goroutine is, and the task it holds |
| `stopped`, `cancelled`, `stopper` | `Pool.stopped`, the context, the first call of Stop |
| `outstanding` | Queued - Completed - Failed of `Stats`, per kind |

A critical section is one action, and so is a channel operation; between two
actions every other goroutine may run. `dispatch` is `DispatchDrop`,
`DispatchPark` and `DispatchStart` (its first section), `RunTask` and
`RunFollowUp` or `Release` (the section at the end of its loop). What a task does
is left open: it returns, or panics and is recovered. `Stop` is three actions:
the flag, the cancellation, the wait with its timeout. A task's key, kind and
priority are constants of it. Refusals of Submit change nothing and are its
disabled states.

`CoalescingScheduler` knows keys that are `wanted` and `active`. The refinement
maps `wanted` to `queued` and `active` to the keys of the tasks that workers are
executing, not to the map `running`, so that it says something about the work
and not about its bookkeeping.

### FlagSync

One account's messages, each with a row, at most one queue entry and a copy on
the source server. `row.marked` is the local `\Deleted` flag, `row.at` whether the
message is in a folder, in the vault (soft-deleted) or purged. An entry's
`due` abstracts `next_attempt_at`: the length of the back-off does not matter to
any property, only that it ends.

| action | code |
|---|---|
| `SetFlags`, `Delete`, `Purge`, `MoveToTrash`, `MoveElsewhere` | the transactions of `internal/service/messages`, each whole, with `queueFlagSync` |
| `Expunge`, `RestoreFromVault` | `internal/imap/server/mailbox.go`, `internal/db/messages.go`: the row only |
| `PushRead`, `PushConnect`, `PushUnreachable`, `PushRejected` | `FlagSyncTask.Execute` up to its loop |
| `PushStore`, `PushStoreError` | one command on the server, done or failed (and perhaps half done) |
| `PushDone`, `PushFailed`, `PushUnsettled` | the bookkeeping after it |
| `PushEnds`, `PullEnds` | end of the loop, cancelled context, death of the process |
| `PullFetch`, `PullOpen`, `PullWrite` | FETCH FLAGS; the snapshot of the refresh statement; its write |
| `RemoteChange`, `Quiesce` | another client of the server; the point after which nobody changes anything |

`PullOpen` and `PullWrite` are two steps of one SQL statement, because Postgres
makes them two: under READ COMMITTED the statement computes `pending` from its
snapshot, may then wait for the row's lock, and re-reads the row but not the CTE.
`owed` and `raced` are history variables: the change the server has not been told,
and whether the last change met a push or a pull that had already read the state.

The push task reads the entries once; a change made after that may be removed
with the entry it replaced (finding 1). Safety is therefore stated for changes
that did not race (`UnpushedStaysQueued`, `QueueMirrorsRow`), and the liveness
property `FlagsConverge` for all of them: whatever raced, both sides end up equal.

### Outbox

An action is one database statement or one delivery. A message is direct or
relayed (`Relay`), queued with its raw text or to be built at every attempt
(`Raw`), with or without attachments (`Attached`). Recipients are hosted here and
the sender's own, hosted here, hosted elsewhere, or unknown here (`Dest`). `copies`
counts what recipients got, saturating at 2; a delivery may be accepted, refused,
fail for now, or be accepted with its answer lost. `row.due` abstracts
`next_attempt_at`. `inbox` says which local recipients have a row with the message's
Message-ID: the duplicate check reads it (`Known`), and a purge, an EXPUNGE or an applied
invitation takes it away (`DeleteRow`). The model does not rely on the pool's single flight: several
tasks of one message exist at a time, as with racing scans and stale tasks, and
`ClaimOutboxMessage` alone decides. `tries`, `refused`, `unbounced`, `excused` and
`bare` are history variables.

`CreateOutboxMessage` inserts the row, pending, and `CreateOutboxAttachment` stores
what belongs to it; the web form does these apart, and the scheduler's scan does
not wait for the second (finding 2). `Sent` copies, DSNs, failing status updates
(`StatusLost`) and the failing count statement (`CountFails`) are steps of their own.
`Restart` kills every task and frees the rows in `sending`, as
`cmd/mailserver/main.go` does at startup.

`SendQueue` knows of a message its status, who holds it, whom it has reached, whom its
author was told of, and whether Sent has it. The refinement maps `holders` to the tasks
that have claimed the message, from the claim to the copy in Sent and not only while
the row is in `sending`, and `reached` to those with a copy. Claim is `Take`, a delivery
is `Reach`, and `StatusLost` is `Leave`: the row stays in `sending` with nobody at work on
it, until `Recover`, which is the restart. Scans, counting, back-off and a task's lists
are out of its sight. That nobody sends without the claim, that a status becomes
final only with an answer for everybody, and that Sent gets a copy only from the task
that has sent, are guards there and results here.

### ChangeJournal

The server's transactions change rows and, by the trigger, write journal
entries; a desktop client polls. Each SQL statement is an action: a poll reads the
head, the low watermark and the tail of the journal one after the other, then
the list, then the clock that becomes the client's next watermark.

| model | code |
|---|---|
| `row[m].place`, `row[m].updated` | where the client would see the message (`list`: INBOX, Sent, Drafts; `other` folders; `hidden`: deleted, in the vault, spam), `updated_at` |
| `txn[w]` | an open transaction with the change it has made, its number and its clock |
| `journal`, `nextSeq`, `low` | `message_changes`, its sequence, `journal_meta.low_watermark` |
| `cache`, `cursor`, `since`, `fullDue` | the client's conversations, `journal_seq`, `conv_since`, `conv_full_ts` |
| `poll` | the poll in progress and what it has read |
| `Update`, `MarkSpam`, `RestoreFromSpam` | a change of a row, all by way of `Write`; the latter two leave `updated_at` alone |
| `Commit`, `Rollback` | the end of the transaction |
| `CompactMessageChanges` | the daily pruning, one statement |
| `PollHead`, `PollLow`, `PollTail` | the three statements of GET /changes; the last one with what the client does with the reply (`apply_deletions`, the new cursor) |
| `PollList`, `PollStore` | GET /conversations: reading the list; taking the clock, and the client's writes |
| `ChangesFail`, `ListFails`, `DayPasses` | a failed request; a day is over, or the client asks for a full sync after a delete |

A row's change and its number come together, its visibility at commit; a second
change of the same row waits for the first (row locks). `ts` and `updated_at`
come from one clock, though the code takes one from Postgres and one from the
process. Pruning never reaches an open transaction's entries: the journal is kept
for 30 days. The list is read in one step, although the code reads it folder by
folder. All messages have a Message-ID: others are not journaled.

The client does miss changes (section 4), so the invariants must say
exactly which. `doubt` is the history variable for this: the messages the client
may be wrong about until its next full sync. A message enters it when

* a deletion commits with a number the cursor has passed,
* the tail is cut at the limit, or the reply is a reset, or entries were pruned
  between the statements of the reply,
* a write of the cache fails,
* it moves to a folder that is not listed,
* it comes into the list with an `updated_at` the watermark has passed, or while
  an answer is under way,
* a tombstone is applied although the message is back in the list.

Nothing else puts it there, and a complete full sync empties it except for what
changed meanwhile. `GoneIsAnnounced` and `NewIsDelivered` say that apart from
these messages the client lags behind but never loses track; `CacheConverges`
says that the full sync repairs the rest.

### LoginBackoff

The `auth_backoff` row of one external account and everybody who logs in to it:
pool tasks that carry a copy of the password from the scan on (`Submit`, `Start`,
`Judge`, `Report`), "Sync now", which asks nobody (`StartManual`), and IDLE watchers
with a copy of the account of their own (`WatcherTop`, `WatcherPaused`,
`WatcherJudged`, `WatcherAway`). `SaveAccount` stores the user's edit and `LiftPause`,
a statement later, drops the row. `Admit` is the lease: an expired pause is
replaced by the next one before the login begins, so that others stay out.
`RefreshWatchers` starts and cancels watchers once per refresh.

Times are relative and capped: `wait` is what is left of the pause, `last` and `first`
what has passed since the last and the first failure. `Tick` moves them all, so
time passes for ever in a finite model.

### MailPull

A cycle goes through the folders of an account. `Begin` takes the rows' baseline,
`Open` selects a folder and plans from its bookmark and UIDVALIDITY
(`planFolderSync`), `RefreshFlags`, `Scan`, `FetchBodies` and `WriteMark` are the
commands and writes that follow, `Judge`, `AskFolder`, `Decide` and `Vault` the
vanished check: what was not met, the second look by Message-ID in every folder,
what is then put in the vault. `Crash` and the failing branch of each step leave the
rest of the cycle undone. Between any two steps others file, flag, copy and expunge
messages upstream or number a folder anew (`File`, `Flag`, `Expunge`, `Renumber`), and
the user edits, deletes, restores and the worker pushes (`Edit`, `Restore`, `Push`).

Some messages the code passes without an error, and the bookmark with them: those
without an envelope or with neither sender nor subject (`Blank`,
`internal/imap/client/sync_incremental.go:291`, `sync_task.go:441`), those with neither a
Message-ID nor a body to derive one from (`Hollow`, `sync_task.go:461`), and copies marked
`\Deleted`. Both kinds of the first, `Nameless` together, are never pulled: the properties
say so, and count the third. The guard against mass deletion holds back what has gone
from a folder when it is more than `GuardMin` rows and more than half of them; it does
so in every cycle, so that such rows stay as they are, and `RowsTellTheTruth` exempts
them.

A message is its Message-ID; those without one (`Synthetic`) cannot be searched
for. `skipped`, `stayed` and `restored` are history variables: what a cycle passed
because it was marked `\Deleted`, where messages have been since the cycle began,
what the user has taken out of the vault. The flag refresh of a known message is
in FlagSync. `PulledMail` is an instance of the module under names that the modules
beside it in `IncomingProofs` do not use (`NoMail`, `MaxPullFailures`), and `ContactBook` does the
same for the contacts: what the runs check of it and what is proved is one definition.

### FolderUids

The folders of one user and the messages in them. A command is what it reads and,
a step later, what it writes by it: `ClaimUid` and `StoreMessage` for APPEND, deliveries
and the pull's saves, `TransferSelect` and `Transfer` for COPY and MOVE, `StoreSelect` and
`StoreFlag`, `ExpungeRead` and `ExpungeWrite`, `RenameRead` and `RenameWrite`; creating and
deleting a folder and the HTTP API's single-message requests are one statement.
`given` is the history of everything the database ever held under a folder and a
UID, `taint` the folders in which a claim outlived its folder's number range.

### CalendarSync and ContactSync

One remote collection, the rows here, the queue of local changes, a push round and
a pull round. A change is a number drawn from one counter: it stands for the body,
for the ETag the remote gives it, and for `created_at`. The push reads a few entries
(`GetPending...`), sends each with its conditions (`PushSend`), and does its bookkeeping
in two statements: the entry goes, then the row's mark (`PushAccepted`, `Mark...Synced`).
The pull lists the remote, fetches, reads what it may prune, decides, and applies in
one transaction. The calendar's has back-off, giving up and dead letters, an enabled
switch and the demotion to read-only, and looks up row and queue for every event it
has parsed: a failing look-up of the row passes the event over, one of the queue is
logged, and the event is created (`Creates`). The contacts' has none of these, compares with
one reading of the book, and its creations spare an edited row. That is why they
are two modules. `owed`, `risky` and `stranded` are history variables: the user's last
change that has not arrived, changes made while their entry was being pushed or
without knowledge of the remote's copy, and rows left marked with nothing queued.

### Invitations

One event UID, the user's calendars, messages that arrive by MX or by the pull and carry
a sequence of calendar objects (`ObjectsOf`), each with a METHOD, a SEQUENCE and its
attendees. `DeliverOne` or `SaveMessageToInbox` stores the mail. For one object after the
other, `DispatchInvite` chooses the calendar (`ChooseInviteCalendar`, in three passes over the
sources and a last one over their identities), and `ReadExisting`, `UpdateExisting` or
`CreateEvent`, `ReplaceAttendees`, `HandleCancel` and `HandleReply` are the statements of
`internal/calendar/incoming.go`. The loop is `After`: an object succeeds (`Settle`) or is
given up (`PassOver`: an error, somebody's feed, no destination), the next one is tried
either way, and `Drop` takes the mail from the inbox in the end if one succeeded. A
look-up of `findEventByUIDForUser` that fails is logged and its calendar passed over
(`blind`), so that a CANCEL or a REPLY may succeed with nothing done. The user's answers,
edits and cancellations read and write in two steps as well. `consumed`, `dispatched`,
`bereft`, `overlapped` and `withdrawn` are history variables, and so are a handler's
`filed` and `passed`, which say of each object what became of it.

### CalendarFeeds

A source with a URL. The pool's task (`fetchICS`, `FindCalendar`, `CreateCalendar`,
`ReadRows`, `CompareTask`, `ApplySyncChanges`) and the manual synchronisation of the web
UI, which is a second implementation of it (`syncICSURLSource`), interleave with each
other, with an upload, the calendar's switch and deletion, and a restart.
A text is a sequence of components, any of which may lack a UID, be a task, or have a
start or an end that cannot be read; the decoder gets through the first `decodes` of
them. `ParseICS` is what becomes of it: the decoder's events or, if it has none, those
of the text parser, which knows no tasks and drops an unreadable end. What is left is a
function from positions to components, in their order; what is to be created is a set
of such positions, and an update names the position it writes.
`matchFeedEvents` is an operator of its own: first by UID, then by title and start
where these are unique. `CompareTask` loads each matched row again, and passes over a match
whose row it fails to load (`lost`), with the rest committed all the same; the manual
synchronisation takes an event it fails to look up for a new one. Any other statement that
fails ends the synchronisation (`StatementFails`). A transaction that violates a constraint
is rolled back (`Sound`). An upload writes row and guest list in two statements and keeps
what it has written when it fails. `disturbed` is the history of which synchronisation's
rows another has changed since they were read. The source's `last_error` is not modelled.

`CalendarEvents` puts the feeds beside `Invitations`, as the instance `Feed`, with rows of
their own: a feed's calendars are not writable, and an invitation is filed in a writable
one. That a reply or a cancellation may find an event of a feed by its UID is left out.

## 3. Runs

| run | what it shows | instance |
|---|---|---|
| `pool` | single flight, the bookkeeping of keys, the refinement; accepted tasks start, workers leave | 2 IMAP and 1 SMTP worker; two task objects of one key, a priority task, a send; lanes of 1; fairness |
| `flags` | changes stay queued, entries mirror rows, changes arrive, both sides converge | 1 message, 1 flag, fairness |
| `flags_delete` | finding 1 | 1 message, 1 flag |
| `outbox` | the refinement, and with it one sender and final states; relayed once but for lost outcomes, nobody forgotten, gives up late, sent only if somebody has it, comes to an end | a direct message to a mailbox here and an external address, one to the sender and an unknown address, a relayed one with attachments, one without recipients, one of them queued; 2 tasks, 2 attempts, 1 crash, rows deleted; fairness |
| `outbox_bare` | finding 2 | the same |
| `journal` | ghosts are announced, news is delivered, apart from `doubt`; the client converges | 1 message, 2 transactions, 3 changes, replies of 1 entry, 2 ticks, 1 failing request or write; fairness |
| `login` | pauses have a cause, one watcher, attempts are spaced | 1 task, 1 manual sync, 1 watcher, 2 passwords, 1 failing store call |
| `mail_pull` | nothing that has a name is lost below a bookmark, what stays is kept, all of it is pulled, rows follow their messages unless the guard holds | an inbox and an all-mail folder, 3 messages of which one has no Message-ID and one no body either, all in the inbox at first, GuardMin 1, 2 changes by others, 1 failure or crash, UIDs to 3; fairness |
| `calendar` | no change is lost, the unsent is not deleted, the deleted not revived unless the queue could not be asked, both sides agree | 1 event, 3 writes, 1 failure, 1 switch, giving up at once; fairness |
| `contacts` | no change is lost, the pull puts nothing over an edit older than its comparison, both sides agree | 1 contact, 4 writes, 1 failure; fairness |
| `folder_uids` | a UID names one message, EXPUNGE aims true | 3 folders, 2 messages, 2 sessions, 5 commands |
| `invitations` | each invite of a mail is in the calendar or was given up before the mail goes, once, where it was before, and no older version comes back; beside it the feed's task deletes only rows of which the text has no intact component, and shows what it read | an invite (twice in its mail), its update (behind somebody's feed), its cancellation and a reply (behind an unknown METHOD), 3 calendars whose ids and sources are in different orders, 2 handlers, 1 request, 1 failure; 12 feeds of at most 3 components, 2 fetches, 1 upload, switch, deletion or restart, failing statements |

`MCInvitations` runs two specifications side by side: `part` says at the start which
of them moves, so the run explores the sum of their states and not the product.

Further configurations, each too large or too special for the runs above, check
other instances: `MCOutboxLive` (a direct and a relayed message, 1 task),
`MCChangeJournalTwo` (2 messages of one dialog and another user's), `MCLoginBackoffLive`
(`GoodPasswordGetsIn`), `MCMailPullLive` (a junk folder, a suspect message, one without
envelope),
`MCCalendarSyncTwo` (2 events, one recurring). They all pass.

**Why the bounds are enough.** Pool: two workers of one kind are needed for
parking and overlap, a third of another kind for independence; two objects of
one key exercise coalescing; one slot makes every lane full at once. Flag sync:
its properties speak of one message, so one suffices; flags are independent sets, and
one that is set and unset tells "latest wins" from "merge". Outbox: two tasks race, two
attempts give a retry and a giving up, one crash hits every pair of steps. Journal:
its properties speak of one message; three changes bring a message into the list, out
of it and back, two ticks tell older from newer than the watermark; a limit of 1 stands
for the code's 5000. Login: two passwords give an old and a new one; one watcher
meets the manager, one task meets the lease; the pauses are three steps in length.
Mail pull: its properties speak of one message; the second one can only be judged by
the bookmarks, the third is skipped when its body is fetched; two changes give a move or a
renumbering between any two steps, and two messages expunged at once make the guard
hold, `GuardMin` being 1 in place of the code's 20. Calendar and contacts: three writes are an edit
during a push and an edit by another client. Folders: two sessions overlap, three
folders are a source, a destination and the one that takes over a name. Invitations:
an update meets its invite, its cancellation and the user; two handlers are two
deliveries of the same; of two objects in a mail, the first or the second succeeds, or
both. Feeds: the twelve bodies edit, swap, reissue, drop and repeat the events of the
first, have unreadable dates and tasks, decode in part or not at all, hold no event, are
a page, or are the URL's being down; two fetches are one that fills the calendar and one
that changes it.

The theorems of section 5 remove the bounds for the safety properties. Bounds that a
specification itself contains: `MaxRestarts`, `MaxQueued`, the saturation of `copies` at 2
and of `tries` at `MaxRetries`; `MaxSeq`, `MaxClock`, `MaxErrors`; `MaxUid`, `MaxChanges`,
`MaxFailures`, `MaxToggles`; `MaxFolder`, `MaxBegun`; `MaxId`, `MaxArrivals`, `MaxRequests`;
`MaxRow`, `MaxCalendar`, `MaxFetches`. The theorems hold for any value of them.
`QueueSize` and `Limit` are the program's own, and so are `MaxRetries`, `GiveUp`,
`PushLimit` and `GuardMin`.

**Deadlock** is checked for the pool, whose only final state is `Terminated`, for
the journal, whose client never ceases to poll, for the login back-off and for the
mail pull, whose cycles follow each other. The other models may rest: nothing queued,
nothing to send, no bound left.

**Fairness.** Weak fairness stands for goroutines that are scheduled, tickers that
tick, back-offs that elapse, transactions that end. Strong fairness is assumed where a
step can be tried and fail again and again: connecting, storing, claiming, delivering,
counting, a request or a cache write of the desktop client. It says that failure is
not permanent, which is the assumption under which the code promises delivery at all.

* Outbox: one strong fairness each for *somebody* claiming, delivering, counting: the
  tasks share the messages, and none is promised that it is the one.
* Login back-off: an answer of the provider comes in the end (`Answer`), and a watcher
  that is refused the lease again and again notices (`WatcherRefused`): after `Rejected`
  its loop continues without reading the account again (`internal/imap/client/idle_manager.go:186`).
* Calendar and contacts, mail pull: the next step of a push, of a pull, of the cycle, as
  each task is submitted again and again. Failures are bounded there. An entry of the
  calendar's queue that is due again and again is taken in the end: the push reads the
  oldest ones first.

Nobody is obliged to submit a task, to call Stop, or to change anything. `Execute` is
assumed to return: network calls carry deadlines, and Stop has a timeout for those
that do not. Tasks of the bulk lane have no promise while priority tasks never cease;
`AcceptedTasksStart` says so in its premise, and that is the code's decision.

## 4. Findings

1. `flags_delete`: `DeleteFlagSyncEntry` removes by id, the upsert keeps the id. A
   delete queued during the STORE of an earlier change is lost, against the
   comment at `internal/db/flag_sync.go:14`.
2. `outbox_bare`: the web form's handler inserts the outbox row as pending, then its
   attachments. The periodic scan takes any pending row, and sends the message
   without them, although the trigger's place is chosen to exclude just that
   (`internal/web/handlers.go:788`).

### Further counterexamples

Each of these properties is stronger than what holds; TLC refutes it under the
configuration of the run named, with the property in place of the run's and the
constants changed as said. Where the repository says otherwise, its line is quoted.

| run, constants | property | what happens, and what says otherwise |
|---|---|---|
| `MCSourceNames.cfg` | `DuplicateIsAlreadyScheduled` | tasks of calendar, feed and contact sources are keyed by display name: another user's source of the same name is refused as "already scheduled" |
| `MCOutboxLocalCopy.cfg` | `LocalOnce` | "are not given a second copy" (`internal/smtp/client/direct_send_task.go:230`); a message without `raw_email` gets a new Message-ID at every attempt, so that local recipients get a second copy on a retry; with `Raw = {directMsg}` they get one when the row of the first has been deleted for good meanwhile |
| `flags` | `StalePictureNotCopied` | a pull that fetched before a change and writes after its push reverts the flag, until the next pull (`internal/db/messages.go:464`) |
| `flags` | `PendingKeepsLocalFlags` | the pending check and the row are read at different times of one statement (`internal/db/messages.go:509`) |
| `journal`, Limit 5, MaxSeq 4, MaxErrors 0, 2 messages | `CommitsAreUnread` | numbers are taken before commit, the client adopts `MAX(seq)`: a lower one that commits later is never read (`migrations/043:4`) |
| `journal`, MaxErrors 0 | `AdoptedIsRead` | the tail is cut at 5000 entries, the head the client adopts is not (`internal/web/handlers_desktop.go:683`) |
| `journal`, Limit 5, MaxSeq 4 | `WatermarksFollowCache` | the client logs that a write of its cache failed and saves the watermark (`docs/desktop-architecture.md:21`: "must be an atomic sequence") |
| `journal`, Limit 5, MaxSeq 4, MaxErrors 0 | `ResetMeansResync` | the client never reads `reset` and goes on with changes since `conv_since` (`desktop/core/src/types.rs:138`) |
| the same | `JournalMatchesList` | a message moved to a folder outside the list is journaled as visible (`migrations/043:44`) |
| the same | `NextPollCatchesUp` | `server_now_ms` is taken after the messages were read: what commits in between is in neither answer (`docs/architecture-c4.md:256`) |
| the same | `ReappearanceIsNoticed` | `RestoreFromSpam` does not touch `updated_at`, by which alone the delta is chosen: the client it wakes up does not get the message before its next full sync (`internal/web/handlers_spam.go:229`) |
| `MCLoginBackoffLive.cfg` | `NewPasswordNotPaused` | a login begun with the old password reports after the new one was saved, and pauses it |
| the same | `EnabledIsWatched` | a watcher that ended by itself stays in the map: the account has none until it is edited |
| `mail_pull` | `EverythingIsPulled` | a message with neither Message-ID nor body is passed, and so is one without sender and subject; "dropping the message loses real mail" (`internal/imap/client/sync_task.go:452`) |
| `mail_pull` | `MassLossIsFollowed` | what the guard holds back, it holds back in every cycle: two of two rows expunged at once stay (`internal/imap/client/sync_vanished.go:28`, which means it) |
| `mail_pull`, `Msg = {m1}`, `Synthetic` and `Hollow` empty, MaxUid 2, MaxChanges 3, MaxPullFailures 0, no all-mail | `RestoredIsKept` | a restore leaves `remote_uid`, and the next cycle vanishes the message again (`internal/service/messages/vanished.go:46`, `docs/desktop-behavior-contract.md:636`) |
| the same, two folders | `EventuallyShown` | a message whose copy the first cycle found `\Deleted` and that loses the mark later stays below the bookmark |
| the same, the message in `Synthetic` | `SyntheticIsKept` | such a message, moved to another folder, cannot be searched for and goes to the vault (`internal/imap/client/sync_vanished.go:36`) |
| `calendar`, MaxChanges 2 | `EveryChangeArrives` | the entry is removed by id after the answer: an edit made during the request goes with it (`internal/worker/calendar_event_sync_task.go:217`, `internal/db/calendar_event_sync.go:247`) |
| `calendar` | `DeletedNeverRevived` | a failing question whether a deletion is queued is logged, and the event is created all the same (`internal/caldav/client/client.go:485`: "I deleted it, it came back, then it disappeared") |
| `contacts`, MaxChanges 2, MaxFailures 0 | `UnsentIsNotDeleted` | a card edited since the book was read is deleted if the remote has lost it: the delete does not ask for the mark, which the upsert beside it does (`internal/db/contacts.go:452`, 480) |
| `folder_uids` | `UidsNameOneMessageEver` | a claim outlives a change of its folder's numbering |
| `folder_uids`, 1 message, 1 session, MaxFolder 4, MaxUid 2, a fourth name | `RecreatedIsGreater` | of two folders, the newer one is deleted and made again within a second: the maximum no longer counts it, and it gets the UIDVALIDITY it had (`internal/db/folders.go:12`) |
| the same | `CreatedExists` | a name that clashes by type is answered OK and not created (`internal/db/folders.go:330`) |
| `invitations` | `EveryInviteFiled` | an invite that was given up, on a failing statement or for want of a destination, goes with its mail when another object in it succeeded (`internal/calendar/incoming.go:268`; line 305: "the invite would exist nowhere at all") |
| `invitations` | `InviteIsSomewhere` | the pull of a CalDAV calendar prunes an invitation that was filed there and whose mail has been taken away (`internal/calendar/incoming.go:305`) |
| `invitations` | `CancelTakesAll` | a CANCEL deletes the first row only (`internal/calendar/incoming.go:438`: "across all of the user's calendars"), and none if the look-up fails (line 464), and its mail goes all the same |
| `invitations` (feeds) | `DamageCostsNoRow` | the refusal looks at feeds without any event; one component with an unreadable date, or behind the place where the decoder stops, costs its event's row (`internal/worker/ics_sync_task.go:135`: "the events stay, the error surfaces on the source") |
| `invitations` (feeds) | `CommitShowsTheFeed` | a row that cannot be loaded is passed over, the rest is committed and the source's error cleared (`internal/worker/ics_sync_task.go:157`) |
| `invitations` (feeds) | `ManualRefusesToo` | the manual synchronisation believes an empty feed and empties the calendar, which the task refuses |
| `invitations` (feeds) | `GuestsAreKept` | the task's update erases the guest list; the web UI's comment explains why it must not (`internal/web/handlers_calendar_web.go:672`); a restart repairs it |
| `invitations` (feeds) | `OneCalendar` | task and manual synchronisation both find no calendar and make one each (`internal/worker/ics_sync_task.go:101`: "owns exactly one calendar") |
| `invitations` (feeds) | `UndisturbedCommits` | a feed that holds a UID twice violates UNIQUE(calendar_id, uid) and never syncs again |

The next push or pull repairs what concerns flags (`FlagsConverge`), the daily full
sync what concerns the journal (`CacheConverges`).

### Observations outside the models

* The web API's event handlers never queue (`internal/web/handlers_calendar.go:478`, 590,
  664): what they change reaches a remote calendar only with a later change.
* PUTs of the push carry no If-Match; the contacts' push reads the 50 oldest entries and
  has no back-off, so that 50 refused ones starve the rest; a back-off can reverse the
  deletion and the creation of one UID.
* `PushChanges` of both clients has no caller. The contacts' pull, push and PUT ask neither
  `enabled` nor `can_write`, nor does the upload of a calendar file.
* A manual calendar or contact synchronisation runs outside the pool, and so may overlap
  the task. The first one of a feed creates a disabled calendar (`Enabled` stays zero).
* An upload of a file whose event has an override keeps the last VEVENT of the UID only.
* Of equal SEQUENCE, a second copy of an invitation resets the answer; a CANCEL that
  arrives before its REQUEST is consumed, and the REQUEST revives the event; replies are
  not ordered.
* A message submitted again while the first copy is pending is queued twice: the
  submission server looks in Sent only. A stop between an outbox row and its attachments
  leaves them out for good.

## 5. Proofs

The theorems hold for any sets of tasks, workers, keys, messages, flags, recipients,
dialogs, transactions, folders, events, contacts, calendars and handlers and any
limits, under the named assumptions of the modules (`PoolAssumption`,
`OutboxAssumption`, `LoginBackoffAssumption`, ... and `NoneAssumption` where the null
value must differ from records too): the constants have their types, and the null
value is none of the others. `TypeOK` of each module is proved, and is not listed in
the runs. `PauseOnlyGrows` is proved and not run.

`IncomingProofs` holds the proofs of three components and `TwoWaySyncProofs` of two. The
first apart, they are instances with constants and variables of their own: `Pull` of
MailPull, brought in by `PulledMail`, `Feed` of CalendarFeeds, by `CalendarEvents`, and `Book`
of ContactSync, by `ContactBook`. The assumptions of an instantiated module would not be
facts for its user, so each of the three modules states of the instance what the
constants must be (`PullAssumption`, `FeedAssumption`, `BookAssumption`), and TLC evaluates
it on the runs of these modules. No theorem has a hypothesis about constants beside them.

* **Pool.** `TypeInv` adds to the types that a worker past the receive holds a task
  and that a parked task has its key. `PoolInv` is the inductive invariant: it says
  of each key, in terms of *places* (a slot of a lane, a hand, the parking place),
  that at most one place holds it, that it is in `queued` exactly then (until
  cancellation), that `running` is exactly the keys of executing workers, one
  worker each, and that a parked key is running. `SingleFlight` alone is not inductive:
  a follow-up could start a second run if the parked task's key were not the
  running one. The refinement needs `PoolInv` and that Stop cancels once.
* **Flag sync.** The invariant `Inv` joins the three safety properties with
  what a push and a pull in progress know: an entry the push has read and not
  handled yet is still queued and asks for the same, or its message `raced`, and a
  delete stays a delete in either case; what was just pushed is owed no more and
  carries no mark on the server; if the pull's statement saw nothing pending,
  nothing is, or the message raced. From the same invariant and a lemma on what a
  push may do to the server (`PushedEffect`) follows the action property
  `OnlyQueuedDeletesExpunge`.
* **Outbox, who sends.** `TypeInv` adds that a task that has begun has a message.
  `OneSender` is not inductive: after the status is recorded the winner still files its
  copy, and the next claim must find that row to be `sent` (`FilingIsSent`). A claim
  takes a `pending` row, hence one nobody holds (`PendingIsFree`). `FinalStaysFinal`
  follows, since every write of a status comes from a task whose row is in
  `sending`, or repeats `sent`.
* **Outbox, what it remembers.** Each recipient of a message that a task works on is
  in one of the task's lists: to do, got it, refused, to be tried again. The lists are
  related to what the recipients have and to what the row says (the books balance),
  and only the step that ends an attempt moves a row to a final status: so
  `NobodyForgotten` and `SavedWasSent`. The tries behind a message are those its row
  counts, or one more while a sender works on it, so `GivesUpLate`. `RelayedOnce` is a
  step property: a relay delivery begins with the row's list of those relayed.
* **Outbox, what it implements.** From `Inv` and the books, action by action: whoever
  has claimed a message is its only holder, keeps it or lets it go (`HolderSteps`), and
  takes it only when nobody holds it (`ClaimIsTake`); what is delivered is delivered to
  recipients of the message (`DeliveringIsReach`); at the two steps that settle it the
  books have an answer for everybody (`Settling`). What follows for a user of the queue
  is proved of the queue alone, with an invariant of its own (`PromiseNow`: a sent
  message has reached somebody, which `FiledWasSent` needs when Sent gets its copy), and
  carried over by the refinement: `OutboxKeepsPromise`.
* **Journal.** The invariant `Inv` joins the two safety properties with what an
  answer under way is worth (`AnswerInv`): the messages it brings are still listed,
  or changed since, and then announced or in doubt; a listed message it does not
  bring is older than the watermark. Without it nothing could be said of the step
  that stores the answer. Pruning keeps `GoneIsAnnounced` because the watermark
  moves with it: whoever has not read what is pruned is answered with a reset.
* **Login back-off.** Every step moves nobody, or one path, or cancels the watcher in
  the map (`PathStep`, `StillStep`, `CancelMoves`), and writes the row in one of four ways
  that are sound (`Sound`): kept, dropped, leased, or a failure recorded. The invariant
  adds the row's (a pause is the one due, `gap` measures from the last attempt) and the
  cause's: while no password was overtaken, what is under way uses the stored one, so
  a rejection speaks of it.
* **Folders and UIDs.** Whoever has claimed a UID and not used it yet holds one below
  the folder's next that no message was given and no other command claims, or the
  folder is `taint`ed. `Transfer` takes a block of numbers, and `TransferGives` says that
  it gives each message one of its own. EXPUNGE's picks were marked when read, and
  what it hits is still the same message under the same number.
* **Calendar.** Entries are dated: the user's last change of an event is in the
  queue, in the round that is being pushed, given up, upstream, or risky. What the
  push has read is current or risky; what the remote has accepted is settled; a row's
  key names its entry. `UnsentIsNotDeleted` follows from the types, as the transaction
  asks for the mark itself; `DeletedStaysDeleted` needs that what a pull has decided
  to create, and could ask about, has only younger deletions queued (`CreatesAreFree`).
* **Contacts.** The same argument without back-off and dead letters. `EditsAreSpared`
  rests on the mark when the pull compares and on the upsert's condition when it writes: a
  row for which an update was decided was clean then, so that whatever marks it
  before the writing is younger than the comparison (`UpdatesWereClean`).
  `UnsentIsNotDeleted` is false there (section 4).
* **Invitations.** Each stage of a handler has what it works with (`AllFit`): a message,
  a calendar, a row with a number that is older than the message. An update whose row
  has gone since the read is on record as `bereft` the moment the row goes, not when the
  update finds out. `Recorded` is a ledger: each invite a handler is past is in its
  `filed` or in its `passed`, a handler that comes to the attendees has the one it is at
  in `filed`,
  and whoever is about to take the mail away has an object that is not in `passed`; so
  `ConsumedWasFiled`. What has been applied stays known to the pull
  until its mail is purged (`AppliedIsKnown`), so `PulledInviteAppliedOnce`. Every row
  moves in one of four ways (`RowMoves`), so `SequenceNeverFalls`. `DestinationIsStable` is
  about operators: the calendar chosen is the first of the lowest rank, ranks do not
  depend on what is enabled, and finite sets of calendars have a first.
* **Mail pull.** `Typed` adds to the types that copies in one folder have UIDs of their
  own below UIDNEXT, that rows of the account name folders, and that steps inside a
  folder are inside one the cycle syncs. `NothingLostBelow` is not inductive: the bookmark
  written at the end of a folder rests on what the cycle has read of it. `Covered` says
  that a bookmark's UIDVALIDITY is not newer than the folder's, and its UID below UIDNEXT
  if they are equal (`MarksAreOld`), and that, unless the folder was numbered anew while
  the bookmark is about to be written, everything up to the top of the scan is safe
  (has a row, was passed, or is nameless), wanted, or noted as failed (`RunCovers`); a safe message
  stays safe, and the next bookmark stays below the lowest failed UID.
  `StayingIsKept` is about a whole cycle: what has stayed in a folder is still there
  (`StayedIsThere`), so a folder already asked has found it or the answer was no answer
  (`AskedIsKnown`), and what is put away at the end has stayed nowhere (`LostAreGone`).
* **Feeds.** Of the parsing: what is read of a text holds each of its components that is
  intact (`ParsedIsText`), whichever parser read it. Of the matching as an operator: a
  row whose UID the feed has is matched by
  UID (`UidIsTaken`), an event that content may place has one row of its content, which
  nobody claims (`ContentPlaces`), every event is matched or created (`PlacedIsMatched`),
  and no row is matched twice (`MatchesAreApart`), for any finite text and any rows with
  UIDs of their own. The invariant says that rows have: `Unique`, which the constraint
  keeps. Neither property is inductive: the matching is of rows as they were read.
  `Reading` says that whoever has read rows knows each once, and all of them as they
  are unless noted in `disturbed`; `Matching`, that what the task will write is what the
  matching says of the rows as they stand, without the matches it has `lost`, whose rows
  stay as they are (`LostStays`). A step that moves rows concerns one calendar
  and notes whoever works on it (`DisturbsOrQuiet`); everybody else is a `Bystander`.
  Ids are never given twice (`RowsNumbered`), so that an update aims at a
  row of its calendar or at none (`Aims`).

**Model-checked only.** Liveness is out of the prover's reach, and so is ENABLED:
`AcceptedTasksStart`, `WorkersLeave`, `ChangeReachesServer`, `FlagsConverge`,
`ComesToAnEnd`, `CacheConverges`, `EventuallyPulled`, `RowsTellTheTruth`,
`BothSidesAgree`, `CardsAgree`. Every other property that a run checks is the statement of a theorem.

## 6. What is not modelled, and the plan

Left out for good: parsing and generating MIME, iCalendar and vCard, spam
scoring, search indexing, TLS and address policies, DKIM, configuration, HTML
and HTTP plumbing, and the desktop client's rendering and cache of bodies. They are
conversions or I/O with little control of their own. Within the modelled parts: the
length of back-offs, the limit of 50 entries of a push and of 100 messages of a
scan, texts of errors, logging; the cut of the conversation list at the newest
ones, drafts, the values of flags in the client's cache, and what the client
removes from its cache before the server has; in the mail pull the user's rules, the
cap on one vanished check, servers without UIDVALIDITY, two cycles of one account at a
time and duplicates in a folder; edits of an event from an occurrence on; the local
edit of a feed's event; building invitations and sending them.

Done, in this order: `TaskPool` and `CoalescingScheduler`, `FlagSync`, `Outbox`
and `SendQueue`, `ChangeJournal`, `LoginBackoff`, `MailPull`, `FolderUids`, `CalendarSync`, `ContactSync`,
`Invitations`, `CalendarFeeds`, each with its proofs as section 5 says.

To come:

1. The sequence numbers of IMAP sessions against MOVE and EXPUNGE, the hub.
2. The desktop's list read folder by folder, with a folder that cannot be read, and
   the client's own deletions.
3. Spam rules: learning, blocking and the restore by a conversation.
4. The composition of scheduler, pool and tasks; the login rate limit.
