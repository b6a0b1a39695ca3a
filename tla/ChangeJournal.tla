--------------------------- MODULE ChangeJournal ---------------------------
(***************************************************************************)
(* The change journal and the desktop client that reads it.                *)
(*                                                                         *)
(* A trigger writes an entry for every change of a row of messages; the    *)
(* number comes from a sequence when the change is made, the entry is      *)
(* visible when the transaction commits.  A poll of the client is two      *)
(* requests: /changes, which tells it what to drop from its cache, and     *)
(* /conversations, which brings the dialogs that have changed since the    *)
(* watermark, or all of them once a day.                                   *)
(***************************************************************************)
EXTENDS Naturals, FiniteSets

CONSTANTS Message,   \* rows that may exist in messages; all have a Message-ID
          Mine,      \* those of the client's user
          Conv, ConvOf, \* dialogs, and the one a message belongs to
          Writer,    \* database transactions that may be open at a time
          Limit,     \* entries in one reply of /changes
          MaxSeq,    \* bound: journal entries ever written
          MaxClock,  \* bound: ticks of the server's clock
          MaxErrors, \* bound: writes of the client's cache that fail
          None

ASSUME JournalAssumption ==
    /\ Mine \subseteq Message
    /\ ConvOf \in [Message -> Conv]
    /\ Limit \in Nat \ {0}
    /\ MaxSeq \in Nat
    /\ MaxClock \in Nat \ {0}
    /\ MaxErrors \in Nat
    /\ None \notin Message

VARIABLES row,      \* messages: where the client would see it, and updated_at
          journal,  \* message_changes, committed
          nextSeq,  \* message_changes_seq_seq
          low,      \* journal_meta.low_watermark
          txn,      \* open transactions, each with the change it has made
          clock,    \* the server's clock
          cache,    \* the client: messages in its conversations
          cursor,   \* journal_seq
          since,    \* conv_since
          fullDue,  \* the last full sync is a day old
          poll,     \* the poll in progress
          errors,   \* how many cache writes failed
          doubt     \* history: messages the client may be wrong about until
                    \* the next full sync

server == <<row, journal, nextSeq, low, txn, clock>>
client == <<cache, cursor, since, fullDue, errors>>
vars == <<row, journal, nextSeq, low, txn, clock,
          cache, cursor, since, fullDue, poll, errors, doubt>>

\* "list" is a folder of the conversation list, "other" any other folder;
\* "hidden" is deleted, soft-deleted or spam, "none" no row.
Place == {"none", "list", "other", "hidden"}
Row == [place : Place, updated : Nat]
MessageChange == [seq : Nat, msg : Message, kind : {"upsert", "delete"}, ts : Nat]
Transaction == [msg : Message \cup {None}, place : Place, updated : Nat, seq : Nat, at : Nat]
Poll == [pc : {"idle", "low", "tail", "list", "stamp"},
         latest : Nat, low : Nat,       \* what /changes has read
         full : BOOLEAN,                \* all conversations are asked for
         convs : SUBSET Conv,           \* those in the answer
         got : SUBSET Mine,             \* and their messages
         late : SUBSET Mine]            \* history: changed since they were read

TypeOK ==
    /\ row \in [Message -> Row]
    /\ journal \subseteq MessageChange
    /\ nextSeq \in Nat
    /\ low \in Nat
    /\ txn \in [Writer -> Transaction]
    /\ clock \in Nat
    /\ cache \subseteq Mine
    /\ cursor \in Nat
    /\ since \in Nat
    /\ fullDue \in BOOLEAN
    /\ poll \in Poll
    /\ errors \in Nat
    /\ doubt \subseteq Mine

NoTxn == [msg |-> None, place |-> "none", updated |-> 0, seq |-> 0, at |-> 0]
Idle == [pc |-> "idle", latest |-> 0, low |-> 0, full |-> FALSE,
         convs |-> {}, got |-> {}, late |-> {}]

Init ==
    /\ row = [m \in Message |-> [place |-> "none", updated |-> 0]]
    /\ journal = {}
    /\ nextSeq = 1
    /\ low = 0
    /\ txn = [w \in Writer |-> NoTxn]
    /\ clock = 1
    /\ cache = {}
    /\ cursor = 0
    /\ since = 0
    /\ fullDue = TRUE
    /\ poll = Idle
    /\ errors = 0
    /\ doubt = {}

-----------------------------------------------------------------------------
(* The server: changes of messages and the trigger. *)

\* Mutant: the row's removal is not journaled as one.
KindByFlags(place) == IF place = "hidden" THEN "delete" ELSE "upsert"

\* record_message_change.
Kind(place) == IF place \in {"hidden", "none"} THEN "delete" ELSE "upsert"

Open(w) == txn[w].msg # None

\* A row is changed to be at place, with this updated_at, and the trigger takes a
\* number.  The row is locked until the transaction ends.
Write(w, m, place, updated) ==
    /\ nextSeq <= MaxSeq
    /\ ~Open(w)
    /\ \A v \in Writer : txn[v].msg # m
    /\ row[m].place = "none" => place # "none"
    /\ txn' = [txn EXCEPT ![w] = [msg |-> m, place |-> place, updated |-> updated,
                                  seq |-> nextSeq, at |-> clock]]
    /\ nextSeq' = nextSeq + 1
    /\ UNCHANGED <<row, journal, low, clock, client, poll, doubt>>

\* A row is inserted, removed, hidden, restored, moved, or a flag of it changes.
Update(w, m, place) == Write(w, m, place, IF place = "none" THEN 0 ELSE clock)

\* MarkMessageAsSpam and RestoreFromSpam (to the INBOX) leave updated_at alone.
MarkSpam(w, m) == row[m].place \in {"list", "other"} /\ Write(w, m, "hidden", row[m].updated)
RestoreFromSpam(w, m) ==
    row[m].place \in {"hidden", "other"} /\ Write(w, m, "list", row[m].updated)

Changed(t) == [place |-> t.place, updated |-> t.updated]

\* The client will not learn of a deletion whose number it has passed, of a message
\* that comes into view with a time its watermark has passed, and of a move out of
\* the list, until its conversation changes again.
Unnoticed(t) ==
    \/ Kind(t.place) = "delete" /\ t.seq <= cursor
    \/ t.place = "list" /\ t.updated <= since
    \/ t.place = "other"

Commit(w) ==
    LET t == txn[w] IN
    /\ Open(w)
    /\ row' = [row EXCEPT ![t.msg] = Changed(t)]
    /\ journal' = journal \cup {[seq |-> t.seq, msg |-> t.msg, kind |-> Kind(t.place),
                                 ts |-> t.at]}
    /\ txn' = [txn EXCEPT ![w] = NoTxn]
    /\ poll' = [poll EXCEPT !.late = IF poll.pc = "stamp" THEN @ \cup ({t.msg} \cap Mine) ELSE @]
    /\ doubt' = IF Unnoticed(t) THEN doubt \cup ({t.msg} \cap Mine) ELSE doubt
    /\ UNCHANGED <<nextSeq, low, clock, client>>

Rollback(w) ==
    /\ Open(w)
    /\ txn' = [txn EXCEPT ![w] = NoTxn]
    /\ UNCHANGED <<row, journal, nextSeq, low, clock, client, poll, doubt>>

Tick ==
    /\ clock < MaxClock
    /\ clock' = clock + 1
    /\ UNCHANGED <<row, journal, nextSeq, low, txn, client, poll, doubt>>

\* Mutant: the watermark stays behind what is pruned.
CompactSilently(cutoff) ==
    LET pruned == {e \in journal : e.ts < cutoff} IN
    /\ cutoff <= clock
    /\ \A w \in Writer : Open(w) => cutoff <= txn[w].at
    /\ pruned # {}
    /\ journal' = journal \ pruned
    /\ UNCHANGED <<row, nextSeq, low, txn, clock, client, poll, doubt>>

\* CompactMessageChanges, one statement.  No transaction is open for as long
\* as the journal is kept.
CompactMessageChanges(cutoff) ==
    LET pruned == {e \in journal : e.ts < cutoff} IN
    /\ cutoff <= clock
    /\ \A w \in Writer : Open(w) => cutoff <= txn[w].at
    /\ pruned # {}
    /\ journal' = journal \ pruned
    /\ \E seq \in {low} \cup {e.seq : e \in pruned} :
          /\ low <= seq
          /\ \A e \in pruned : e.seq <= seq
          /\ low' = seq
    /\ UNCHANGED <<row, nextSeq, txn, clock, client, poll, doubt>>

-----------------------------------------------------------------------------
(* The client: GET /changes. *)

\* GetMessageChanges reads the head, the low watermark and the tail in three
\* statements.
PollHead ==
    /\ poll.pc = "idle"
    /\ \E seq \in {0} \cup {e.seq : e \in journal} :
          /\ \A e \in journal : e.seq <= seq
          /\ poll' = [Idle EXCEPT !.pc = "low", !.latest = seq]
    /\ UNCHANGED <<server, client, doubt>>

PollLow ==
    /\ poll.pc = "low"
    /\ poll' = [poll EXCEPT !.pc = "tail", !.low = low]
    /\ UNCHANGED <<server, client, doubt>>

Unread == {e \in journal : e.msg \in Mine /\ e.seq > cursor}
Reset == cursor = 0 \/ cursor < poll.low

\* The lowest entries of the tail, at most Limit.
IsTail(tail) ==
    /\ tail \subseteq Unread
    /\ Cardinality(tail) <= Limit
    /\ tail # Unread => Cardinality(tail) = Limit
    /\ \A e \in tail, f \in Unread \ tail : e.seq < f.seq

Tombstones(entries) == {e.msg : e \in {x \in entries : x.kind = "delete"}}

\* What a reply leaves out up to the head the client adopts: everything if it is a
\* reset, or if the journal was pruned since the watermark was read.
Skipped(tail) ==
    IF Reset \/ low # poll.low THEN Mine
    ELSE {e.msg : e \in {x \in Unread \ tail : x.seq <= poll.latest}}

\* The last statement; the client drops the tombstones' messages, if the cache
\* can be written, and adopts the head.
PollTail ==
    /\ poll.pc = "tail"
    /\ \E tail \in SUBSET Unread, ok \in BOOLEAN :
        LET gone == IF Reset THEN {} ELSE Tombstones(tail)
            kept == {m \in gone : row[m].place = "list" /\ row[m].updated <= since} IN
        /\ IsTail(tail)
        /\ ok \/ errors < MaxErrors
        /\ cache' = IF ok THEN cache \ gone ELSE cache
        /\ errors' = IF ok THEN errors ELSE errors + 1
        /\ doubt' = doubt \cup Skipped(tail) \cup kept \cup (IF ok THEN {} ELSE gone)
    /\ cursor' = IF poll.latest > 0 THEN poll.latest ELSE cursor
    /\ poll' = [Idle EXCEPT !.pc = "list"]
    /\ UNCHANGED <<server, since, fullDue>>

\* The request fails; the client goes on without it.
ChangesFail ==
    /\ poll.pc \in {"low", "tail"}
    /\ poll' = [Idle EXCEPT !.pc = "list"]
    /\ UNCHANGED <<server, client, doubt>>

-----------------------------------------------------------------------------
(* The client: GET /conversations. *)

Listed == {m \in Mine : row[m].place = "list"}
In(c) == {m \in Listed : ConvOf[m] = c}

\* Mutant: conversations of the watermark's own tick are asked for too late.
ChangedLongSince(c) == \E m \in In(c) : row[m].updated > since + 1

\* A conversation is as new as the newest of its messages.
ChangedSince(c) == \E m \in In(c) : row[m].updated > since

FullSync == fullDue \/ since = 0

\* HandleDesktopConversations reads the messages and groups them.
PollList ==
    LET convs == {c \in Conv : In(c) # {} /\ (FullSync \/ ChangedSince(c))} IN
    /\ poll.pc = "list"
    /\ poll' = [poll EXCEPT !.pc = "stamp", !.full = FullSync, !.convs = convs,
                            !.got = {m \in Listed : ConvOf[m] \in convs}]
    /\ UNCHANGED <<server, client, doubt>>

\* Mutant: a full answer is merged, too.
MergedAlways ==
    {m \in cache : ConvOf[m] \notin poll.convs} \cup poll.got

\* save_conversations, upsert_conversations.
Merged ==
    IF poll.full THEN poll.got
    ELSE {m \in cache : ConvOf[m] \notin poll.convs} \cup poll.got

\* It answers with the clock; the client writes the conversations to its cache and
\* the watermark, the latter also if the cache cannot be written.
PollStore ==
    LET old == {m \in poll.late : row[m].place = "list" /\ row[m].updated <= clock} IN
    /\ poll.pc = "stamp"
    /\ \E ok \in BOOLEAN :
        /\ ok \/ errors < MaxErrors
        /\ cache' = IF ok THEN Merged ELSE cache
        /\ errors' = IF ok THEN errors ELSE errors + 1
        /\ doubt' = IF ~ok THEN doubt \cup poll.got \cup old
                    ELSE IF poll.full THEN (doubt \cap poll.late) \cup old
                    ELSE doubt \cup old
    /\ since' = clock
    /\ fullDue' = (fullDue /\ ~poll.full)
    /\ poll' = Idle
    /\ UNCHANGED <<server, cursor>>

\* The request fails, or the client is closed.
ListFails ==
    /\ poll.pc \in {"list", "stamp"}
    /\ poll' = Idle
    /\ UNCHANGED <<server, client, doubt>>

\* Or the user deletes or blocks something in the client.
DayPasses ==
    /\ ~fullDue
    /\ fullDue' = TRUE
    /\ UNCHANGED <<server, cache, cursor, since, errors, poll, doubt>>

-----------------------------------------------------------------------------
ServerStep ==
    \/ \E w \in Writer, m \in Message, place \in Place : Update(w, m, place)
    \/ \E w \in Writer, m \in Message : MarkSpam(w, m) \/ RestoreFromSpam(w, m)
    \/ \E w \in Writer : Commit(w) \/ Rollback(w)
    \/ Tick
    \/ \E cutoff \in 1..MaxClock : CompactMessageChanges(cutoff)

ClientStep ==
    \/ PollHead \/ PollLow \/ PollTail \/ ChangesFail
    \/ PollList \/ PollStore \/ ListFails

Next == ServerStep \/ ClientStep \/ DayPasses

Spec == Init /\ [][Next]_vars

\* Transactions end, days pass and the client polls again and again; its requests
\* succeed again and again, those for everything among them.
Fairness ==
    /\ \A w \in Writer : WF_vars(Commit(w) \/ Rollback(w))
    /\ WF_vars(DayPasses)
    /\ WF_vars(ClientStep)
    /\ SF_vars(PollTail)
    /\ SF_vars(PollList)
    /\ SF_vars(PollStore /\ poll.full)

FairSpec == Spec /\ Fairness

-----------------------------------------------------------------------------
(* Safety. *)

\* The next replies of /changes bring a tombstone of m, or a reset.
Announced(m) ==
    \/ cursor < low
    \/ \E e \in journal : e.msg = m /\ e.kind = "delete" /\ e.seq > cursor

\* A deletion elsewhere drops off the client "without a full resync"
\* (engine.rs): what it still shows although it has left the list is announced
\* to it, unless the message is in doubt.
GoneIsAnnounced == \A m \in cache \ (Listed \cup doubt) : Announced(m)

\* What it lacks although it has come into the list is newer than its
\* watermark, so that the next poll brings it, unless the message is in doubt.
NewIsDelivered ==
    \A m \in Listed \ (cache \cup doubt) : row[m].updated > since

\* "Invisible to the client (matches the conversation-list filter) = a delete"
\* (migration 043): the last entry of a message tells whether the list shows it.
\* The code refutes it.
JournalMatchesList ==
    \A e \in journal :
        e.msg \in Mine /\ (\A f \in journal : f.msg = e.msg => f.seq <= e.seq) =>
            (e.kind = "upsert" <=> e.msg \in Listed)

\* The cursor is "a monotone seq cursor" (provider.rs): what becomes visible
\* is beyond it.  The code refutes it.
CommitsAreUnread ==
    [][\A e \in journal' \ journal : e.seq > cursor]_vars

\* The client reads the tail up to the head it adopts: no tombstone below it is
\* left in the cache, failing writes aside.  The code refutes it.
AdoptedIsRead ==
    [][cursor' # cursor /\ errors' = errors /\ ~Reset =>
          \A e \in Unread : e.kind = "delete" /\ e.seq <= cursor' => e.msg \notin cache']_vars

\* "fetch, apply, save the new watermark must be an atomic sequence"
\* (desktop-architecture.md): a write that fails leaves the watermarks alone.
\* The code refutes it.
WatermarksFollowCache ==
    [][errors' # errors => UNCHANGED <<cursor, since>>]_vars

\* "A full conversation resync should adopt latest_seq" (types.rs) after a reset.
\* The code refutes it.
ResetMeansResync == [][cursor' # cursor /\ Reset => FullSync']_vars

\* "A missed push is caught at the next check" (architecture-c4.md): between two
\* polls the client is owed only what the next one will bring.  The code
\* refutes it.
NextPollCatchesUp ==
    poll.pc = "idle" => \A m \in Listed \ cache : row[m].updated > since

\* "Without this the desktop client doesn't notice the message reappearing in INBOX"
\* (HandleRestoreFromSpam, of its wake-up call): what comes into the list in a
\* transaction begun since the client's watermark is newer than it, so that the
\* client does notice.  The code refutes it.
ReappearanceIsNoticed ==
    [][\A w \in Writer :
          LET t == txn[w] IN
          Open(w) /\ row'[t.msg] # row[t.msg] /\ t.place = "list" /\ t.at > since =>
              row'[t.msg].updated > since]_vars

-----------------------------------------------------------------------------
(* Liveness, under FairSpec. *)

\* When the changes cease (here because MaxSeq bounds them) the client comes to show
\* the list, whatever it has missed before, and goes on showing it.
CacheConverges == <>[](cache = Listed)
=============================================================================
