------------------------------- MODULE MailPull -------------------------------
(***************************************************************************)
(* The pull of one external IMAP account: a cycle goes through the synced  *)
(* folders one after the other, reads what is new above each folder's      *)
(* bookmark, and in the end decides which of the rows it knew at the start *)
(* have vanished upstream; those go to the vault.                          *)
(*                                                                         *)
(* Every command of the IMAP session and every write of the database that  *)
(* others may come in between of is a step: other clients of the source    *)
(* account file, copy and expunge messages, users change, delete and       *)
(* restore rows, the worker that pushes their changes runs beside.         *)
(*                                                                         *)
(* A message is its Message-ID, and a row of the user is one message. A    *)
(* move upstream is a copy and an expunge. Rules of the user and the flags *)
(* that are only mirrored are left out (FlagSync.tla has those).           *)
(***************************************************************************)
EXTENDS Naturals, Sequences, FiniteSets

CONSTANTS Msg,         \* messages
          Synthetic,   \* those without a Message-ID of their own
          Blank,       \* those without sender and subject, or without an envelope
          Hollow,      \* Synthetic ones whose text the server does not give either
          Suspect,     \* those our analyzer takes for spam
          Synced,      \* the folders a cycle syncs, in the order of LIST
          AllMail,     \* folders that are only searched
          Junk,        \* spam folders
          GuardMin,    \* vanishGuardMin
          MaxUid,      \* bound: UIDs per folder and UIDVALIDITY
          MaxChanges,  \* bound: what others do
          MaxFailures, \* bound: commands and statements that fail, crashes
          None

Elements(s) == {s[i] : i \in DOMAIN s}
Searched == Synced \o AllMail
Folder == Elements(Searched)
Uid == 1 .. MaxUid

\* What the constants must be, PulledMail assumes of its
\* instance (PullAssumption).

VARIABLES mail,     \* what is upstream
          next,     \* UIDNEXT of each folder
          valid,    \* UIDVALIDITY of each folder
          row,      \* the row of each message, if there is one
          mark,     \* remote_folder_state: each folder's bookmark, if there is one
          run,      \* the cycle
          skipped,  \* history: messages a cycle found \Deleted upstream and passed
          stayed,   \* history: where messages have been since the cycle began
          restored, \* history: messages the user has taken out of the vault
          changes, failures

upstream == <<mail, next, valid>>
history == <<skipped, stayed, restored>>
vars == <<mail, next, valid, row, mark, run, skipped, stayed, restored,
          changes, failures>>

Mail == [folder : Folder, uid : Uid, msg : Msg, del : BOOLEAN]
Ref == [folder : Folder, uid : Uid, msg : Msg]
Bookmark == [valid : Nat, last : 0 .. MaxUid]
Entry == [del : BOOLEAN, folder : Folder, uid : Uid]
MessageRow == [live : BOOLEAN,    \* not in the vault
               owned : BOOLEAN,   \* this account's, not delivered by another source
               folder : Folder \cup {None}, uid : 0 .. MaxUid,  \* the copy it mirrors
               spam : BOOLEAN,
               leaving : BOOLEAN, \* \Deleted set or in a local Trash
               queue : Entry \cup {None}]  \* its row of flag_sync_queue

\* What a cycle keeps, and of the folder it is in: the plan and the scan.
Cycle == [pc : {"idle", "open", "flags", "scan", "bodies", "mark", "search", "vault"},
          at : 1 .. (Len(Searched) + 1),
          base : SUBSET Ref,   \* refs of the rows before the cycle
          seen : SUBSET Msg,   \* Message-IDs met upstream
          lost : SUBSET Ref,   \* refs not found; in the end those to put away
          found : SUBSET Ref, unsure : SUBSET Msg,
          whole : BOOLEAN,     \* no folder has failed
          valid : Nat, last : 0 .. MaxUid, next : 1 .. (MaxUid + 1),
          byUid : BOOLEAN, byId : BOOLEAN, present : SUBSET Uid,
          want : SUBSET Uid, top : 0 .. MaxUid, failed : SUBSET Uid]

TypeOK ==
    /\ mail \subseteq Mail
    /\ next \in [Folder -> 1 .. (MaxUid + 1)]
    /\ valid \in [Folder -> Nat]
    /\ row \in [Msg -> MessageRow \cup {None}]
    /\ mark \in [Folder -> Bookmark \cup {None}]
    /\ run \in Cycle
    /\ skipped \subseteq Msg /\ restored \subseteq Msg
    /\ stayed \subseteq Msg \X Folder
    /\ changes \in 0 .. MaxChanges /\ failures \in 0 .. MaxFailures

Idle == [pc |-> "idle", at |-> 1, base |-> {}, seen |-> {}, lost |-> {},
         found |-> {}, unsure |-> {}, whole |-> TRUE,
         valid |-> 0, last |-> 0, next |-> 1, byUid |-> FALSE, byId |-> FALSE,
         present |-> {}, want |-> {}, top |-> 0, failed |-> {}]

\* Before the account is added, mail has arrived.
Init ==
    /\ mail \in SUBSET {r \in Mail : ~r.del}
    /\ \A r, s \in mail : r.folder = s.folder /\ (r.uid = s.uid \/ r.msg = s.msg) => r = s
    /\ \A r \in mail : \A u \in 1 .. r.uid : \E s \in mail : s.folder = r.folder /\ s.uid = u
    /\ next = [f \in Folder |-> Cardinality({r \in mail : r.folder = f}) + 1]
    /\ valid = [f \in Folder |-> 1]
    /\ row = [m \in Msg |-> None]
    /\ mark = [f \in Folder |-> None]
    /\ run = Idle
    /\ skipped = {} /\ stayed = {} /\ restored = {}
    /\ changes = 0 /\ failures = 0

In(f) == {r \in mail : r.folder = f}
Msgs(refs) == {r.msg : r \in refs}
Uids(refs) == {r.uid : r \in refs}

Fails == failures < MaxFailures /\ failures' = failures + 1
Works == UNCHANGED failures

-----------------------------------------------------------------------------
(* The database.                                                           *)

\* A row of this account that mirrors a copy.
Mirrors(m) == row[m] # None /\ row[m].owned /\ row[m].uid > 0

\* refreshKnownMessage: the row follows the copy that has just been met, in the
\* vault or not.  A row that is spam already is left alone by a copy in a spam
\* folder.
Refreshed(m, f, uid) ==
    IF row[m] = None \/ ~row[m].owned \/ (f \in Junk /\ row[m].spam) THEN row[m]
    ELSE [row[m] EXCEPT !.folder = f, !.uid = uid, !.spam = f \in Junk]

\* Every copy in refs is met; those whose message is in new get a row.
RowsAfter(refs, new) ==
    [m \in Msg |->
       IF \E r \in refs : r.msg = m
       THEN LET r == CHOOSE r \in refs : r.msg = m
            IN  IF m \in new
                THEN [live |-> TRUE, owned |-> TRUE, folder |-> r.folder, uid |-> r.uid,
                      spam |-> r.folder \in Junk \/ m \in Suspect,
                      leaving |-> FALSE, queue |-> None]
                ELSE Refreshed(m, r.folder, r.uid)
       ELSE row[m]]

\* GetRemoteMessageRefs gives one row per UID, if two claim it.
Baselines ==
    LET all == {[folder |-> row[m].folder, uid |-> row[m].uid, msg |-> m] :
                  m \in {n \in Msg : Mirrors(n)}}
    IN  {b \in SUBSET all : \A r \in all : \E s \in b :
            /\ s.folder = r.folder /\ s.uid = r.uid
            /\ \A t \in b : t.folder = r.folder /\ t.uid = r.uid => t = s}

-----------------------------------------------------------------------------
(* One folder after the other.                                             *)

Begin ==
    /\ run.pc = "idle"
    /\ \E base \in Baselines : run' = [Idle EXCEPT !.pc = "open", !.base = base]
    /\ stayed' = {<<r.msg, r.folder>> : r \in mail}
    /\ UNCHANGED <<upstream, row, mark, skipped, restored, changes, failures>>

\* folderPresence.gone: what the folder is proven not to hold any more.
Gone(r, f) ==
    {g \in r.base : /\ g.folder = f
                    /\ \/ r.byUid /\ g.uid <= r.last /\ g.uid \notin r.present
                       \/ r.byId}

\* On to the next folder, with what this one has shown.
Leave(r, f) ==
    [Idle EXCEPT !.pc = "open", !.at = r.at + 1, !.base = r.base, !.seen = r.seen,
                 !.whole = r.whole, !.lost = r.lost \cup Gone(r, f)]

\* It has failed, and shows nothing.
Abandon(r, f) == Leave([r EXCEPT !.whole = FALSE, !.byUid = FALSE, !.byId = FALSE], f)

\* The statement that writes the bookmark may fail; nobody minds.
SaveMark(f, v, last) ==
    \/ mark' = [mark EXCEPT ![f] = [valid |-> v, last |-> last]] /\ Works
    \/ UNCHANGED mark /\ Fails

\* Mutant: a bookmark counts whatever UIDVALIDITY it was written under.
PlanAnyValidity(f, st) ==
    LET last == IF st = None THEN 0 ELSE st.last
    IN  [run EXCEPT !.valid = valid[f], !.next = next[f], !.last = last,
                    !.byUid = st # None, !.byId = FALSE,
                    !.pc = IF last > 0 THEN "flags" ELSE "scan"]

\* planFolderSync, for the bookmark st.
Plan(f, st) ==
    LET full == st = None \/ st.valid # valid[f]
        last == IF full THEN 0 ELSE st.last
    IN  [run EXCEPT !.valid = valid[f], !.next = next[f], !.last = last,
                    !.byUid = ~full, !.byId = full /\ st # None,
                    !.pc = IF last > 0 THEN "flags" ELSE "scan"]

\* SELECT and the bookmark; one that cannot be read is no bookmark.  An empty
\* folder is done with.
Open(f) ==
    /\ run.pc = "open"
    /\ run.at <= Len(Synced) /\ Synced[run.at] = f
    /\ \/ /\ In(f) # {}
          /\ \/ run' = Plan(f, mark[f]) /\ Works
             \/ run' = Plan(f, None) /\ Fails
          /\ UNCHANGED mark
       \/ /\ In(f) = {}
          /\ LET p == Plan(f, mark[f]) IN
               /\ run' = Leave([p EXCEPT !.byId = FALSE], f)
               /\ SaveMark(f, p.valid, IF p.next - 1 > p.last THEN p.next - 1 ELSE p.last)
       \/ /\ run' = Abandon(run, f)
          /\ Fails
          /\ UNCHANGED mark
    /\ UNCHANGED <<upstream, row, history, changes>>

\* The light pass over what is below the bookmark: which UIDs are still there,
\* and for the rows that had them at the start their flags.  A row whose refresh
\* fails counts as seen all the same.
RefreshFlags(f) ==
    LET below == {r \in In(f) : r.uid <= run.last}
        met == {b \in run.base : b.folder = f
                  /\ \E r \in below : r.uid = b.uid /\ ~r.del}
        More(r) == IF run.next > run.last + 1 THEN [r EXCEPT !.pc = "scan"] ELSE Leave(r, f)
    IN  /\ run.pc = "flags"
        /\ Synced[run.at] = f
        /\ \/ /\ run' = More([run EXCEPT !.present = Uids(below), !.seen = @ \cup Msgs(met)])
              /\ \E kept \in SUBSET met :
                   /\ row' = RowsAfter(met \ kept, {})
                   /\ IF kept = {} THEN Works ELSE Fails
           \/ /\ run' = More([run EXCEPT !.byUid = FALSE])
              /\ UNCHANGED row
              /\ Fails
        /\ UNCHANGED <<upstream, mark, history, changes>>

\* Envelopes of what is above the bookmark (triageEnvelope).  Blank ones are passed
\* without a word, copies marked \Deleted are passed; known messages are refreshed,
\* the others' bodies wanted; looking one up may fail.
Scan(f) ==
    LET above == {r \in In(f) : r.uid > run.last}
        blank == {r \in above : r.msg \in Blank}
        dead == {r \in above \ blank : r.del}
        named == {r \in above \ (blank \cup dead) : r.msg \notin Synthetic}
    IN  /\ run.pc = "scan"
        /\ Synced[run.at] = f
        /\ \/ /\ \E bad \in SUBSET named : \E kept \in SUBSET (named \ bad) :
                   LET known == {r \in named \ bad : row[r.msg] # None}
                       want == above \ (blank \cup dead \cup bad \cup known)
                   IN  /\ kept \subseteq known
                       /\ IF bad \cup kept = {} THEN Works ELSE Fails
                       /\ row' = RowsAfter(known \ kept, {})
                       /\ run' = [run EXCEPT
                            !.pc = IF want = {} THEN "mark" ELSE "bodies",
                            !.seen = @ \cup Msgs(known) \cup (Msgs(dead) \ Synthetic),
                            !.want = Uids(want), !.failed = Uids(bad),
                            !.top = IF above = {} THEN 0
                                    ELSE CHOOSE u \in Uids(above) : \A v \in Uids(above) : v <= u]
              /\ skipped' = skipped \cup Msgs(dead)
           \/ /\ run' = Abandon(run, f)
              /\ Fails
              /\ UNCHANGED <<row, skipped>>
        /\ UNCHANGED <<upstream, mark, stayed, restored, changes>>

\* The bodies that are wanted and still there are saved, unless that fails; what
\* another source has delivered meanwhile is refreshed, what has no body to make a
\* Message-ID of is passed without a word (saveMessageToInbox).  The fetch may break
\* off.
FetchBodies(f) ==
    LET there == {r \in In(f) : r.uid \in run.want}
        dead == {r \in there : r.del}
        good == {r \in there \ dead : r.msg \notin Hollow}
    IN  /\ run.pc = "bodies"
        /\ Synced[run.at] = f
        /\ \E got \in SUBSET good :
           \E kept \in SUBSET got :
             LET known == {r \in got : row[r.msg] # None}
                 run1 == [run EXCEPT !.seen = @ \cup Msgs(known)]
             IN  /\ kept \subseteq known
                 /\ row' = RowsAfter(got \ kept, Msgs(got \ known))
                 /\ \/ /\ run' = [run1 EXCEPT !.pc = "mark", !.want = {},
                                     !.failed = @ \cup Uids(good \ got)]
                       /\ skipped' = skipped \cup Msgs(dead)
                       /\ IF got \ kept = good THEN Works ELSE Fails
                    \/ /\ run' = Abandon(run1, f)
                       /\ Fails
                       /\ UNCHANGED skipped
        /\ UNCHANGED <<upstream, mark, stayed, restored, changes>>

\* Mutant: what could not be saved is passed all the same.
NextLastSeenPast(prev, top, failed) == IF top > prev THEN top ELSE prev

\* The bookmark stays below the lowest UID that has failed.
NextLastSeen(prev, top, failed) ==
    LET last == IF top > prev THEN top ELSE prev
        low == {u \in failed : u > prev /\ u - 1 < last}
    IN  IF low = {} THEN last ELSE (CHOOSE u \in low : \A v \in low : u <= v) - 1

WriteMark(f) ==
    /\ run.pc = "mark"
    /\ Synced[run.at] = f
    /\ SaveMark(f, run.valid, NextLastSeen(run.last, run.top, run.failed))
    /\ run' = Leave([run EXCEPT !.byId = @ /\ run.failed = {}], f)
    /\ UNCHANGED <<upstream, row, history, changes>>

-----------------------------------------------------------------------------
(* After all folders: what has vanished upstream.                          *)

\* The row still mirrors that copy and no change of the user's is in flight.
Untouched(g) ==
    /\ Mirrors(g.msg) /\ row[g.msg].folder = g.folder /\ row[g.msg].uid = g.uid
    /\ row[g.msg].live /\ row[g.msg].queue = None /\ ~row[g.msg].leaving

\* The mass-deletion guard.
Held(cands, f) ==
    LET n == Cardinality({g \in cands : g.folder = f})
        live == Cardinality({m \in Msg : Mirrors(m) /\ row[m].live /\ row[m].folder = f})
    IN  f \notin Junk /\ n > GuardMin /\ 2 * n > live

Search == [Idle EXCEPT !.pc = "search", !.whole = run.whole]

\* planVanished; the rows may not be readable.
Judge ==
    LET cands == {g \in run.lost : g.msg \notin run.seen /\ Untouched(g)}
        named == {g \in cands : ~Held(cands, g.folder)}
    IN  /\ run.pc = "open"
        /\ run.at > Len(Synced)
        /\ \/ run' = (IF named = {} THEN Idle ELSE [Search EXCEPT !.lost = named]) /\ Works
           \/ run' = Idle /\ Fails
        /\ UNCHANGED <<upstream, row, mark, history, changes>>

\* One folder is asked for the candidates not found yet; it may not answer.
AskFolder(f) ==
    LET ask == {g \in run.lost : g.msg \notin Synthetic \cup Msgs(run.found)}
    IN  /\ run.pc = "search"
        /\ run.at <= Len(Searched) /\ Searched[run.at] = f
        /\ \E bad \in SUBSET ask :
             /\ IF bad = {} THEN Works ELSE Fails
             /\ run' = [run EXCEPT !.at = @ + 1, !.unsure = @ \cup Msgs(bad),
                          !.found = @ \cup {[folder |-> f, uid |-> r.uid, msg |-> r.msg] :
                                              r \in {r \in In(f) : r.msg \in Msgs(ask \ bad)}}]
        /\ UNCHANGED <<upstream, row, mark, history, changes>>

\* Mutant: a folder that did not answer counts as one that holds nothing.
GoneForGoodUnasked ==
    {g \in run.lost : g.msg \notin Msgs(run.found) /\ (g.msg \in Synthetic => run.whole)}

\* Neither found anywhere nor unsure; what cannot be searched for counts as gone
\* when every folder was read.
GoneForGood ==
    {g \in run.lost : /\ g.msg \notin Msgs(run.found) \cup run.unsure
                      /\ g.msg \in Synthetic => run.whole}

\* Mutant: the row is left pointing at the copy that is gone.
FollowNot(g) == row[g.msg]

\* RepointRemoteMessage: a row that was found elsewhere follows, unless it points
\* somewhere else by now.
Follow(g) ==
    LET new == CHOOSE r \in run.found : r.msg = g.msg
    IN  IF Mirrors(g.msg) /\ row[g.msg].folder = g.folder /\ row[g.msg].uid = g.uid
        THEN [row[g.msg] EXCEPT !.folder = new.folder, !.uid = new.uid]
        ELSE row[g.msg]

Decide ==
    /\ run.pc = "search"
    /\ run.at > Len(Searched)
    /\ \E kept \in SUBSET Msgs(run.found) :
         /\ row' = [m \in Msg |-> IF m \in Msgs(run.found) \ kept
                                  THEN Follow(CHOOSE g \in run.lost : g.msg = m) ELSE row[m]]
         /\ IF kept = {} THEN Works ELSE Fails
    /\ run' = IF GoneForGood = {} THEN Idle ELSE [Idle EXCEPT !.pc = "vault", !.lost = GoneForGood]
    /\ UNCHANGED <<upstream, mark, history, changes>>

\* DeleteVanishedUpstream, under the lock of the row: to the vault, and its UID
\* is forgotten.  It may fail.
Vault(g) ==
    /\ run.pc = "vault"
    /\ g \in run.lost
    /\ \/ /\ Untouched(g)
          /\ row' = [row EXCEPT ![g.msg].live = FALSE, ![g.msg].uid = 0]
          /\ restored' = restored \ {g.msg}
          /\ Works
       \/ /\ UNCHANGED <<row, restored>>
          /\ IF Untouched(g) THEN Fails ELSE Works
    /\ run' = IF run.lost = {g} THEN Idle ELSE [run EXCEPT !.lost = @ \ {g}]
    /\ UNCHANGED <<upstream, mark, skipped, stayed, changes>>

\* The process dies, the task is cancelled, the connection breaks.
Crash ==
    /\ run.pc # "idle"
    /\ Fails
    /\ run' = Idle
    /\ UNCHANGED <<upstream, row, mark, history, changes>>

-----------------------------------------------------------------------------
(* Upstream.                                                               *)

Change == changes < MaxChanges /\ changes' = changes + 1

\* A copy of m is filed in f: delivered, copied, taken back from the trash.
File(m, f) ==
    /\ Change
    /\ next[f] <= MaxUid
    /\ \A r \in In(f) : r.msg # m
    /\ mail' = mail \cup {[folder |-> f, uid |-> next[f], msg |-> m, del |-> FALSE]}
    /\ next' = [next EXCEPT ![f] = @ + 1]
    /\ UNCHANGED <<valid, row, mark, run, history, failures>>

Remove(r) ==
    /\ mail' = mail \ {r}
    /\ stayed' = stayed \ {<<r.msg, r.folder>>}

Expunge(r) ==
    /\ Change
    /\ Remove(r)
    /\ UNCHANGED <<next, valid, row, mark, run, skipped, restored, failures>>

\* \Deleted set or taken back.
Flag(r) ==
    /\ Change
    /\ mail' = (mail \ {r}) \cup {[r EXCEPT !.del = ~@]}
    /\ UNCHANGED <<next, valid, row, mark, run, history, failures>>

\* A folder made anew: UIDs from one.  A session that has it selected ends.
Renumber(f) ==
    LET Rank(r) == Cardinality({s \in In(f) : s.uid <= r.uid})
    IN  /\ Change
        /\ mail' = (mail \ In(f)) \cup {[r EXCEPT !.uid = Rank(r)] : r \in In(f)}
        /\ next' = [next EXCEPT ![f] = Cardinality(In(f)) + 1]
        /\ valid' = [valid EXCEPT ![f] = @ + 1]
        /\ run' = IF run.pc \in {"flags", "scan", "bodies"} /\ Synced[run.at] = f
                  THEN Idle ELSE run
        /\ UNCHANGED <<row, mark, history, failures>>

-----------------------------------------------------------------------------
(* The user and the worker that pushes the user's changes.                 *)

Queued(m, del) ==
    IF Mirrors(m)
    THEN [del |-> del, folder |-> row[m].folder, uid |-> row[m].uid]
    ELSE row[m].queue

\* Another source delivers it first: the row is not ours.
DeliverHere(m) ==
    /\ Change
    /\ row[m] = None
    /\ row' = [row EXCEPT ![m] = [live |-> TRUE, owned |-> FALSE, folder |-> None, uid |-> 0,
                                  spam |-> FALSE, leaving |-> FALSE, queue |-> None]]
    /\ UNCHANGED <<upstream, mark, run, history, failures>>

\* A flag is set; the message is put in the trash, or taken out; it is deleted.
Edit(m) ==
    /\ Change
    /\ row[m] # None /\ row[m].live
    /\ \/ /\ row[m].queue = None /\ Mirrors(m)
          /\ row' = [row EXCEPT ![m].queue = Queued(m, FALSE)]
       \/ /\ ~row[m].leaving
          /\ row' = [row EXCEPT ![m].leaving = TRUE, ![m].queue = Queued(m, TRUE)]
       \/ /\ row[m].leaving
          /\ row' = [row EXCEPT ![m].leaving = FALSE]
       \/ /\ row' = [row EXCEPT ![m].live = FALSE, ![m].queue = Queued(m, TRUE)]
    /\ restored' = restored \ {m}
    /\ UNCHANGED <<upstream, mark, run, skipped, stayed, failures>>

Restore(m) ==
    /\ Change
    /\ row[m] # None /\ ~row[m].live
    /\ row' = [row EXCEPT ![m].live = TRUE, ![m].leaving = FALSE]
    /\ restored' = restored \cup {m}
    /\ UNCHANGED <<upstream, mark, run, skipped, stayed, failures>>

\* The push of what is queued: a delete removes whatever has that UID.
Push(m) ==
    /\ row[m] # None /\ row[m].queue # None
    /\ row' = [row EXCEPT ![m].queue = None]
    /\ LET q == row[m].queue
           hit == {r \in mail : q.del /\ r.folder = q.folder /\ r.uid = q.uid}
       IN  /\ mail' = mail \ hit
           /\ stayed' = stayed \ {<<r.msg, r.folder>> : r \in hit}
    /\ UNCHANGED <<next, valid, mark, run, skipped, restored, changes, failures>>

Step ==
    \/ Begin
    \/ \E f \in Folder : Open(f) \/ RefreshFlags(f) \/ Scan(f) \/ FetchBodies(f) \/ WriteMark(f)
    \/ Judge
    \/ \E f \in Folder : AskFolder(f)
    \/ Decide
    \/ \E g \in Ref : Vault(g)

Next ==
    \/ Step
    \/ Crash
    \/ \E m \in Msg, f \in Folder : File(m, f)
    \/ \E r \in mail : Expunge(r) \/ Flag(r)
    \/ \E f \in Folder : Renumber(f)
    \/ \E m \in Msg : DeliverHere(m) \/ Edit(m) \/ Restore(m) \/ Push(m)

Spec == Init /\ [][Next]_vars

\* The scheduler offers the account again and again, the pool runs the task, and
\* the worker pushes what is queued.
Fairness ==
    /\ WF_vars(Step)
    /\ \A m \in Msg : WF_vars(Push(m))

FairSpec == Spec /\ Fairness

-----------------------------------------------------------------------------
(* Properties.                                                             *)

\* What triageEnvelope and saveMessageToInbox pass without a word, and the bookmark
\* with them: the code never pulls it.
Nameless == Blank \cup Hollow

\* Nothing else is lost below a bookmark (nextLastSeen): whatever upstream has there
\* has a row, unless it is nameless or a cycle found it marked \Deleted.
NothingLostBelow ==
    \A r \in mail : mark[r.folder] # None
        => (mark[r.folder].valid = valid[r.folder] /\ r.uid <= mark[r.folder].last
              => row[r.msg] # None \/ r.msg \in skipped \/ r.msg \in Nameless)

\* What the cycle puts in the vault.
Vaulted(m) == /\ row[m] # None /\ row[m].live
              /\ row'[m] # None /\ ~row'[m].live
              /\ run.pc = "vault" /\ run' # run

\* A message that stays in one folder throughout a cycle is not put in the vault
\* by it, whatever else happens (reconcileVanished): failed reads and searches,
\* rows that point elsewhere, folders numbered anew.
StayingIsKept ==
    [][\A m \in Msg \ Synthetic, f \in Folder : Vaulted(m) => <<m, f>> \notin stayed]_vars

\* The same of messages that cannot be searched for.
SyntheticIsKept ==
    [][\A m \in Synthetic, f \in Folder : Vaulted(m) => <<m, f>> \notin stayed]_vars

\* A message taken out of the vault is not put back by the next cycle
\* (ClearRemoteUID, db/upstream_vanished.go).
RestoredIsKept == [][\A m \in Msg : Vaulted(m) => m \notin restored]_vars

StaysUpstream(m) ==
    <>[](\E i \in DOMAIN Synced : \E r \in In(Synced[i]) : r.msg = m /\ ~r.del)

\* What stays upstream is pulled in the end, unless it is nameless or was marked
\* \Deleted when a cycle came by.
EventuallyPulled ==
    \A m \in Msg \ Nameless : StaysUpstream(m) => <>(row[m] # None \/ m \in skipped)

\* "Dropping the message loses real mail" (saveMessageToInbox): nameless messages are
\* pulled too.  The code refutes it.
EverythingIsPulled ==
    \A m \in Msg : StaysUpstream(m) => <>(row[m] # None \/ m \in skipped)

\* Rows that the vanished check can judge: mirrored, at or below the bookmark.
Judged(m) ==
    /\ Mirrors(m) /\ row[m].live /\ ~row[m].leaving
    /\ mark[row[m].folder] # None /\ row[m].uid <= mark[row[m].folder].last

\* Its UID is there, if only as another message's by now.
There(m) == \E r \in mail : r.folder = row[m].folder /\ r.uid = row[m].uid

Missing == {[folder |-> row[m].folder, uid |-> row[m].uid, msg |-> m] :
              m \in {n \in Msg : Judged(n) /\ ~There(n)}}

\* Once nothing changes any more, such a row points at a copy that is there
\* (syncAllRemoteFolders, reconcileVanished): it followed every move, and is in the
\* vault if there is none; unless what has gone from its folder is so much that the
\* guard against mass deletion holds all of it back, in every cycle.
RowsTellTheTruth ==
    \A m \in Msg \ Synthetic :
        <>[](Judged(m) => There(m) \/ Held(Missing, row[m].folder))

\* The same without the guard.  The code refutes it, as planVanished means to.
MassLossIsFollowed == \A m \in Msg \ Synthetic : <>[](Judged(m) => There(m))

\* A message that is upstream for good, and that the user has not deleted, is
\* shown in the end.
EventuallyShown ==
    \A m \in Msg \ Nameless :
        <>[](\E r \in mail : r.msg = m /\ ~r.del) => <>(row[m] # None /\ row[m].live)

=============================================================================
