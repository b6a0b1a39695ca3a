----------------------------- MODULE FolderUids -----------------------------
(***************************************************************************)
(* The local folders of one user, the UIDs handed out in them and the      *)
(* commands that move messages about: db/folders.go, db/messages.go,       *)
(* service/messages/transfer.go and their callers in the IMAP server, the  *)
(* delivery and the web UI.                                                *)
(*                                                                         *)
(* An IMAP client knows a message by (mailbox, UIDVALIDITY, UID) for ever. *)
(* A command reads, and writes by what it has read: an action is one       *)
(* statement or one transaction, and the commands of several sessions      *)
(* interleave between them.                                                *)
(***************************************************************************)
EXTENDS Naturals, FiniteSets

CONSTANTS Message,    \* bound: rows of messages, which never come back
          Draft,      \* those without a Message-ID, which can be copied
          Name,       \* folder names
          Default,    \* the names of the folders of a new user, in order
          Inbox,      \* the first of them
          TypeOf,     \* [Name -> type], inferFolderType
          Session,    \* commands and deliveries that may be under way
          MaxFolder,  \* bound: folders ever created
          MaxUid,     \* bound: UIDs handed out in a folder
          MaxClock,   \* bound: seconds that pass
          MaxBegun    \* bound: commands begun

FolderType == {"inbox", "sent", "trash", "junk", "archive", "drafts", "custom"}
Protected == {"inbox", "sent", "trash"}
Folder == 1..MaxFolder

ASSUME FolderUidsAssumption ==
    /\ IsFiniteSet(Message) /\ Draft \subseteq Message
    /\ TypeOf \in [Name -> FolderType]
    /\ MaxFolder \in Nat /\ MaxUid \in Nat /\ MaxClock \in Nat
    /\ MaxBegun \in Nat
    /\ \E n \in 1..MaxFolder : Default \in [1..n -> Name]
    /\ Inbox \in Name

VARIABLES folder,   \* folders, by serial id
          row,      \* messages
          now,      \* the clock, in seconds
          session,  \* the commands under way
          given,    \* history: <<folder, uid, message>> the database ever held
          taint,    \* history: folders whose UIDs an overlap has spoilt
          created,  \* history: names a CREATE answered OK for and nobody removed
          begun     \* how many commands have begun

vars == <<folder, row, now, session, given, taint, created, begun>>

NoFolder == [state |-> "unborn", name |-> Inbox, type |-> "custom", valid |-> 0,
             next |-> 1]
NoRow == [at |-> 0, uid |-> 0, deleted |-> FALSE, vault |-> FALSE, orig |-> 0,
          spam |-> FALSE]
NewRow(f, u, deleted, spam) ==
    [at |-> f, uid |-> u, deleted |-> deleted, vault |-> FALSE, orig |-> 0,
     spam |-> spam]

\* A command under way: what it has read and will act upon.  flag is the value
\* of \Deleted to store, MOVE instead of COPY, or the spam verdict.
Command(op, f, u, picks, flag, name) ==
    [op |-> op, f |-> f, uid |-> u, picks |-> picks, flag |-> flag, name |-> name]
Idle == Command("idle", 0, 0, {}, FALSE, Inbox)

FolderRow == [state : {"unborn", "alive", "gone"}, name : Name, type : FolderType,
              valid : Nat, next : Nat]
MessageRow == [at : Folder \cup {0}, uid : Nat, deleted : BOOLEAN, vault : BOOLEAN,
               orig : Folder \cup {0}, spam : BOOLEAN]
CommandState ==
    [op : {"idle", "append", "deliver", "unspam", "transfer", "store", "expunge", "rename"},
     f : Folder \cup {0}, uid : Nat, picks : SUBSET (Message \X Nat),
     flag : BOOLEAN, name : Name]

TypeOK ==
    /\ folder \in [Folder -> FolderRow]
    /\ row \in [Message -> MessageRow]
    /\ now \in Nat
    /\ session \in [Session -> CommandState]
    /\ given \subseteq Folder \X Nat \X Message
    /\ taint \subseteq Folder
    /\ created \subseteq Name
    /\ begun \in Nat

\* EnsureDefaultFolders, within one second.
Init ==
    /\ now = 1
    /\ folder = [f \in Folder |->
                   IF f \in DOMAIN Default
                   THEN [state |-> "alive", name |-> Default[f], valid |-> f, next |-> 1,
                         type |-> IF f = 1 THEN "inbox" ELSE TypeOf[Default[f]]]
                   ELSE NoFolder]
    /\ row = [m \in Message |-> NoRow]
    /\ session = [s \in Session |-> Idle]
    /\ given = {} /\ taint = {} /\ created = {} /\ begun = 0

Tick ==
    /\ now < MaxClock
    /\ now' = now + 1
    /\ UNCHANGED <<folder, row, session, given, taint, created>>

-----------------------------------------------------------------------------
(* Folders. *)

Alive(f) == f \in Folder /\ folder[f].state = "alive"
Exists(n) == \E f \in Folder : Alive(f) /\ folder[f].name = n
Holds(m) == row[m].at # 0
Fresh(m) == \A g \in given : g[3] # m
Visible(f) == {m \in Message : /\ row[m].at = f
                               /\ ~row[m].deleted /\ ~row[m].vault /\ ~row[m].spam}
Is(s, op) == session[s].op = op
Finish(s) == session' = [session EXCEPT ![s] = Idle]

\* The unique indexes of local folders: by path, and by type except 'custom'.
Clash(n, t, others) ==
    \E f \in others : Alive(f) /\ (folder[f].name = n \/ (t # "custom" /\ folder[f].type = t))

\* The row gets the next id.
Insert(n, t, v) ==
    \E f \in Folder :
        /\ folder[f].state = "unborn"
        /\ \A g \in Folder : g < f => folder[g].state # "unborn"
        /\ folder' = [folder EXCEPT ![f] = [state |-> "alive", name |-> n, type |-> t,
                                            valid |-> v, next |-> 1]]

\* newUIDValiditySQL: the time, bumped past every value the user's folders have.
NewUIDValidity ==
    LET least == {now} \cup {folder[f].valid + 1 : f \in {g \in Folder : Alive(g)}}
    IN  {v \in least : \A w \in least : w <= v}

\* CreateMailbox.  A folder is looked for by type, so that a user who has one
\* 'custom' folder is answered OK and gets no other.
CreateMailbox(n) ==
    /\ ~Exists(n)
    /\ TypeOf[n] \notin Protected
    /\ created' = created \cup {n}
    /\ IF \E f \in Folder : Alive(f) /\ folder[f].type = TypeOf[n]
       THEN UNCHANGED folder
       ELSE /\ ~Clash(n, TypeOf[n], Folder)
            /\ \E v \in NewUIDValidity : Insert(n, TypeOf[n], v)
    /\ UNCHANGED <<row, now, session, given, taint>>

\* GetOrCreateFolderByNameAndUser, for the destination of a COPY or a draft: the
\* validity is the time, not bumped.
CreateDestination(n) ==
    /\ ~Exists(n)
    /\ ~Clash(n, TypeOf[n], Folder)
    /\ Insert(n, TypeOf[n], now)
    /\ UNCHANGED <<row, now, session, given, taint, created>>

\* DeleteMailbox; the messages go with their folder, those in the vault too.
DeleteMailbox(f) ==
    /\ Alive(f)
    /\ folder[f].type \notin Protected
    /\ folder' = [folder EXCEPT ![f] = [@ EXCEPT !.state = "gone"]]
    /\ row' = [m \in Message |-> IF row[m].at = f THEN NoRow ELSE row[m]]
    /\ created' = created \ {folder[f].name}
    /\ UNCHANGED <<now, session, given, taint>>

\* RenameMailbox reads the whole row ...
RenameRead(s, f, n) ==
    /\ Is(s, "idle")
    /\ Alive(f)
    /\ ~Exists(n)
    /\ session' = [session EXCEPT ![s] = Command("rename", f, folder[f].next, {}, FALSE, n)]
    /\ UNCHANGED <<folder, row, now, given, taint, created>>

\* ... and writes it back, uid_next included: UIDs claimed meanwhile are undone.
RenameWrite(s) ==
    LET c == session[s] IN
    /\ Is(s, "rename")
    /\ IF Alive(c.f) /\ ~Clash(c.name, "custom", Folder \ {c.f})
       THEN /\ folder' = [folder EXCEPT ![c.f] =
                            [state |-> "alive", name |-> c.name, type |-> @.type,
                             valid |-> @.valid, next |-> c.uid]]
            /\ taint' = IF c.uid # folder[c.f].next THEN taint \cup {c.f} ELSE taint
            /\ created' = created \ {folder[c.f].name}
       ELSE UNCHANGED <<folder, taint, created>>
    /\ Finish(s)
    /\ UNCHANGED <<row, now, given>>

-----------------------------------------------------------------------------
(* UIDs claimed by one statement and used by another. *)

\* Mutant: the counter is read, and not advanced.
AdvanceNot(f, n) == folder' = folder

\* uid_next = uid_next + 1 RETURNING uid_next - 1, n times.
Advance(f, n) ==
    /\ folder[f].next + n <= MaxUid + 1
    /\ folder' = [folder EXCEPT ![f] =
                    [state |-> @.state, name |-> @.name, type |-> @.type,
                     valid |-> @.valid, next |-> @.next + n]]

\* GetNextUIDForFolder, for a message about to be stored.
ClaimUid(s, f, op, flag) ==
    /\ Is(s, "idle")
    /\ Alive(f)
    /\ session' = [session EXCEPT ![s] =
                     Command(op, f, folder[f].next, {}, flag, Inbox)]
    /\ Advance(f, 1)
    /\ UNCHANGED <<row, now, given, taint, created>>

\* APPEND, which may set \Deleted, to any folder; the copies in Sent and Drafts
\* are stored in the same way.
StoreAppended(s, f, deleted) == ClaimUid(s, f, "append", deleted)

\* A delivery to the inbox, which may find spam ...
DeliverOne(s, f, spam) ==
    folder[f].type = "inbox" /\ ClaimUid(s, f, "deliver", spam)

\* ... and a pulled message, found not to be known yet.
SaveMessageToInbox(s, f, spam) ==
    folder[f].type = "inbox" /\ ClaimUid(s, f, "deliver", spam)

\* CreateMessage.
StoreMessage(s, m) ==
    LET c == session[s] IN
    /\ Is(s, "append") \/ Is(s, "deliver")
    /\ Fresh(m)
    /\ Alive(c.f)
    /\ row' = [row EXCEPT ![m] = NewRow(c.f, c.uid, c.flag /\ Is(s, "append"),
                                       c.flag /\ Is(s, "deliver"))]
    /\ given' = given \cup {<<c.f, c.uid, m>>}
    /\ Finish(s)
    /\ UNCHANGED <<folder, now, taint, created>>

\* The user has the Message-ID, in whatever folder, or the folder is gone.
StoreFails(s) ==
    /\ Is(s, "append") \/ Is(s, "deliver")
    /\ Finish(s)
    /\ UNCHANGED <<folder, row, now, given, taint, created>>

\* RestoreFromSpam: a UID of the inbox ...
UnspamClaim(s, f, m) ==
    /\ Is(s, "idle")
    /\ Holds(m) /\ row[m].spam
    /\ Alive(f) /\ folder[f].type = "inbox"
    /\ session' = [session EXCEPT ![s] =
                     Command("unspam", f, folder[f].next, {<<m, 0>>}, FALSE, Inbox)]
    /\ Advance(f, 1)
    /\ UNCHANGED <<row, now, given, taint, created>>

\* ... for the message, wherever and whatever it is by now.
Unspam(s, m) ==
    LET c == session[s] IN
    /\ Is(s, "unspam")
    /\ <<m, 0>> \in c.picks
    /\ IF Holds(m)
       THEN /\ row' = [row EXCEPT ![m] =
                         [at |-> c.f, uid |-> c.uid, deleted |-> @.deleted,
                          vault |-> @.vault, orig |-> @.orig, spam |-> FALSE]]
            /\ given' = given \cup {<<c.f, c.uid, m>>}
       ELSE UNCHANGED <<row, given>>
    /\ Finish(s)
    /\ UNCHANGED <<folder, now, taint, created>>

-----------------------------------------------------------------------------
(* COPY and MOVE. *)

\* selectMessages: what the source folder shows now, with its UIDs.
Picks(ms) == {<<m, row[m].uid>> : m \in ms}
Picked(s) == {p[1] : p \in session[s].picks}

Select(s, op, f, ms, dest, flag) ==
    /\ Is(s, "idle")
    /\ ms # {} /\ ms \subseteq Visible(f)
    /\ session' = [session EXCEPT ![s] = Command(op, dest, 0, Picks(ms), flag, Inbox)]
    /\ UNCHANGED <<folder, row, now, given, taint, created>>

TransferSelect(s, f, ms, dest, move) ==
    Alive(dest) /\ Select(s, "transfer", f, ms, dest, move)

\* Mutant: the row is moved under the UID it has.
MovedKeepsUid(m, f, u) ==
    [at |-> f, uid |-> row[m].uid, deleted |-> FALSE, vault |-> row[m].vault,
     orig |-> row[m].orig, spam |-> row[m].spam]

\* MoveMessageRow.
Moved(m, f, u) ==
    [at |-> f, uid |-> u, deleted |-> FALSE, vault |-> row[m].vault,
     orig |-> row[m].orig, spam |-> row[m].spam]

\* Transfer, one transaction: what has a Message-ID is moved, also by COPY; what
\* is in the destination already stays.
Transfer(s) ==
    LET c == session[s]
        relocated == {m \in Picked(s) : c.flag \/ m \notin Draft}
        placed == {m \in Picked(s) : m \notin relocated \/ row[m].at # c.f}
        n == Cardinality(placed)
    IN  /\ Is(s, "transfer")
        /\ \A m \in Picked(s) : Holds(m)
        /\ Alive(c.f)
        /\ Advance(c.f, n)
        /\ \E uid \in [placed -> folder[c.f].next .. folder[c.f].next + n - 1],
              copy \in [placed \ relocated -> {m \in Draft : Fresh(m)}] :
              /\ \A p, q \in c.picks :
                    p[1] \in placed /\ q[1] \in placed /\ p # q =>
                        /\ uid[p[1]] # uid[q[1]]
                        /\ p[2] < q[2] => uid[p[1]] < uid[q[1]]
              /\ \A m, k \in placed \ relocated : copy[m] = copy[k] => m = k
              /\ row' = [m \in Message |->
                           IF m \in placed \cap relocated THEN Moved(m, c.f, uid[m])
                           ELSE IF \E k \in placed \ relocated : copy[k] = m
                           THEN NewRow(c.f, uid[CHOOSE k \in placed \ relocated : copy[k] = m],
                                       FALSE, FALSE)
                           ELSE row[m]]
              /\ given' = given
                    \cup {<<c.f, uid[m], m>> : m \in placed \cap relocated}
                    \cup {<<c.f, uid[k], copy[k]>> : k \in placed \ relocated}
        /\ Finish(s)
        /\ UNCHANGED <<now, taint, created>>

\* A message or the destination is gone, or Postgres ends one of two transfers
\* that wait for each other: nothing changes.
TransferFails(s) ==
    /\ Is(s, "transfer")
    /\ Finish(s)
    /\ UNCHANGED <<folder, row, now, given, taint, created>>

-----------------------------------------------------------------------------
(* STORE and EXPUNGE. *)

StoreSelect(s, f, ms, deleted) == Select(s, "store", f, ms, 0, deleted)

\* SetFlags, a transaction for each message, by its id.
StoreFlag(s, m) ==
    LET c == session[s]
        rest == {p \in c.picks : p[1] # m}
    IN  /\ Is(s, "store")
        /\ m \in Picked(s)
        /\ row' = [row EXCEPT ![m] =
                     [at |-> @.at, uid |-> @.uid, deleted |-> c.flag /\ Holds(m),
                      vault |-> @.vault, orig |-> @.orig, spam |-> @.spam]]
        /\ session' = [session EXCEPT ![s] =
                         IF rest = {} THEN Idle
                         ELSE Command("store", 0, 0, rest, c.flag, Inbox)]
        /\ UNCHANGED <<folder, now, given, taint, created>>

\* Expunge reads the UIDs marked \Deleted ...
ExpungeRead(s, f) ==
    LET marked == {m \in Message : row[m].at = f /\ row[m].deleted /\ ~row[m].vault} IN
    /\ Is(s, "idle")
    /\ Alive(f)
    /\ marked # {}
    /\ session' = [session EXCEPT ![s] =
                     Command("expunge", f, 0, Picks(marked), FALSE, Inbox)]
    /\ UNCHANGED <<folder, row, now, given, taint, created>>

\* Mutant: the mark is not asked for again.
HitsUnmarked(s) ==
    {m \in Message : /\ row[m].at = session[s].f
                     /\ row[m].uid \in {p[2] : p \in session[s].picks}}

\* ... and removes what has one of these UIDs and is marked: WHERE folder_id =
\* AND uid = ANY AND deleted.
Hits(s) ==
    {m \in Message : /\ row[m].at = session[s].f
                     /\ row[m].uid \in {p[2] : p \in session[s].picks}
                     /\ row[m].deleted}

InVault(m) == [at |-> row[m].at, uid |-> row[m].uid, deleted |-> row[m].deleted,
               vault |-> TRUE, orig |-> row[m].at, spam |-> row[m].spam]

\* Out of the Trash for good, from other folders into the vault.
ExpungeWrite(s) ==
    /\ Is(s, "expunge")
    /\ row' = [m \in Message |->
                 IF m \notin Hits(s) THEN row[m]
                 ELSE IF folder[session[s].f].type = "trash" THEN NoRow
                 ELSE InVault(m)]
    /\ Finish(s)
    /\ UNCHANGED <<folder, now, given, taint, created>>

-----------------------------------------------------------------------------
(* The desktop client and the web UI, one statement or transaction each. *)

\* Service.Delete.
Delete(m) ==
    /\ Holds(m)
    /\ row' = [row EXCEPT ![m] = InVault(m)]
    /\ UNCHANGED <<folder, now, session, given, taint, created>>

\* RestoreFromVault: the folder it was in when it was deleted, and the UID it
\* has, which a transfer under way may have changed to one of another folder.
Restore(m) ==
    LET f == IF row[m].orig = 0 THEN row[m].at ELSE row[m].orig IN
    /\ Holds(m) /\ row[m].vault
    /\ Alive(f)
    /\ row' = [row EXCEPT ![m] =
                 [at |-> f, uid |-> @.uid, deleted |-> FALSE, vault |-> FALSE,
                  orig |-> 0, spam |-> @.spam]]
    /\ given' = given \cup {<<f, row[m].uid, m>>}
    /\ taint' = IF f # row[m].at THEN taint \cup {f} ELSE taint
    /\ UNCHANGED <<folder, now, session, created>>

\* HardDeleteMessage, the purges of the vault, of old spam and of a sender.
Remove(m) ==
    /\ Holds(m)
    /\ row' = [row EXCEPT ![m] = NoRow]
    /\ UNCHANGED <<folder, now, session, given, taint, created>>

\* MarkMessageAsSpam, and a pull that finds the message outside Spam again.
Classify(m) ==
    /\ Holds(m)
    /\ row' = [row EXCEPT ![m] =
                 [at |-> @.at, uid |-> @.uid, deleted |-> @.deleted,
                  vault |-> @.vault, orig |-> @.orig, spam |-> ~@.spam]]
    /\ UNCHANGED <<folder, now, session, given, taint, created>>

-----------------------------------------------------------------------------
Act(s) ==
    \/ RenameWrite(s) \/ StoreFails(s)
    \/ \E m \in Message : StoreMessage(s, m) \/ Unspam(s, m) \/ StoreFlag(s, m)
    \/ Transfer(s) \/ TransferFails(s) \/ ExpungeWrite(s)

Arrive(s, f) ==
    \/ ExpungeRead(s, f)
    \/ \E n \in Name : RenameRead(s, f, n)
    \/ \E flag \in BOOLEAN :
          \/ StoreAppended(s, f, flag)
          \/ DeliverOne(s, f, flag) \/ SaveMessageToInbox(s, f, flag)
    \/ \E m \in Message : UnspamClaim(s, f, m)
    \/ \E ms \in SUBSET Message, flag \in BOOLEAN :
          \/ StoreSelect(s, f, ms, flag)
          \/ \E dest \in Folder : TransferSelect(s, f, ms, dest, flag)

\* What begins now and may be done at once.
Begin ==
    \/ \E n \in Name : CreateMailbox(n) \/ CreateDestination(n)
    \/ \E f \in Folder : DeleteMailbox(f) \/ \E s \in Session : Arrive(s, f)
    \/ \E m \in Message : Delete(m) \/ Restore(m) \/ Remove(m) \/ Classify(m)

Next ==
    \/ begun < MaxBegun /\ begun' = begun + 1 /\ Begin
    \/ UNCHANGED begun /\ (Tick \/ \E s \in Session : Act(s))

Spec == Init /\ [][Next]_vars

-----------------------------------------------------------------------------
(* Properties. *)

\* "Concurrent COPY, MOVE and APPEND into it never get the same UID"
\* (ClaimFolderUID), and a UID is not used again for another message, deleted or
\* not: an IMAP client may keep what it has cached under it.  Two overlaps are
\* excepted: a rename with a claim, and a transfer with a delete that is later
\* taken back.
UidsNameOneMessage ==
    \A a, b \in given : a[1] = b[1] /\ a[2] = b[2] /\ a[1] \notin taint => a[3] = b[3]

\* Whatever happened since EXPUNGE read the UIDs marked \Deleted, the statement
\* that removes them hits only messages that were marked then and are now.
ExpungeAimsTrue ==
    \A s \in Session : Is(s, "expunge") /\ session[s].f \notin taint =>
        \A m \in Hits(s) : <<m, row[m].uid>> \in session[s].picks /\ row[m].deleted

\* Without the exceptions.  The code refutes it.
UidsNameOneMessageEver ==
    \A a, b \in given : a[1] = b[1] /\ a[2] = b[2] => a[3] = b[3]

\* "RFC 3501 wants a recreated mailbox to get a different (greater) value than
\* its predecessor" (newUIDValiditySQL).  The code refutes it.
RecreatedIsGreater ==
    [][\A f, g \in Folder :
          /\ folder[g].state = "gone" /\ folder[f].state = "unborn"
          /\ folder'[f].state = "alive" /\ folder'[f].name = folder[g].name
          => folder'[f].valid > folder[g].valid]_vars

\* "CreateMailbox creates a new mailbox" (user.go).  The code refutes it.
CreatedExists == \A n \in created : Exists(n)
=============================================================================
