-------------------------- MODULE FolderUidsProofs --------------------------
(***************************************************************************)
(* Theorems about FolderUids: UIDs are permanent, and EXPUNGE removes what *)
(* was marked.                                                             *)
(*                                                                         *)
(* The argument: while a folder is untainted its counter is above every    *)
(* UID ever given in it and above every UID a command holds; a UID held is *)
(* held by one command, and the database has not seen it yet.              *)
(***************************************************************************)
EXTENDS FolderUids, FiniteSetTheorems, TLAPS

Claiming(s) == session[s].op \in {"append", "deliver", "unspam"}

\* Nothing is known of a folder that does not exist yet.
Born ==
    /\ \A g \in given : folder[g[1]].state # "unborn"
    /\ \A s \in Session : Claiming(s) =>
          session[s].f \in Folder /\ folder[session[s].f].state # "unborn"

GivenBelow == \A g \in given : g[1] \notin taint => g[2] < folder[g[1]].next

ClaimsFree ==
    \A s \in Session : Claiming(s) /\ session[s].f \notin taint =>
        /\ session[s].uid < folder[session[s].f].next
        /\ \A g \in given : g[1] = session[s].f => g[2] # session[s].uid

ClaimsDiffer ==
    \A s, t \in Session :
        /\ Claiming(s) /\ Claiming(t) /\ session[s].f \notin taint
        /\ session[s].f = session[t].f /\ session[s].uid = session[t].uid
        => s = t

RowsGiven == \A m \in Message : Holds(m) => <<row[m].at, row[m].uid, m>> \in given

PicksGiven ==
    \A s \in Session : Is(s, "expunge") =>
        /\ session[s].f # 0
        /\ \A p \in session[s].picks : <<session[s].f, p[2], p[1]>> \in given

Inv ==
    /\ TypeOK /\ Born /\ GivenBelow /\ ClaimsFree /\ ClaimsDiffer
    /\ RowsGiven /\ PicksGiven /\ UidsNameOneMessage

-----------------------------------------------------------------------------
(* Types. *)

\* A command record has its type when its fields do.
LEMMA CommandType ==
    ASSUME NEW op \in {"idle", "append", "deliver", "unspam", "transfer", "store",
                       "expunge", "rename"},
           NEW f \in Folder \cup {0}, NEW u \in Nat,
           NEW picks \in SUBSET (Message \X Nat), NEW flag \in BOOLEAN, NEW n \in Name
    PROVE  Command(op, f, u, picks, flag, n) \in CommandState
  BY DEF Command, CommandState

\* Idle is a state of a session.
LEMMA IdleType == Idle \in CommandState
  BY FolderUidsAssumption, CommandType DEF Idle, FolderUidsAssumption

\* What Finish does to the commands.
LEMMA FinishType ==
    ASSUME TypeOK, NEW s \in Session, Finish(s)
    PROVE  session' \in [Session -> CommandState]
  BY IdleType DEF TypeOK, Finish

\* So are the rows the operations write.
LEMMA RowTypes ==
    /\ NoRow \in MessageRow
    /\ \A f \in Folder, u \in Nat, d, k \in BOOLEAN : NewRow(f, u, d, k) \in MessageRow
  BY DEF NoRow, NewRow, MessageRow

\* The picks of a selection are messages with numbers.
LEMMA PicksType ==
    ASSUME TypeOK, NEW ms \in SUBSET Message
    PROVE  Picks(ms) \in SUBSET (Message \X Nat)
  BY DEF TypeOK, Picks, MessageRow

\* The initial state is well typed.
LEMMA InitType == Init => TypeOK
  <1> SUFFICES ASSUME Init PROVE TypeOK
      OBVIOUS
  <1>1. folder \in [Folder -> FolderRow]
    <2> SUFFICES ASSUME NEW f \in Folder PROVE folder[f] \in FolderRow
        BY DEF Init
    <2>1. CASE f \in DOMAIN Default
      <3>1. Default[f] \in Name
          BY <2>1, FolderUidsAssumption DEF FolderUidsAssumption
      <3>2. TypeOf[Default[f]] \in FolderType
          BY <3>1, FolderUidsAssumption DEF FolderUidsAssumption
      <3>3. f \in Nat
          BY DEF Folder
      <3> DEFINE t == IF f = 1 THEN "inbox" ELSE TypeOf[Default[f]]
      <3>4. t \in FolderType
          BY <3>2 DEF FolderType
      <3>5. folder[f] = [state |-> "alive", name |-> Default[f], valid |-> f, next |-> 1,
                         type |-> t]
          BY <2>1 DEF Init
      <3> QED
          BY <3>1, <3>3, <3>4, <3>5 DEF FolderRow
    <2>2. CASE f \notin DOMAIN Default
        BY <2>2, FolderUidsAssumption DEF Init, NoFolder, FolderRow, FolderType,
           FolderUidsAssumption
    <2> QED
        BY <2>1, <2>2
  <1>2. session \in [Session -> CommandState]
      BY IdleType DEF Init
  <1>3. row \in [Message -> MessageRow]
      BY RowTypes DEF Init
  <1> QED
      BY <1>1, <1>2, <1>3 DEF Init, TypeOK

\* A folder row is inserted.
LEMMA InsertType ==
    ASSUME TypeOK, NEW n \in Name, NEW v \in Nat, Insert(n, TypeOf[n], v)
    PROVE  folder' \in [Folder -> FolderRow]
  <1>1. PICK f \in Folder :
            folder' = [folder EXCEPT ![f] = [state |-> "alive", name |-> n,
                                             type |-> TypeOf[n], valid |-> v, next |-> 1]]
      BY DEF Insert
  <1>2. TypeOf[n] \in FolderType
      BY FolderUidsAssumption DEF FolderUidsAssumption
  <1>3. [state |-> "alive", name |-> n, type |-> TypeOf[n], valid |-> v, next |-> 1]
            \in FolderRow
      BY <1>2 DEF FolderRow
  <1> QED
      BY <1>1, <1>3 DEF TypeOK

\* The counter of a folder is advanced.
LEMMA AdvanceType ==
    ASSUME TypeOK, NEW f \in Folder, NEW n \in Nat, Advance(f, n)
    PROVE  folder' \in [Folder -> FolderRow]
  BY DEF TypeOK, Advance, FolderRow

\* Creating and deleting a folder.
LEMMA FolderActionTypes ==
    ASSUME TypeOK, NEW n \in Name, NEW f \in Folder,
           CreateMailbox(n) \/ CreateDestination(n) \/ DeleteMailbox(f)
    PROVE  /\ folder' \in [Folder -> FolderRow] /\ row' \in [Message -> MessageRow]
           /\ created' \subseteq Name
           /\ UNCHANGED <<now, session, given, taint>>
  <1>1. CASE CreateMailbox(n)
    <2>1. \A v \in NewUIDValidity : v \in Nat
        BY DEF NewUIDValidity, TypeOK, FolderRow, Alive
    <2>2. folder' \in [Folder -> FolderRow]
        BY <1>1, <2>1, InsertType DEF CreateMailbox, TypeOK
    <2> QED
        BY <1>1, <2>2 DEF CreateMailbox, TypeOK
  <1>2. CASE CreateDestination(n)
    <2>1. now \in Nat
        BY DEF TypeOK
    <2>2. folder' \in [Folder -> FolderRow]
        BY <1>2, <2>1, InsertType DEF CreateDestination
    <2> QED
        BY <1>2, <2>2 DEF CreateDestination, TypeOK
  <1>3. CASE DeleteMailbox(f)
    <2>1. folder' \in [Folder -> FolderRow]
        BY <1>3 DEF DeleteMailbox, TypeOK, FolderRow
    <2>2. row' \in [Message -> MessageRow]
        BY <1>3, RowTypes DEF DeleteMailbox, TypeOK
    <2> QED
        BY <1>3, <2>1, <2>2 DEF DeleteMailbox, TypeOK
  <1> QED
      BY <1>1, <1>2, <1>3

\* RENAME's update, after its check.
LEMMA RenameWriteType ==
    ASSUME TypeOK, begun' \in Nat, NEW s \in Session, RenameWrite(s)
    PROVE  TypeOK'
  <1> DEFINE c == session[s]
  <1>1. session' \in [Session -> CommandState]
      BY FinishType DEF RenameWrite
  <1>2. c.uid \in Nat /\ c.name \in Name
      BY DEF TypeOK, CommandState
  <1>3. folder' \in [Folder -> FolderRow]
    <2>1. CASE UNCHANGED folder
        BY <2>1 DEF TypeOK
    <2>2. CASE /\ Alive(c.f)
               /\ folder' = [folder EXCEPT ![c.f] =
                               [state |-> "alive", name |-> c.name, type |-> @.type,
                                valid |-> @.valid, next |-> c.uid]]
        BY <2>2, <1>2 DEF TypeOK, FolderRow, Alive
    <2> QED
        BY <2>1, <2>2 DEF RenameWrite
  <1>4. taint' \subseteq Folder
      BY DEF RenameWrite, TypeOK, Alive
  <1>5. created' \subseteq Name
      BY DEF RenameWrite, TypeOK
  <1> QED
      BY <1>1, <1>3, <1>4, <1>5 DEF RenameWrite, TypeOK

\* Reading and claiming: what the command keeps.
LEMMA ArriveType ==
    ASSUME TypeOK, NEW s \in Session, NEW f \in Folder, Arrive(s, f)
    PROVE  /\ folder' \in [Folder -> FolderRow]
           /\ session' \in [Session -> CommandState]
           /\ UNCHANGED <<row, now, given, taint, created>>
  <1>0. /\ folder[f].next \in Nat /\ Inbox \in Name /\ {} \in SUBSET (Message \X Nat)
        /\ f \in Folder \cup {0} /\ 0 \in Nat /\ 0 \in Folder \cup {0} /\ FALSE \in BOOLEAN
      BY FolderUidsAssumption DEF TypeOK, FolderRow, FolderUidsAssumption
  <1>1. CASE ExpungeRead(s, f)
    <2>1. PICK ms \in SUBSET Message :
              session' = [session EXCEPT ![s] = Command("expunge", f, 0, Picks(ms), FALSE, Inbox)]
        BY <1>1 DEF ExpungeRead
    <2>2. Command("expunge", f, 0, Picks(ms), FALSE, Inbox) \in CommandState
        BY <1>0, PicksType, CommandType
    <2> QED
        BY <1>1, <2>1, <2>2 DEF ExpungeRead, TypeOK
  <1>2. ASSUME NEW n \in Name, RenameRead(s, f, n)
        PROVE  /\ session' \in [Session -> CommandState]
               /\ UNCHANGED <<folder, row, now, given, taint, created>>
    <2>1. Command("rename", f, folder[f].next, {}, FALSE, n) \in CommandState
        BY <1>0, CommandType
    <2> QED
        BY <1>2, <2>1 DEF RenameRead, TypeOK
  <1>3. ASSUME NEW op \in {"append", "deliver"}, NEW flag \in BOOLEAN,
               ClaimUid(s, f, op, flag)
        PROVE  /\ folder' \in [Folder -> FolderRow]
               /\ session' \in [Session -> CommandState]
               /\ UNCHANGED <<row, now, given, taint, created>>
    <2>1. Command(op, f, folder[f].next, {}, flag, Inbox) \in CommandState
        BY <1>0, CommandType
    <2>2. folder' \in [Folder -> FolderRow]
        BY <1>3, AdvanceType DEF ClaimUid
    <2> QED
        BY <1>3, <2>1, <2>2 DEF ClaimUid, TypeOK
  <1>4. ASSUME NEW m \in Message, UnspamClaim(s, f, m)
        PROVE  /\ folder' \in [Folder -> FolderRow]
               /\ session' \in [Session -> CommandState]
               /\ UNCHANGED <<row, now, given, taint, created>>
    <2>1. {<<m, 0>>} \in SUBSET (Message \X Nat)
        OBVIOUS
    <2>2. Command("unspam", f, folder[f].next, {<<m, 0>>}, FALSE, Inbox) \in CommandState
        BY <1>0, <2>1, CommandType
    <2>3. folder' \in [Folder -> FolderRow]
        BY <1>4, AdvanceType DEF UnspamClaim
    <2> QED
        BY <1>4, <2>2, <2>3 DEF UnspamClaim, TypeOK
  <1>5. ASSUME NEW ms \in SUBSET Message, NEW flag \in BOOLEAN, NEW dest \in Folder \cup {0},
               NEW op \in {"store", "transfer"}, Select(s, op, f, ms, dest, flag)
        PROVE  /\ session' \in [Session -> CommandState]
               /\ UNCHANGED <<folder, row, now, given, taint, created>>
    <2>1. Command(op, dest, 0, Picks(ms), flag, Inbox) \in CommandState
        BY <1>0, PicksType, CommandType
    <2> QED
        BY <1>5, <2>1 DEF Select, TypeOK
  <1> QED
      BY <1>1, <1>2, <1>3, <1>4, <1>5
      DEF Arrive, StoreSelect, TransferSelect, Alive, TypeOK, ClaimUid, UnspamClaim,
          StoreAppended, DeliverOne, SaveMessageToInbox

\* The rows the one-statement operations leave.
LEMMA RowUpdateTypes ==
    ASSUME TypeOK, NEW m \in Message
    PROVE  /\ Holds(m) => InVault(m) \in MessageRow
           /\ row[m].at \in Folder \cup {0} /\ row[m].orig \in Folder \cup {0}
           /\ row[m].uid \in Nat
           /\ \A f \in Folder \cup {0}, u \in Nat, d, v, k \in BOOLEAN, g \in Folder \cup {0} :
                [at |-> f, uid |-> u, deleted |-> d, vault |-> v, orig |-> g, spam |-> k]
                    \in MessageRow
           /\ row[m].deleted \in BOOLEAN /\ row[m].vault \in BOOLEAN
           /\ row[m].spam \in BOOLEAN
  BY DEF TypeOK, MessageRow, InVault, Holds

\* What the HTTP API does to one message.
LEMMA SingleTypes ==
    ASSUME TypeOK, NEW m \in Message, Delete(m) \/ Restore(m) \/ Remove(m) \/ Classify(m)
    PROVE  /\ row' \in [Message -> MessageRow]
           /\ given' \subseteq Folder \X Nat \X Message /\ taint' \subseteq Folder
           /\ UNCHANGED <<folder, now, session, created>>
  <1> DEFINE f == IF row[m].orig = 0 THEN row[m].at ELSE row[m].orig
  <1> USE RowUpdateTypes
  <1>1. CASE Delete(m)
      BY <1>1 DEF Delete, TypeOK
  <1>2. CASE Restore(m)
    <2>1. f \in Folder
        BY <1>2 DEF Restore, Alive
    <2>2. row' \in [Message -> MessageRow]
      <3> DEFINE r == [at |-> f, uid |-> row[m].uid, deleted |-> FALSE, vault |-> FALSE,
                       orig |-> 0, spam |-> row[m].spam]
      <3>1. r \in MessageRow
          BY <2>1
      <3>2. row' = [row EXCEPT ![m] = r]
          BY <1>2 DEF Restore
      <3> HIDE DEF r
      <3> QED
          BY <3>1, <3>2 DEF TypeOK
    <2>3. <<f, row[m].uid, m>> \in Folder \X Nat \X Message
        BY <2>1
    <2> QED
        BY <1>2, <2>1, <2>2, <2>3 DEF Restore, TypeOK
  <1>3. CASE Remove(m)
      BY <1>3, RowTypes DEF Remove, TypeOK
  <1>4. CASE Classify(m)
    <2> DEFINE r == [at |-> row[m].at, uid |-> row[m].uid, deleted |-> row[m].deleted,
                     vault |-> row[m].vault, orig |-> row[m].orig, spam |-> ~row[m].spam]
    <2>1. r \in MessageRow
        BY DEF MessageRow
    <2>2. row' = [row EXCEPT ![m] = r]
        BY <1>4 DEF Classify
    <2> HIDE DEF r
    <2> QED
        BY <1>4, <2>1, <2>2 DEF Classify, TypeOK
  <1> QED
      BY <1>1, <1>2, <1>3, <1>4

\* The second halves of the commands, but for the transfer.
LEMMA StoreTypes ==
    ASSUME TypeOK, begun' \in Nat, NEW s \in Session, NEW m \in Message,
           StoreMessage(s, m) \/ StoreFails(s) \/ Unspam(s, m) \/ StoreFlag(s, m)
               \/ TransferFails(s) \/ ExpungeWrite(s),
           \* a claim is for a folder, see Inv
           Claiming(s) => session[s].f \in Folder
    PROVE  TypeOK'
  <1> DEFINE c == session[s]
  <1>0. c.f \in Folder \cup {0} /\ c.uid \in Nat /\ c.flag \in BOOLEAN
        /\ c.picks \in SUBSET (Message \X Nat)
      BY DEF TypeOK, CommandState
  <1>1. CASE StoreMessage(s, m)
    <2>1. c.f \in Folder
        BY <1>1 DEF StoreMessage, Claiming, Is
    <2>2. NewRow(c.f, c.uid, c.flag /\ Is(s, "append"), c.flag /\ Is(s, "deliver"))
              \in MessageRow
        BY <2>1, <1>0, RowTypes DEF Is
    <2>3. row' \in [Message -> MessageRow]
        BY <1>1, <2>2 DEF StoreMessage, TypeOK
    <2>4. given' \subseteq Folder \X Nat \X Message
        BY <1>1, <1>0, <2>1 DEF StoreMessage, TypeOK
    <2>5. session' \in [Session -> CommandState]
        BY <1>1, FinishType DEF StoreMessage
    <2> QED
        BY <1>1, <2>3, <2>4, <2>5 DEF StoreMessage, TypeOK
  <1>2. CASE StoreFails(s) \/ TransferFails(s)
      BY <1>2, FinishType DEF StoreFails, TransferFails, TypeOK
  <1>3. CASE Unspam(s, m)
    <2>1. c.f \in Folder
        BY <1>3 DEF Unspam, Claiming, Is
    <2> DEFINE r == [at |-> c.f, uid |-> c.uid, deleted |-> row[m].deleted,
                     vault |-> row[m].vault, orig |-> row[m].orig, spam |-> FALSE]
    <2>2. r \in MessageRow
        BY <2>1, <1>0, RowUpdateTypes DEF MessageRow
    <2>3. row' = row \/ row' = [row EXCEPT ![m] = r]
        BY <1>3 DEF Unspam
    <2> HIDE DEF r
    <2>4. row' \in [Message -> MessageRow]
        BY <2>2, <2>3 DEF TypeOK
    <2>5. given' \subseteq Folder \X Nat \X Message
        BY <1>3, <1>0, <2>1 DEF Unspam, TypeOK
    <2>6. session' \in [Session -> CommandState]
        BY <1>3, FinishType DEF Unspam
    <2> QED
        BY <1>3, <2>4, <2>5, <2>6 DEF Unspam, TypeOK
  <1>4. CASE StoreFlag(s, m)
    <2> DEFINE r == [at |-> row[m].at, uid |-> row[m].uid, deleted |-> c.flag /\ Holds(m),
                     vault |-> row[m].vault, orig |-> row[m].orig, spam |-> row[m].spam]
               rest == {p \in c.picks : p[1] # m}
               d == IF rest = {} THEN Idle ELSE Command("store", 0, 0, rest, c.flag, Inbox)
    <2>1. r \in MessageRow
        BY <1>0, RowUpdateTypes DEF MessageRow, Holds
    <2>2. row' = [row EXCEPT ![m] = r]
        BY <1>4 DEF StoreFlag
    <2>3. Command("store", 0, 0, rest, c.flag, Inbox) \in CommandState
        BY <1>0, CommandType, FolderUidsAssumption DEF FolderUidsAssumption
    <2>4. d \in CommandState
        BY <2>3, IdleType
    <2>5. session' = [session EXCEPT ![s] = d]
        BY <1>4 DEF StoreFlag
    <2> HIDE DEF r, d
    <2> QED
        BY <1>4, <2>1, <2>2, <2>4, <2>5 DEF StoreFlag, TypeOK
  <1>5. CASE ExpungeWrite(s)
    <2>1. \A k \in Message : row'[k] \in MessageRow
      <3> TAKE k \in Message
      <3>1. row'[k] \in {row[k], NoRow, InVault(k)}
          BY <1>5 DEF ExpungeWrite
      <3>2. InVault(k) \in MessageRow
          BY RowUpdateTypes DEF InVault
      <3> QED
          BY <3>1, <3>2, RowTypes DEF TypeOK
    <2>2. row' \in [Message -> MessageRow]
        BY <1>5, <2>1 DEF ExpungeWrite
    <2> QED
        BY <1>5, <2>2, FinishType DEF ExpungeWrite, TypeOK
  <1> QED
      BY <1>1, <1>2, <1>3, <1>4, <1>5

-----------------------------------------------------------------------------
(* What a transfer does. *)

\* A transfer of the messages placed, of which those relocated are moved and the
\* others copied: it gives UIDs above the counter as it was, below it as it is
\* then, and to each message its own.
TransferAs(s, placed, relocated, n, uid, copy) ==
    LET f == session[s].f IN
    /\ f \in Folder /\ folder[f].state = "alive"
    /\ Advance(f, n)
    /\ \A m \in placed : uid[m] >= folder[f].next /\ uid[m] < folder[f].next + n
    /\ \A m, k \in placed : uid[m] = uid[k] => m = k
    /\ \A m \in placed \ relocated : Fresh(copy[m])
    /\ \A m, k \in placed \ relocated : copy[m] = copy[k] => m = k
    /\ \A m \in placed : Holds(m)
    /\ row' = [m \in Message |->
                 IF m \in placed \cap relocated THEN Moved(m, f, uid[m])
                 ELSE IF \E k \in placed \ relocated : copy[k] = m
                 THEN NewRow(f, uid[CHOOSE k \in placed \ relocated : copy[k] = m],
                             FALSE, FALSE)
                 ELSE row[m]]
    /\ given' = given
          \cup {<<f, uid[m], m>> : m \in placed \cap relocated}
          \cup {<<f, uid[k], copy[k]>> : k \in placed \ relocated}
    /\ Finish(s) /\ UNCHANGED <<now, taint, created>>

\* Transfer is TransferAs, with the UIDs and the copies it takes.
LEMMA TransferGives ==
    ASSUME Inv, NEW s \in Session, Transfer(s)
    PROVE  \E placed \in SUBSET Message, relocated \in SUBSET Message, n \in Nat :
           \E uid \in [placed -> Nat], copy \in [placed \ relocated -> Message] :
              TransferAs(s, placed, relocated, n, uid, copy)
  <1> DEFINE c == session[s]
             relocated == {m \in Picked(s) : c.flag \/ m \notin Draft}
             placed == {m \in Picked(s) : m \notin relocated \/ row[m].at # c.f}
             n == Cardinality(placed)
  <1>1. c.picks \in SUBSET (Message \X Nat)
      BY DEF Inv, TypeOK, CommandState
  <1>2. Picked(s) \subseteq Message
      BY <1>1 DEF Picked
  <1>3. placed \in SUBSET Message /\ relocated \in SUBSET Message
      BY <1>2
  <1>4. n \in Nat
      BY <1>3, FS_Subset, FS_CardinalityType, FolderUidsAssumption DEF FolderUidsAssumption
  <1>5. c.f \in Folder /\ folder[c.f].state = "alive" /\ folder[c.f].next \in Nat
      BY DEF Transfer, Alive, Inv, TypeOK, FolderRow
  <1>6. PICK uid \in [placed -> folder[c.f].next .. folder[c.f].next + n - 1],
             copy \in [placed \ relocated -> {m \in Draft : Fresh(m)}] :
             /\ \A p, q \in c.picks :
                   p[1] \in placed /\ q[1] \in placed /\ p # q =>
                       /\ uid[p[1]] # uid[q[1]]
                       /\ p[2] < q[2] => uid[p[1]] < uid[q[1]]
             /\ \A m, k \in placed \ relocated : copy[m] = copy[k] => m = k
             /\ row' = [m \in Message |->
                           IF m \in placed \cap relocated THEN Moved(m, c.f, uid[m])
                           ELSE IF \E k \in placed \ relocated : copy[k] = m
                           THEN NewRow(c.f, uid[CHOOSE k \in placed \ relocated : copy[k] = m],
                                       FALSE, FALSE)
                           ELSE row[m]]
             /\ given' = given
                    \cup {<<c.f, uid[m], m>> : m \in placed \cap relocated}
                    \cup {<<c.f, uid[k], copy[k]>> : k \in placed \ relocated}
      BY Zenon DEF Transfer
  <1>7. /\ uid \in [placed -> Nat]
        /\ \A m \in placed : uid[m] >= folder[c.f].next /\ uid[m] < folder[c.f].next + n
    <2> HIDE DEF n, placed
    <2> QED
        BY <1>4, <1>5, <1>6
  <1>8. /\ copy \in [placed \ relocated -> Message]
        /\ \A m \in placed \ relocated : Fresh(copy[m])
    <2> HIDE DEF placed, relocated
    <2> QED
        BY <1>6, FolderUidsAssumption DEF FolderUidsAssumption
  <1>9. \A m, k \in placed : uid[m] = uid[k] => m = k
    <2> SUFFICES ASSUME NEW m \in placed, NEW k \in placed, m # k PROVE uid[m] # uid[k]
        OBVIOUS
    <2>1. PICK p \in c.picks, q \in c.picks : p[1] = m /\ q[1] = k
        BY DEF Picked
    <2> QED
        BY <1>6, <2>1
  <1>10. \A m \in placed : Holds(m)
      BY DEF Transfer
  <1>11. Advance(c.f, n) /\ Finish(s) /\ UNCHANGED <<now, taint, created>>
      BY DEF Transfer
  <1> HIDE DEF placed, relocated, n
  <1>12. TransferAs(s, placed, relocated, n, uid, copy)
      BY <1>5, <1>6, <1>7, <1>8, <1>9, <1>10, <1>11, Zenon DEF TransferAs
  <1> QED
      BY <1>3, <1>4, <1>7, <1>8, <1>12

\* COPY and MOVE.
LEMMA TransferType ==
    ASSUME Inv, begun' \in Nat, NEW s \in Session, Transfer(s)
    PROVE  TypeOK'
  <1> DEFINE f == session[s].f
  <1>0. TypeOK
      BY DEF Inv
  <1>1. PICK placed \in SUBSET Message, relocated \in SUBSET Message, n \in Nat :
        \E uid \in [placed -> Nat], copy \in [placed \ relocated -> Message] :
              TransferAs(s, placed, relocated, n, uid, copy)
      BY TransferGives
  <1>2. PICK uid \in [placed -> Nat], copy \in [placed \ relocated -> Message] :
              TransferAs(s, placed, relocated, n, uid, copy)
      BY <1>1
  <1>3. f \in Folder
      BY <1>2 DEF TransferAs
  <1>4. row' \in [Message -> MessageRow]
    <2>1. ASSUME NEW m \in placed \cap relocated PROVE Moved(m, f, uid[m]) \in MessageRow
        BY <1>0, <1>3, RowUpdateTypes DEF Moved
    <2>2. ASSUME NEW m \in Message, \E k \in placed \ relocated : copy[k] = m
          PROVE  NewRow(f, uid[CHOOSE k \in placed \ relocated : copy[k] = m], FALSE, FALSE)
                     \in MessageRow
      <3>1. (CHOOSE k \in placed \ relocated : copy[k] = m) \in placed
          BY <2>2
      <3>2. uid[CHOOSE k \in placed \ relocated : copy[k] = m] \in Nat
          BY <3>1
      <3> QED
          BY <3>2, <1>3, RowTypes
    <2>3. \A m \in Message : row[m] \in MessageRow
        BY <1>0 DEF TypeOK
    <2>4. row' = [m \in Message |->
                 IF m \in placed \cap relocated THEN Moved(m, f, uid[m])
                 ELSE IF \E k \in placed \ relocated : copy[k] = m
                 THEN NewRow(f, uid[CHOOSE k \in placed \ relocated : copy[k] = m],
                             FALSE, FALSE)
                 ELSE row[m]]
        BY <1>2 DEF TransferAs
    <2> HIDE DEF f
    <2> QED
        BY <2>1, <2>2, <2>3, <2>4, Zenon
  <1>5. given' \subseteq Folder \X Nat \X Message
    <2>1. given \subseteq Folder \X Nat \X Message
        BY <1>0 DEF TypeOK
    <2>2. given' = given \cup {<<f, uid[m], m>> : m \in placed \cap relocated}
                         \cup {<<f, uid[k], copy[k]>> : k \in placed \ relocated}
        BY <1>2 DEF TransferAs
    <2> QED
        BY <2>1, <2>2, <1>3
  <1>6. folder' \in [Folder -> FolderRow]
      BY <1>0, <1>2, <1>3, AdvanceType DEF TransferAs
  <1>7. session' \in [Session -> CommandState]
      BY <1>0, <1>2, FinishType DEF TransferAs
  <1> QED
      BY <1>0, <1>2, <1>4, <1>5, <1>6, <1>7 DEF TransferAs, TypeOK

-----------------------------------------------------------------------------
(* The parts of Inv after a step. *)

\* A step that claims nothing and gives nothing: commands go on without a claim,
\* rows stay where they are or go, EXPUNGE reads marked rows.
LEMMA Frame ==
    ASSUME Inv, TypeOK', UNCHANGED <<folder, given, taint>>,
           \A s \in Session : session'[s] = session[s] \/ ~Claiming(s)',
           \A m \in Message : \/ row'[m].at = 0
                              \/ row'[m].at = row[m].at /\ row'[m].uid = row[m].uid,
           \A s \in Session :
              \/ session'[s] = session[s]
              \/ session'[s].op # "expunge"
              \/ /\ session'[s].f # 0
                 /\ \A p \in session'[s].picks : <<session'[s].f, p[2], p[1]>> \in given
    PROVE  Inv'
  <1>1. Born'
      BY DEF Inv, Born, Claiming
  <1>2. GivenBelow'
      BY DEF Inv, GivenBelow
  <1>3. ClaimsFree'
      BY DEF Inv, ClaimsFree, Claiming
  <1>4. ClaimsDiffer'
      BY DEF Inv, ClaimsDiffer, Claiming
  <1>5. RowsGiven'
      BY DEF Inv, RowsGiven, Holds
  <1>6. PicksGiven'
      BY DEF Inv, PicksGiven, Is
  <1>7. UidsNameOneMessage'
      BY DEF Inv, UidsNameOneMessage
  <1> QED
      BY <1>1, <1>2, <1>3, <1>4, <1>5, <1>6, <1>7 DEF Inv

\* A step of the folders: none that is born loses its counter.
LEMMA FolderFrame ==
    ASSUME Inv, TypeOK', UNCHANGED given, taint \subseteq taint',
           \A s \in Session : session'[s] = session[s] \/ session'[s].op = "idle",
           \A f \in Folder : folder[f].state # "unborn" =>
               /\ folder'[f].state # "unborn"
               /\ folder'[f].next = folder[f].next \/ f \in taint',
           \A m \in Message : row'[m] = row[m] \/ row'[m].at = 0
    PROVE  Inv'
  <1>0. given \subseteq Folder \X Nat \X Message
      BY DEF Inv, TypeOK
  <1>1. Born'
      BY <1>0 DEF Inv, Born, Claiming
  <1>2. GivenBelow'
      BY <1>0 DEF Inv, GivenBelow, Born
  <1>3. ClaimsFree'
      BY DEF Inv, ClaimsFree, Claiming, Born
  <1>4. ClaimsDiffer'
      BY DEF Inv, ClaimsDiffer, Claiming
  <1>5. RowsGiven'
      BY DEF Inv, RowsGiven, Holds
  <1>6. PicksGiven'
      BY DEF Inv, PicksGiven, Is
  <1>7. UidsNameOneMessage'
      BY DEF Inv, UidsNameOneMessage
  <1> QED
      BY <1>1, <1>2, <1>3, <1>4, <1>5, <1>6, <1>7 DEF Inv

\* A new folder takes the place of none.
LEMMA InsertKeeps ==
    ASSUME NEW n, NEW t, NEW v, Insert(n, t, v), folder \in [Folder -> FolderRow]
    PROVE  \A f \in Folder : folder[f].state # "unborn" => folder'[f] = folder[f]
  BY DEF Insert

\* Creating and deleting a folder keeps the invariant: its number was never used.
LEMMA FoldersStep ==
    ASSUME Inv, TypeOK', NEW n \in Name, NEW f \in Folder,
           CreateMailbox(n) \/ CreateDestination(n) \/ DeleteMailbox(f)
    PROVE  Inv'
  <1>0. folder \in [Folder -> FolderRow]
      BY DEF Inv, TypeOK
  <1>1. CASE CreateMailbox(n)
    <2>1. \A g \in Folder : folder[g].state # "unborn" => folder'[g] = folder[g]
        BY <1>0, <1>1, InsertKeeps DEF CreateMailbox
    <2>2. UNCHANGED <<session, given, taint, row>>
        BY <1>1 DEF CreateMailbox
    <2> QED
        BY <2>1, <2>2, FolderFrame
  <1>2. CASE CreateDestination(n)
    <2>1. \A g \in Folder : folder[g].state # "unborn" => folder'[g] = folder[g]
        BY <1>0, <1>2, InsertKeeps DEF CreateDestination
    <2>2. UNCHANGED <<session, given, taint, row>>
        BY <1>2 DEF CreateDestination
    <2> QED
        BY <2>1, <2>2, FolderFrame
  <1>3. CASE DeleteMailbox(f)
    <2>1. \A g \in Folder : folder[g].state # "unborn" =>
             folder'[g].state # "unborn" /\ folder'[g].next = folder[g].next
        BY <1>0, <1>3 DEF DeleteMailbox, FolderRow
    <2>2. \A m \in Message : row'[m] = row[m] \/ row'[m].at = 0
        BY <1>3 DEF DeleteMailbox, NoRow
    <2>3. UNCHANGED <<session, given, taint>>
        BY <1>3 DEF DeleteMailbox
    <2> QED
        BY <2>1, <2>2, <2>3, FolderFrame
  <1> QED
      BY <1>1, <1>2, <1>3

\* The commands that only read.
LEMMA ReadStep ==
    ASSUME Inv, TypeOK', NEW s \in Session, NEW f \in Folder,
           \/ ExpungeRead(s, f)
           \/ \E n \in Name : RenameRead(s, f, n)
           \/ \E ms \in SUBSET Message, flag \in BOOLEAN, op \in {"store", "transfer"} :
                 \E dest \in Folder \cup {0} : Select(s, op, f, ms, dest, flag)
    PROVE  Inv'
  <1> USE DEF Command
  <1>0. session \in [Session -> CommandState]
      BY DEF Inv, TypeOK
  <1>1. CASE ExpungeRead(s, f)
    <2> DEFINE marked == {m \in Message : row[m].at = f /\ row[m].deleted /\ ~row[m].vault}
    <2>1. session' = [session EXCEPT ![s] = Command("expunge", f, 0, Picks(marked), FALSE, Inbox)]
        BY <1>1 DEF ExpungeRead
    <2>2. f # 0
        BY DEF Folder
    <2>3. \A p \in Picks(marked) : <<f, p[2], p[1]>> \in given
        BY <2>2 DEF Picks, Inv, RowsGiven, Holds
    <2>4. UNCHANGED <<folder, row, given, taint>>
        BY <1>1 DEF ExpungeRead
    <2>5. \A t \in Session : session'[t] = session[t] \/ ~Claiming(t)'
        BY <1>0, <2>1 DEF Claiming
    <2>6. \A t \in Session : \/ session'[t] = session[t]
                             \/ /\ session'[t].f # 0
                                /\ \A p \in session'[t].picks :
                                      <<session'[t].f, p[2], p[1]>> \in given
        BY <1>0, <2>1, <2>2, <2>3
    <2> QED
        BY <2>4, <2>5, <2>6, Frame
  <1>2. ASSUME NEW n \in Name, RenameRead(s, f, n) PROVE Inv'
    <2>1. \A t \in Session : session'[t] = session[t] \/ session'[t].op = "rename"
        BY <1>0, <1>2 DEF RenameRead
    <2>2. UNCHANGED <<folder, row, given, taint>>
        BY <1>2 DEF RenameRead
    <2> QED
        BY <2>1, <2>2, Frame DEF Claiming
  <1>3. ASSUME NEW ms \in SUBSET Message, NEW flag \in BOOLEAN, NEW op \in {"store", "transfer"},
               NEW dest \in Folder \cup {0}, Select(s, op, f, ms, dest, flag)
        PROVE  Inv'
    <2>1. \A t \in Session : session'[t] = session[t] \/ session'[t].op \in {"store", "transfer"}
        BY <1>0, <1>3 DEF Select
    <2>2. UNCHANGED <<folder, row, given, taint>>
        BY <1>3 DEF Select
    <2> QED
        BY <2>1, <2>2, Frame DEF Claiming
  <1> QED
      BY <1>1, <1>2, <1>3

\* Finish leaves one session idle and the others alone.
LEMMA FinishIdle ==
    ASSUME NEW s \in Session, Finish(s), session \in [Session -> CommandState]
    PROVE  /\ session'[s].op = "idle"
           /\ \A t \in Session : t # s => session'[t] = session[t]
  BY DEF Finish, Idle, Command

\* RENAME keeps the invariant: folders keep their numbers.
LEMMA RenameStep ==
    ASSUME Inv, TypeOK', NEW s \in Session, RenameWrite(s)
    PROVE  Inv'
  <1> DEFINE c == session[s]
  <1>0. folder \in [Folder -> FolderRow] /\ session \in [Session -> CommandState]
      BY DEF Inv, TypeOK
  <1>1. \A t \in Session : session'[t] = session[t] \/ session'[t].op = "idle"
      BY <1>0, FinishIdle DEF RenameWrite
  <1>2. UNCHANGED <<row, given>> /\ taint \subseteq taint'
      BY DEF RenameWrite
  <1>3. \A f \in Folder : folder[f].state # "unborn" =>
            /\ folder'[f].state # "unborn"
            /\ folder'[f].next = folder[f].next \/ f \in taint'
    <2>1. CASE UNCHANGED folder
        BY <2>1
    <2>2. CASE /\ folder' = [folder EXCEPT ![c.f] =
                               [state |-> "alive", name |-> c.name, type |-> @.type,
                                valid |-> @.valid, next |-> c.uid]]
               /\ taint' = IF c.uid # folder[c.f].next THEN taint \cup {c.f} ELSE taint
        BY <2>2, <1>0
    <2> QED
        BY <2>1, <2>2 DEF RenameWrite
  <1> QED
      BY <1>1, <1>2, <1>3, FolderFrame

\* A UID claimed is the counter before; no other command has it, nor the database.
LEMMA ClaimStep ==
    ASSUME Inv, TypeOK', NEW s \in Session, NEW f \in Folder, Alive(f), Advance(f, 1),
           NEW op \in {"append", "deliver", "unspam"}, NEW picks, NEW flag,
           session' = [session EXCEPT ![s] = Command(op, f, folder[f].next, picks, flag, Inbox)],
           UNCHANGED <<row, given, taint>>
    PROVE  Inv'
  <1> DEFINE u == folder[f].next
  <1>0. /\ folder \in [Folder -> FolderRow] /\ session \in [Session -> CommandState]
        /\ given \subseteq Folder \X Nat \X Message /\ u \in Nat
      BY DEF Inv, TypeOK, FolderRow
  <1>1. /\ session'[s].op = op /\ session'[s].f = f /\ session'[s].uid = u
        /\ \A t \in Session : t # s => session'[t] = session[t]
      BY <1>0 DEF Command
  <1>2. /\ folder'[f].next = u + 1 /\ folder'[f].state = folder[f].state
        /\ \A g \in Folder : g # f => folder'[g] = folder[g]
      BY <1>0 DEF Advance
  <1>3. folder[f].state = "alive"
      BY DEF Alive
  <1>4. \A g \in Folder : folder'[g].next >= folder[g].next
                          /\ folder'[g].state = folder[g].state
      BY <1>0, <1>2 DEF FolderRow
  <1>5. Born'
    <2>1. \A g \in given : folder'[g[1]].state # "unborn"
        BY <1>0, <1>4 DEF Inv, Born
    <2>2. ASSUME NEW t \in Session, Claiming(t)'
          PROVE  session'[t].f \in Folder /\ folder'[session'[t].f].state # "unborn"
      <3>1. CASE t = s
          BY <3>1, <1>1, <1>2, <1>3
      <3>2. CASE t # s
          BY <3>2, <2>2, <1>1, <1>4 DEF Inv, Born, Claiming
      <3> QED
          BY <3>1, <3>2
    <2> QED
        BY <2>1, <2>2 DEF Born
  <1>6. GivenBelow'
    <2> SUFFICES ASSUME NEW g \in given, g[1] \notin taint PROVE g[2] < folder'[g[1]].next
        BY DEF GivenBelow
    <2>1. g[2] < folder[g[1]].next /\ g[1] \in Folder /\ g[2] \in Nat
        BY <1>0 DEF Inv, GivenBelow
    <2>2. folder[g[1]].next \in Nat /\ folder'[g[1]].next \in Nat
        BY <2>1, <1>0 DEF TypeOK, FolderRow
    <2> QED
        BY <2>1, <2>2, <1>4
  <1>7. ClaimsFree'
    <2> SUFFICES ASSUME NEW t \in Session, Claiming(t)', session'[t].f \notin taint
                 PROVE  /\ session'[t].uid < folder'[session'[t].f].next
                        /\ \A g \in given : g[1] = session'[t].f => g[2] # session'[t].uid
        BY DEF ClaimsFree
    <2>1. CASE t = s
      <3>1. \A g \in given : g[1] = f => g[2] < u
          BY <2>1, <1>1 DEF Inv, GivenBelow
      <3> QED
          BY <2>1, <3>1, <1>0, <1>1, <1>2
    <2>2. CASE t # s
      <3>1. Claiming(t) /\ session'[t] = session[t] /\ session[t].f \in Folder
          BY <2>2, <1>1 DEF Claiming, Inv, Born
      <3>2. /\ session[t].uid < folder[session[t].f].next
            /\ \A g \in given : g[1] = session[t].f => g[2] # session[t].uid
          BY <3>1 DEF Inv, ClaimsFree
      <3>3. /\ session[t].uid \in Nat /\ folder[session[t].f].next \in Nat
            /\ folder'[session[t].f].next \in Nat
          BY <3>1, <1>0 DEF TypeOK, FolderRow, CommandState
      <3> QED
          BY <3>1, <3>2, <3>3, <1>4
    <2> QED
        BY <2>1, <2>2
  <1>8. ClaimsDiffer'
    <2>1. ASSUME NEW t \in Session, t # s, Claiming(t), session[t].f = f, f \notin taint
          PROVE  session[t].uid # u
      <3>1. session[t].uid < u
          BY <2>1 DEF Inv, ClaimsFree
      <3>2. session[t].uid \in Nat
          BY <1>0 DEF CommandState
      <3> QED
          BY <3>1, <3>2, <1>0
    <2> QED
        BY <2>1, <1>1 DEF ClaimsDiffer, Inv, Claiming
  <1>9. RowsGiven'
      BY DEF Inv, RowsGiven, Holds
  <1>10. PicksGiven'
      BY <1>1 DEF Inv, PicksGiven, Is
  <1>11. UidsNameOneMessage'
      BY DEF Inv, UidsNameOneMessage
  <1> QED
      BY <1>5, <1>6, <1>7, <1>8, <1>9, <1>10, <1>11 DEF Inv

\* The claimed UID is given to a message.
LEMMA UseStep ==
    ASSUME Inv, TypeOK', NEW s \in Session, NEW m \in Message, Claiming(s), Finish(s),
           UNCHANGED <<folder, taint>>,
           given' = given \cup {<<session[s].f, session[s].uid, m>>},
           row'[m].at = session[s].f /\ row'[m].uid = session[s].uid,
           \A k \in Message : k # m => row'[k] = row[k]
    PROVE  Inv'
  <1> DEFINE f == session[s].f
             u == session[s].uid
  <1>0. /\ session \in [Session -> CommandState] /\ u \in Nat
        /\ f \in Folder /\ folder[f].state # "unborn"
      BY DEF Inv, TypeOK, CommandState, Born
  <1>1. /\ session'[s].op = "idle"
        /\ \A t \in Session : t # s => session'[t] = session[t]
      BY <1>0, FinishIdle
  <1>2. f \notin taint => u < folder[f].next /\ \A g \in given : g[1] = f => g[2] # u
      BY DEF Inv, ClaimsFree
  <1>3. Born'
      BY <1>0, <1>1 DEF Inv, Born, Claiming
  <1>4. GivenBelow'
      BY <1>2 DEF Inv, GivenBelow
  <1>5. ClaimsFree'
    <2> SUFFICES ASSUME NEW t \in Session, Claiming(t)', session'[t].f \notin taint
                 PROVE  /\ session'[t].uid < folder[session'[t].f].next
                        /\ \A g \in given' : g[1] = session'[t].f => g[2] # session'[t].uid
        BY DEF ClaimsFree
    <2>1. t # s /\ session'[t] = session[t] /\ Claiming(t)
        BY <1>1 DEF Claiming
    <2>2. session[t].f = f => session[t].uid # u
        BY <2>1 DEF Inv, ClaimsDiffer
    <2> QED
        BY <2>1, <2>2 DEF Inv, ClaimsFree
  <1>6. ClaimsDiffer'
      BY <1>1 DEF Inv, ClaimsDiffer, Claiming
  <1>7. RowsGiven'
      BY DEF Inv, RowsGiven, Holds
  <1>8. PicksGiven'
      BY <1>1 DEF Inv, PicksGiven, Is
  <1>9. UidsNameOneMessage'
      BY <1>2 DEF Inv, UidsNameOneMessage
  <1> QED
      BY <1>3, <1>4, <1>5, <1>6, <1>7, <1>8, <1>9 DEF Inv

\* Restoring gives a known UID again, or taints the folder.
LEMMA RestoreStep ==
    ASSUME Inv, TypeOK', NEW m \in Message, Restore(m)
    PROVE  Inv'
  <1> DEFINE f == IF row[m].orig = 0 THEN row[m].at ELSE row[m].orig
             g0 == <<f, row[m].uid, m>>
  <1>0. /\ row \in [Message -> MessageRow] /\ given \subseteq Folder \X Nat \X Message
        /\ row[m].uid \in Nat
      BY DEF Inv, TypeOK, MessageRow
  <1>1. /\ UNCHANGED <<folder, session>> /\ given' = given \cup {g0} /\ taint \subseteq taint'
        /\ f \in Folder /\ folder[f].state = "alive"
        /\ row' = [row EXCEPT ![m] =
                     [at |-> f, uid |-> @.uid, deleted |-> FALSE, vault |-> FALSE,
                      orig |-> 0, spam |-> @.spam]]
      BY DEF Restore, Alive
  <1>2. g0 \in given \/ f \in taint'
      BY DEF Restore, Inv, RowsGiven
  <1>3. Born'
      BY <1>1 DEF Inv, Born, Claiming
  <1>4. GivenBelow'
      BY <1>1, <1>2 DEF Inv, GivenBelow
  <1>5. ClaimsFree'
      BY <1>1, <1>2 DEF Inv, ClaimsFree, Claiming
  <1>6. ClaimsDiffer'
      BY <1>1 DEF Inv, ClaimsDiffer, Claiming
  <1>7. RowsGiven'
    <2>1. row'[m].at = f /\ row'[m].uid = row[m].uid
        BY <1>0, <1>1
    <2>2. \A k \in Message : k # m => row'[k] = row[k]
        BY <1>0, <1>1
    <2> QED
        BY <1>1, <2>1, <2>2 DEF Inv, RowsGiven, Holds
  <1>8. PicksGiven'
      BY <1>1 DEF Inv, PicksGiven, Is
  <1>9. UidsNameOneMessage'
      BY <1>1, <1>2 DEF Inv, UidsNameOneMessage
  <1> QED
      BY <1>3, <1>4, <1>5, <1>6, <1>7, <1>8, <1>9 DEF Inv

\* A transfer gives UIDs nobody has.
LEMMA TransferStep ==
    ASSUME Inv, TypeOK', NEW s \in Session, Transfer(s)
    PROVE  Inv'
  <1> DEFINE f == session[s].f
  <1>0. /\ folder \in [Folder -> FolderRow] /\ session \in [Session -> CommandState]
        /\ given \subseteq Folder \X Nat \X Message /\ row \in [Message -> MessageRow]
      BY DEF Inv, TypeOK
  <1>1. PICK placed \in SUBSET Message, relocated \in SUBSET Message, n \in Nat :
        \E uid \in [placed -> Nat], copy \in [placed \ relocated -> Message] :
              TransferAs(s, placed, relocated, n, uid, copy)
      BY TransferGives
  <1>2. PICK uid \in [placed -> Nat], copy \in [placed \ relocated -> Message] :
              TransferAs(s, placed, relocated, n, uid, copy)
      BY <1>1
  <1> DEFINE moves == {<<f, uid[m], m>> : m \in placed \cap relocated}
             copies == {<<f, uid[k], copy[k]>> : k \in placed \ relocated}
  <1>3. /\ f \in Folder /\ folder[f].state = "alive"
        /\ given' = given \cup moves \cup copies
        /\ \A t \in Session : session'[t] = session[t] \/ session'[t].op = "idle"
        /\ UNCHANGED <<taint>>
      BY <1>0, <1>2, FinishIdle DEF TransferAs
  <1>4. /\ folder'[f].next = folder[f].next + n /\ folder[f].next \in Nat
        /\ folder'[f].state = folder[f].state
        /\ \A g \in Folder : g # f => folder'[g] = folder[g]
      BY <1>0, <1>2, <1>3 DEF TransferAs, Advance, FolderRow
  <1>5. \A k \in placed : /\ uid[k] \in Nat /\ uid[k] >= folder[f].next
                          /\ uid[k] < folder'[f].next
      BY <1>2, <1>4 DEF TransferAs
  <1>6. \A g \in moves \cup copies : /\ g[1] = f /\ g[2] \in Nat
                                     /\ g[2] >= folder[f].next /\ g[2] < folder'[f].next
      BY <1>5
  <1>7. \A a, b \in moves \cup copies : a[2] = b[2] => a[3] = b[3]
    <2>1. \A m, k \in placed : uid[m] = uid[k] => m = k
        BY <1>2 DEF TransferAs
    <2>2. \A a \in moves : \E k \in placed \cap relocated : a[2] = uid[k] /\ a[3] = k
        OBVIOUS
    <2>3. \A a \in copies : \E k \in placed \ relocated : a[2] = uid[k] /\ a[3] = copy[k]
        OBVIOUS
    <2> HIDE DEF moves, copies
    <2> QED
        BY <2>1, <2>2, <2>3
  <1> HIDE DEF moves, copies
  <1>8. \A g \in Folder : folder'[g].next >= folder[g].next /\ folder'[g].state = folder[g].state
                          /\ folder[g].next \in Nat /\ folder'[g].next \in Nat
      BY <1>0, <1>4 DEF FolderRow, TypeOK
  <1>9. Born'
      BY <1>0, <1>3, <1>6, <1>8 DEF Inv, Born, Claiming
  <1>10. GivenBelow'
    <2> SUFFICES ASSUME NEW g \in given', g[1] \notin taint PROVE g[2] < folder'[g[1]].next
        BY <1>3 DEF GivenBelow
    <2>1. CASE g \in given
      <3>1. g[2] < folder[g[1]].next /\ g[1] \in Folder /\ g[2] \in Nat
          BY <2>1, <1>0 DEF Inv, GivenBelow
      <3> QED
          BY <3>1, <1>8
    <2>2. CASE g \in moves \cup copies
        BY <2>2, <1>6
    <2> QED
        BY <2>1, <2>2, <1>3
  <1>11. ClaimsFree'
    <2> SUFFICES ASSUME NEW t \in Session, Claiming(t)', session'[t].f \notin taint
                 PROVE  /\ session'[t].uid < folder'[session'[t].f].next
                        /\ \A g \in given' : g[1] = session'[t].f => g[2] # session'[t].uid
        BY <1>3 DEF ClaimsFree
    <2>1. Claiming(t) /\ session'[t] = session[t]
        BY <1>3 DEF Claiming
    <2>2. /\ session[t].uid < folder[session[t].f].next
          /\ \A g \in given : g[1] = session[t].f => g[2] # session[t].uid
        BY <2>1 DEF Inv, ClaimsFree
    <2>3. session[t].uid \in Nat /\ session[t].f \in Folder
        BY <2>1, <1>0 DEF CommandState, Inv, Born
    <2>4. session[t].uid < folder'[session[t].f].next
        BY <2>2, <2>3, <1>8
    <2>5. \A g \in moves \cup copies : g[1] = session[t].f => g[2] # session[t].uid
        BY <2>2, <2>3, <1>4, <1>6
    <2> QED
        BY <2>1, <2>2, <2>4, <2>5, <1>3
  <1>12. ClaimsDiffer'
      BY <1>3 DEF Inv, ClaimsDiffer, Claiming
  <1>13. RowsGiven'
    <2> SUFFICES ASSUME NEW m \in Message, Holds(m)'
                 PROVE  <<row'[m].at, row'[m].uid, m>> \in given'
        BY DEF RowsGiven
    <2>1. CASE m \in placed \cap relocated
      <3>1. row'[m] = Moved(m, f, uid[m])
          BY <1>2, <2>1 DEF TransferAs
      <3>2. <<f, uid[m], m>> \in moves
          BY <2>1 DEF moves
      <3> QED
          BY <3>1, <3>2, <1>3 DEF Moved
    <2>2. CASE m \notin placed \cap relocated /\ \E k \in placed \ relocated : copy[k] = m
      <3> DEFINE k == CHOOSE k \in placed \ relocated : copy[k] = m
      <3>1. k \in placed \ relocated /\ copy[k] = m
          BY <2>2
      <3>2. row'[m] = NewRow(f, uid[k], FALSE, FALSE)
          BY <1>2, <2>2 DEF TransferAs
      <3>3. <<f, uid[k], m>> \in copies
          BY <3>1 DEF copies
      <3> HIDE DEF k
      <3> QED
          BY <3>2, <3>3, <1>3 DEF NewRow
    <2>3. CASE m \notin placed \cap relocated /\ ~ \E k \in placed \ relocated : copy[k] = m
      <3>1. row'[m] = row[m]
          BY <1>2, <2>3 DEF TransferAs
      <3> QED
          BY <3>1, <1>3 DEF Inv, RowsGiven, Holds
    <2> QED
        BY <2>1, <2>2, <2>3
  <1>14. PicksGiven'
      BY <1>3 DEF Inv, PicksGiven, Is
  <1>15. UidsNameOneMessage'
    <2> SUFFICES ASSUME NEW a \in given', NEW b \in given', a[1] = b[1], a[2] = b[2],
                        a[1] \notin taint
                 PROVE  a[3] = b[3]
        BY <1>3 DEF UidsNameOneMessage
    <2>1. ASSUME NEW x \in given, NEW y \in moves \cup copies, x[1] = y[1], x[1] \notin taint
          PROVE  x[2] # y[2]
      <3>1. x[2] < folder[f].next /\ x[2] \in Nat
          BY <2>1, <1>0, <1>6 DEF Inv, GivenBelow
      <3> QED
          BY <2>1, <3>1, <1>4, <1>6
    <2>2. CASE a \in given /\ b \in given
        BY <2>2 DEF Inv, UidsNameOneMessage
    <2>3. CASE a \in moves \cup copies /\ b \in moves \cup copies
        BY <2>3, <1>7
    <2> QED
        BY <2>1, <2>2, <2>3, <1>3
  <1> QED
      BY <1>9, <1>10, <1>11, <1>12, <1>13, <1>14, <1>15 DEF Inv

-----------------------------------------------------------------------------
(* Every step. *)

\* Steps of one statement that give no UID.
LEMMA SingleStep ==
    ASSUME Inv, begun' \in Nat, NEW m \in Message,
           Delete(m) \/ Restore(m) \/ Remove(m) \/ Classify(m)
    PROVE  Inv'
  <1>1. TypeOK'
      BY SingleTypes DEF Inv, TypeOK
  <1>2. CASE Restore(m)
      BY <1>1, <1>2, RestoreStep
  <1>3. CASE Delete(m) \/ Remove(m) \/ Classify(m)
    <2>1. row \in [Message -> MessageRow]
        BY DEF Inv, TypeOK
    <2>2. \A k \in Message : \/ row'[k].at = 0
                             \/ row'[k].at = row[k].at /\ row'[k].uid = row[k].uid
      <3>1. CASE Delete(m)
        <4>1. row' = [row EXCEPT ![m] = InVault(m)]
            BY <3>1 DEF Delete
        <4>2. InVault(m).at = row[m].at /\ InVault(m).uid = row[m].uid
            BY DEF InVault
        <4> QED
            BY <2>1, <4>1, <4>2
      <3>2. CASE Remove(m)
          BY <2>1, <3>2 DEF Remove, NoRow
      <3>3. CASE Classify(m)
          BY <2>1, <3>3 DEF Classify
      <3> QED
          BY <1>3, <3>1, <3>2, <3>3
    <2>3. UNCHANGED <<folder, session, given, taint>>
        BY <1>3 DEF Delete, Remove, Classify
    <2> QED
        BY <1>1, <2>2, <2>3, Frame
  <1> QED
      BY <1>2, <1>3

\* The first halves of the commands keep the invariant.
LEMMA ArriveStep ==
    ASSUME Inv, begun' \in Nat, NEW s \in Session, NEW f \in Folder, Arrive(s, f)
    PROVE  Inv'
  <1>1. TypeOK'
      BY ArriveType DEF Inv, TypeOK
  <1>2. ASSUME NEW op \in {"append", "deliver"}, NEW flag \in BOOLEAN, ClaimUid(s, f, op, flag)
        PROVE  Inv'
      BY <1>1, <1>2, ClaimStep DEF ClaimUid
  <1>3. ASSUME NEW m \in Message, UnspamClaim(s, f, m) PROVE Inv'
      BY <1>1, <1>3, ClaimStep DEF UnspamClaim
  <1>4. ASSUME NEW ms \in SUBSET Message, NEW flag \in BOOLEAN, NEW dest \in Folder,
               TransferSelect(s, f, ms, dest, flag)
        PROVE  Inv'
      BY <1>1, <1>4, ReadStep DEF TransferSelect
  <1>5. ASSUME NEW ms \in SUBSET Message, NEW flag \in BOOLEAN, StoreSelect(s, f, ms, flag)
        PROVE  Inv'
      BY <1>1, <1>5, ReadStep DEF StoreSelect
  <1> QED
      BY <1>1, <1>2, <1>3, <1>4, <1>5, ReadStep
      DEF Arrive, StoreAppended, DeliverOne, SaveMessageToInbox

\* So do the second halves.
LEMMA ActStep ==
    ASSUME Inv, begun' \in Nat, NEW s \in Session, Act(s)
    PROVE  Inv'
  <1>0. /\ TypeOK /\ (Claiming(s) => session[s].f \in Folder)
        /\ session \in [Session -> CommandState] /\ row \in [Message -> MessageRow]
      BY DEF Inv, TypeOK, Born
  <1>1. CASE RenameWrite(s)
      BY <1>0, <1>1, RenameWriteType, RenameStep
  <1>2. CASE Transfer(s)
      BY <1>2, TransferType, TransferStep
  <1>3. ASSUME NEW m \in Message, StoreMessage(s, m) PROVE Inv'
    <2>1. TypeOK'
        BY <1>0, <1>3, StoreTypes
    <2>2. Claiming(s) /\ Finish(s) /\ UNCHANGED <<folder, taint>>
        BY <1>3 DEF StoreMessage, Claiming, Is
    <2>3. /\ row'[m].at = session[s].f /\ row'[m].uid = session[s].uid
          /\ \A k \in Message : k # m => row'[k] = row[k]
        BY <1>0, <1>3 DEF StoreMessage, NewRow
    <2>4. given' = given \cup {<<session[s].f, session[s].uid, m>>}
        BY <1>3 DEF StoreMessage
    <2> QED
        BY <2>1, <2>2, <2>3, <2>4, UseStep
  <1>4. ASSUME NEW m \in Message, Unspam(s, m) PROVE Inv'
    <2>1. TypeOK'
        BY <1>0, <1>4, StoreTypes
    <2>2. Claiming(s) /\ Finish(s) /\ UNCHANGED <<folder, taint>>
        BY <1>4 DEF Unspam, Claiming, Is
    <2>3. CASE Holds(m)
      <3>1. /\ row'[m].at = session[s].f /\ row'[m].uid = session[s].uid
            /\ \A k \in Message : k # m => row'[k] = row[k]
          BY <1>0, <1>4, <2>3 DEF Unspam
      <3>2. given' = given \cup {<<session[s].f, session[s].uid, m>>}
          BY <1>4, <2>3 DEF Unspam
      <3> QED
          BY <2>1, <2>2, <3>1, <3>2, UseStep
    <2>4. CASE ~Holds(m)
      <3>1. UNCHANGED <<row, given>>
          BY <1>4, <2>4 DEF Unspam
      <3>2. \A t \in Session : session'[t] = session[t] \/ session'[t].op = "idle"
          BY <1>0, <2>2, FinishIdle
      <3> QED
          BY <2>1, <2>2, <3>1, <3>2, Frame DEF Claiming
    <2> QED
        BY <2>3, <2>4
  <1>5. CASE StoreFails(s) \/ TransferFails(s)
    <2>1. UNCHANGED <<folder, row, now, given, taint, created>> /\ Finish(s)
        BY <1>5 DEF StoreFails, TransferFails
    <2>2. \A t \in Session : session'[t] = session[t] \/ session'[t].op = "idle"
        BY <1>0, <2>1, FinishIdle
    <2>3. TypeOK'
        BY <1>0, <2>1, FinishType DEF TypeOK
    <2> QED
        BY <2>1, <2>2, <2>3, Frame DEF Claiming
  <1>6. ASSUME NEW m \in Message, StoreFlag(s, m) PROVE Inv'
    <2>1. TypeOK'
        BY <1>0, <1>6, StoreTypes
    <2>2. \A t \in Session : session'[t] = session[t] \/ session'[t].op \in {"idle", "store"}
        BY <1>0, <1>6 DEF StoreFlag, Idle, Command
    <2>3. \A k \in Message : row'[k].at = row[k].at /\ row'[k].uid = row[k].uid
        BY <1>0, <1>6 DEF StoreFlag
    <2>4. UNCHANGED <<folder, given, taint>>
        BY <1>6 DEF StoreFlag
    <2> QED
        BY <2>1, <2>2, <2>3, <2>4, Frame DEF Claiming
  <1>7. CASE ExpungeWrite(s)
    <2>1. TypeOK'
      <3>1. CASE Message = {}
        <4>1. row' \in [Message -> MessageRow]
            BY <1>7, <3>1 DEF ExpungeWrite
        <4>2. session' \in [Session -> CommandState]
            BY <1>0, <1>7, FinishType DEF ExpungeWrite
        <4> QED
            BY <1>0, <1>7, <4>1, <4>2 DEF ExpungeWrite, TypeOK
      <3>2. ASSUME NEW m \in Message PROVE TypeOK'
          BY <1>0, <1>7, StoreTypes
      <3> QED
          BY <3>1, <3>2
    <2>2. \A t \in Session : session'[t] = session[t] \/ session'[t].op = "idle"
        BY <1>0, <1>7, FinishIdle DEF ExpungeWrite
    <2>3. \A k \in Message : \/ row'[k].at = 0
                             \/ row'[k].at = row[k].at /\ row'[k].uid = row[k].uid
        BY <1>0, <1>7 DEF ExpungeWrite, NoRow, InVault
    <2>4. UNCHANGED <<folder, given, taint>>
        BY <1>7 DEF ExpungeWrite
    <2> QED
        BY <2>1, <2>2, <2>3, <2>4, Frame DEF Claiming
  <1> QED
      BY <1>1, <1>2, <1>3, <1>4, <1>5, <1>6, <1>7 DEF Act

\* The invariant holds at the start.
LEMMA InitInv == Init => Inv
  <1> SUFFICES ASSUME Init PROVE Inv
      OBVIOUS
  <1>1. TypeOK
      BY InitType
  <1>2. \A s \in Session : session[s].op = "idle"
      BY DEF Init, Idle, Command
  <1>3. given = {} /\ \A m \in Message : ~Holds(m)
      BY DEF Init, Holds, NoRow
  <1> QED
      BY <1>1, <1>2, <1>3
      DEF Inv, Born, GivenBelow, ClaimsFree, ClaimsDiffer, RowsGiven, PicksGiven,
          UidsNameOneMessage, Claiming, Is

\* Every step keeps the invariant.
LEMMA NextInv == Inv /\ [Next]_vars => Inv'
  <1> SUFFICES ASSUME Inv, [Next]_vars PROVE Inv'
      OBVIOUS
  <1>0. TypeOK /\ begun \in Nat
      BY DEF Inv, TypeOK
  <1>1. CASE UNCHANGED vars
    <2>1. TypeOK'
        BY <1>0, <1>1 DEF TypeOK, vars
    <2> QED
        BY <1>1, <2>1, Frame DEF vars, Claiming
  <1>2. CASE begun' = begun + 1 /\ Begin
    <2>1. begun' \in Nat
        BY <1>0, <1>2
    <2>2. ASSUME NEW n \in Name, CreateMailbox(n) \/ CreateDestination(n) PROVE Inv'
      <3>1. PICK f \in Folder : TRUE
          BY FolderUidsAssumption DEF Folder, FolderUidsAssumption
      <3>2. TypeOK'
          BY <1>0, <2>1, <2>2, <3>1, FolderActionTypes DEF TypeOK
      <3> QED
          BY <2>2, <3>1, <3>2, FoldersStep
    <2>3. ASSUME NEW f \in Folder, DeleteMailbox(f) PROVE Inv'
      <3>1. PICK n \in Name : TRUE
          BY FolderUidsAssumption DEF FolderUidsAssumption
      <3>2. TypeOK'
          BY <1>0, <2>1, <2>3, <3>1, FolderActionTypes DEF TypeOK
      <3> QED
          BY <2>3, <3>1, <3>2, FoldersStep
    <2> QED
        BY <1>2, <2>1, <2>2, <2>3, ArriveStep, SingleStep DEF Begin
  <1>3. CASE UNCHANGED begun /\ (Tick \/ \E s \in Session : Act(s))
    <2>1. begun' \in Nat
        BY <1>0, <1>3
    <2>2. CASE Tick
      <3>1. TypeOK'
          BY <1>0, <2>1, <2>2 DEF TypeOK, Tick
      <3> QED
          BY <2>2, <3>1, Frame DEF Tick, Claiming
    <2> QED
        BY <1>3, <2>1, <2>2, ActStep
  <1> QED
      BY <1>1, <1>2, <1>3 DEF Next

-----------------------------------------------------------------------------
(* The theorems. *)

\* Inv is inductive, for any number of folders, messages and commands.
THEOREM Invariance == Spec => []Inv
  BY InitInv, NextInv, PTL DEF Spec

\* The state of the folders keeps its types.
THEOREM TypeCorrect == Spec => []TypeOK
  <1>1. Inv => TypeOK
      BY DEF Inv
  <1> QED
      BY <1>1, Invariance, PTL

\* A UID of a folder names one message for ever, in whatever order APPEND,
\* delivery, COPY, MOVE, the spam folder's restore, EXPUNGE and the vault use it
\* (GetNextUIDForFolder, ClaimFolderUID), renames and restores of displaced
\* messages apart.
THEOREM UidsArePermanent == Spec => []UidsNameOneMessage
  <1>1. Inv => UidsNameOneMessage
      BY DEF Inv
  <1> QED
      BY <1>1, Invariance, PTL

\* EXPUNGE, which acts on UIDs it has read before, hits only messages that were
\* marked when it read them and still are.
THEOREM ExpungeIsSafe == Spec => []ExpungeAimsTrue
  <1>1. Inv => ExpungeAimsTrue
    <2> SUFFICES ASSUME Inv, NEW s \in Session, Is(s, "expunge"), session[s].f \notin taint,
                        NEW m \in Hits(s)
                 PROVE  <<m, row[m].uid>> \in session[s].picks /\ row[m].deleted
        BY DEF ExpungeAimsTrue
    <2> DEFINE f == session[s].f
    <2>1. m \in Message /\ row[m].at = f /\ row[m].deleted
        BY DEF Hits
    <2>2. PICK p \in session[s].picks : p[2] = row[m].uid
        BY DEF Hits
    <2>3. p = <<p[1], p[2]>>
        BY DEF Inv, TypeOK, CommandState
    <2>4. f # 0 /\ <<f, p[2], p[1]>> \in given
        BY DEF Inv, PicksGiven
    <2>5. <<f, row[m].uid, m>> \in given
        BY <2>1, <2>4 DEF Inv, RowsGiven, Holds
    <2>6. p[1] = m
        BY <2>2, <2>4, <2>5 DEF Inv, UidsNameOneMessage
    <2> QED
        BY <2>1, <2>2, <2>3, <2>6
  <1> QED
      BY <1>1, Invariance, PTL
=============================================================================
