------------------------ MODULE ChangeJournalProofs ------------------------
(***************************************************************************)
(* Proofs about ChangeJournal for any messages, dialogs, users and limit.  *)
(***************************************************************************)
EXTENDS ChangeJournal, TLAPS

-----------------------------------------------------------------------------
(* Types. *)

\* The initial state has the types.
LEMMA TypeInit == Init => TypeOK
BY JournalAssumption
   DEF Init, TypeOK, Row, Place, Transaction, NoTxn, Poll, Idle

\* Every change of a row is a Write.
LEMMA Writes ==
    ASSUME TypeOK, NEW w \in Writer, NEW m \in Message,
           \/ \E place \in Place : Update(w, m, place)
           \/ MarkSpam(w, m)
           \/ RestoreFromSpam(w, m)
    PROVE  \E place \in Place, updated \in Nat : Write(w, m, place, updated)
<1>1. clock \in Nat /\ row[m].updated \in Nat
  BY DEF TypeOK, Row
<1>2. ASSUME NEW place \in Place, Update(w, m, place)
      PROVE  \E updated \in Nat : Write(w, m, place, updated)
  <2>1. (IF place = "none" THEN 0 ELSE clock) \in Nat
    BY <1>1
  <2> QED BY <1>2, <2>1 DEF Update
<1>3. CASE MarkSpam(w, m)
  BY <1>1, <1>3 DEF MarkSpam, Place
<1>4. CASE RestoreFromSpam(w, m)
  BY <1>1, <1>4 DEF RestoreFromSpam, Place
<1> QED BY <1>2, <1>3, <1>4

\* A change enters a transaction and leaves it as a row and an entry of their types.
LEMMA TypeServer == TypeOK /\ ServerStep => TypeOK'
<1> SUFFICES ASSUME TypeOK, ServerStep PROVE TypeOK'
  OBVIOUS
<1> USE JournalAssumption
<1>1. ASSUME NEW w \in Writer, NEW m \in Message, NEW place \in Place, NEW updated \in Nat,
             Write(w, m, place, updated)
      PROVE TypeOK'
  <2>1. [msg |-> m, place |-> place, updated |-> updated, seq |-> nextSeq, at |-> clock]
            \in Transaction
    BY DEF TypeOK, Transaction
  <2>2. txn' \in [Writer -> Transaction]
    BY <1>1, <2>1 DEF Write, TypeOK
  <2>3. nextSeq' \in Nat
    BY <1>1 DEF Write, TypeOK
  <2> QED BY <1>1, <2>2, <2>3 DEF Write, TypeOK, client
<1>2. ASSUME NEW w \in Writer, Commit(w) PROVE TypeOK'
  <2> DEFINE t == txn[w]
  <2>1. t \in Transaction /\ t.msg \in Message
    BY <1>2 DEF TypeOK, Commit, Open, Transaction
  <2>2. Changed(t) \in Row
    BY <2>1 DEF Changed, Row, Transaction, Place
  <2>3. [seq |-> t.seq, msg |-> t.msg, kind |-> Kind(t.place), ts |-> t.at] \in MessageChange
    BY <2>1 DEF MessageChange, Kind, Transaction
  <2>4. row' \in [Message -> Row]
    BY <1>2, <2>1, <2>2 DEF Commit, TypeOK
  <2>5. journal' \subseteq MessageChange
    BY <1>2, <2>3 DEF Commit, TypeOK
  <2>6. txn' \in [Writer -> Transaction]
    BY <1>2 DEF Commit, TypeOK, NoTxn, Transaction, Place
  <2>7. poll' \in Poll
    BY <1>2, <2>1 DEF Commit, TypeOK, Poll
  <2>8. doubt' \subseteq Mine
    BY <1>2, <2>1 DEF Commit, TypeOK
  <2> QED BY <1>2, <2>4, <2>5, <2>6, <2>7, <2>8 DEF Commit, TypeOK, client
<1>3. ASSUME NEW w \in Writer, Rollback(w) PROVE TypeOK'
  <2>1. txn' \in [Writer -> Transaction]
    BY <1>3 DEF Rollback, TypeOK, NoTxn, Transaction, Place
  <2> QED BY <1>3, <2>1 DEF Rollback, TypeOK, client
<1>4. CASE Tick
  <2>1. clock' \in Nat
    BY <1>4 DEF Tick, TypeOK
  <2> QED BY <1>4, <2>1 DEF Tick, TypeOK, client
<1>5. ASSUME NEW cutoff \in 1..MaxClock, CompactMessageChanges(cutoff) PROVE TypeOK'
  <2>1. journal' \subseteq journal
    BY <1>5 DEF CompactMessageChanges
  <2>2. low' \in Nat
    BY <1>5 DEF CompactMessageChanges, TypeOK, MessageChange
  <2> QED BY <1>5, <2>1, <2>2 DEF CompactMessageChanges, TypeOK, client
<1> QED BY Writes, <1>1, <1>2, <1>3, <1>4, <1>5 DEF ServerStep

\* A poll keeps the types; the cache holds the user's own messages.
LEMMA TypeClient == TypeOK /\ (ClientStep \/ DayPasses) => TypeOK'
<1> SUFFICES ASSUME TypeOK, ClientStep \/ DayPasses PROVE TypeOK'
  OBVIOUS
<1> USE JournalAssumption
<1>0. Idle \in Poll
  BY DEF Idle, Poll
<1>1. CASE PollHead
  <2>1. PICK seq \in {0} \cup {e.seq : e \in journal} :
           poll' = [Idle EXCEPT !.pc = "low", !.latest = seq]
    BY <1>1 DEF PollHead
  <2>2. seq \in Nat
    BY DEF TypeOK, MessageChange
  <2>3. poll' \in Poll
    BY <1>0, <2>1, <2>2 DEF Poll
  <2> QED BY <1>1, <2>3 DEF PollHead, TypeOK, server, client
<1>2. CASE PollLow
  <2>1. poll' \in Poll
    BY <1>2 DEF PollLow, TypeOK, Poll
  <2> QED BY <1>2, <2>1 DEF PollLow, TypeOK, server, client
<1>3. CASE PollTail
  <2>1. PICK tail \in SUBSET Unread, ok \in BOOLEAN :
          LET gone == IF Reset THEN {} ELSE Tombstones(tail)
              kept == {m \in gone : row[m].place = "list" /\ row[m].updated <= since} IN
          /\ cache' = IF ok THEN cache \ gone ELSE cache
          /\ errors' = IF ok THEN errors ELSE errors + 1
          /\ doubt' = doubt \cup Skipped(tail) \cup kept \cup (IF ok THEN {} ELSE gone)
    BY <1>3 DEF PollTail
  <2>2. Tombstones(tail) \subseteq Mine /\ Skipped(tail) \subseteq Mine
    BY DEF Tombstones, Skipped, Unread, TypeOK, MessageChange
  <2>3. cache' \subseteq Mine /\ errors' \in Nat /\ doubt' \subseteq Mine
    BY <2>1, <2>2 DEF TypeOK
  <2>4. cursor' \in Nat
    BY <1>3 DEF PollTail, TypeOK, Poll
  <2>6. poll' \in Poll
    BY <1>0, <1>3 DEF PollTail, Poll
  <2> QED BY <1>3, <2>3, <2>4, <2>6 DEF PollTail, TypeOK, server
<1>4. CASE ChangesFail
  <2>1. poll' \in Poll
    BY <1>0, <1>4 DEF ChangesFail, Poll
  <2> QED BY <1>4, <2>1 DEF ChangesFail, TypeOK, server, client
<1>5. CASE PollList
  <2>1. FullSync \in BOOLEAN
    BY DEF FullSync, TypeOK
  <2>2. poll' \in Poll
    BY <1>5, <2>1 DEF PollList, TypeOK, Poll, Listed
  <2> QED BY <1>5, <2>2 DEF PollList, TypeOK, server, client
<1>6. CASE PollStore
  <2> DEFINE old == {m \in poll.late : row[m].place = "list" /\ row[m].updated <= clock}
  <2>1. PICK ok \in BOOLEAN :
          /\ cache' = IF ok THEN Merged ELSE cache
          /\ errors' = IF ok THEN errors ELSE errors + 1
          /\ doubt' = IF ~ok THEN doubt \cup poll.got \cup old
                      ELSE IF poll.full THEN (doubt \cap poll.late) \cup old
                      ELSE doubt \cup old
    BY <1>6 DEF PollStore
  <2>2. poll.late \subseteq Mine /\ poll.got \subseteq Mine /\ poll.full \in BOOLEAN
    BY DEF TypeOK, Poll
  <2>3. errors' \in Nat /\ doubt' \subseteq Mine
    BY <2>1, <2>2 DEF TypeOK
  <2>4. since' \in Nat /\ fullDue' \in BOOLEAN
    BY <1>6 DEF PollStore, TypeOK, Poll
  <2>5. cache' \subseteq Mine
    BY <2>1 DEF Merged, TypeOK, Poll
  <2> QED BY <1>0, <1>6, <2>3, <2>4, <2>5 DEF PollStore, TypeOK, server
<1>7. CASE ListFails
  BY <1>0, <1>7 DEF ListFails, TypeOK, server, client
<1>8. CASE DayPasses
  BY <1>8 DEF DayPasses, TypeOK, server
<1> QED BY <1>1, <1>2, <1>3, <1>4, <1>5, <1>6, <1>7, <1>8 DEF ClientStep

\* TypeOK is an invariant: every entry, transaction, poll and cache is well formed.
THEOREM TypeCorrect == Spec => []TypeOK
<1>1. TypeOK /\ [Next]_vars => TypeOK'
  BY TypeServer, TypeClient DEF Next, vars, TypeOK
<1> QED BY TypeInit, <1>1, PTL DEF Spec

-----------------------------------------------------------------------------
(* What the cache misses. *)

\* An answer of /conversations is what the list was when it was read: what has
\* left the list since is announced or in doubt, and what is in the list and not
\* in the answer has changed since, or is old and in none of its dialogs.
AnswerInv ==
    poll.pc = "stamp" =>
        /\ \A m \in poll.got \ Listed : m \in poll.late /\ (m \in doubt \/ Announced(m))
        /\ \A m \in Listed \ (poll.late \cup poll.got) :
              ~poll.full /\ ConvOf[m] \notin poll.convs /\ row[m].updated <= since

\* The inductive invariant.
Inv == TypeOK /\ GoneIsAnnounced /\ NewIsDelivered /\ AnswerInv

\* Nothing is missed in the beginning.
LEMMA InvInit == Init => Inv
<1> SUFFICES ASSUME Init PROVE Inv
  OBVIOUS
<1>1. TypeOK
  BY TypeInit
<1>2. Listed = {}
  BY JournalAssumption DEF Listed, Init
<1> QED BY <1>1, <1>2 DEF Init, Inv, GoneIsAnnounced, NewIsDelivered, AnswerInv, Idle

\* A commit leaves what it does not concern as it was, and announces what it does
\* unless it puts it in doubt.
LEMMA InvCommit ==
    ASSUME Inv, TypeOK', NEW w \in Writer, Commit(w)
    PROVE  Inv'
<1> DEFINE t == txn[w]
           entry == [seq |-> t.seq, msg |-> t.msg, kind |-> Kind(t.place), ts |-> t.at]
<1> USE JournalAssumption
<1>1. t \in Transaction /\ t.msg \in Message
  BY DEF Inv, TypeOK, Commit, Open, Transaction
<1>2. /\ row' = [row EXCEPT ![t.msg] = Changed(t)]
      /\ journal' = journal \cup {entry}
      /\ poll' = [poll EXCEPT !.late = IF poll.pc = "stamp" THEN @ \cup ({t.msg} \cap Mine) ELSE @]
      /\ doubt' = IF Unnoticed(t) THEN doubt \cup ({t.msg} \cap Mine) ELSE doubt
      /\ low' = low /\ cache' = cache /\ cursor' = cursor /\ since' = since
  BY DEF Commit, client
<1>3. \A m \in Message : m # t.msg => row'[m] = row[m]
  BY <1>1, <1>2 DEF Inv, TypeOK
<1>4. row'[t.msg] = Changed(t)
  BY <1>1, <1>2 DEF Inv, TypeOK
<1>5. \A m \in Mine : m # t.msg => (m \in Listed' <=> m \in Listed)
  BY <1>3 DEF Listed
<1>6. \A m : Announced(m) => Announced(m)'
  BY <1>2 DEF Announced
<1>7. doubt \subseteq doubt'
  BY <1>2
<1>8. ASSUME NEW m \in Mine, m = t.msg, m \notin Listed', m \notin doubt'
      PROVE  Announced(m)'
  <2>1. t.place # "list"
    BY <1>4, <1>8 DEF Listed, Changed
  <2>2. ~Unnoticed(t)
    BY <1>2, <1>8
  <2>3. Kind(t.place) = "delete" /\ ~(t.seq <= cursor)
    BY <1>1, <2>1, <2>2 DEF Unnoticed, Kind, Transaction, Place
  <2>4. entry \in journal' /\ entry.msg = m /\ entry.kind = "delete" /\ entry.seq = t.seq
    BY <1>2, <1>8, <2>3
  <2>5. t.seq > cursor'
    BY <1>1, <1>2, <2>3 DEF Transaction, Inv, TypeOK
  <2> QED BY <2>4, <2>5 DEF Announced
<1>9. GoneIsAnnounced'
  <2> SUFFICES ASSUME NEW m \in cache', m \notin Listed', m \notin doubt'
               PROVE  Announced(m)'
    BY DEF GoneIsAnnounced
  <2>1. m \in cache /\ m \in Mine
    BY <1>2 DEF Inv, TypeOK
  <2> QED BY <2>1, <1>5, <1>6, <1>7, <1>8 DEF Inv, GoneIsAnnounced
<1>10. NewIsDelivered'
  <2> SUFFICES ASSUME NEW m \in Listed', m \notin cache', m \notin doubt'
               PROVE  row'[m].updated > since'
    BY DEF NewIsDelivered
  <2>1. m \in Mine
    BY DEF Listed
  <2>2. CASE m = t.msg
    <3>1. t.place = "list" /\ row'[m].updated = t.updated
      BY <1>4, <2>2 DEF Listed, Changed
    <3>2. ~(t.updated <= since)
      BY <1>2, <2>1, <2>2, <3>1 DEF Unnoticed
    <3> QED BY <1>1, <1>2, <3>1, <3>2 DEF Transaction, Inv, TypeOK
  <2>3. CASE m # t.msg
    BY <1>2, <1>3, <1>5, <1>7, <2>1, <2>3 DEF Inv, NewIsDelivered
  <2> QED BY <2>2, <2>3
<1>11. AnswerInv'
  <2> SUFFICES ASSUME poll'.pc = "stamp" PROVE AnswerInv'
    BY DEF AnswerInv
  <2>1. /\ poll.pc = "stamp" /\ poll'.late = poll.late \cup ({t.msg} \cap Mine)
        /\ poll'.got = poll.got /\ poll'.full = poll.full /\ poll'.convs = poll.convs
    BY <1>2 DEF Inv, TypeOK, Poll
  <2>2. poll.got \subseteq Mine
    BY DEF Inv, TypeOK, Poll
  <2>3. ASSUME NEW m \in poll'.got, m \notin Listed'
        PROVE  m \in poll'.late /\ (m \in doubt' \/ Announced(m)')
    BY <1>5, <1>6, <1>7, <1>8, <2>1, <2>2, <2>3 DEF Inv, AnswerInv
  <2>4. ASSUME NEW m \in Listed', m \notin poll'.late, m \notin poll'.got
        PROVE  ~poll'.full /\ ConvOf[m] \notin poll'.convs /\ row'[m].updated <= since'
    <3>1. m \in Mine /\ m # t.msg
      BY <2>1, <2>4 DEF Listed
    <3> QED BY <1>2, <1>3, <1>5, <2>1, <2>4, <3>1 DEF Inv, AnswerInv
  <2> QED BY <2>3, <2>4 DEF AnswerInv
<1> QED BY <1>9, <1>10, <1>11 DEF Inv

\* Pruning moves the watermark past what it takes away, so that whoever has not
\* read that is answered with a reset; the other steps of the server change
\* nothing the client depends on.
LEMMA InvServer ==
    ASSUME Inv, TypeOK', ServerStep
    PROVE  Inv'
<1>1. ASSUME NEW w \in Writer, NEW m \in Message, NEW place \in Place, NEW updated \in Nat,
             Write(w, m, place, updated)
      PROVE Inv'
  BY <1>1 DEF Write, client, Inv, GoneIsAnnounced, NewIsDelivered, AnswerInv, Announced, Listed
<1>2. ASSUME NEW w \in Writer, Commit(w) PROVE Inv'
  BY <1>2, InvCommit
<1>3. ASSUME NEW w \in Writer, Rollback(w) PROVE Inv'
  BY <1>3 DEF Rollback, client, Inv, GoneIsAnnounced, NewIsDelivered, AnswerInv, Announced, Listed
<1>4. CASE Tick
  BY <1>4 DEF Tick, client, Inv, GoneIsAnnounced, NewIsDelivered, AnswerInv, Announced, Listed
<1>5. ASSUME NEW cutoff \in 1..MaxClock, CompactMessageChanges(cutoff) PROVE Inv'
  <2> DEFINE pruned == {e \in journal : e.ts < cutoff}
  <2>1. PICK seq \in {low} \cup {e.seq : e \in pruned} :
          low <= seq /\ (\A e \in pruned : e.seq <= seq) /\ low' = seq
    BY <1>5 DEF CompactMessageChanges
  <2>2. seq \in Nat /\ low \in Nat /\ cursor \in Nat /\ \A e \in journal : e.seq \in Nat
    BY DEF Inv, TypeOK, MessageChange
  <2>3. /\ journal' = journal \ pruned
        /\ UNCHANGED <<row, cache, cursor, since, poll, doubt>>
    BY <1>5 DEF CompactMessageChanges, client
  <2>4. ASSUME NEW m, Announced(m) PROVE Announced(m)'
    <3>1. CASE cursor < low
      BY <2>1, <2>2, <2>3, <3>1 DEF Announced
    <3>2. ASSUME NEW e \in journal, e.msg = m, e.kind = "delete", e.seq > cursor
          PROVE  Announced(m)'
      <4>1. CASE e \in pruned
        BY <2>1, <2>2, <2>3, <3>2, <4>1 DEF Announced
      <4>2. CASE e \notin pruned
        BY <2>3, <3>2, <4>2 DEF Announced
      <4> QED BY <4>1, <4>2
    <3> QED BY <2>4, <3>1, <3>2 DEF Announced
  <2>5. Listed' = Listed
    BY <2>3 DEF Listed
  <2>6. GoneIsAnnounced'
    BY <2>3, <2>4, <2>5 DEF Inv, GoneIsAnnounced
  <2>7. NewIsDelivered'
    BY <2>3, <2>5 DEF Inv, NewIsDelivered
  <2>8. AnswerInv'
    BY <2>3, <2>4, <2>5 DEF Inv, AnswerInv
  <2> QED BY <2>6, <2>7, <2>8 DEF Inv
<1>6. TypeOK
  BY DEF Inv
<1> QED BY Writes, <1>1, <1>2, <1>3, <1>4, <1>5, <1>6 DEF ServerStep

\* The client adopts the head: what it has not read below it is in doubt.
LEMMA InvPollTail ==
    ASSUME Inv, TypeOK', PollTail
    PROVE  Inv'
<1> USE JournalAssumption
<1> DEFINE Gone(tail) == IF Reset THEN {} ELSE Tombstones(tail)
           Kept(tail) == {m \in Gone(tail) : row[m].place = "list" /\ row[m].updated <= since}
<1>1. PICK tail \in SUBSET Unread, ok \in BOOLEAN :
        /\ cache' = IF ok THEN cache \ Gone(tail) ELSE cache
        /\ doubt' = doubt \cup Skipped(tail) \cup Kept(tail) \cup (IF ok THEN {} ELSE Gone(tail))
  BY DEF PollTail
<1>2. /\ cursor' = IF poll.latest > 0 THEN poll.latest ELSE cursor
      /\ poll'.pc = "list"
      /\ UNCHANGED <<row, journal, low, since>>
  BY DEF PollTail, server, Idle
<1>3. Listed' = Listed
  BY <1>2 DEF Listed
<1>4. /\ cursor \in Nat /\ low \in Nat /\ poll.latest \in Nat /\ poll.low \in Nat
      /\ cache \subseteq Mine /\ Listed \subseteq Mine
      /\ \A e \in journal : e.seq \in Nat
  BY DEF Inv, TypeOK, Poll, MessageChange, Listed
<1>5. ASSUME NEW m \in cache', m \notin Listed', m \notin doubt'
      PROVE  Announced(m)'
  <2>1. m \in cache /\ m \in Mine /\ m \notin doubt
    BY <1>1, <1>4, <1>5
  <2>2. ~Reset /\ low = poll.low
    BY <1>1, <1>5, <2>1 DEF Skipped
  <2>3. ~(cursor < low)
    BY <2>2 DEF Reset
  <2>4. Announced(m)
    BY <1>3, <1>5, <2>1 DEF Inv, GoneIsAnnounced
  <2>5. PICK e \in journal : e.msg = m /\ e.kind = "delete" /\ e.seq > cursor
    BY <2>3, <2>4 DEF Announced
  <2>6. e \in Unread
    BY <1>4, <2>1, <2>5 DEF Unread
  <2>7. e \notin tail
    <3>1. SUFFICES ASSUME e \in tail PROVE FALSE
      OBVIOUS
    <3>2. m \in Gone(tail)
      BY <2>2, <2>5, <3>1 DEF Tombstones
    <3> QED BY <1>1, <1>5, <3>2
  <2>8. ~(e.seq <= poll.latest)
    BY <1>1, <1>5, <2>2, <2>5, <2>6, <2>7 DEF Skipped
  <2>9. e.seq > cursor'
    BY <1>2, <1>4, <2>5, <2>8
  <2> QED BY <1>2, <2>5, <2>9 DEF Announced
<1>6. ASSUME NEW m \in Listed', m \notin cache', m \notin doubt'
      PROVE  row'[m].updated > since'
  <2>1. m \in Listed /\ m \notin doubt
    BY <1>1, <1>3, <1>6
  <2>2. CASE m \in cache
    <3>1. m \in Gone(tail) /\ m \notin Kept(tail)
      BY <1>1, <1>6, <2>2
    <3>2. ~(row[m].updated <= since)
      BY <2>1, <3>1 DEF Listed
    <3> QED BY <1>2, <2>1, <3>2 DEF Listed, Inv, TypeOK, Row
  <2>3. CASE m \notin cache
    BY <1>2, <2>1, <2>3 DEF Inv, NewIsDelivered
  <2> QED BY <2>2, <2>3
<1> QED BY <1>2, <1>5, <1>6 DEF Inv, GoneIsAnnounced, NewIsDelivered, AnswerInv

\* The client takes over the answer: what has changed since it was read stays
\* announced, newer than the watermark, or in doubt.
LEMMA InvPollStore ==
    ASSUME Inv, TypeOK', PollStore
    PROVE  Inv'
<1> USE JournalAssumption
<1> DEFINE old == {m \in poll.late : row[m].place = "list" /\ row[m].updated <= clock}
<1>1. PICK ok \in BOOLEAN :
        /\ cache' = IF ok THEN Merged ELSE cache
        /\ doubt' = IF ~ok THEN doubt \cup poll.got \cup old
                    ELSE IF poll.full THEN (doubt \cap poll.late) \cup old
                    ELSE doubt \cup old
  BY DEF PollStore
<1>2. /\ poll.pc = "stamp" /\ poll'.pc = "idle" /\ since' = clock
      /\ UNCHANGED <<row, journal, low, cursor>>
  BY DEF PollStore, server, Idle
<1>3. Listed' = Listed
  BY <1>2 DEF Listed
<1>4. \A m : Announced(m) => Announced(m)'
  BY <1>2 DEF Announced
<1>5. /\ \A m \in poll.got \ Listed : m \in poll.late /\ (m \in doubt \/ Announced(m))
      /\ \A m \in Listed \ (poll.late \cup poll.got) :
            ~poll.full /\ ConvOf[m] \notin poll.convs /\ row[m].updated <= since
  BY <1>2 DEF Inv, AnswerInv
<1>6. ASSUME NEW m \in cache', m \notin Listed', m \notin doubt'
      PROVE  Announced(m)'
  <2>1. CASE m \in poll.got
    BY <1>1, <1>3, <1>4, <1>5, <1>6, <2>1
  <2>2. CASE m \notin poll.got
    <3>1. m \in cache /\ m \notin doubt
      BY <1>1, <1>6, <2>2 DEF Merged
    <3> QED BY <1>3, <1>4, <1>6, <3>1 DEF Inv, GoneIsAnnounced
  <2> QED BY <2>1, <2>2
<1>7. ASSUME NEW m \in Listed', m \notin cache', m \notin doubt'
      PROVE  row'[m].updated > since'
  <2>1. m \in Listed /\ row[m].updated \in Nat /\ since \in Nat /\ clock \in Nat
    BY <1>3, <1>7 DEF Listed, Inv, TypeOK, Row
  <2>2. CASE m \in poll.late
    <3>1. m \notin old
      BY <1>1, <1>7
    <3>2. ~(row[m].updated <= clock)
      BY <2>1, <2>2, <3>1 DEF Listed
    <3> QED BY <1>2, <2>1, <3>2
  <2>3. CASE m \notin poll.late
    <3>1. m \notin poll.got
      BY <1>1, <1>7, <2>3 DEF Merged
    <3>2. ~poll.full /\ ConvOf[m] \notin poll.convs /\ row[m].updated <= since
      BY <1>5, <2>1, <2>3, <3>1
    <3>3. m \notin cache /\ m \notin doubt
      BY <1>1, <1>7, <3>2 DEF Merged
    <3> QED BY <2>1, <3>2, <3>3 DEF Inv, NewIsDelivered
  <2> QED BY <2>2, <2>3
<1> QED BY <1>2, <1>6, <1>7 DEF Inv, GoneIsAnnounced, NewIsDelivered, AnswerInv

\* The other steps of a poll only read, or give up.
LEMMA InvClient ==
    ASSUME Inv, TypeOK', ClientStep \/ DayPasses
    PROVE  Inv'
<1> USE DEF Inv, GoneIsAnnounced, NewIsDelivered, AnswerInv, Announced, Listed
<1>1. CASE PollHead
  <2>1. poll'.pc = "low"
    BY <1>1 DEF PollHead, Idle
  <2> QED BY <1>1, <2>1 DEF PollHead, server, client
<1>2. CASE PollLow
  <2>1. poll'.pc = "tail"
    BY <1>2 DEF PollLow, TypeOK, Poll
  <2> QED BY <1>2, <2>1 DEF PollLow, server, client
<1>3. CASE PollTail
  BY <1>3, InvPollTail
<1>4. CASE ChangesFail
  <2>1. poll'.pc = "list"
    BY <1>4 DEF ChangesFail, Idle
  <2> QED BY <1>4, <2>1 DEF ChangesFail, server, client
<1>5. CASE PollList
  <2> DEFINE convs == {c \in Conv : In(c) # {} /\ (FullSync \/ ChangedSince(c))}
  <2>1. /\ poll'.full = FullSync /\ poll'.convs = convs
        /\ poll'.got = {m \in Listed : ConvOf[m] \in convs}
        /\ UNCHANGED <<row, journal, low, cache, cursor, since, doubt>>
    BY <1>5 DEF PollList, server, client, TypeOK, Poll
  <2>2. GoneIsAnnounced' /\ NewIsDelivered'
    BY <2>1
  <2>3. ASSUME NEW m \in Listed, ConvOf[m] \notin convs
        PROVE  ~FullSync /\ row[m].updated <= since
    <3>1. ConvOf[m] \in Conv /\ m \in In(ConvOf[m])
      BY JournalAssumption DEF In
    <3>2. ~FullSync /\ ~ChangedSince(ConvOf[m])
      BY <2>3, <3>1
    <3>3. ~(row[m].updated > since)
      BY <3>1, <3>2 DEF ChangedSince
    <3>4. row[m].updated \in Nat /\ since \in Nat
      BY JournalAssumption DEF TypeOK, Row
    <3> QED BY <3>2, <3>3, <3>4
  <2>4. AnswerInv'
    BY <2>1, <2>3
  <2> QED BY <2>2, <2>4
<1>6. CASE PollStore
  BY <1>6, InvPollStore
<1>7. CASE ListFails
  <2>1. poll'.pc = "idle"
    BY <1>7 DEF ListFails, Idle
  <2> QED BY <1>7, <2>1 DEF ListFails, server, client
<1>8. CASE DayPasses
  BY <1>8 DEF DayPasses, server
<1> QED BY <1>1, <1>2, <1>3, <1>4, <1>5, <1>6, <1>7, <1>8 DEF ClientStep

\* Every step preserves the invariant.
LEMMA InvNext == Inv /\ [Next]_vars => Inv'
<1> SUFFICES ASSUME Inv, [Next]_vars PROVE Inv'
  OBVIOUS
<1>1. TypeOK'
  BY TypeServer, TypeClient DEF Next, vars, TypeOK, Inv
<1>2. CASE ServerStep
  BY <1>1, <1>2, InvServer
<1>3. CASE ClientStep \/ DayPasses
  BY <1>1, <1>3, InvClient
<1>4. CASE UNCHANGED vars
  BY <1>4 DEF vars, Inv, TypeOK, GoneIsAnnounced, NewIsDelivered, AnswerInv, Announced, Listed
<1> QED BY <1>2, <1>3, <1>4 DEF Next

\* What the client still shows although it is gone is announced to it, but for
\* messages in doubt: whatever commits, polls and compactions interleave, the
\* reasons for a doubt are the only ones for a ghost in the cache.
THEOREM GhostsAreAnnounced == Spec => []GoneIsAnnounced
<1>1. Inv => GoneIsAnnounced
  BY DEF Inv
<1> QED BY InvInit, InvNext, <1>1, PTL DEF Spec

\* What the client lacks although it has come into the list is newer than its
\* watermark, but for messages in doubt.
THEOREM NewsIsDelivered == Spec => []NewIsDelivered
<1>1. Inv => NewIsDelivered
  BY DEF Inv
<1> QED BY InvInit, InvNext, <1>1, PTL DEF Spec
=============================================================================
