--------------------------- MODULE IncomingProofs ---------------------------
(***************************************************************************)
(* What arrives: proofs about Invitations.tla; from `Pull` on, about       *)
(* MailPull.tla, whose cycle brings the mail that invitations come in; and *)
(* from `Feed` on, about CalendarFeeds.tla.                                *)
(*                                                                         *)
(* Of the first: every stage of a handler knows what the stage before it   *)
(* has seen (AllFit); an update whose row has gone since the read is noted *)
(* as bereft the moment the row goes; each object of a message that a      *)
(* handler is past is on record, or down as not having succeeded, and one  *)
(* of them has succeeded if the message is to be taken away (Recorded);    *)
(* what has been applied stays known until its mail is purged              *)
(* (AppliedIsKnown).                                                       *)
(*                                                                         *)
(* Of the second: besides its types, a bookmark was written under a        *)
(* UIDVALIDITY the folder has or had and below the next UID it gives, and  *)
(* what the cycle has read of a folder is safe, still wanted, or noted as  *)
(* failed (Covered); a message that has stayed where it was is still       *)
(* there, and a folder already asked has named it found or unsure          *)
(* (StaysKnown).                                                           *)
(*                                                                         *)
(* Of the third: what a synchronisation parsed holds every component of    *)
(* the text it fetched that is intact (ParsedIsText); whoever has read a   *)
(* calendar's rows knows each once, and all of them unless noted as        *)
(* disturbed (Reading); what the task will write is what the matching says *)
(* of the rows as they stand, but for look-ups that failed (Matching).     *)
(* A step that moves rows concerns one calendar and notes whoever works on *)
(* it (DisturbsOrQuiet); no row is matched twice (MatchesAreApart).        *)
(***************************************************************************)
EXTENDS CalendarEvents, PulledMail, FiniteSetTheorems, WellFoundedInduction, TLAPS

-----------------------------------------------------------------------------
(* Least and greatest elements, which the CHOOSEs of the model pick. *)

\* A set of numbers that is not empty has a least one.
LEMMA LeastNumber ==
  ASSUME NEW T \in SUBSET Nat, T # {}
  PROVE  \E x \in T : \A y \in T : x <= y
  <1> DEFINE Less == {p \in Nat \X Nat : p[1] < p[2]}
  <1>1. IsWellFoundedOn(Less, Nat)
    BY NatLessThanWellFounded DEF OpToRel
  <1>2. \A x, y \in Nat : y < x => <<y, x>> \in Less
    OBVIOUS
  <1> HIDE DEF Less
  <1>3. PICK x \in T : \A y \in T : ~(<<y, x>> \in Less)
    BY <1>1, WFMin
  <1>4. ASSUME NEW y \in T PROVE x <= y
    <2>1. ~(y < x)
      BY <1>2, <1>3
    <2> QED BY <2>1
  <1> QED BY <1>4

\* If it is finite, it has a greatest one: the one with the fewest above it.
LEMMA GreatestNumber ==
  ASSUME NEW T \in SUBSET Nat, T # {}, IsFiniteSet(T)
  PROVE  \E x \in T : \A y \in T : y <= x
  <1> DEFINE Above(x) == {y \in T : x <= y}
  <1> DEFINE Counts == {Cardinality(Above(x)) : x \in T}
  <1>1. ASSUME NEW x \in T PROVE IsFiniteSet(Above(x)) /\ Cardinality(Above(x)) \in Nat
    <2>1. Above(x) \in SUBSET T
      OBVIOUS
    <2>2. IsFiniteSet(Above(x))
      BY <2>1, FS_Subset
    <2> QED BY <2>2, FS_CardinalityType
  <1>2. Counts \in SUBSET Nat /\ Counts # {}
    BY <1>1
  <1>3. PICK n \in Counts : \A k \in Counts : n <= k
    <2> HIDE DEF Counts
    <2> QED BY <1>2, LeastNumber
  <1>4. PICK x \in T : n = Cardinality(Above(x))
    BY <1>3
  <1>5. ASSUME NEW y \in T, ~(y <= x) PROVE FALSE
    <2>1. Above(y) \in SUBSET Above(x) /\ x \in Above(x) /\ x \notin Above(y)
      <3>1. x \in Nat /\ y \in Nat /\ x < y
        BY <1>5
      <3>2. \A z \in T : z \in Nat /\ (y <= z => x <= z)
        BY <3>1
      <3>3. x <= x /\ ~(y <= x)
        BY <3>1
      <3> QED BY <3>2, <3>3
    <2>2. Cardinality(Above(y)) <= n /\ n <= Cardinality(Above(y))
      <3>1. Cardinality(Above(y)) <= Cardinality(Above(x))
        BY <1>1, <2>1, FS_Subset
      <3>2. Cardinality(Above(y)) \in Counts
        OBVIOUS
      <3> QED BY <1>3, <1>4, <3>1, <3>2
    <2>3. Cardinality(Above(y)) = Cardinality(Above(x))
      BY <1>1, <1>4, <2>2
    <2>4. Above(y) = Above(x)
      BY <1>1, <2>1, <2>3, FS_Subset
    <2> QED BY <2>1, <2>4
  <1> QED BY <1>5

\* The calendars FirstCalendarOf chooses from.
Candidates(sources, on) == {c \in on \cap Writable : SourceOf[c] \in sources}

\* c comes first in them.
IsFirst(c, cs) ==
    c \in cs /\ \A d \in cs : SourceOf[c] < SourceOf[d]
      \/ (SourceOf[c] = SourceOf[d] /\ c <= d)

\* Some calendar comes first, and only one.
LEMMA FirstExists ==
  ASSUME NEW cs \in SUBSET Calendar, cs # {}
  PROVE  \E c \in cs : IsFirst(c, cs)
  <1> DEFINE S == {SourceOf[c] : c \in cs}
  <1>1. \A c \in cs : SourceOf[c] \in Nat /\ c \in Nat
    BY InvitationsAssumption
  <1>2. S \in SUBSET Nat /\ S # {}
    BY <1>1
  <1>3. PICK s \in S : \A t \in S : s <= t
    <2> HIDE DEF S
    <2> QED BY <1>2, LeastNumber
  <1> DEFINE T == {c \in cs : SourceOf[c] = s}
  <1>4. T \in SUBSET Nat /\ T # {}
    BY <1>1, <1>3
  <1>5. PICK c \in T : \A d \in T : c <= d
    <2> HIDE DEF T
    <2> QED BY <1>4, LeastNumber
  <1>6. ASSUME NEW d \in cs
        PROVE  SourceOf[c] < SourceOf[d] \/ (SourceOf[c] = SourceOf[d] /\ c <= d)
    <2>1. s <= SourceOf[d] /\ SourceOf[c] = s /\ s \in Nat /\ SourceOf[d] \in Nat
      BY <1>1, <1>2, <1>3, <1>5
    <2>2. SourceOf[d] = s => c <= d
      BY <1>5
    <2> QED BY <2>1, <2>2
  <1> QED BY <1>5, <1>6 DEF IsFirst

\* There is one first calendar, as calendars are numbers.
LEMMA FirstIsOne ==
  ASSUME NEW cs \in SUBSET Calendar, NEW c, NEW d, IsFirst(c, cs), IsFirst(d, cs)
  PROVE  c = d
  BY InvitationsAssumption DEF IsFirst

\* FirstCalendarOf is that calendar, or 0 if there is none to choose from.
LEMMA FirstIsFirst ==
  ASSUME NEW on \in SUBSET Calendar, NEW sources
  PROVE  /\ Candidates(sources, on) = {} => FirstCalendarOf(sources, on) = 0
         /\ Candidates(sources, on) # {}
              => /\ IsFirst(FirstCalendarOf(sources, on), Candidates(sources, on))
                 /\ FirstCalendarOf(sources, on) \in Calendar
                 /\ FirstCalendarOf(sources, on) # 0
  <1> DEFINE cs == Candidates(sources, on)
  <1>1. cs \in SUBSET Calendar
    BY DEF Candidates
  <1>2. FirstCalendarOf(sources, on)
        = IF cs = {} THEN 0 ELSE CHOOSE c \in cs : \A d \in cs :
             SourceOf[c] < SourceOf[d] \/ (SourceOf[c] = SourceOf[d] /\ c <= d)
    BY DEF FirstCalendarOf, Candidates
  <1> HIDE DEF cs
  <1>3. ASSUME cs # {} PROVE IsFirst(FirstCalendarOf(sources, on), cs)
    <2>1. \E c \in cs : \A d \in cs :
             SourceOf[c] < SourceOf[d] \/ (SourceOf[c] = SourceOf[d] /\ c <= d)
      BY <1>1, <1>3, FirstExists DEF IsFirst
    <2> QED BY <1>2, <1>3, <2>1 DEF IsFirst
  <1>4. \A c \in cs : c \in Calendar /\ c # 0
    BY <1>1, InvitationsAssumption
  <1>5. cs # {} => FirstCalendarOf(sources, on) \in cs
    BY <1>3 DEF IsFirst
  <1> QED BY <1>2, <1>3, <1>4, <1>5 DEF cs

\* The destination is a calendar that is switched on, or 0.
LEMMA DestinationIsCalendar ==
  ASSUME NEW on \in SUBSET Calendar, NEW via, NEW guests
  PROVE  ChooseInviteCalendar(on, via, guests) \in Calendar \cup {0}
  <1> DEFINE pass == Passes(via, guests)
             found == {i \in 1..3 : FirstCalendarOf(pass[i], on) # 0}
             claims == {s \in pass[4] : FirstCalendarOf({s}, on) # 0}
             best == CHOOSE i \in found : \A j \in found : i <= j
  <1>1. \A sources : FirstCalendarOf(sources, on) \in Calendar \cup {0}
    BY FirstIsFirst
  <1>2. ChooseInviteCalendar(on, via, guests)
        = IF found # {} THEN FirstCalendarOf(pass[best], on)
          ELSE IF Cardinality(claims) = 1 THEN FirstCalendarOf(claims, on) ELSE 0
    BY DEF ChooseInviteCalendar
  <1> HIDE DEF pass, found, claims, best
  <1> QED BY <1>1, <1>2

\* The event that is found is in a calendar that has it.
LEMMA KnownIsCalendar ==
  ASSUME TypeOK, NEW blind
  PROVE  /\ FindEventByUIDForUser(blind) \in Calendar \cup {0}
         /\ FindEventByUIDForUser(blind) # 0
              => event[FindEventByUIDForUser(blind)].id # 0
  <1> DEFINE cs == Holding \ blind
  <1>1. cs \in SUBSET Nat /\ IsFiniteSet(cs) /\ cs \in SUBSET Calendar
    <2>1. cs \in SUBSET Calendar
      BY DEF Holding
    <2> QED BY <2>1, InvitationsAssumption, FS_Subset
  <1>2. ASSUME cs # {} PROVE \E c \in cs : \A d \in cs : d <= c
    <2> HIDE DEF cs
    <2> QED BY <1>1, <1>2, GreatestNumber
  <1>3. FindEventByUIDForUser(blind)
        = IF cs = {} THEN 0 ELSE CHOOSE c \in cs : \A d \in cs : d <= c
    BY DEF FindEventByUIDForUser
  <1>4. cs # {} => FindEventByUIDForUser(blind) \in cs
    <2> HIDE DEF cs
    <2> QED BY <1>2, <1>3
  <1>5. cs = {} => FindEventByUIDForUser(blind) = 0
    BY <1>3
  <1>6. \A c \in cs : c \in Calendar /\ event[c].id # 0
    BY DEF Holding
  <1> QED BY <1>4, <1>5, <1>6

-----------------------------------------------------------------------------
(* Types. *)

Stages == {"idle", "dispatch", "read", "update", "create", "roster", "delete", "reply",
           "drop", "answer", "edit", "cancel"}

\* What the steps of a handler do to it.
LEMMA Moving ==
  ASSUME TypeOK, NEW h \in Handler, NEW t \in HandlerState,
         handler' = [handler EXCEPT ![h] = t]
  PROVE  /\ handler' \in [Handler -> HandlerState]
         /\ handler'[h] = t
         /\ \A k \in Handler \ {h} : handler'[k] = handler[k]
  BY DEF TypeOK

\* What a handler carries from stage to stage of an object.
SameObject(s, t) ==
    /\ t.msg = s.msg /\ t.at = s.at /\ t.handled = s.handled
    /\ t.passed = s.passed /\ t.guests = s.guests

\* GoWith moves it with a calendar and the row it has read.
LEMMA GoingWith ==
  ASSUME TypeOK, NEW h \in Handler, NEW pc \in Stages, NEW c \in Calendar \cup {0},
         NEW row \in EventRow, GoWith(h, pc, c, row)
  PROVE  /\ handler' \in [Handler -> HandlerState]
         /\ SameObject(handler[h], handler'[h])
         /\ handler'[h].filed = handler[h].filed
         /\ handler'[h].pc = pc
         /\ handler'[h].cal = c
         /\ handler'[h].seen = row
         /\ \A k \in Handler \ {h} : handler'[k] = handler[k]
  <1> DEFINE t == [handler[h] EXCEPT !.pc = pc, !.cal = c, !.seen = row]
  <1>1. handler[h] \in HandlerState
    BY DEF TypeOK
  <1>2. t \in HandlerState
    BY <1>1 DEF HandlerState, Stages
  <1>3. /\ t.pc = pc /\ t.cal = c /\ t.seen = row /\ t.filed = handler[h].filed
        /\ SameObject(handler[h], t)
    BY <1>1 DEF HandlerState, SameObject
  <1>4. handler' = [handler EXCEPT ![h] = t]
    BY DEF GoWith
  <1> HIDE DEF t
  <1> QED BY <1>2, <1>3, <1>4, Moving

\* An idle handler is one.
LEMMA IdleIsState ==
  ASSUME TypeOK
  PROVE  Idle \in HandlerState
  <1>1. NoRow \in EventRow
    BY InvitationsAssumption DEF NoRow, EventRow, TypeOK
  <1> QED BY <1>1 DEF Idle, HandlerState

\* Stop leaves one handler idle and the others alone.
LEMMA Stopping ==
  ASSUME TypeOK, NEW h \in Handler, Stop(h)
  PROVE  /\ handler' \in [Handler -> HandlerState]
         /\ handler'[h] = Idle
         /\ \A k \in Handler \ {h} : handler'[k] = handler[k]
  BY IdleIsState, Moving DEF Stop

\* The message a handler works on is the one it took.
LEMMA ItsMessage ==
  ASSUME TypeOK, NEW h \in Handler, handler[h].msg # {}
  PROVE  MessageOf(h) \in Message /\ handler[h].msg = {MessageOf(h)}
  <1>1. PICK m \in Message : handler[h].msg = {m}
    BY DEF TypeOK, HandlerState
  <1>2. MessageOf(h) = CHOOSE n \in Message : n \in {m}
    BY <1>1 DEF MessageOf
  <1> QED BY <1>1, <1>2

\* The objects of a message are numbered from one.
LEMMA ObjectsNumbered ==
  ASSUME NEW m \in Message
  PROVE  /\ Len(ObjectsOf[m]) \in Nat \ {0}
         /\ DOMAIN ObjectsOf[m] = 1..Len(ObjectsOf[m])
         /\ \A i \in DOMAIN ObjectsOf[m] : i \in Nat /\ ObjectsOf[m][i] \in Object
  <1> DEFINE q == ObjectsOf[m]
  <1>1. q \in Seq(Object) /\ q # << >>
    BY InvitationsAssumption
  <1> HIDE DEF q
  <1>2. Len(q) \in Nat \ {0} /\ DOMAIN q = 1..Len(q)
    BY <1>1
  <1>3. \A i \in DOMAIN q : i \in Nat /\ q[i] \in Object
    BY <1>1, <1>2
  <1> QED BY <1>2, <1>3 DEF q

\* The object a handler is at.
LEMMA ItsObject ==
  ASSUME TypeOK, NEW h \in Handler, handler[h].msg # {},
         \A m \in handler[h].msg : handler[h].at \in DOMAIN ObjectsOf[m]
  PROVE  /\ ObjectAt(h) \in Object
         /\ ObjectAt(h).seq \in Nat /\ ObjectAt(h).guests \subseteq Person
         /\ \A m \in handler[h].msg : ObjectsOf[m][handler[h].at] = ObjectAt(h)
  <1>1. MessageOf(h) \in Message /\ handler[h].msg = {MessageOf(h)}
    BY ItsMessage
  <1>2. ObjectAt(h) \in Object
    BY <1>1, ObjectsNumbered DEF ObjectAt
  <1> QED BY <1>1, <1>2 DEF Object, ObjectAt

\* What each stage of a handler relies on: a message, an object of it, a calendar;
\* a CANCEL or a REPLY; a row that is not newer than the object.
StageFits(k) ==
    LET s == handler[k] IN
    /\ s.pc \in {"dispatch", "read", "update", "create", "delete", "reply", "drop"}
         => s.msg # {}
    /\ s.pc \in {"dispatch", "read", "update", "create", "roster", "delete", "reply"}
         => \A m \in s.msg : s.at \in DOMAIN ObjectsOf[m]
    /\ s.pc \in {"read", "update", "create", "roster", "delete", "reply", "answer", "edit",
                 "cancel"} => s.cal \in Calendar
    /\ s.pc \in {"delete", "reply"} => \A m \in s.msg : ~Invites(ObjectsOf[m][s.at])
    /\ s.pc = "update" => s.seen.id # 0 /\ \A m \in s.msg : ObjectsOf[m][s.at].seq >= s.seen.seq

AllFit == \A k \in Handler : StageFits(k)

\* How a step leaves a handler alone.
LEMMA FitsStays ==
  ASSUME NEW k \in Handler, StageFits(k), handler'[k] = handler[k]
  PROVE  StageFits(k)'
  BY DEF StageFits, Invites, Method

\* An idle handler has nothing to fit.
LEMMA IdleFits ==
  ASSUME NEW k \in Handler, handler'[k] = Idle
  PROVE  StageFits(k)'
  BY DEF StageFits, Idle

\* A handler that is done with an object is at the next, or past the last with
\* one that has succeeded, or idle.
EndsObject(s, t) ==
    \/ t = Idle
    \/ /\ t.msg = s.msg /\ t.at = s.at + 1
       /\ \/ t.pc = "dispatch" /\ \A m \in t.msg : t.at \in DOMAIN ObjectsOf[m]
          \/ t.pc = "drop" /\ t.handled /\ \A m \in t.msg : t.at \notin DOMAIN ObjectsOf[m]

\* The end of an object, in terms of what it leaves.
LEMMA AfterKnown ==
  ASSUME TypeOK, NEW h \in Handler, handler[h].msg # {},
         NEW handled \in BOOLEAN, NEW filed \in SUBSET Nat, NEW given \in SUBSET Nat,
         NEW t, t = After(h, handled, filed, given)
  PROVE  /\ t \in HandlerState
         /\ EndsObject(handler[h], t)
         /\ t # Idle => t.handled = handled /\ t.filed = filed /\ t.passed = given
  <1> DEFINE m == MessageOf(h)
             next == handler[h].at + 1
             more == next \in DOMAIN ObjectsOf[m]
             pc == IF more THEN "dispatch" ELSE "drop"
             msg == handler[h].msg
  <1>1. msg = {m} /\ m \in Message /\ next \in Nat
    <2>1. handler[h].at \in Nat
      BY DEF TypeOK, HandlerState
    <2> QED BY <2>1, ItsMessage
  <1>2. t = IF more \/ handled
            THEN [Idle EXCEPT !.pc = pc, !.msg = msg, !.at = next, !.handled = handled,
                              !.filed = filed, !.passed = given]
            ELSE Idle
    BY DEF After
  <1>3. Idle \in HandlerState
    BY IdleIsState
  <1>4. pc \in {"dispatch", "drop"} /\ (pc = "dispatch" <=> more)
    OBVIOUS
  <1> HIDE DEF m, next, pc, msg, more
  <1>5. CASE ~(more \/ handled)
    BY <1>2, <1>3, <1>5 DEF EndsObject
  <1>6. CASE more \/ handled
    <2>1. t = [Idle EXCEPT !.pc = pc, !.msg = msg, !.at = next, !.handled = handled,
                              !.filed = filed, !.passed = given]
      BY <1>2, <1>6
    <2>2. t = [pc |-> pc, msg |-> msg, at |-> next, handled |-> handled, filed |-> filed,
               passed |-> given, guests |-> Idle.guests, cal |-> Idle.cal,
               seen |-> Idle.seen]
      BY <2>1 DEF Idle
    <2>3. Idle.guests \in SUBSET Person /\ Idle.cal \in Calendar \cup {0}
          /\ Idle.seen \in EventRow
      BY <1>3 DEF HandlerState
    <2>4. t \in HandlerState
      BY <1>1, <1>4, <2>2, <2>3 DEF HandlerState
    <2>5. /\ t.pc = pc /\ t.msg = msg /\ t.at = next /\ t.handled = handled
          /\ t.filed = filed /\ t.passed = given
      BY <2>2
    <2>6. EndsObject(handler[h], t)
      BY <1>1, <1>4, <1>6, <2>5 DEF EndsObject, next, msg, more
    <2> QED BY <2>4, <2>5, <2>6
  <1> QED BY <1>5, <1>6

\* Settle ends an object with success.
LEMMA Settling ==
  ASSUME TypeOK, NEW h \in Handler, handler[h].msg # {}, NEW filed \in SUBSET Nat,
         Settle(h, filed)
  PROVE  /\ handler' \in [Handler -> HandlerState]
         /\ \A k \in Handler \ {h} : handler'[k] = handler[k]
         /\ EndsObject(handler[h], handler'[h])
         /\ handler'[h] # Idle => /\ handler'[h].handled /\ handler'[h].filed = filed
                                  /\ handler'[h].passed = handler[h].passed
         /\ StageFits(h)'
  <1>1. PICK yes \in BOOLEAN, given \in SUBSET Nat : yes = TRUE /\ given = handler[h].passed
    BY DEF TypeOK, HandlerState
  <1>2. PICK t : t = After(h, yes, filed, given)
    OBVIOUS
  <1>3. /\ t \in HandlerState
        /\ EndsObject(handler[h], t)
        /\ t # Idle => t.handled = yes /\ t.filed = filed /\ t.passed = given
    BY <1>2, AfterKnown
  <1>4. handler' = [handler EXCEPT ![h] = t]
    BY <1>1, <1>2, Zenon DEF Settle
  <1>5. /\ handler' \in [Handler -> HandlerState] /\ handler'[h] = t
        /\ \A k \in Handler \ {h} : handler'[k] = handler[k]
    BY <1>3, <1>4, Moving
  <1>6. StageFits(h)'
    BY <1>3, <1>5 DEF StageFits, EndsObject, Idle
  <1> QED BY <1>1, <1>3, <1>5, <1>6

\* PassOver ends it without.
LEMMA PassingOver ==
  ASSUME TypeOK, NEW h \in Handler, handler[h].msg # {}, PassOver(h)
  PROVE  /\ handler' \in [Handler -> HandlerState]
         /\ \A k \in Handler \ {h} : handler'[k] = handler[k]
         /\ EndsObject(handler[h], handler'[h])
         /\ handler'[h] # Idle
              => /\ handler'[h].handled = handler[h].handled
                 /\ handler'[h].filed = handler[h].filed
                 /\ handler'[h].passed = handler[h].passed \cup {handler[h].at}
         /\ StageFits(h)'
  <1>1. PICK yes \in BOOLEAN, filed \in SUBSET Nat :
           yes = handler[h].handled /\ filed = handler[h].filed
    BY DEF TypeOK, HandlerState
  <1>2. PICK given \in SUBSET Nat : given = handler[h].passed \cup {handler[h].at}
    BY DEF TypeOK, HandlerState
  <1>3. PICK t : t = After(h, yes, filed, given)
    OBVIOUS
  <1>4. t \in HandlerState
    BY <1>3, AfterKnown
  <1>5. EndsObject(handler[h], t)
    BY <1>3, AfterKnown
  <1>6. t # Idle => t.handled = yes /\ t.filed = filed /\ t.passed = given
    BY <1>3, AfterKnown
  <1>7. handler' = [handler EXCEPT ![h] = t]
    BY <1>1, <1>2, <1>3, Zenon DEF PassOver
  <1>8. /\ handler' \in [Handler -> HandlerState] /\ handler'[h] = t
        /\ \A k \in Handler \ {h} : handler'[k] = handler[k]
    BY <1>4, <1>7, Moving
  <1>9. StageFits(h)'
    BY <1>5, <1>8 DEF StageFits, EndsObject, Idle
  <1> QED BY <1>1, <1>2, <1>5, <1>6, <1>8, <1>9

\* Written goes on to the attendees' list, or ends the object.
LEMMA RowWritten ==
  ASSUME TypeOK, NEW h \in Handler, handler[h].msg # {}, handler[h].cal \in Calendar,
         \A m \in handler[h].msg : handler[h].at \in DOMAIN ObjectsOf[m],
         NEW row \in EventRow, NEW filed \in SUBSET Nat, Written(h, row, filed)
  PROVE  /\ handler' \in [Handler -> HandlerState]
         /\ \A k \in Handler \ {h} : handler'[k] = handler[k]
         /\ \/ /\ handler'[h].pc = "roster" /\ SameObject(handler[h], handler'[h])
               /\ handler'[h].filed = filed
            \/ /\ EndsObject(handler[h], handler'[h])
               /\ handler'[h] # Idle
                    => /\ handler'[h].handled /\ handler'[h].filed = filed
                       /\ handler'[h].passed = handler[h].passed
         /\ StageFits(h)'
  <1> DEFINE t == [handler[h] EXCEPT !.pc = "roster", !.seen = row, !.filed = filed]
  <1>1. Settle(h, filed) \/ handler' = [handler EXCEPT ![h] = t]
    BY DEF Written
  <1>2. CASE Settle(h, filed)
    BY <1>2, Settling
  <1>3. CASE handler' = [handler EXCEPT ![h] = t]
    <2>1. handler[h] \in HandlerState
      BY DEF TypeOK
    <2>2. t \in HandlerState
      BY <2>1 DEF HandlerState
    <2>3. /\ t.pc = "roster" /\ t.filed = filed /\ SameObject(handler[h], t)
          /\ t.cal = handler[h].cal
      BY <2>1 DEF HandlerState, SameObject
    <2> HIDE DEF t
    <2>4. /\ handler' \in [Handler -> HandlerState] /\ handler'[h] = t
          /\ \A k \in Handler \ {h} : handler'[k] = handler[k]
      BY <1>3, <2>2, Moving
    <2>5. StageFits(h)'
      BY <2>3, <2>4 DEF StageFits, SameObject
    <2> QED BY <2>3, <2>4, <2>5
  <1> QED BY <1>1, <1>2, <1>3

\* The initial state is well typed, and no handler is at work.
LEMMA TypesBegin == Init => TypeOK /\ AllFit
  <1> SUFFICES ASSUME Init PROVE TypeOK /\ AllFit
    OBVIOUS
  <1> USE InvitationsAssumption
  <1>1. NoRow \in EventRow /\ Nobody \in [Person -> {"absent", "NEEDS-ACTION", "ACCEPTED"}]
    BY DEF NoRow, EventRow, Nobody
  <1>2. Idle \in HandlerState
    BY <1>1 DEF Idle, HandlerState
  <1>3. /\ event \in [Calendar -> EventRow]
        /\ roster \in [Calendar -> [Person -> {"absent", "NEEDS-ACTION", "ACCEPTED"}]]
        /\ handler \in [Handler -> HandlerState]
        /\ mail \in [Message -> {"unknown", "inbox", "vault"}]
        /\ dispatched \in [Message -> 0..2]
    BY <1>1, <1>2 DEF Init
  <1>4. /\ lastId \in 0..MaxId /\ arrivals \in 0..MaxArrivals
        /\ requests \in 0..MaxRequests /\ failures \in 0..MaxFailures
    BY DEF Init
  <1>5. TypeOK
    BY <1>3, <1>4 DEF Init, TypeOK
  <1>6. \A k \in Handler : StageFits(k)
    BY DEF Init, StageFits, Idle
  <1> QED BY <1>5, <1>6 DEF AllFit

\* An update of a row writes a row, or none.
LEMMA UpdateTyped ==
  ASSUME TypeOK, NEW c \in Calendar, NEW seen \in EventRow, NEW seq \in Nat,
         NEW status \in {"none", "CONFIRMED", "CANCELLED"}, NEW modified \in BOOLEAN,
         UpdateCalendarEvent(c, seen, seq, status, modified)
  PROVE  /\ event' \in [Calendar -> EventRow] /\ overlapped' \in BOOLEAN
         /\ \A d \in Calendar : event'[d].id = event[d].id
         /\ \A d \in Calendar \ {c} : event'[d] = event[d]
         /\ event'[c] # event[c] => overlapped' \/ (event'[c].seq = seq /\ event[c] = seen)
  <1>1. event \in [Calendar -> EventRow] /\ overlapped \in BOOLEAN
    BY DEF TypeOK
  <1>2. CASE event[c].id # seen.id
    BY <1>1, <1>2 DEF UpdateCalendarEvent
  <1>3. CASE event[c].id = seen.id
    <2> DEFINE new == [id |-> seen.id, seq |-> seq, status |-> status,
               modified |-> modified]
    <2>1. new \in EventRow /\ new.id = seen.id /\ new.seq = seq
      BY DEF EventRow
    <2>2. event' = [event EXCEPT ![c] = new] /\ overlapped' = (event[c] # seen)
      BY <1>3 DEF UpdateCalendarEvent
    <2> HIDE DEF new
    <2>3. /\ event' \in [Calendar -> EventRow]
          /\ event'[c] = new
          /\ \A d \in Calendar \ {c} : event'[d] = event[d]
      BY <1>1, <2>1, <2>2
    <2>4. \A d \in Calendar : event'[d].id = event[d].id
      BY <1>3, <2>1, <2>3
    <2>5. overlapped' \in BOOLEAN /\ (event[c] # seen => overlapped')
      BY <2>2, Zenon
    <2> QED BY <2>1, <2>3, <2>4, <2>5
  <1> QED BY <1>2, <1>3

\* A deletion takes one row, and the updates on their way to it know.
LEMMA DeleteTyped ==
  ASSUME TypeOK, NEW c \in Calendar, DeleteCalendarEvent(c)
  PROVE  /\ event' \in [Calendar -> EventRow]
         /\ roster' \in [Calendar -> [Person -> {"absent", "NEEDS-ACTION", "ACCEPTED"}]]
         /\ bereft' \subseteq Handler
         /\ bereft \subseteq bereft'
         /\ event'[c] = NoRow
         /\ \A d \in Calendar \ {c} : event'[d] = event[d]
         /\ \A k \in Handler : handler[k].pc = "update" /\ handler[k].cal = c => k \in bereft'
  <1> USE InvitationsAssumption
  <1>1. NoRow \in EventRow /\ Nobody \in [Person -> {"absent", "NEEDS-ACTION", "ACCEPTED"}]
    BY DEF NoRow, EventRow, Nobody
  <1>2. event' = [event EXCEPT ![c] = NoRow] /\ roster' = [roster EXCEPT ![c] = Nobody]
    BY DEF DeleteCalendarEvent
  <1> DEFINE K == {k \in Handler : Is(k, "update") /\ handler[k].cal = c}
  <1>4. bereft' = bereft \cup K
    BY DEF DeleteCalendarEvent
  <1>5. bereft' \subseteq Handler
    BY <1>4 DEF TypeOK
  <1>6. \A k \in Handler : handler[k].pc = "update" /\ handler[k].cal = c => k \in bereft'
    BY <1>4 DEF Is
  <1>7. /\ event' \in [Calendar -> EventRow] /\ event'[c] = NoRow
        /\ \A d \in Calendar \ {c} : event'[d] = event[d]
    BY <1>1, <1>2 DEF TypeOK
  <1>8. roster' \in [Calendar -> [Person -> {"absent", "NEEDS-ACTION", "ACCEPTED"}]]
    BY <1>1, <1>2 DEF TypeOK
  <1> QED BY <1>4, <1>5, <1>6, <1>7, <1>8

\* If one handler has moved and fits, all fit.
LEMMA OthersFit ==
  ASSUME AllFit, NEW h \in Handler, StageFits(h)',
         \A k \in Handler \ {h} : handler'[k] = handler[k]
  PROVE  AllFit'
  <1>1. \A k \in Handler : StageFits(k)'
    BY FitsStays DEF AllFit
  <1> QED BY <1>1 DEF AllFit

\* The message that is taken is typed, and not an idle handler's.
LEMMA TakenTyped ==
  ASSUME NEW m \in Message
  PROVE  /\ Taken(m) \in HandlerState
         /\ Taken(m).pc = "dispatch" /\ Taken(m).msg = {m} /\ Taken(m).at = 1
         /\ Taken(m).passed = {} /\ ~Taken(m).handled
         /\ 1 \in DOMAIN ObjectsOf[m]
  <1>1. NoRow \in EventRow
    BY InvitationsAssumption DEF NoRow, EventRow
  <1>2. PICK no \in BOOLEAN : no = FALSE
    OBVIOUS
  <1>3. Idle = [pc |-> "idle", msg |-> {}, at |-> 0, handled |-> no, filed |-> {},
                passed |-> {}, guests |-> {}, cal |-> 0, seen |-> NoRow]
    BY <1>2, Zenon DEF Idle
  <1>4. Taken(m) = [pc |-> "dispatch", msg |-> {m}, at |-> 1, handled |-> no, filed |-> {},
                    passed |-> {}, guests |-> {}, cal |-> 0, seen |-> NoRow]
    <2>1. PICK one : one = [Idle EXCEPT !.pc = "dispatch"]
      OBVIOUS
    <2>2. PICK two : two = [one EXCEPT !.msg = {m}]
      OBVIOUS
    <2>3. Taken(m) = [two EXCEPT !.at = 1]
      BY <2>1, <2>2, Zenon DEF Taken
    <2>4. one = [pc |-> "dispatch", msg |-> {}, at |-> 0, handled |-> no, filed |-> {},
                 passed |-> {}, guests |-> {}, cal |-> 0, seen |-> NoRow]
      BY <1>3, <2>1
    <2>5. two = [pc |-> "dispatch", msg |-> {m}, at |-> 0, handled |-> no, filed |-> {},
                 passed |-> {}, guests |-> {}, cal |-> 0, seen |-> NoRow]
      BY <2>2, <2>4
    <2> QED BY <2>3, <2>5
  <1>5. Taken(m) \in HandlerState
    BY <1>1, <1>4 DEF HandlerState
  <1>6. 1 \in DOMAIN ObjectsOf[m]
    BY ObjectsNumbered
  <1>7. Taken(m).pc = "dispatch" /\ Taken(m).msg = {m} /\ Taken(m).at = 1
    BY <1>4
  <1>8. Taken(m).passed = {} /\ Taken(m).handled = no
    BY <1>4
  <1>9. ~Taken(m).handled
    BY <1>2, <1>8, Zenon
  <1> QED BY <1>5, <1>6, <1>7, <1>8, <1>9

\* A delivery, from the MX or by the pull.
LEMMA DeliverTyped ==
  ASSUME TypeOK, AllFit, NEW h \in Handler, NEW m \in Message,
         DeliverOne(h, m) \/ SaveMessageToInbox(h, m)
  PROVE  TypeOK' /\ AllFit'
  <1> USE InvitationsAssumption
  <1>1. /\ arrivals' \in 0..MaxArrivals
        /\ mail' \in [Message -> {"unknown", "inbox", "vault"}]
        /\ dispatched' \in [Message -> 0..2]
    <2>1. mail' \in [Message -> {"unknown", "inbox", "vault"}]
      BY DEF TypeOK, DeliverOne, SaveMessageToInbox
    <2>2. arrivals' \in 0..MaxArrivals
      BY DEF TypeOK, DeliverOne, SaveMessageToInbox, Arrive
    <2>3. dispatched' \in [Message -> 0..2]
      <3>1. CASE DeliverOne(h, m)
        BY <3>1 DEF TypeOK, DeliverOne
      <3>2. CASE SaveMessageToInbox(h, m)
        <4> DEFINE d == IF dispatched[m] < 2 THEN dispatched[m] + 1 ELSE dispatched[m]
        <4>1. d \in 0..2
          BY DEF TypeOK
        <4>2. dispatched' = dispatched \/ dispatched' = [dispatched EXCEPT ![m] = d]
          BY <3>2 DEF SaveMessageToInbox
        <4> HIDE DEF d
        <4> QED BY <4>1, <4>2 DEF TypeOK
      <3> QED BY <3>1, <3>2
    <2> QED BY <2>1, <2>2, <2>3
  <1>2. /\ UNCHANGED <<event, roster, enabled, lastId, requests, failures, consumed,
                       bereft, overlapped, withdrawn>>
        /\ handler' = handler \/ handler' = [handler EXCEPT ![h] = Taken(m)]
    BY DEF DeliverOne, SaveMessageToInbox, Arrive
  <1>3. handler' \in [Handler -> HandlerState]
    <2>1. PICK t \in HandlerState : t = Taken(m)
      BY TakenTyped
    <2>2. handler \in [Handler -> HandlerState]
      BY DEF TypeOK
    <2>3. handler' = handler \/ handler' = [handler EXCEPT ![h] = t]
      BY <1>2, <2>1
    <2> QED BY <2>2, <2>3
  <1>4. TypeOK'
    BY <1>1, <1>2, <1>3 DEF TypeOK
  <1>5. CASE handler' = handler
    <2>1. AllFit'
      BY <1>5, FitsStays DEF AllFit
    <2> QED BY <1>4, <2>1
  <1>6. CASE handler' = [handler EXCEPT ![h] = Taken(m)]
    <2>1. handler'[h] = Taken(m) /\ \A k \in Handler \ {h} : handler'[k] = handler[k]
      BY <1>6 DEF TypeOK
    <2>2. /\ handler'[h].pc = "dispatch" /\ handler'[h].msg = {m} /\ handler'[h].at = 1
          /\ 1 \in DOMAIN ObjectsOf[m]
      BY <2>1, TakenTyped
    <2>3. StageFits(h)'
      BY <2>2 DEF StageFits
    <2> QED BY <1>4, <2>1, <2>3, OthersFit
  <1> QED BY <1>2, <1>5, <1>6

\* A row that was read is one.
LEMMA RowTyped ==
  ASSUME TypeOK
  PROVE  /\ \A c \in Calendar : event[c] \in EventRow
         /\ NoRow \in EventRow
         /\ \A k \in Handler : handler[k].seen \in EventRow
              /\ handler[k].cal \in Calendar \cup {0}
  BY InvitationsAssumption DEF TypeOK, HandlerState, NoRow, EventRow

\* A step that moves one handler, to a stage that fits, and leaves the rest.
LEMMA HandlerOnly ==
  ASSUME TypeOK, AllFit, NEW h \in Handler, StageFits(h)',
         handler' \in [Handler -> HandlerState],
         \A k \in Handler \ {h} : handler'[k] = handler[k],
         UNCHANGED <<event, roster, enabled, mail, lastId, Counters, History>>
  PROVE  TypeOK' /\ AllFit'
  <1>1. TypeOK'
    BY DEF TypeOK, Counters, History
  <1> QED BY <1>1, OthersFit

\* dispatchInvite: the object is given up or done with, or its calendar is known.
Dispatched(h) ==
    \/ PassOver(h)
    \/ /\ \A m \in handler[h].msg : ~Invites(ObjectsOf[m][handler[h].at])
       /\ Settle(h, handler[h].filed)
    \/ \E c \in Calendar : GoWith(h, "read", c, NoRow)
    \/ /\ \A m \in handler[h].msg : ~Invites(ObjectsOf[m][handler[h].at])
       /\ \E c \in Calendar, pc \in {"delete", "reply"} : GoWith(h, pc, c, event[c])

\* Nothing else comes of it.
LEMMA DispatchKnown ==
  ASSUME TypeOK, AllFit, NEW h \in Handler, DispatchInvite(h)
  PROVE  /\ handler[h].pc = "dispatch" /\ handler[h].msg # {}
         /\ \A m \in handler[h].msg : handler[h].at \in DOMAIN ObjectsOf[m]
         /\ Dispatched(h)
  <1> DEFINE x == ObjectAt(h)
             dest == ChooseInviteCalendar(enabled, Via[MessageOf(h)], x.guests)
  <1>1. /\ handler[h].pc = "dispatch" /\ handler[h].msg # {}
        /\ \A m \in handler[h].msg : handler[h].at \in DOMAIN ObjectsOf[m]
    BY DEF AllFit, StageFits, DispatchInvite, Is
  <1>2. dest \in Calendar \cup {0}
    BY DestinationIsCalendar DEF TypeOK
  <1>3. \A m \in handler[h].msg : ObjectsOf[m][handler[h].at] = x
    BY <1>1, ItsObject
  <1>4. \/ Unwanted(x, dest) /\ PassOver(h)
        \/ ~Unwanted(x, dest) /\ Invites(x) /\ GoWith(h, "read", dest, NoRow)
        \/ /\ ~Unwanted(x, dest) /\ ~Invites(x)
           /\ \E blind \in SUBSET Holding :
                 LET known == FindEventByUIDForUser(blind) IN
                 IF known = 0 THEN Settle(h, handler[h].filed)
                 ELSE GoWith(h, IF Method(x) = "CANCEL" THEN "delete" ELSE "reply",
                             known, event[known])
    BY DEF DispatchInvite
  <1> HIDE DEF x, dest
  <1>5. CASE PassOver(h)
    BY <1>1, <1>5 DEF Dispatched
  <1>6. CASE ~Unwanted(x, dest) /\ Invites(x) /\ GoWith(h, "read", dest, NoRow)
    <2>1. dest # 0
      BY <1>6 DEF Unwanted
    <2>2. dest \in Calendar
      BY <1>2, <2>1
    <2> QED BY <1>1, <1>6, <2>2 DEF Dispatched
  <1>7. ASSUME ~Invites(x), NEW blind \in SUBSET Holding,
               FindEventByUIDForUser(blind) = 0, Settle(h, handler[h].filed)
        PROVE  Dispatched(h)
    BY <1>3, <1>7 DEF Dispatched
  <1>8. ASSUME ~Invites(x), NEW blind \in SUBSET Holding, FindEventByUIDForUser(blind) # 0,
               GoWith(h, IF Method(x) = "CANCEL" THEN "delete" ELSE "reply",
                      FindEventByUIDForUser(blind), event[FindEventByUIDForUser(blind)])
        PROVE  Dispatched(h)
    <2>1. PICK c : c = FindEventByUIDForUser(blind)
      OBVIOUS
    <2>2. c \in Calendar
      BY <1>8, <2>1, KnownIsCalendar
    <2>3. PICK pc \in {"delete", "reply"} :
             pc = IF Method(x) = "CANCEL" THEN "delete" ELSE "reply"
      OBVIOUS
    <2>4. GoWith(h, pc, c, event[c])
      BY <1>8, <2>1, <2>3
    <2>5. \A m \in handler[h].msg : ~Invites(ObjectsOf[m][handler[h].at])
      BY <1>3, <1>8
    <2> QED BY <2>2, <2>4, <2>5 DEF Dispatched
  <1> QED BY <1>1, <1>4, <1>5, <1>6, <1>7, <1>8

\* It keeps types and stages.
LEMMA DispatchTyped ==
  ASSUME TypeOK, AllFit, NEW h \in Handler, DispatchInvite(h)
  PROVE  TypeOK' /\ AllFit'
  <1>1. /\ handler[h].pc = "dispatch" /\ handler[h].msg # {}
        /\ \A m \in handler[h].msg : handler[h].at \in DOMAIN ObjectsOf[m]
        /\ Dispatched(h)
    BY DispatchKnown
  <1>2. /\ handler' \in [Handler -> HandlerState]
        /\ \A k \in Handler \ {h} : handler'[k] = handler[k]
        /\ StageFits(h)'
    <2>1. CASE PassOver(h)
      BY <1>1, <2>1, PassingOver
    <2>2. CASE Settle(h, handler[h].filed)
      <3>1. handler[h].filed \in SUBSET Nat
        BY DEF TypeOK, HandlerState
      <3> QED BY <1>1, <2>2, <3>1, Settling
    <2>3. ASSUME NEW c \in Calendar, GoWith(h, "read", c, NoRow)
          PROVE  /\ handler' \in [Handler -> HandlerState]
                 /\ \A k \in Handler \ {h} : handler'[k] = handler[k]
                 /\ StageFits(h)'
      <3>1. /\ handler' \in [Handler -> HandlerState]
            /\ SameObject(handler[h], handler'[h])
            /\ handler'[h].pc = "read" /\ handler'[h].cal = c
            /\ \A k \in Handler \ {h} : handler'[k] = handler[k]
        BY <2>3, GoingWith, RowTyped DEF Stages
      <3>2. StageFits(h)'
        BY <1>1, <3>1 DEF StageFits, SameObject
      <3> QED BY <3>1, <3>2
    <2>4. ASSUME NEW c \in Calendar, NEW pc \in {"delete", "reply"},
                 GoWith(h, pc, c, event[c]),
                 \A m \in handler[h].msg : ~Invites(ObjectsOf[m][handler[h].at])
          PROVE  /\ handler' \in [Handler -> HandlerState]
                 /\ \A k \in Handler \ {h} : handler'[k] = handler[k]
                 /\ StageFits(h)'
      <3>1. pc \in Stages /\ c \in Calendar \cup {0} /\ event[c] \in EventRow
        BY RowTyped DEF Stages
      <3>2. /\ handler' \in [Handler -> HandlerState]
            /\ SameObject(handler[h], handler'[h])
            /\ handler'[h].pc = pc /\ handler'[h].cal = c
            /\ \A k \in Handler \ {h} : handler'[k] = handler[k]
        BY <2>4, <3>1, GoingWith
      <3>3. \A m \in handler'[h].msg : ~Invites(ObjectsOf[m][handler'[h].at])
        BY <2>4, <3>2 DEF SameObject
      <3>4. /\ pc \in {"delete", "reply"} /\ handler'[h].msg # {}
            /\ \A m \in handler'[h].msg : handler'[h].at \in DOMAIN ObjectsOf[m]
        BY <1>1, <3>2 DEF SameObject
      <3>5. StageFits(h)'
        BY <3>2, <3>3, <3>4 DEF StageFits
      <3> QED BY <3>2, <3>5
    <2> QED BY <1>1, <2>1, <2>2, <2>3, <2>4 DEF Dispatched
  <1>3. failures' \in 0..MaxFailures
    <2>1. failures' = failures \/ \E blind \in SUBSET Holding :
             failures + Cardinality(blind) <= MaxFailures
             /\ failures' = failures + Cardinality(blind)
      BY DEF DispatchInvite
    <2>2. ASSUME NEW blind \in SUBSET Holding PROVE Cardinality(blind) \in Nat
      <3>1. blind \in SUBSET Calendar
        BY DEF Holding
      <3>2. IsFiniteSet(blind)
        BY <3>1, FS_Subset, InvitationsAssumption
      <3> QED BY <3>2, FS_CardinalityType
    <2>3. failures \in 0..MaxFailures /\ MaxFailures \in Nat
      BY InvitationsAssumption DEF TypeOK
    <2>4. CASE failures' = failures
      BY <2>3, <2>4
    <2>5. ASSUME NEW blind \in SUBSET Holding, failures + Cardinality(blind) <= MaxFailures,
                 failures' = failures + Cardinality(blind)
          PROVE  failures' \in 0..MaxFailures
      <3>1. PICK n \in Nat : n = Cardinality(blind)
        BY <2>2
      <3> QED BY <2>3, <2>5, <3>1
    <2> QED BY <2>1, <2>4, <2>5
  <1>4. UNCHANGED <<event, roster, enabled, mail, lastId, arrivals, requests, History>>
    BY DEF DispatchInvite
  <1>5. TypeOK'
    BY <1>2, <1>3, <1>4 DEF TypeOK, History
  <1> QED BY <1>2, <1>5, OthersFit

\* What an object is on record with is a set of numbers.
LEMMA RecordingTyped ==
  ASSUME TypeOK, NEW h \in Handler
  PROVE  /\ handler[h].filed \in SUBSET Nat /\ Recording(h) \in SUBSET Nat
         /\ handler[h].at \in Recording(h) /\ handler[h].filed \subseteq Recording(h)
  BY DEF TypeOK, HandlerState, Recording

\* What the stages of an invite work with.
LEMMA InviteStage ==
  ASSUME TypeOK, AllFit, NEW h \in Handler,
         handler[h].pc \in {"read", "update", "create", "delete", "reply"}
  PROVE  /\ handler[h].msg # {} /\ handler[h].cal \in Calendar
         /\ \A m \in handler[h].msg : handler[h].at \in DOMAIN ObjectsOf[m]
         /\ ObjectAt(h).seq \in Nat /\ ObjectAt(h).guests \subseteq Person
         /\ \A m \in handler[h].msg : ObjectsOf[m][handler[h].at] = ObjectAt(h)
         /\ handler[h].seen \in EventRow /\ event[handler[h].cal] \in EventRow
  <1>1. /\ handler[h].msg # {} /\ handler[h].cal \in Calendar
        /\ \A m \in handler[h].msg : handler[h].at \in DOMAIN ObjectsOf[m]
    BY DEF AllFit, StageFits
  <1> QED BY <1>1, ItsObject, RowTyped

\* handleRequest reads the row it may have to update.
LEMMA ReadTyped ==
  ASSUME TypeOK, AllFit, NEW h \in Handler, ReadExisting(h)
  PROVE  TypeOK' /\ AllFit'
  <1> DEFINE c == handler[h].cal
             pc == IF event[c].id = 0 THEN "create" ELSE "update"
  <1>1. handler[h].pc = "read"
    BY DEF ReadExisting, Is
  <1>2. /\ handler[h].msg # {} /\ c \in Calendar
        /\ \A m \in handler[h].msg : handler[h].at \in DOMAIN ObjectsOf[m]
        /\ \A m \in handler[h].msg : ObjectsOf[m][handler[h].at] = ObjectAt(h)
        /\ event[c] \in EventRow /\ ObjectAt(h).seq \in Nat /\ event[c].seq \in Nat
    BY <1>1, InviteStage DEF EventRow
  <1>3. \/ Settle(h, Recording(h))
        \/ /\ ~(event[c].id # 0 /\ ObjectAt(h).seq < event[c].seq)
           /\ GoWith(h, pc, c, event[c])
    BY DEF ReadExisting
  <1>4. UNCHANGED <<event, roster, enabled, mail, lastId, Counters, History>>
    BY DEF ReadExisting
  <1> HIDE DEF c
  <1>5. CASE Settle(h, Recording(h))
    BY <1>2, <1>4, <1>5, RecordingTyped, Settling, HandlerOnly
  <1>6. CASE /\ ~(event[c].id # 0 /\ ObjectAt(h).seq < event[c].seq)
             /\ GoWith(h, pc, c, event[c])
    <2>1. pc \in {"create", "update"} /\ pc \in Stages
      BY DEF Stages
    <2>2. pc = "update" => event[c].id # 0 /\ ObjectAt(h).seq >= event[c].seq
      BY <1>2, <1>6
    <2> HIDE DEF pc
    <2>3. /\ handler' \in [Handler -> HandlerState]
          /\ SameObject(handler[h], handler'[h])
          /\ handler'[h].pc = pc /\ handler'[h].cal = c /\ handler'[h].seen = event[c]
          /\ \A k \in Handler \ {h} : handler'[k] = handler[k]
      BY <1>2, <1>6, <2>1, GoingWith
    <2>4. StageFits(h)'
      BY <1>2, <2>1, <2>2, <2>3 DEF StageFits, SameObject
    <2> QED BY <1>4, <2>3, <2>4, HandlerOnly
  <1> QED BY <1>3, <1>5, <1>6

\* handleRequest updates the row it has read.
LEMMA UpdateExistingTyped ==
  ASSUME TypeOK, AllFit, NEW h \in Handler, UpdateExisting(h)
  PROVE  TypeOK' /\ AllFit'
  <1> DEFINE c == handler[h].cal
             seen == handler[h].seen
             seq == ObjectAt(h).seq
  <1>1. handler[h].pc = "update"
    BY DEF UpdateExisting, Is
  <1>2. /\ handler[h].msg # {} /\ c \in Calendar
        /\ \A m \in handler[h].msg : handler[h].at \in DOMAIN ObjectsOf[m]
        /\ seen \in EventRow /\ seq \in Nat /\ seen.modified \in BOOLEAN
    BY <1>1, InviteStage DEF EventRow
  <1>3. /\ UpdateCalendarEvent(c, seen, seq, "CONFIRMED", seen.modified)
        /\ Written(h, seen, Recording(h)) \/ Written(h, seen, handler[h].filed)
        /\ bereft' = bereft \ {h}
        /\ UNCHANGED <<roster, enabled, mail, lastId, Counters, consumed, dispatched,
                       withdrawn>>
    BY DEF UpdateExisting
  <1> HIDE DEF c, seen, seq
  <1>4. event' \in [Calendar -> EventRow] /\ overlapped' \in BOOLEAN
    BY <1>2, <1>3, UpdateTyped
  <1>5. /\ handler' \in [Handler -> HandlerState]
        /\ \A k \in Handler \ {h} : handler'[k] = handler[k]
        /\ StageFits(h)'
    BY <1>2, <1>3, RecordingTyped, RowWritten DEF c
  <1>6. TypeOK'
    BY <1>3, <1>4, <1>5 DEF TypeOK, Counters
  <1> QED BY <1>5, <1>6, OthersFit

\* handleRequest creates the row it has not found.
LEMMA CreateTyped ==
  ASSUME TypeOK, AllFit, NEW h \in Handler, CreateEvent(h)
  PROVE  TypeOK' /\ AllFit'
  <1> DEFINE c == handler[h].cal
             seq == ObjectAt(h).seq
             row == [id |-> lastId + 1, seq |-> seq, status |-> "CONFIRMED",
                     modified |-> FALSE]
  <1>1. handler[h].pc = "create"
    BY DEF CreateEvent, Is
  <1>2. /\ handler[h].msg # {} /\ c \in Calendar /\ seq \in Nat
        /\ \A m \in handler[h].msg : handler[h].at \in DOMAIN ObjectsOf[m]
    BY <1>1, InviteStage
  <1>3. UNCHANGED <<roster, enabled, mail, Counters, History>>
    BY DEF CreateEvent
  <1>4. \/ PassOver(h) /\ UNCHANGED <<event, lastId>>
        \/ /\ lastId < MaxId /\ lastId' = lastId + 1
           /\ event' = [event EXCEPT ![c] = row]
           /\ Written(h, row, Recording(h))
    BY DEF CreateEvent, InsertEvent
  <1>5. CASE PassOver(h) /\ UNCHANGED <<event, lastId>>
    BY <1>2, <1>3, <1>5, PassingOver, HandlerOnly
  <1>6. CASE /\ lastId < MaxId /\ lastId' = lastId + 1
             /\ event' = [event EXCEPT ![c] = row]
             /\ Written(h, row, Recording(h))
    <2> HIDE DEF c, seq
    <2>1. row \in EventRow /\ lastId' \in 0..MaxId
      BY <1>2, <1>6, InvitationsAssumption DEF EventRow, TypeOK
    <2> HIDE DEF row
    <2>2. /\ handler' \in [Handler -> HandlerState]
          /\ \A k \in Handler \ {h} : handler'[k] = handler[k]
          /\ StageFits(h)'
      BY <1>2, <1>6, <2>1, RecordingTyped, RowWritten DEF c
    <2>3. event' \in [Calendar -> EventRow]
      BY <1>2, <1>6, <2>1 DEF TypeOK
    <2>4. TypeOK'
      BY <1>3, <2>1, <2>2, <2>3 DEF TypeOK, Counters, History
    <2> QED BY <2>2, <2>4, OthersFit
  <1> QED BY <1>4, <1>5, <1>6

\* The attendees' list is written.
LEMMA RosterTyped ==
  ASSUME TypeOK, AllFit, NEW h \in Handler, ReplaceAttendees(h)
  PROVE  TypeOK' /\ AllFit'
  <1> DEFINE c == handler[h].cal
             invited == IF handler[h].msg = {} THEN handler[h].guests ELSE ObjectAt(h).guests
             people == [p \in Person |-> IF p \in invited THEN "NEEDS-ACTION" ELSE "absent"]
  <1>1. c \in Calendar
    BY DEF AllFit, StageFits, ReplaceAttendees, Is
  <1>2. roster' = roster \/ roster' = [roster EXCEPT ![c] = people]
    BY DEF ReplaceAttendees
  <1>3. people \in [Person -> {"absent", "NEEDS-ACTION", "ACCEPTED"}]
    OBVIOUS
  <1>4. roster' \in [Calendar -> [Person -> {"absent", "NEEDS-ACTION", "ACCEPTED"}]]
    <2> HIDE DEF people
    <2> QED BY <1>1, <1>2, <1>3 DEF TypeOK
  <1>5. Stop(h) \/ (Settle(h, handler[h].filed) /\ handler[h].msg # {})
    BY DEF ReplaceAttendees
  <1>6. /\ handler' \in [Handler -> HandlerState]
        /\ \A k \in Handler \ {h} : handler'[k] = handler[k]
        /\ StageFits(h)'
    <2>1. CASE Stop(h)
      BY <2>1, Stopping, IdleFits
    <2>2. CASE Settle(h, handler[h].filed) /\ handler[h].msg # {}
      BY <2>2, RecordingTyped, Settling
    <2> QED BY <1>5, <2>1, <2>2
  <1>7. TypeOK'
    BY <1>4, <1>6 DEF TypeOK, ReplaceAttendees, Counters, History
  <1> QED BY <1>6, <1>7, OthersFit

\* handleCancel.
LEMMA CancelTyped ==
  ASSUME TypeOK, AllFit, NEW h \in Handler, HandleCancel(h)
  PROVE  TypeOK' /\ AllFit'
  <1> DEFINE c == handler[h].cal
  <1>1. c \in Calendar /\ handler[h].msg # {}
    BY DEF AllFit, StageFits, HandleCancel, Is
  <1>2. /\ event' \in [Calendar -> EventRow]
        /\ roster' \in [Calendar -> [Person -> {"absent", "NEEDS-ACTION", "ACCEPTED"}]]
        /\ bereft' \subseteq Handler
    <2>1. CASE DeleteCalendarEvent(c)
      BY <1>1, <2>1, DeleteTyped
    <2>2. CASE UNCHANGED <<event, roster, bereft>>
      BY <2>2 DEF TypeOK
    <2> QED BY <2>1, <2>2 DEF HandleCancel
  <1>3. Settle(h, handler[h].filed) /\ withdrawn' = TRUE
    BY DEF HandleCancel
  <1>4. /\ handler' \in [Handler -> HandlerState]
        /\ \A k \in Handler \ {h} : handler'[k] = handler[k]
        /\ StageFits(h)'
    BY <1>1, <1>3, RecordingTyped, Settling
  <1>6. TypeOK'
    BY <1>2, <1>3, <1>4 DEF TypeOK, HandleCancel, Counters
  <1> QED BY <1>4, <1>6, OthersFit

\* An answer of an attendee is written or not.
LEMMA PartStatTyped ==
  ASSUME TypeOK, NEW c \in Calendar, NEW id, NEW p \in Person,
         UpdateAttendeePartStat(c, id, p)
  PROVE  roster' \in [Calendar -> [Person -> {"absent", "NEEDS-ACTION", "ACCEPTED"}]]
  <1>1. roster' = roster
        \/ roster' = [roster EXCEPT ![c] = [roster[c] EXCEPT ![p] = "ACCEPTED"]]
    BY DEF UpdateAttendeePartStat
  <1>2. [roster[c] EXCEPT ![p] = "ACCEPTED"]
           \in [Person -> {"absent", "NEEDS-ACTION", "ACCEPTED"}]
    BY DEF TypeOK
  <1> QED BY <1>1, <1>2 DEF TypeOK

\* handleReply.
LEMMA ReplyTyped ==
  ASSUME TypeOK, AllFit, NEW h \in Handler, HandleReply(h)
  PROVE  TypeOK' /\ AllFit'
  <1>1. handler[h].pc = "reply"
    BY DEF HandleReply, Is
  <1>2. handler[h].cal \in Calendar /\ handler[h].msg # {} /\ ObjectAt(h).guests \subseteq Person
    BY <1>1, InviteStage
  <1>3. PICK p \in ObjectAt(h).guests :
          /\ UpdateAttendeePartStat(handler[h].cal, handler[h].seen.id, p)
          /\ PassOver(h) \/ Settle(h, handler[h].filed)
    BY DEF HandleReply
  <1>4. roster' \in [Calendar -> [Person -> {"absent", "NEEDS-ACTION", "ACCEPTED"}]]
    BY <1>2, <1>3, PartStatTyped
  <1>5. /\ handler' \in [Handler -> HandlerState]
        /\ \A k \in Handler \ {h} : handler'[k] = handler[k]
        /\ StageFits(h)'
    BY <1>2, <1>3, RecordingTyped, PassingOver, Settling
  <1>6. TypeOK'
    BY <1>4, <1>5 DEF TypeOK, HandleReply, Counters, History
  <1> QED BY <1>5, <1>6, OthersFit

\* The mail of an invitation is removed.
LEMMA DropTyped ==
  ASSUME TypeOK, AllFit, NEW h \in Handler, Drop(h)
  PROVE  TypeOK' /\ AllFit'
  <1>1. MessageOf(h) \in Message
    <2>1. handler[h].msg # {}
      BY DEF AllFit, StageFits, Drop, Is
    <2> QED BY <2>1, ItsMessage
  <1>2. /\ handler' \in [Handler -> HandlerState] /\ handler'[h] = Idle
        /\ \A k \in Handler \ {h} : handler'[k] = handler[k]
    BY Stopping DEF Drop
  <1>3. /\ mail' \in [Message -> {"unknown", "inbox", "vault"}]
        /\ consumed' \subseteq Message
    BY <1>1 DEF Drop, TypeOK
  <1>4. TypeOK'
    BY <1>2, <1>3 DEF TypeOK, Drop, Counters
  <1>5. StageFits(h)'
    BY <1>2, IdleFits
  <1> QED BY <1>2, <1>4, <1>5, OthersFit

\* A failure is counted.
LEMMA BreakTyped ==
  ASSUME TypeOK, Break
  PROVE  failures' \in 0..MaxFailures
  BY InvitationsAssumption DEF TypeOK, Break

\* A statement fails.
LEMMA FailsTyped ==
  ASSUME TypeOK, AllFit, NEW h \in Handler, StatementFails(h)
  PROVE  TypeOK' /\ AllFit'
  <1>1. /\ handler' \in [Handler -> HandlerState]
        /\ \A k \in Handler \ {h} : handler'[k] = handler[k]
        /\ StageFits(h)'
    <2>1. CASE Stop(h)
      BY <2>1, Stopping, IdleFits
    <2>2. CASE handler[h].msg # {} /\ (Settle(h, handler[h].filed) \/ PassOver(h))
      BY <2>2, RecordingTyped, Settling, PassingOver
    <2> QED BY <2>1, <2>2 DEF StatementFails
  <1>2. failures' \in 0..MaxFailures
    BY BreakTyped DEF StatementFails
  <1>3. TypeOK'
    BY <1>1, <1>2 DEF TypeOK, StatementFails, Break
  <1> QED BY <1>1, <1>3, OthersFit

\* The process stops; its handlers are gone.
LEMMA CrashTyped ==
  ASSUME TypeOK, AllFit, Crash
  PROVE  TypeOK' /\ AllFit'
  <1>2. Idle \in HandlerState
    BY IdleIsState
  <1>3. handler' \in [Handler -> HandlerState] /\ \A k \in Handler : handler'[k] = Idle
    BY <1>2 DEF Crash
  <1>4. failures' \in 0..MaxFailures
    BY BreakTyped DEF Crash
  <1>5. TypeOK'
    BY <1>3, <1>4 DEF TypeOK, Crash, Break
  <1>6. AllFit'
    BY <1>3, IdleFits DEF AllFit
  <1> QED BY <1>5, <1>6

\* A request leaves mail, arrivals, failures and what was consumed alone.
LEMMA RequestTyped ==
  ASSUME TypeOK, Request
  PROVE  requests' \in 0..MaxRequests
  BY InvitationsAssumption DEF TypeOK, Request

\* A request of the user reads the row it works on.
LEMMA ReadEventTyped ==
  ASSUME TypeOK, AllFit, NEW h \in Handler, NEW c \in Calendar,
         NEW pc \in {"answer", "edit", "cancel"}, ReadEvent(h, c, pc)
  PROVE  TypeOK' /\ AllFit'
  <1>1. event[c] \in EventRow /\ pc \in Stages
    BY RowTyped DEF Stages
  <1>2. /\ handler' \in [Handler -> HandlerState]
        /\ handler'[h].pc = pc /\ handler'[h].cal = c
        /\ \A k \in Handler \ {h} : handler'[k] = handler[k]
    BY <1>1, GoingWith DEF ReadEvent
  <1>3. StageFits(h)'
    BY <1>2 DEF StageFits
  <1>4. requests' \in 0..MaxRequests
    BY RequestTyped DEF ReadEvent
  <1>5. TypeOK'
    BY <1>2, <1>4 DEF TypeOK, ReadEvent, Request
  <1> QED BY <1>2, <1>3, <1>5, OthersFit

\* The user answers an invitation.
LEMMA RespondTyped ==
  ASSUME TypeOK, AllFit, NEW h \in Handler, Respond(h)
  PROVE  TypeOK' /\ AllFit'
  <1>1. handler[h].cal \in Calendar
    BY DEF AllFit, StageFits, Respond, Is
  <1>2. roster' \in [Calendar -> [Person -> {"absent", "NEEDS-ACTION", "ACCEPTED"}]]
    BY <1>1, PartStatTyped, InvitationsAssumption DEF Respond
  <1>3. /\ handler' \in [Handler -> HandlerState] /\ handler'[h] = Idle
        /\ \A k \in Handler \ {h} : handler'[k] = handler[k]
    BY Stopping DEF Respond
  <1>4. TypeOK'
    BY <1>2, <1>3 DEF TypeOK, Respond, Counters, History
  <1>5. StageFits(h)'
    BY <1>3, IdleFits
  <1> QED BY <1>3, <1>4, <1>5, OthersFit

\* The user edits or cancels an event: the row is written whole.
LEMMA RewriteTyped ==
  ASSUME TypeOK, AllFit, NEW h \in Handler, NEW pc \in {"edit", "cancel"},
         NEW status \in {"none", "CONFIRMED", "CANCELLED"}, NEW modified \in BOOLEAN,
         Rewrite(h, pc, status, modified)
  PROVE  TypeOK' /\ AllFit'
  <1> DEFINE c == handler[h].cal
             seen == handler[h].seen
  <1>1. c \in Calendar
    BY DEF AllFit, StageFits, Rewrite, Is
  <1>2. seen \in EventRow /\ seen.seq \in Nat
    BY RowTyped DEF EventRow
  <1>3. UpdateCalendarEvent(c, seen, seen.seq, status, modified) /\ Stop(h)
    BY DEF Rewrite
  <1> HIDE DEF c, seen
  <1>4. event' \in [Calendar -> EventRow] /\ overlapped' \in BOOLEAN
    BY <1>1, <1>2, <1>3, UpdateTyped
  <1>5. /\ handler' \in [Handler -> HandlerState] /\ handler'[h] = Idle
        /\ \A k \in Handler \ {h} : handler'[k] = handler[k]
    BY <1>3, Stopping
  <1>6. TypeOK'
    BY <1>4, <1>5 DEF TypeOK, Rewrite, Counters
  <1>7. StageFits(h)'
    BY <1>5, IdleFits
  <1> QED BY <1>5, <1>6, <1>7, OthersFit

\* HandleUpdateEvent and HandleCancelEvent are rewrites of the row they read.
LEMMA RewritesKnown ==
  ASSUME TypeOK, NEW h \in Handler, HandleUpdateEvent(h) \/ HandleCancelEvent(h)
  PROVE  \E pc \in {"edit", "cancel"}, status \in {"none", "CONFIRMED", "CANCELLED"},
            modified \in BOOLEAN : Rewrite(h, pc, status, modified)
  <1>1. handler[h].seen.status \in {"none", "CONFIRMED", "CANCELLED"}
        /\ handler[h].seen.modified \in BOOLEAN
    BY RowTyped DEF EventRow
  <1>2. CASE HandleUpdateEvent(h)
    BY <1>1, <1>2 DEF HandleUpdateEvent
  <1>3. CASE HandleCancelEvent(h)
    BY <1>1, <1>3 DEF HandleCancelEvent
  <1> QED BY <1>2, <1>3

\* The user creates an event with guests.
LEMMA InviteTyped ==
  ASSUME TypeOK, AllFit, NEW h \in Handler, NEW c \in Calendar,
         NEW guests \in SUBSET Person,
         CreateEventWithAttendees(h, c, guests)
  PROVE  TypeOK' /\ AllFit'
  <1> DEFINE row == [id |-> lastId + 1, seq |-> 0, status |-> "CONFIRMED",
             modified |-> TRUE]
             t == [Idle EXCEPT !.pc = "roster", !.guests = guests, !.cal = c, !.seen = row]
  <1>1. row \in EventRow /\ lastId' \in 0..MaxId
    BY InvitationsAssumption DEF CreateEventWithAttendees, EventRow, TypeOK
  <1>2. /\ event' = [event EXCEPT ![c] = row]
        /\ handler' = handler \/ handler' = [handler EXCEPT ![h] = t]
        /\ UNCHANGED <<roster, enabled, bereft, overlapped, withdrawn>>
        /\ Request
    BY DEF CreateEventWithAttendees
  <1> HIDE DEF row
  <1>3. t = [Idle EXCEPT !.pc = "roster", !.guests = guests, !.cal = c, !.seen = row]
        /\ Idle \in HandlerState
    BY IdleIsState
  <1>4. t \in HandlerState /\ t.pc = "roster" /\ t.cal = c /\ t.msg = {}
    BY <1>1, <1>3 DEF HandlerState, Idle
  <1> HIDE DEF t
  <1>5. event' \in [Calendar -> EventRow]
    BY <1>1, <1>2 DEF TypeOK
  <1>6. handler' \in [Handler -> HandlerState] /\ AllFit'
    <2>1. CASE handler' = handler
      BY <2>1, FitsStays DEF AllFit, TypeOK
    <2>2. CASE handler' = [handler EXCEPT ![h] = t]
      <3>1. /\ handler' \in [Handler -> HandlerState] /\ handler'[h] = t
            /\ \A k \in Handler \ {h} : handler'[k] = handler[k]
        BY <1>4, <2>2, Moving
      <3>2. StageFits(h)'
        BY <1>4, <3>1 DEF StageFits
      <3> QED BY <3>1, <3>2, OthersFit
    <2> QED BY <1>2, <2>1, <2>2
  <1>7. requests' \in 0..MaxRequests
    BY <1>2, RequestTyped
  <1>8. TypeOK'
    BY <1>1, <1>2, <1>5, <1>6, <1>7 DEF TypeOK, Request
  <1> QED BY <1>6, <1>8

\* A step that leaves the handlers alone keeps them fit.
LEMMA IdleStepFits ==
  ASSUME AllFit, UNCHANGED handler
  PROVE  AllFit'
  BY FitsStays DEF AllFit

\* The row goes: the user or the pull of the calendar deletes it.
LEMMA DeleteEventTyped ==
  ASSUME TypeOK, AllFit, NEW c \in Calendar, HandleDeleteEvent(c) \/ ApplySyncChanges(c)
  PROVE  TypeOK' /\ AllFit'
  <1>1. DeleteCalendarEvent(c) /\ UNCHANGED <<enabled, handler, lastId, overlapped>>
    BY DEF HandleDeleteEvent, ApplySyncChanges
  <1>2. /\ event' \in [Calendar -> EventRow]
        /\ roster' \in [Calendar -> [Person -> {"absent", "NEEDS-ACTION", "ACCEPTED"}]]
        /\ bereft' \subseteq Handler
    BY <1>1, DeleteTyped
  <1>3. UNCHANGED <<mail, arrivals, failures, consumed, dispatched>>
    BY DEF HandleDeleteEvent, ApplySyncChanges, Request, Counters
  <1>4. requests' \in 0..MaxRequests
    <2>1. CASE HandleDeleteEvent(c)
      BY <2>1, RequestTyped DEF HandleDeleteEvent
    <2>2. CASE ApplySyncChanges(c)
      BY <2>2 DEF ApplySyncChanges, Counters, TypeOK
    <2> QED BY <2>1, <2>2
  <1>5. withdrawn' \in BOOLEAN
    BY DEF TypeOK, HandleDeleteEvent, ApplySyncChanges
  <1>6. TypeOK'
    BY <1>1, <1>2, <1>3, <1>4, <1>5 DEF TypeOK
  <1> QED BY <1>1, <1>6, IdleStepFits

\* The user replaces the guests of an event.
LEMMA AttendeesTyped ==
  ASSUME TypeOK, AllFit, NEW c \in Calendar,
         NEW people \in [Person -> {"absent", "NEEDS-ACTION", "ACCEPTED"}],
         HandleUpdateEventAttendees(c, people)
  PROVE  TypeOK' /\ AllFit'
  <1>1. roster' \in [Calendar -> [Person -> {"absent", "NEEDS-ACTION", "ACCEPTED"}]]
    BY DEF HandleUpdateEventAttendees, TypeOK
  <1>2. requests' \in 0..MaxRequests
    BY RequestTyped DEF HandleUpdateEventAttendees
  <1>3. TypeOK'
    BY <1>1, <1>2 DEF TypeOK, HandleUpdateEventAttendees, Request
  <1> QED BY <1>3, IdleStepFits DEF HandleUpdateEventAttendees

\* A calendar is switched on or off.
LEMMA EnabledTyped ==
  ASSUME TypeOK, AllFit, NEW c \in Calendar, SetCalendarEnabled(c)
  PROVE  TypeOK' /\ AllFit'
  <1>1. enabled' \subseteq Calendar
    BY DEF SetCalendarEnabled, TypeOK
  <1>2. requests' \in 0..MaxRequests
    BY RequestTyped DEF SetCalendarEnabled
  <1>3. TypeOK'
    BY <1>1, <1>2 DEF TypeOK, SetCalendarEnabled, Request
  <1> QED BY <1>3, IdleStepFits DEF SetCalendarEnabled

\* The vault is purged.
LEMMA PurgeTyped ==
  ASSUME TypeOK, AllFit, NEW m \in Message, PurgeVault(m)
  PROVE  TypeOK' /\ AllFit'
  <1>1. /\ mail' \in [Message -> {"unknown", "inbox", "vault"}]
        /\ dispatched' \in [Message -> 0..2]
    BY DEF PurgeVault, TypeOK
  <1>2. TypeOK'
    BY <1>1 DEF TypeOK, PurgeVault, Counters
  <1> QED BY <1>2, IdleStepFits DEF PurgeVault

-----------------------------------------------------------------------------
(* Every step, by its name: what the step lemmas below are put together by. *)

HandlerStep(h) ==
    \/ DispatchInvite(h) \/ ReadExisting(h) \/ UpdateExisting(h) \/ CreateEvent(h)
    \/ ReplaceAttendees(h) \/ HandleCancel(h) \/ HandleReply(h) \/ Drop(h)
    \/ StatementFails(h) \/ Respond(h)

\* Every step keeps the types and the stages.
LEMMA TypesStep ==
  ASSUME TypeOK, AllFit, [Next]_vars
  PROVE  TypeOK' /\ AllFit'
  <1>1. ASSUME NEW h \in Handler, NEW m \in Message, DeliverOne(h, m)
               \/ SaveMessageToInbox(h, m)
        PROVE  TypeOK' /\ AllFit'
    BY <1>1, DeliverTyped
  <1>2. ASSUME NEW h \in Handler, HandlerStep(h) PROVE TypeOK' /\ AllFit'
    BY <1>2, DispatchTyped, ReadTyped, UpdateExistingTyped, CreateTyped, RosterTyped,
       CancelTyped,
       ReplyTyped, DropTyped, FailsTyped, RespondTyped DEF HandlerStep
  <1>3. ASSUME NEW h \in Handler, HandleUpdateEvent(h) \/ HandleCancelEvent(h)
        PROVE  TypeOK' /\ AllFit'
    BY <1>3, RewritesKnown, RewriteTyped
  <1>4. ASSUME NEW h \in Handler, NEW c \in Calendar,
               RespondRead(h, c) \/ UpdateRead(h, c) \/ CancelRead(h, c)
        PROVE  TypeOK' /\ AllFit'
    BY <1>4, ReadEventTyped DEF RespondRead, UpdateRead, CancelRead
  <1>5. ASSUME NEW h \in Handler, NEW c \in Calendar, NEW guests \in SUBSET Person,
               CreateEventWithAttendees(h, c, guests)
        PROVE  TypeOK' /\ AllFit'
    BY <1>5, InviteTyped
  <1>6. CASE Crash
    BY <1>6, CrashTyped
  <1>7. ASSUME NEW c \in Calendar,
               \/ \E people \in [Person -> {"absent", "NEEDS-ACTION", "ACCEPTED"}] :
                     HandleUpdateEventAttendees(c, people)
               \/ HandleDeleteEvent(c) \/ SetCalendarEnabled(c) \/ ApplySyncChanges(c)
        PROVE  TypeOK' /\ AllFit'
    BY <1>7, AttendeesTyped, DeleteEventTyped, EnabledTyped
  <1>8. ASSUME NEW m \in Message, PurgeVault(m) PROVE TypeOK' /\ AllFit'
    BY <1>8, PurgeTyped
  <1>9. CASE UNCHANGED vars
    <2>1. TypeOK'
      BY <1>9 DEF TypeOK, vars
    <2> QED BY <1>9, <2>1, IdleStepFits DEF vars
  <1> QED BY <1>1, <1>2, <1>3, <1>4, <1>5, <1>6, <1>7, <1>8, <1>9 DEF Next, Handle,
             HandlerStep

\* The state keeps its types, and every handler has what its stage works with.
THEOREM InvitationTypes == Spec => [](TypeOK /\ AllFit)
  <1>1. Init => TypeOK /\ AllFit
    BY TypesBegin
  <1>2. TypeOK /\ AllFit /\ [Next]_vars => (TypeOK /\ AllFit)'
    BY TypesStep
  <1> QED BY <1>1, <1>2, PTL DEF Spec

-----------------------------------------------------------------------------
(* Rows. *)

\* A row of the calendar is left alone, made, deleted, which the updates on their
\* way to it are told, or written with a sequence number that is not lower.
RowMoves(c) ==
    \/ event'[c] = event[c]
    \/ event[c].id = 0
    \/ /\ event'[c].id = 0
       /\ \A k \in Handler : handler[k].pc = "update" /\ handler[k].cal = c => k \in bereft'
    \/ /\ event'[c].id = event[c].id
       /\ overlapped' \/ event'[c].seq >= event[c].seq

\* A row that goes has moved.
LEMMA DeleteMoves ==
  ASSUME TypeOK, NEW d \in Calendar, DeleteCalendarEvent(d), NEW c \in Calendar
  PROVE  RowMoves(c)
  <1>1. /\ event'[d] = NoRow
        /\ \A e \in Calendar \ {d} : event'[e] = event[e]
        /\ \A k \in Handler : handler[k].pc = "update" /\ handler[k].cal = d => k \in bereft'
    BY DeleteTyped
  <1>2. NoRow.id = 0
    BY DEF NoRow
  <1> QED BY <1>1, <1>2 DEF RowMoves

\* A row that an update rewrites keeps its number, and its SEQUENCE unless it was
\* read earlier.
LEMMA UpdateMoves ==
  ASSUME TypeOK, NEW d \in Calendar, NEW seen \in EventRow, NEW seq \in Nat,
         seq >= seen.seq,
         NEW status \in {"none", "CONFIRMED", "CANCELLED"}, NEW modified \in BOOLEAN,
         UpdateCalendarEvent(d, seen, seq, status, modified), NEW c \in Calendar
  PROVE  RowMoves(c)
  <1>1. /\ \A e \in Calendar : event'[e].id = event[e].id
        /\ \A e \in Calendar \ {d} : event'[e] = event[e]
        /\ event'[d] # event[d] => overlapped' \/ (event'[d].seq = seq /\ event[d] = seen)
    BY UpdateTyped
  <1> QED BY <1>1 DEF RowMoves

\* Every step moves every row in one of the ways of RowMoves.
LEMMA RowsMove ==
  ASSUME TypeOK, AllFit, [Next]_vars, NEW c \in Calendar
  PROVE  RowMoves(c)
  <1> USE DEF RowMoves
  <1>1. ASSUME NEW h \in Handler, NEW m \in Message, DeliverOne(h, m)
               \/ SaveMessageToInbox(h, m)
        PROVE  RowMoves(c)
    BY <1>1 DEF DeliverOne, SaveMessageToInbox, Arrive
  <1>2. ASSUME NEW h \in Handler, HandlerStep(h) PROVE RowMoves(c)
    <2>1. CASE UpdateExisting(h)
      <3> DEFINE d == handler[h].cal  seen == handler[h].seen  seq == ObjectAt(h).seq
      <3>1. handler[h].pc = "update"
        BY <2>1 DEF UpdateExisting, Is
      <3>2. /\ d \in Calendar /\ seen \in EventRow /\ seen.modified \in BOOLEAN
            /\ seq \in Nat /\ handler[h].msg # {}
            /\ \A m \in handler[h].msg : ObjectsOf[m][handler[h].at] = ObjectAt(h)
        BY <3>1, InviteStage DEF EventRow
      <3>3. seq >= seen.seq
        BY <3>1, <3>2 DEF AllFit, StageFits
      <3>4. UpdateCalendarEvent(d, seen, seq, "CONFIRMED", seen.modified)
        BY <2>1 DEF UpdateExisting
      <3> HIDE DEF d, seen, seq
      <3> QED BY <3>2, <3>3, <3>4, UpdateMoves
    <2>2. CASE CreateEvent(h)
      <3>1. handler[h].cal \in Calendar
        BY <2>2 DEF AllFit, StageFits, CreateEvent, Is
      <3>2. event[handler[h].cal].id # 0 => event' = event
        BY <2>2 DEF CreateEvent
      <3>3. c # handler[h].cal => event'[c] = event[c]
        BY <2>2 DEF CreateEvent, InsertEvent, TypeOK
      <3> QED BY <3>1, <3>2, <3>3
    <2>3. CASE HandleCancel(h)
      <3>1. handler[h].cal \in Calendar
        BY <2>3 DEF AllFit, StageFits, HandleCancel, Is
      <3>2. DeleteCalendarEvent(handler[h].cal) \/ event' = event
        BY <2>3 DEF HandleCancel
      <3> QED BY <3>1, <3>2, DeleteMoves
    <2>4. CASE \/ DispatchInvite(h) \/ ReadExisting(h) \/ ReplaceAttendees(h)
                    \/ HandleReply(h)
               \/ Drop(h) \/ StatementFails(h) \/ Respond(h)
      <3>1. event' = event
        BY <2>4 DEF DispatchInvite, ReadExisting, ReplaceAttendees, HandleReply, Drop,
           StatementFails, Break, Respond
      <3> QED BY <3>1
    <2> QED BY <1>2, <2>1, <2>2, <2>3, <2>4 DEF HandlerStep
  <1>3. ASSUME NEW h \in Handler, HandleUpdateEvent(h) \/ HandleCancelEvent(h)
        PROVE  RowMoves(c)
    <2>1. PICK pc \in {"edit", "cancel"}, status \in {"none", "CONFIRMED", "CANCELLED"},
               modified \in BOOLEAN : Rewrite(h, pc, status, modified)
      BY <1>3, RewritesKnown
    <2> DEFINE d == handler[h].cal  seen == handler[h].seen
    <2>2. d \in Calendar /\ seen \in EventRow
      BY <2>1, RowTyped DEF AllFit, StageFits, Rewrite, Is
    <2>3. seen.seq \in Nat /\ seen.seq >= seen.seq
      BY <2>2 DEF EventRow
    <2>4. UpdateCalendarEvent(d, seen, seen.seq, status, modified)
      BY <2>1 DEF Rewrite
    <2> HIDE DEF d, seen
    <2> QED BY <2>2, <2>3, <2>4, UpdateMoves
  <1>4. ASSUME NEW h \in Handler, NEW d \in Calendar,
               RespondRead(h, d) \/ UpdateRead(h, d) \/ CancelRead(h, d)
        PROVE  RowMoves(c)
    BY <1>4 DEF RespondRead, UpdateRead, CancelRead, ReadEvent
  <1>5. ASSUME NEW h \in Handler, NEW d \in Calendar, NEW guests \in SUBSET Person,
               CreateEventWithAttendees(h, d, guests)
        PROVE  RowMoves(c)
    <2>1. event[d].id = 0
      BY <1>5 DEF CreateEventWithAttendees
    <2>2. c # d => event'[c] = event[c]
      BY <1>5 DEF CreateEventWithAttendees, TypeOK
    <2> QED BY <2>1, <2>2
  <1>6. CASE Crash
    BY <1>6 DEF Crash, Break
  <1>7. ASSUME NEW d \in Calendar, HandleDeleteEvent(d) \/ ApplySyncChanges(d)
        PROVE  RowMoves(c)
    BY <1>7, DeleteMoves DEF HandleDeleteEvent, ApplySyncChanges
  <1>8. ASSUME NEW d \in Calendar,
               \/ \E people \in [Person -> {"absent", "NEEDS-ACTION", "ACCEPTED"}] :
                     HandleUpdateEventAttendees(d, people)
               \/ SetCalendarEnabled(d)
        PROVE  RowMoves(c)
    BY <1>8 DEF HandleUpdateEventAttendees, SetCalendarEnabled
  <1>9. ASSUME NEW m \in Message, PurgeVault(m) PROVE RowMoves(c)
    BY <1>9 DEF PurgeVault
  <1>10. CASE UNCHANGED vars
    BY <1>10 DEF vars
  <1> HIDE DEF RowMoves
  <1> QED BY <1>1, <1>2, <1>3, <1>4, <1>5, <1>6, <1>7, <1>8, <1>9, <1>10
       DEF Next, Handle, HandlerStep

\* No step brings an older version of a row back, but for an update of a row that
\* was changed since it was read (UpdateCalendarEvent, HandleInviteRequest).
THEOREM SequenceNeverFallsHolds == Spec => SequenceNeverFalls
  <1>1. ASSUME TypeOK, AllFit, [Next]_vars
        PROVE  \A c \in Calendar : event[c].id # 0 /\ event'[c].id = event[c].id
                  => event'[c].seq >= event[c].seq \/ overlapped'
    <2>1. ASSUME NEW c \in Calendar, event[c].id # 0, event'[c].id = event[c].id
          PROVE  event'[c].seq >= event[c].seq \/ overlapped'
      <3>1. event[c].seq \in Nat
        BY <1>1, RowTyped DEF EventRow
      <3>2. event'[c] = event[c] \/ overlapped' \/ event'[c].seq >= event[c].seq
        BY <1>1, <2>1, RowsMove DEF RowMoves
      <3> QED BY <3>1, <3>2
    <2> QED BY <2>1
  <1> QED BY <1>1, InvitationTypes, PTL DEF Spec, SequenceNeverFalls

-----------------------------------------------------------------------------
(* What was taken away was filed. *)

\* An update whose row has gone since it was read is on record.
LossIsKnown(k) ==
    handler[k].pc = "update" /\ event[handler[k].cal].id # handler[k].seen.id
        => k \in bereft

\* The loop's account of a message: the invites behind it are filed or given up, and
\* one object has succeeded if the handler says so.
Ledger(s) ==
    \A m \in s.msg :
        /\ \A i \in s.passed : i < s.at
        /\ \A i \in DOMAIN ObjectsOf[m] :
              i < s.at /\ Invites(ObjectsOf[m][i]) => i \in s.filed \cup s.passed
        /\ s.handled => \E i \in DOMAIN ObjectsOf[m] : i < s.at /\ i \notin s.passed
        /\ s.pc = "roster" => s.at \in s.filed
        /\ s.pc = "drop" => s.handled /\ \A i \in DOMAIN ObjectsOf[m] : i < s.at

Recorded == \A k \in Handler : LossIsKnown(k) /\ Ledger(handler[k])

\* A handler is at the same object as before.
StaysAt(s, t) ==
    /\ SameObject(s, t) /\ s.filed \subseteq t.filed
    /\ t.pc # "drop"
    /\ t.pc = "roster" => t.at \in t.filed

\* It is done with the object, which is given up, or no invite or on record.
EndsOnRecord(s, t) ==
    /\ EndsObject(s, t)
    /\ t # Idle =>
          /\ s.filed \subseteq t.filed
          /\ \/ t.passed = s.passed \cup {s.at} /\ t.handled = s.handled
             \/ /\ t.passed = s.passed
                /\ \A m \in s.msg :
                      /\ s.at \in DOMAIN ObjectsOf[m]
                      /\ Invites(ObjectsOf[m][s.at]) => s.at \in t.filed

LedgerStep(s, t) ==
    \/ t = s
    \/ t.msg = {}
    \/ \E m \in Message : t = Taken(m)
    \/ StaysAt(s, t)
    \/ EndsOnRecord(s, t)

\* The account is right after each of these.
LEMMA LedgerKept ==
  ASSUME NEW s \in HandlerState, NEW t \in HandlerState, Ledger(s), LedgerStep(s, t)
  PROVE  Ledger(t)
  <1>1. CASE t = s \/ t.msg = {}
    BY <1>1 DEF Ledger
  <1>2. ASSUME NEW m \in Message, t = Taken(m) PROVE Ledger(t)
    <2>1. /\ t.pc = "dispatch" /\ t.msg = {m} /\ t.at = 1 /\ t.passed = {} /\ ~t.handled
          /\ \A i \in DOMAIN ObjectsOf[m] : ~(i < 1)
      BY <1>2, TakenTyped, ObjectsNumbered
    <2> QED BY <2>1 DEF Ledger
  <1>3. CASE StaysAt(s, t)
    BY <1>3 DEF Ledger, StaysAt, SameObject
  <1>4. ASSUME EndsOnRecord(s, t), t # Idle, NEW m \in t.msg
        PROVE  /\ \A i \in t.passed : i < t.at
               /\ \A i \in DOMAIN ObjectsOf[m] :
                     i < t.at /\ Invites(ObjectsOf[m][i]) => i \in t.filed \cup t.passed
               /\ t.handled => \E i \in DOMAIN ObjectsOf[m] : i < t.at /\ i \notin t.passed
               /\ t.pc = "roster" => t.at \in t.filed
               /\ t.pc = "drop" => t.handled /\ \A i \in DOMAIN ObjectsOf[m] : i < t.at
    <2>1. /\ t.msg = s.msg /\ t.at = s.at + 1 /\ t.pc \in {"dispatch", "drop"}
          /\ t.pc = "drop" => t.handled /\ t.at \notin DOMAIN ObjectsOf[m]
          /\ s.filed \subseteq t.filed
      BY <1>4 DEF EndsOnRecord, EndsObject
    <2>2. /\ m \in s.msg /\ m \in Message
          /\ s.at \in Nat /\ \A i \in s.passed : i \in Nat
      BY <2>1 DEF HandlerState
    <2>3. /\ DOMAIN ObjectsOf[m] = 1..Len(ObjectsOf[m]) /\ Len(ObjectsOf[m]) \in Nat
          /\ \A i \in DOMAIN ObjectsOf[m] : i \in Nat
      BY <2>2, ObjectsNumbered
    <2>4. /\ \A i \in s.passed : i < s.at
          /\ \A i \in DOMAIN ObjectsOf[m] :
                i < s.at /\ Invites(ObjectsOf[m][i]) => i \in s.filed \cup s.passed
          /\ s.handled => \E i \in DOMAIN ObjectsOf[m] : i < s.at /\ i \notin s.passed
      BY <2>2 DEF Ledger
    <2>5. t.pc = "drop" => \A i \in DOMAIN ObjectsOf[m] : i < t.at
      BY <2>1, <2>2, <2>3
    <2>6. \A i \in DOMAIN ObjectsOf[m] : i < t.at => i < s.at \/ i = s.at
      BY <2>1, <2>2, <2>3
    <2>7. CASE t.passed = s.passed \cup {s.at} /\ t.handled = s.handled
      <3>1. \A i \in t.passed : i < t.at
        BY <2>1, <2>2, <2>4, <2>7
      <3>2. \A i \in DOMAIN ObjectsOf[m] :
               i < t.at /\ Invites(ObjectsOf[m][i]) => i \in t.filed \cup t.passed
        BY <2>1, <2>4, <2>6, <2>7
      <3>3. ASSUME t.handled
            PROVE  \E i \in DOMAIN ObjectsOf[m] : i < t.at /\ i \notin t.passed
        <4>1. PICK i \in DOMAIN ObjectsOf[m] : i < s.at /\ i \notin s.passed
          BY <2>4, <2>7, <3>3
        <4>2. i \in Nat
          BY <2>3
        <4>3. i < t.at /\ i # s.at
          BY <2>1, <2>2, <4>1, <4>2
        <4> QED BY <2>7, <4>1, <4>3
      <3> QED BY <2>1, <2>5, <3>1, <3>2, <3>3
    <2>8. CASE /\ t.passed = s.passed
               /\ \A n \in s.msg : /\ s.at \in DOMAIN ObjectsOf[n]
                                   /\ Invites(ObjectsOf[n][s.at]) => s.at \in t.filed
      <3>1. \A i \in t.passed : i < t.at
        BY <2>1, <2>2, <2>4, <2>8
      <3>2. \A i \in DOMAIN ObjectsOf[m] :
               i < t.at /\ Invites(ObjectsOf[m][i]) => i \in t.filed \cup t.passed
        BY <2>1, <2>2, <2>4, <2>6, <2>8
      <3>3. s.at \in DOMAIN ObjectsOf[m] /\ s.at < t.at /\ s.at \notin t.passed
        BY <2>1, <2>2, <2>4, <2>8
      <3> QED BY <2>1, <2>5, <3>1, <3>2, <3>3
    <2> QED BY <1>4, <2>7, <2>8 DEF EndsOnRecord
  <1>5. CASE EndsOnRecord(s, t)
    <2>1. CASE t = Idle
      BY <2>1 DEF Ledger, Idle
    <2>2. CASE t # Idle
      BY <1>4, <1>5, <2>2 DEF Ledger
    <2> QED BY <2>1, <2>2
  <1> QED BY <1>1, <1>2, <1>3, <1>5 DEF LedgerStep

\* How a handler gets where it is.
Advanced(k) ==
    /\ LedgerStep(handler[k], handler'[k])
    /\ \/ handler'[k] = handler[k] /\ (k \in bereft => k \in bereft')
       \/ handler'[k].pc # "update"
       \/ event' = event /\ handler'[k].seen = event[handler'[k].cal]

\* One handler advances, and the others stay.
OneAdvances(h) ==
    /\ Advanced(h)
    /\ \A k \in Handler \ {h} : handler'[k] = handler[k]

\* A handler that ends an object with success, one that gives it up, one that stops.
LEMMA SettleAdvances ==
  ASSUME TypeOK, NEW h \in Handler, handler[h].msg # {}, NEW filed \in SUBSET Nat,
         handler[h].filed \subseteq filed,
         \A m \in handler[h].msg :
            /\ handler[h].at \in DOMAIN ObjectsOf[m]
            /\ Invites(ObjectsOf[m][handler[h].at]) => handler[h].at \in filed,
         Settle(h, filed)
  PROVE  OneAdvances(h)
  <1>1. /\ \A k \in Handler \ {h} : handler'[k] = handler[k]
        /\ EndsObject(handler[h], handler'[h])
        /\ handler'[h] # Idle => /\ handler'[h].handled /\ handler'[h].filed = filed
                                 /\ handler'[h].passed = handler[h].passed
    BY Settling
  <1>2. EndsOnRecord(handler[h], handler'[h])
    BY <1>1 DEF EndsOnRecord
  <1>3. handler'[h].pc # "update"
    BY <1>1 DEF EndsObject, Idle
  <1> QED BY <1>1, <1>2, <1>3 DEF OneAdvances, Advanced, LedgerStep

\* One that gives its object up: that is put down as not having succeeded.
LEMMA PassAdvances ==
  ASSUME TypeOK, NEW h \in Handler, handler[h].msg # {}, PassOver(h)
  PROVE  OneAdvances(h)
  <1>1. /\ \A k \in Handler \ {h} : handler'[k] = handler[k]
        /\ EndsObject(handler[h], handler'[h])
        /\ handler'[h] # Idle
              => /\ handler'[h].handled = handler[h].handled
                 /\ handler'[h].filed = handler[h].filed
                 /\ handler'[h].passed = handler[h].passed \cup {handler[h].at}
    BY PassingOver
  <1>2. EndsOnRecord(handler[h], handler'[h])
    BY <1>1 DEF EndsOnRecord
  <1>3. handler'[h].pc # "update"
    BY <1>1 DEF EndsObject, Idle
  <1> QED BY <1>1, <1>2, <1>3 DEF OneAdvances, Advanced, LedgerStep

\* One that ends a handler.
LEMMA StopAdvances ==
  ASSUME TypeOK, NEW h \in Handler, Stop(h)
  PROVE  OneAdvances(h)
  <1>1. handler'[h] = Idle /\ \A k \in Handler \ {h} : handler'[k] = handler[k]
    BY Stopping
  <1>2. Idle.msg = {} /\ Idle.pc # "update"
    BY DEF Idle
  <1> QED BY <1>1, <1>2 DEF OneAdvances, Advanced, LedgerStep

\* One that writes a row its object is on record for.
LEMMA WriteAdvances ==
  ASSUME TypeOK, NEW h \in Handler, handler[h].msg # {}, handler[h].cal \in Calendar,
         \A m \in handler[h].msg : handler[h].at \in DOMAIN ObjectsOf[m],
         NEW row \in EventRow, NEW filed \in SUBSET Nat, Written(h, row, filed),
         handler[h].filed \subseteq filed, handler[h].at \in filed
  PROVE  OneAdvances(h)
  <1>1. /\ \A k \in Handler \ {h} : handler'[k] = handler[k]
        /\ \/ /\ handler'[h].pc = "roster" /\ SameObject(handler[h], handler'[h])
              /\ handler'[h].filed = filed
           \/ /\ EndsObject(handler[h], handler'[h])
              /\ handler'[h] # Idle
                   => /\ handler'[h].handled /\ handler'[h].filed = filed
                      /\ handler'[h].passed = handler[h].passed
    BY RowWritten
  <1>2. StaysAt(handler[h], handler'[h]) \/ EndsOnRecord(handler[h], handler'[h])
    BY <1>1 DEF StaysAt, SameObject, EndsOnRecord
  <1>3. handler'[h].pc # "update"
    BY <1>1 DEF EndsObject, Idle
  <1> QED BY <1>1, <1>2, <1>3 DEF OneAdvances, Advanced, LedgerStep

\* Every step of a handler advances it.
LEMMA HandlersAdvance ==
  ASSUME TypeOK, AllFit, Recorded, NEW h \in Handler, HandlerStep(h)
  PROVE  OneAdvances(h)
  <1>1. LossIsKnown(h) /\ Ledger(handler[h]) /\ StageFits(h)
    BY DEF Recorded, AllFit
  <1>2. /\ handler[h].filed \in SUBSET Nat /\ Recording(h) \in SUBSET Nat
        /\ handler[h].at \in Recording(h) /\ handler[h].filed \subseteq Recording(h)
    BY RecordingTyped
  <1>3. ASSUME NEW pc \in Stages, NEW c \in Calendar, NEW row \in EventRow, pc # "drop",
               pc # "roster", GoWith(h, pc, c, row),
               pc = "update" => event' = event /\ row = event[c]
        PROVE  OneAdvances(h)
    <2>1. /\ SameObject(handler[h], handler'[h])
          /\ handler'[h].filed = handler[h].filed
          /\ handler'[h].pc = pc /\ handler'[h].cal = c /\ handler'[h].seen = row
          /\ \A k \in Handler \ {h} : handler'[k] = handler[k]
      BY <1>3, GoingWith
    <2>2. StaysAt(handler[h], handler'[h])
      BY <1>3, <2>1 DEF StaysAt
    <2> QED BY <1>3, <2>1, <2>2 DEF OneAdvances, Advanced, LedgerStep
  <1>4. CASE DispatchInvite(h)
    <2>1. /\ handler[h].msg # {}
          /\ \A m \in handler[h].msg : handler[h].at \in DOMAIN ObjectsOf[m]
          /\ Dispatched(h)
      BY <1>4, DispatchKnown
    <2>2. CASE PassOver(h)
      BY <2>1, <2>2, PassAdvances
    <2>3. CASE /\ \A m \in handler[h].msg : ~Invites(ObjectsOf[m][handler[h].at])
               /\ Settle(h, handler[h].filed)
      BY <1>2, <2>1, <2>3, SettleAdvances
    <2>4. ASSUME NEW c \in Calendar, NEW pc \in {"read", "delete", "reply"},
                 NEW row \in EventRow, GoWith(h, pc, c, row)
          PROVE  OneAdvances(h)
      <3>1. pc \in Stages /\ pc # "drop" /\ pc # "roster" /\ pc # "update"
        BY DEF Stages
      <3> QED BY <1>3, <2>4, <3>1
    <2>5. NoRow \in EventRow /\ \A c \in Calendar : event[c] \in EventRow
      BY RowTyped
    <2> QED BY <2>1, <2>2, <2>3, <2>4, <2>5 DEF Dispatched
  <1>5. CASE ReadExisting(h)
    <2>1. handler[h].pc = "read"
      BY <1>5 DEF ReadExisting, Is
    <2>2. /\ handler[h].msg # {} /\ handler[h].cal \in Calendar
          /\ \A m \in handler[h].msg : handler[h].at \in DOMAIN ObjectsOf[m]
          /\ event[handler[h].cal] \in EventRow
      BY <2>1, InviteStage
    <2>3. CASE Settle(h, Recording(h))
      BY <1>2, <2>2, <2>3, SettleAdvances
    <2>4. ASSUME NEW pc \in {"create", "update"},
                 GoWith(h, pc, handler[h].cal, event[handler[h].cal])
          PROVE  OneAdvances(h)
      <3>1. pc \in Stages /\ pc # "drop" /\ pc # "roster"
        BY DEF Stages
      <3>2. event' = event
        BY <1>5 DEF ReadExisting
      <3> QED BY <1>3, <2>2, <2>4, <3>1, <3>2
    <2> QED BY <1>5, <2>3, <2>4 DEF ReadExisting
  <1>6. CASE UpdateExisting(h)
    <2>1. handler[h].pc = "update"
      BY <1>6 DEF UpdateExisting, Is
    <2>2. /\ handler[h].msg # {} /\ handler[h].cal \in Calendar
          /\ \A m \in handler[h].msg : handler[h].at \in DOMAIN ObjectsOf[m]
          /\ handler[h].seen \in EventRow
      BY <2>1, InviteStage
    <2>3. event[handler[h].cal].id = handler[h].seen.id \/ h \in bereft
      BY <1>1, <2>1 DEF LossIsKnown
    <2>4. Written(h, handler[h].seen, Recording(h))
      BY <1>6, <2>3 DEF UpdateExisting
    <2> QED BY <1>2, <2>2, <2>4, WriteAdvances
  <1>7. CASE CreateEvent(h)
    <2> DEFINE seq == ObjectAt(h).seq
               row == [id |-> lastId + 1, seq |-> seq, status |-> "CONFIRMED",
                       modified |-> FALSE]
    <2>1. handler[h].pc = "create"
      BY <1>7 DEF CreateEvent, Is
    <2>2. /\ handler[h].msg # {} /\ handler[h].cal \in Calendar /\ seq \in Nat
          /\ \A m \in handler[h].msg : handler[h].at \in DOMAIN ObjectsOf[m]
      BY <2>1, InviteStage
    <2>3. PassOver(h) \/ (lastId < MaxId /\ Written(h, row, Recording(h)))
      BY <1>7 DEF CreateEvent, InsertEvent
    <2>4. CASE PassOver(h)
      BY <2>2, <2>4, PassAdvances
    <2>5. CASE lastId < MaxId /\ Written(h, row, Recording(h))
      <3> HIDE DEF seq
      <3>1. row \in EventRow
        BY <2>2, <2>5, InvitationsAssumption DEF EventRow, TypeOK
      <3> HIDE DEF row
      <3> QED BY <1>2, <2>2, <2>5, <3>1, WriteAdvances
    <2> QED BY <2>3, <2>4, <2>5
  <1>8. ASSUME handler[h].pc = "roster", handler[h].msg # {}, Settle(h, handler[h].filed)
        PROVE  OneAdvances(h)
    <2>1. \A m \in handler[h].msg : /\ handler[h].at \in DOMAIN ObjectsOf[m]
                                    /\ handler[h].at \in handler[h].filed
      BY <1>1, <1>8 DEF StageFits, Ledger
    <2> QED BY <1>2, <1>8, <2>1, SettleAdvances
  <1>9. CASE ReplaceAttendees(h)
    BY <1>8, <1>9, StopAdvances DEF ReplaceAttendees, Is
  <1>10. CASE HandleCancel(h) \/ HandleReply(h)
    <2>1. handler[h].pc \in {"delete", "reply"}
      BY <1>10 DEF HandleCancel, HandleReply, Is
    <2>2. /\ handler[h].msg # {}
          /\ \A m \in handler[h].msg : /\ ~Invites(ObjectsOf[m][handler[h].at])
                                       /\ handler[h].at \in DOMAIN ObjectsOf[m]
      BY <1>1, <2>1 DEF StageFits
    <2>3. PassOver(h) \/ Settle(h, handler[h].filed)
      BY <1>10 DEF HandleCancel, HandleReply
    <2> QED BY <1>2, <2>2, <2>3, PassAdvances, SettleAdvances
  <1>11. CASE Drop(h) \/ Respond(h)
    BY <1>11, StopAdvances DEF Drop, Respond
  <1>12. CASE StatementFails(h)
    <2>1. \/ Stop(h)
          \/ /\ handler[h].msg # {}
             /\ PassOver(h) \/ (handler[h].pc = "roster" /\ Settle(h, handler[h].filed))
      BY <1>12 DEF StatementFails, Is
    <2> QED BY <1>8, <2>1, StopAdvances, PassAdvances
  <1> QED BY <1>4, <1>5, <1>6, <1>7, <1>9, <1>10, <1>11, <1>12 DEF HandlerStep

\* A row that is noted as gone stays so for the handlers that do not move.
LEMMA BereftStays ==
  ASSUME TypeOK, [Next]_vars, ~Crash, NEW k \in Handler, k \in bereft,
         ~UpdateExisting(k), ~StatementFails(k)
  PROVE  k \in bereft'
  <1>1. ASSUME NEW h \in Handler, NEW m \in Message, DeliverOne(h, m)
               \/ SaveMessageToInbox(h, m)
        PROVE  k \in bereft'
    BY <1>1 DEF DeliverOne, SaveMessageToInbox, Arrive
  <1>2. ASSUME NEW h \in Handler, HandlerStep(h) PROVE k \in bereft'
    BY <1>2 DEF HandlerStep, DispatchInvite, ReadExisting, UpdateExisting, CreateEvent,
       ReplaceAttendees, HandleCancel, HandleReply, Drop, StatementFails, Respond,
       DeleteCalendarEvent, History
  <1>3. ASSUME NEW h \in Handler, HandleUpdateEvent(h) \/ HandleCancelEvent(h)
        PROVE  k \in bereft'
    BY <1>3 DEF HandleUpdateEvent, HandleCancelEvent, Rewrite
  <1>4. ASSUME NEW h \in Handler, NEW d \in Calendar,
               \/ RespondRead(h, d) \/ UpdateRead(h, d) \/ CancelRead(h, d)
               \/ \E guests \in SUBSET Person : CreateEventWithAttendees(h, d, guests)
        PROVE  k \in bereft'
    BY <1>4 DEF RespondRead, UpdateRead, CancelRead, ReadEvent, CreateEventWithAttendees
  <1>5. ASSUME NEW d \in Calendar,
               \/ \E people \in [Person -> {"absent", "NEEDS-ACTION", "ACCEPTED"}] :
                     HandleUpdateEventAttendees(d, people)
               \/ HandleDeleteEvent(d) \/ SetCalendarEnabled(d) \/ ApplySyncChanges(d)
        PROVE  k \in bereft'
    BY <1>5 DEF HandleUpdateEventAttendees, HandleDeleteEvent, SetCalendarEnabled,
       ApplySyncChanges, DeleteCalendarEvent
  <1>6. ASSUME NEW m \in Message, PurgeVault(m) PROVE k \in bereft'
    BY <1>6 DEF PurgeVault
  <1>7. CASE UNCHANGED vars
    BY <1>7 DEF vars
  <1> QED BY <1>1, <1>2, <1>3, <1>4, <1>5, <1>6, <1>7 DEF Next, Handle, HandlerStep

\* Every step moves a handler in one of the ways of Advanced.
LEMMA Advancing ==
  ASSUME TypeOK, AllFit, Recorded, [Next]_vars, NEW k \in Handler
  PROVE  Advanced(k)
  <1>1. ASSUME handler'[k] = handler[k], ~Crash, ~UpdateExisting(k), ~StatementFails(k)
        PROVE  Advanced(k)
    BY <1>1, BereftStays DEF Advanced, LedgerStep
  <1>2. ASSUME NEW h \in Handler, NEW m \in Message, DeliverOne(h, m)
               \/ SaveMessageToInbox(h, m)
        PROVE  Advanced(k)
    <2>1. handler' = handler \/ handler' = [handler EXCEPT ![h] = Taken(m)]
      BY <1>2 DEF DeliverOne, SaveMessageToInbox
    <2>2. handler'[k] = handler[k] \/ handler'[k] = Taken(m)
      BY <2>1 DEF TypeOK
    <2>3. bereft' = bereft
      BY <1>2 DEF DeliverOne, SaveMessageToInbox, Arrive
    <2> QED BY <2>2, <2>3, TakenTyped DEF Advanced, LedgerStep
  <1>3. ASSUME NEW h \in Handler, HandlerStep(h) PROVE Advanced(k)
    <2>1. CASE HandlerStep(k)
      BY <2>1, HandlersAdvance DEF OneAdvances
    <2>2. CASE ~HandlerStep(k)
      <3>1. k # h /\ ~UpdateExisting(k) /\ ~StatementFails(k)
        BY <1>3, <2>2 DEF HandlerStep
      <3>2. handler'[k] = handler[k]
        BY <1>3, <3>1, HandlersAdvance DEF OneAdvances
      <3>3. CASE Crash
        <4>1. handler'[k] = Idle /\ Idle.msg = {} /\ Idle.pc # "update"
          BY <3>3 DEF Crash, Idle
        <4> QED BY <4>1 DEF Advanced, LedgerStep
      <3> QED BY <1>1, <3>1, <3>2, <3>3
    <2> QED BY <2>1, <2>2
  <1>4. ASSUME NEW h \in Handler, HandleUpdateEvent(h) \/ HandleCancelEvent(h)
        PROVE  Advanced(k)
    <2>1. Stop(h) /\ bereft' = bereft
      BY <1>4 DEF HandleUpdateEvent, HandleCancelEvent, Rewrite
    <2>2. handler'[k] = handler[k] \/ handler'[k] = Idle
      BY <2>1, Stopping
    <2>3. Idle.msg = {} /\ Idle.pc # "update"
      BY DEF Idle
    <2> QED BY <2>1, <2>2, <2>3 DEF Advanced, LedgerStep
  <1>5. ASSUME NEW h \in Handler, NEW d \in Calendar,
               RespondRead(h, d) \/ UpdateRead(h, d) \/ CancelRead(h, d)
        PROVE  Advanced(k)
    <2>1. PICK pc \in {"answer", "edit", "cancel"} : GoWith(h, pc, d, event[d])
      BY <1>5 DEF RespondRead, UpdateRead, CancelRead, ReadEvent
    <2>2. event[d] \in EventRow /\ pc \in Stages
      BY RowTyped DEF Stages
    <2>3. bereft' = bereft
      BY <1>5 DEF RespondRead, UpdateRead, CancelRead, ReadEvent
    <2>4. handler'[k] = handler[k]
          \/ (/\ SameObject(handler[k], handler'[k]) /\ handler'[k].pc = pc
              /\ handler'[k].filed = handler[k].filed)
      BY <2>1, <2>2, GoingWith
    <2> QED BY <2>3, <2>4 DEF Advanced, LedgerStep, StaysAt
  <1>6. ASSUME NEW h \in Handler, NEW d \in Calendar, NEW guests \in SUBSET Person,
               CreateEventWithAttendees(h, d, guests)
        PROVE  Advanced(k)
    <2> DEFINE row == [id |-> lastId + 1, seq |-> 0, status |-> "CONFIRMED",
               modified |-> TRUE]
               t == [Idle EXCEPT !.pc = "roster", !.guests = guests, !.cal = d,
                 !.seen = row]
    <2>1. handler' = handler \/ handler' = [handler EXCEPT ![h] = t]
      BY <1>6 DEF CreateEventWithAttendees
    <2> HIDE DEF row
    <2>2. t.pc = "roster" /\ t.msg = {}
      BY DEF Idle
    <2> HIDE DEF t
    <2>3. handler'[k] = handler[k] \/ handler'[k] = t
      BY <2>1 DEF TypeOK
    <2>4. bereft' = bereft
      BY <1>6 DEF CreateEventWithAttendees
    <2> QED BY <2>2, <2>3, <2>4 DEF Advanced, LedgerStep
  <1>7. CASE Crash
    <2>1. handler'[k] = Idle /\ Idle.msg = {} /\ Idle.pc # "update"
      BY <1>7 DEF Crash, Idle
    <2> QED BY <2>1 DEF Advanced, LedgerStep
  <1>8. ASSUME UNCHANGED handler PROVE Advanced(k)
    <2>1. CASE HandlerStep(k)
      BY <1>3, <2>1
    <2>2. CASE ~HandlerStep(k)
      BY <1>1, <1>7, <1>8, <2>2 DEF HandlerStep
    <2> QED BY <2>1, <2>2
  <1>9. ASSUME NEW d \in Calendar,
               \/ \E people \in [Person -> {"absent", "NEEDS-ACTION", "ACCEPTED"}] :
                     HandleUpdateEventAttendees(d, people)
               \/ HandleDeleteEvent(d) \/ SetCalendarEnabled(d) \/ ApplySyncChanges(d)
        PROVE  UNCHANGED handler
    BY <1>9 DEF HandleUpdateEventAttendees, SetCalendarEnabled, HandleDeleteEvent,
       ApplySyncChanges
  <1>10. ASSUME NEW m \in Message, PurgeVault(m) PROVE UNCHANGED handler
    BY <1>10 DEF PurgeVault
  <1>11. UNCHANGED vars => UNCHANGED handler
    BY DEF vars
  <1> QED BY <1>2, <1>3, <1>4, <1>5, <1>6, <1>7, <1>8, <1>9, <1>10, <1>11
       DEF Next, Handle, HandlerStep

\* The records hold after every step.
LEMMA RecordedNext ==
  ASSUME TypeOK, AllFit, Recorded, [Next]_vars
  PROVE  Recorded'
  <1> SUFFICES ASSUME NEW k \in Handler PROVE LossIsKnown(k)' /\ Ledger(handler'[k])
    BY DEF Recorded
  <1>1. Advanced(k) /\ LossIsKnown(k) /\ Ledger(handler[k]) /\ StageFits(k)
    BY Advancing DEF Recorded, AllFit
  <1>2. Ledger(handler'[k])
    <2>1. handler[k] \in HandlerState /\ handler'[k] \in HandlerState
      BY TypesStep DEF TypeOK
    <2> QED BY <1>1, <2>1, LedgerKept DEF Advanced
  <1>3. CASE handler'[k] = handler[k] /\ (k \in bereft => k \in bereft')
    <2>1. ASSUME handler[k].pc = "update", event'[handler[k].cal].id # handler[k].seen.id
          PROVE  k \in bereft'
      <3> DEFINE c == handler[k].cal
      <3>1. c \in Calendar /\ handler[k].seen.id # 0
        BY <1>1, <2>1 DEF StageFits
      <3>2. RowMoves(c)
        BY <3>1, RowsMove
      <3>3. event[c].id # handler[k].seen.id \/ k \in bereft'
        BY <2>1, <3>1, <3>2 DEF RowMoves
      <3> QED BY <1>1, <1>3, <2>1, <3>3 DEF LossIsKnown
    <2>2. LossIsKnown(k)'
      BY <1>3, <2>1 DEF LossIsKnown
    <2> QED BY <1>2, <2>2
  <1>4. CASE handler'[k].pc # "update"
    BY <1>2, <1>4 DEF LossIsKnown
  <1>5. CASE event' = event /\ handler'[k].seen = event[handler'[k].cal]
    BY <1>2, <1>5 DEF LossIsKnown
  <1> QED BY <1>1, <1>3, <1>4, <1>5 DEF Advanced

\* Only Drop takes a message from the inbox: its handler's.
LEMMA OnlyDropTakes ==
  ASSUME TypeOK, AllFit, [Next]_vars, NEW m \in Message, TakenFromInbox(m)
  PROVE  \E h \in Handler : handler[h].pc = "drop" /\ handler[h].msg = {m}
  <1>1. mail' # mail /\ mail[m] = "inbox" /\ mail'[m] # "inbox"
    BY DEF TakenFromInbox
  <1>2. ASSUME NEW h \in Handler, HandlerStep(h), ~Drop(h) PROVE mail' = mail
    BY <1>2 DEF HandlerStep, DispatchInvite, ReadExisting, UpdateExisting, CreateEvent,
       ReplaceAttendees, HandleCancel, HandleReply, StatementFails, Break, Respond
  <1>3. ASSUME NEW h \in Handler, NEW n \in Message,
               DeliverOne(h, n) \/ SaveMessageToInbox(h, n)
        PROVE  FALSE
    <2>1. /\ mail' = mail \/ mail' = [mail EXCEPT ![n] = "inbox"]
             \/ mail' = [mail EXCEPT ![n] = IF mail[n] = "unknown" THEN "inbox" ELSE mail[n]]
      BY <1>3 DEF DeliverOne, SaveMessageToInbox
    <2> QED BY <1>1, <2>1 DEF TypeOK
  <1>4. ASSUME NEW h \in Handler, HandleUpdateEvent(h) \/ HandleCancelEvent(h)
        PROVE  mail' = mail
    BY <1>4 DEF HandleUpdateEvent, HandleCancelEvent, Rewrite
  <1>5. ASSUME Request \/ Break PROVE mail' = mail
    BY <1>5 DEF Request, Break
  <1>6. ASSUME NEW h \in Handler, NEW d \in Calendar,
               \/ RespondRead(h, d) \/ UpdateRead(h, d) \/ CancelRead(h, d)
               \/ \E guests \in SUBSET Person : CreateEventWithAttendees(h, d, guests)
        PROVE  mail' = mail
    BY <1>5, <1>6 DEF RespondRead, UpdateRead, CancelRead, ReadEvent,
       CreateEventWithAttendees
  <1>7. ASSUME NEW d \in Calendar,
               \/ \E people \in [Person -> {"absent", "NEEDS-ACTION", "ACCEPTED"}] :
                     HandleUpdateEventAttendees(d, people)
               \/ HandleDeleteEvent(d) \/ SetCalendarEnabled(d) \/ ApplySyncChanges(d)
        PROVE  mail' = mail
    BY <1>5, <1>7 DEF HandleUpdateEventAttendees, SetCalendarEnabled, HandleDeleteEvent,
       ApplySyncChanges
  <1>8. ASSUME NEW n \in Message, PurgeVault(n) PROVE FALSE
    <2>1. mail[n] = "vault" /\ mail' = [mail EXCEPT ![n] = "unknown"]
      BY <1>8 DEF PurgeVault
    <2> QED BY <1>1, <2>1 DEF TypeOK
  <1>9. ASSUME NEW h \in Handler, Drop(h)
        PROVE  handler[h].pc = "drop" /\ handler[h].msg = {m}
    <2>1. handler[h].pc = "drop" /\ handler[h].msg # {}
      BY <1>9 DEF AllFit, StageFits, Drop, Is
    <2>2. MessageOf(h) \in Message /\ handler[h].msg = {MessageOf(h)}
      BY <2>1, ItsMessage
    <2>3. mail' = [mail EXCEPT ![MessageOf(h)] =
                      IF Via[MessageOf(h)] = "mx" THEN "unknown" ELSE "vault"]
      BY <1>9 DEF Drop
    <2>4. m = MessageOf(h)
      BY <1>1, <2>2, <2>3 DEF TypeOK
    <2> QED BY <2>1, <2>2, <2>4
  <1>10. UNCHANGED vars => mail' = mail
    BY DEF vars
  <1>11. Crash => mail' = mail
    BY <1>5 DEF Crash
  <1> QED BY <1>1, <1>2, <1>3, <1>4, <1>6, <1>7, <1>8, <1>9, <1>10, <1>11 DEF Next, Handle,
             HandlerStep

\* The loop's accounts are right, and the rows that go are noted.
THEOREM RecordsAreKept == Spec => []Recorded
  <1>1. Init => Recorded
    BY DEF Init, Recorded, LossIsKnown, Ledger, Idle
  <1>2. TypeOK /\ AllFit /\ Recorded /\ [Next]_vars => Recorded'
    BY RecordedNext
  <1> QED BY <1>1, <1>2, InvitationTypes, PTL DEF Spec

\* A message is taken from the inbox with one object of it done; its invites have
\* been filed, or given up with an error or a refusal (ProcessAndDispatch).
THEOREM ConsumedWasFiledHolds == Spec => ConsumedWasFiled
  <1>1. ASSUME TypeOK, AllFit, Recorded, [Next]_vars
        PROVE  \A m \in Message : TakenFromInbox(m) =>
                  \E h \in Handler :
                     /\ handler[h].msg = {m}
                     /\ \E i \in DOMAIN ObjectsOf[m] : i \notin handler[h].passed
                     /\ \A i \in DOMAIN ObjectsOf[m] :
                           Invites(ObjectsOf[m][i])
                             => i \in handler[h].filed \cup handler[h].passed
    <2>1. ASSUME NEW m \in Message, TakenFromInbox(m)
          PROVE  \E h \in Handler :
                     /\ handler[h].msg = {m}
                     /\ \E i \in DOMAIN ObjectsOf[m] : i \notin handler[h].passed
                     /\ \A i \in DOMAIN ObjectsOf[m] :
                           Invites(ObjectsOf[m][i])
                             => i \in handler[h].filed \cup handler[h].passed
      <3>1. PICK h \in Handler : handler[h].pc = "drop" /\ handler[h].msg = {m}
        BY <1>1, <2>1, OnlyDropTakes
      <3>2. Ledger(handler[h])
        BY <1>1 DEF Recorded
      <3>3. /\ handler[h].handled
            /\ \E i \in DOMAIN ObjectsOf[m] : i \notin handler[h].passed
            /\ \A i \in DOMAIN ObjectsOf[m] :
                  Invites(ObjectsOf[m][i]) => i \in handler[h].filed \cup handler[h].passed
        BY <3>1, <3>2 DEF Ledger
      <3> QED BY <3>1, <3>3
    <2> QED BY <2>1
  <1> QED BY <1>1, InvitationTypes, RecordsAreKept, PTL DEF Spec, ConsumedWasFiled

-----------------------------------------------------------------------------
(* Applied once. *)

\* What the pull has applied is known, until the purge forgets both.
AppliedIsKnown ==
    \A m \in Message :
        dispatched[m] # 0 => dispatched[m] = 1 /\ mail[m] # "unknown" /\ Via[m] = "imap"

\* What has been applied stays known after every step.
LEMMA AppliedNext ==
  ASSUME TypeOK, AllFit, AppliedIsKnown, [Next]_vars
  PROVE  AppliedIsKnown'
  <1>1. ASSUME UNCHANGED <<mail, dispatched>> PROVE AppliedIsKnown'
    BY <1>1 DEF AppliedIsKnown
  <1>2. ASSUME NEW h \in Handler, NEW m \in Message, DeliverOne(h, m) PROVE AppliedIsKnown'
    <2>1. /\ dispatched' = dispatched
          /\ \A n \in Message : mail[n] # "unknown" => mail'[n] # "unknown"
      BY <1>2 DEF DeliverOne, TypeOK
    <2> QED BY <2>1 DEF AppliedIsKnown
  <1>3. ASSUME NEW h \in Handler, NEW m \in Message, SaveMessageToInbox(h, m)
        PROVE  AppliedIsKnown'
    <2>1. CASE mail[m] # "unknown"
      BY <1>1, <1>3, <2>1 DEF SaveMessageToInbox
    <2>2. CASE mail[m] = "unknown"
      <3>1. dispatched[m] = 0 /\ Via[m] = "imap"
        BY <1>3, <2>2 DEF AppliedIsKnown, TypeOK, SaveMessageToInbox, Arrive
      <3>2. /\ dispatched' = [dispatched EXCEPT ![m] = 1]
            /\ mail' = [mail EXCEPT ![m] = "inbox"]
        BY <1>3, <2>2, <3>1 DEF SaveMessageToInbox
      <3> QED BY <3>1, <3>2 DEF AppliedIsKnown, TypeOK
    <2> QED BY <2>1, <2>2
  <1>4. ASSUME NEW h \in Handler, Drop(h) PROVE AppliedIsKnown'
    <2>1. /\ mail' = [mail EXCEPT ![MessageOf(h)] =
                         IF Via[MessageOf(h)] = "mx" THEN "unknown" ELSE "vault"]
          /\ dispatched' = dispatched
      BY <1>4 DEF Drop
    <2>2. \A n \in Message : mail'[n] # mail[n] /\ Via[n] = "imap" => mail'[n] # "unknown"
      BY <2>1 DEF TypeOK
    <2> QED BY <2>1, <2>2 DEF AppliedIsKnown
  <1>5. ASSUME NEW m \in Message, PurgeVault(m) PROVE AppliedIsKnown'
    BY <1>5 DEF PurgeVault, AppliedIsKnown, TypeOK
  <1>6. ASSUME NEW h \in Handler, HandlerStep(h), ~Drop(h)
               PROVE UNCHANGED <<mail, dispatched>>
    BY <1>6 DEF HandlerStep, DispatchInvite, ReadExisting, UpdateExisting, CreateEvent,
       ReplaceAttendees, HandleCancel, HandleReply, StatementFails, Break, Respond, History
  <1>7. ASSUME NEW h \in Handler, HandleUpdateEvent(h) \/ HandleCancelEvent(h)
        PROVE  UNCHANGED <<mail, dispatched>>
    BY <1>7 DEF HandleUpdateEvent, HandleCancelEvent, Rewrite
  <1>8. ASSUME Request \/ Break PROVE UNCHANGED <<mail, dispatched>>
    BY <1>8 DEF Request, Break
  <1>9. ASSUME NEW h \in Handler, NEW d \in Calendar,
               \/ RespondRead(h, d) \/ UpdateRead(h, d) \/ CancelRead(h, d)
               \/ \E guests \in SUBSET Person : CreateEventWithAttendees(h, d, guests)
        PROVE  UNCHANGED <<mail, dispatched>>
    BY <1>8, <1>9 DEF RespondRead, UpdateRead, CancelRead, ReadEvent,
       CreateEventWithAttendees
  <1>10. ASSUME NEW d \in Calendar,
                \/ \E people \in [Person -> {"absent", "NEEDS-ACTION", "ACCEPTED"}] :
                      HandleUpdateEventAttendees(d, people)
                \/ HandleDeleteEvent(d) \/ SetCalendarEnabled(d) \/ ApplySyncChanges(d)
         PROVE  UNCHANGED <<mail, dispatched>>
    BY <1>8, <1>10 DEF HandleUpdateEventAttendees, SetCalendarEnabled, HandleDeleteEvent,
       ApplySyncChanges
  <1>11. UNCHANGED vars => UNCHANGED <<mail, dispatched>>
    BY DEF vars
  <1>12. Crash => UNCHANGED <<mail, dispatched>>
    BY <1>8 DEF Crash
  <1> QED BY <1>1, <1>2, <1>3, <1>4, <1>5, <1>6, <1>7, <1>9, <1>10, <1>11, <1>12
       DEF Next, Handle, HandlerStep

\* However often a message is pulled, it is applied to the calendar once until
\* the vault is purged (Drop keeps pulled messages in the vault).
THEOREM AppliedOnce == Spec => []PulledInviteAppliedOnce
  <1>1. Init => AppliedIsKnown
    BY DEF Init, AppliedIsKnown
  <1>2. TypeOK /\ AllFit /\ AppliedIsKnown /\ [Next]_vars => AppliedIsKnown'
    BY AppliedNext
  <1>3. TypeOK /\ AppliedIsKnown => PulledInviteAppliedOnce
    BY DEF TypeOK, AppliedIsKnown, PulledInviteAppliedOnce
  <1> QED BY <1>1, <1>2, <1>3, InvitationTypes, PTL DEF Spec

-----------------------------------------------------------------------------
(* Where invites land. *)

\* The calendars of some sources that are on, and the first of them.
LEMMA FirstKnown ==
  ASSUME NEW on \in SUBSET Calendar, NEW sources
  PROVE  /\ FirstCalendarOf(sources, on) = 0 <=> Candidates(sources, on) = {}
         /\ FirstCalendarOf(sources, on) # 0
              => /\ FirstCalendarOf(sources, on) \in on \cap Writable
                 /\ SourceOf[FirstCalendarOf(sources, on)] \in sources
                 /\ IsFirst(FirstCalendarOf(sources, on), Candidates(sources, on))
  <1>1. Candidates(sources, on) # {}
          => FirstCalendarOf(sources, on) \in Candidates(sources, on)
    BY FirstIsFirst DEF IsFirst
  <1> QED BY <1>1, FirstIsFirst DEF Candidates

\* c is younger than what is on, in its source's age and its own.
IsNewest(c, on) ==
    c \in Calendar \ on /\ \A d \in on : d < c /\ SourceOf[d] <= SourceOf[c]

\* Switching it on changes the first calendar of no sources that had one.
LEMMA FirstWithNewest ==
  ASSUME NEW on \in SUBSET Calendar, NEW c, IsNewest(c, on), NEW sources
  PROVE  /\ FirstCalendarOf(sources, on) # 0
              => FirstCalendarOf(sources, on \cup {c}) = FirstCalendarOf(sources, on)
         /\ FirstCalendarOf(sources, on) = 0
              => \/ FirstCalendarOf(sources, on \cup {c}) = 0
                 \/ FirstCalendarOf(sources, on \cup {c}) = c /\ SourceOf[c] \in sources
  <1> DEFINE old == FirstCalendarOf(sources, on)
             more == on \cup {c}
             new == FirstCalendarOf(sources, more)
  <1>1. c \in Calendar /\ more \in SUBSET Calendar
    BY DEF IsNewest
  <1>2. ASSUME old # 0 PROVE new = old
    <2>1. old \in on /\ IsFirst(old, Candidates(sources, on))
      BY <1>2, FirstKnown
    <2>2. \A d \in Candidates(sources, more) : d \in Candidates(sources, on) \/ d = c
      BY DEF Candidates
    <2>3. SourceOf[old] \in Nat /\ SourceOf[c] \in Nat /\ old \in Nat /\ c \in Nat
      BY <1>1, <2>1, InvitationsAssumption
    <2>4. SourceOf[old] < SourceOf[c] \/ (SourceOf[old] = SourceOf[c] /\ old <= c)
      BY <2>1, <2>3 DEF IsNewest
    <2>5. old \in Candidates(sources, more)
      BY <2>1 DEF IsFirst, Candidates
    <2>6. IsFirst(old, Candidates(sources, more))
      <3> HIDE DEF old, more
      <3> QED BY <2>1, <2>2, <2>4, <2>5 DEF IsFirst
    <2>7. IsFirst(new, Candidates(sources, more))
      BY <1>1, <2>5, FirstIsFirst
    <2>8. Candidates(sources, more) \in SUBSET Calendar
      BY <1>1 DEF Candidates
    <2> HIDE DEF old, new, more
    <2> QED BY <2>6, <2>7, <2>8, FirstIsOne
  <1>3. ASSUME old = 0, new # 0 PROVE new = c /\ SourceOf[c] \in sources
    <2>1. new \in more /\ new \in Writable /\ SourceOf[new] \in sources
      BY <1>1, <1>3, FirstKnown
    <2>2. Candidates(sources, on) = {}
      BY <1>3, FirstKnown
    <2>3. new \notin on
      BY <2>1, <2>2 DEF Candidates
    <2> QED BY <2>1, <2>3
  <1> QED BY <1>2, <1>3

\* The pass that finds a calendar, and which.
FoundBy(i, pass, on, dest) ==
    /\ i \in 1..3
    /\ FirstCalendarOf(pass[i], on) # 0 /\ dest = FirstCalendarOf(pass[i], on)
    /\ \A j \in 1..3 : j < i => FirstCalendarOf(pass[j], on) = 0

FoundByNone(pass, on) == \A i \in 1..3 : FirstCalendarOf(pass[i], on) = 0

\* The sources of the last pass with a calendar that is on.
Claims(pass, on) == {s \in pass[4] : FirstCalendarOf({s}, on) # 0}

\* ChooseInviteCalendar returns the calendar of the first pass that finds one.
LEMMA ChoiceKnown ==
  ASSUME NEW on \in SUBSET Calendar, NEW via, NEW guests
  PROVE  LET pass == Passes(via, guests)
             dest == ChooseInviteCalendar(on, via, guests)
         IN  \/ \E i \in 1..3 : FoundBy(i, pass, on, dest)
             \/ /\ FoundByNone(pass, on)
                /\ dest = IF Cardinality(Claims(pass, on)) = 1
                          THEN FirstCalendarOf(Claims(pass, on), on) ELSE 0
  <1> DEFINE pass == Passes(via, guests)
             dest == ChooseInviteCalendar(on, via, guests)
             found == {i \in 1..3 : FirstCalendarOf(pass[i], on) # 0}
             best == CHOOSE i \in found : \A j \in found : i <= j
  <1>1. dest = IF found # {} THEN FirstCalendarOf(pass[best], on)
               ELSE IF Cardinality(Claims(pass, on)) = 1
                    THEN FirstCalendarOf(Claims(pass, on), on) ELSE 0
    BY DEF ChooseInviteCalendar, Claims
  <1>2. ASSUME found # {} PROVE FoundBy(best, pass, on, dest)
    <2>1. \E i \in found : \A j \in found : i <= j
      <3>1. found \in SUBSET Nat
        OBVIOUS
      <3> HIDE DEF found
      <3> QED BY <1>2, <3>1, LeastNumber
    <2>2. best \in found /\ \A j \in found : best <= j
      <3> HIDE DEF found
      <3> QED BY <2>1
    <2>3. \A j \in 1..3 : j < best => j \notin found
      BY <2>2
    <2> HIDE DEF best, pass, dest
    <2> QED BY <1>1, <1>2, <2>2, <2>3 DEF FoundBy
  <1>3. found = {} => FoundByNone(pass, on)
    BY DEF FoundByNone
  <1> QED BY <1>1, <1>2, <1>3

\* No more sources claim than calendars are on.
LEMMA ClaimsFinite ==
  ASSUME NEW on \in SUBSET Calendar, NEW pass
  PROVE  IsFiniteSet(Claims(pass, on))
  <1> DEFINE S == {SourceOf[d] : d \in on}
  <1>1. IsFiniteSet(on)
    BY FS_Subset, InvitationsAssumption
  <1>2. IsFiniteSet(S)
    <2> DEFINE f == [d \in on |-> SourceOf[d]]
    <2>1. f \in Surjection(on, S)
      BY DEF Surjection
    <2> HIDE DEF f, S
    <2> QED BY <1>1, <2>1, FS_Surjection
  <1>3. \A s \in Claims(pass, on) : s \in S
    <2>1. ASSUME NEW s \in Claims(pass, on) PROVE s \in S
      <3> DEFINE d == FirstCalendarOf({s}, on)
      <3>1. d \in on /\ SourceOf[d] \in {s}
        BY FirstKnown DEF Claims
      <3> QED BY <3>1
    <2> QED BY <2>1
  <1>4. Claims(pass, on) \in SUBSET S
    BY <1>3
  <1> HIDE DEF S
  <1> QED BY <1>2, <1>4, FS_Subset

\* How far down the passes a calendar's source is looked for.
RankOf(pass, d) ==
    IF \E i \in 1..3 : SourceOf[d] \in pass[i]
    THEN CHOOSE i \in 1..3 : /\ SourceOf[d] \in pass[i]
                            /\ \A j \in 1..(i - 1) : SourceOf[d] \notin pass[j]
    ELSE 4

\* The rank of a calendar is the first pass its source is in.
LEMMA RankKnown ==
  ASSUME NEW pass, NEW d
  PROVE  /\ RankOf(pass, d) \in 1..4
         /\ RankOf(pass, d) # 4 => SourceOf[d] \in pass[RankOf(pass, d)]
         /\ \A i \in 1..3 : SourceOf[d] \in pass[i] => RankOf(pass, d) <= i
  <1> DEFINE T == {i \in 1..3 : SourceOf[d] \in pass[i]}
  <1>1. CASE T = {}
    BY <1>1 DEF RankOf
  <1>2. CASE T # {}
    <2>1. T \in SUBSET Nat
      OBVIOUS
    <2>2. PICK i \in T : \A j \in T : i <= j
      <3> HIDE DEF T
      <3> QED BY <1>2, <2>1, LeastNumber
    <2>3. /\ i \in 1..3 /\ SourceOf[d] \in pass[i]
          /\ \A j \in 1..(i - 1) : SourceOf[d] \notin pass[j]
      BY <2>2
    <2>4. /\ RankOf(pass, d) \in 1..3 /\ SourceOf[d] \in pass[RankOf(pass, d)]
          /\ \A j \in 1..(RankOf(pass, d) - 1) : SourceOf[d] \notin pass[j]
      BY <2>3 DEF RankOf
    <2> QED BY <2>4
  <1> QED BY <1>1, <1>2

\* Who was found by a pass ranks there.
LEMMA FoundRanks ==
  ASSUME NEW on \in SUBSET Calendar, NEW pass, NEW i, NEW d, FoundBy(i, pass, on, d)
  PROVE  RankOf(pass, d) = i
  <1>1. d \in on \cap Writable /\ SourceOf[d] \in pass[i] /\ i \in 1..3
    BY FirstKnown DEF FoundBy
  <1>2. ASSUME NEW j \in 1..3, j < i PROVE SourceOf[d] \notin pass[j]
    <2>1. Candidates(pass[j], on) = {}
      BY <1>2, FirstKnown DEF FoundBy
    <2> QED BY <1>1, <2>1 DEF Candidates
  <1>3. RankOf(pass, d) <= i /\ RankOf(pass, d) \in 1..4
    BY <1>1, RankKnown
  <1>4. ~(RankOf(pass, d) < i)
    BY <1>1, <1>2, <1>3, RankKnown
  <1> QED BY <1>1, <1>3, <1>4

\* If no pass finds a calendar, those that are on have the last rank.
LEMMA UnfoundRanks ==
  ASSUME NEW on \in SUBSET Calendar, NEW pass, FoundByNone(pass, on),
         NEW d \in on \cap Writable
  PROVE  RankOf(pass, d) = 4
  <1>1. ASSUME NEW j \in 1..3 PROVE SourceOf[d] \notin pass[j]
    <2>1. Candidates(pass[j], on) = {}
      BY FirstKnown DEF FoundByNone
    <2> QED BY <2>1 DEF Candidates
  <1> QED BY <1>1, RankKnown

\* What becomes of the destination when a newest calendar is switched on.
LEMMA DestinationStays ==
  ASSUME NEW on \in SUBSET Calendar, NEW c, IsNewest(c, on), NEW via, NEW guests,
         NEW pass, pass = Passes(via, guests),
         NEW old, old = ChooseInviteCalendar(on, via, guests), old # 0,
         NEW new, new = ChooseInviteCalendar(on \cup {c}, via, guests)
  PROVE  \/ new = old
         \/ new = c /\ RankOf(pass, c) < RankOf(pass, old)
         \/ new = 0 /\ RankOf(pass, old) = 4
  <1> DEFINE more == on \cup {c}
  <1>1. more \in SUBSET Calendar
    BY DEF IsNewest
  <1>2. \/ \E i \in 1..3 : FoundBy(i, pass, on, old)
        \/ /\ FoundByNone(pass, on)
           /\ old = IF Cardinality(Claims(pass, on)) = 1
                    THEN FirstCalendarOf(Claims(pass, on), on) ELSE 0
    BY ChoiceKnown
  <1>3. \/ \E i \in 1..3 : FoundBy(i, pass, more, new)
        \/ /\ FoundByNone(pass, more)
           /\ new = IF Cardinality(Claims(pass, more)) = 1
                    THEN FirstCalendarOf(Claims(pass, more), more) ELSE 0
    BY <1>1, ChoiceKnown
  <1> HIDE DEF more
  <1>4. \A sources :
          /\ FirstCalendarOf(sources, on) # 0
               => FirstCalendarOf(sources, more) = FirstCalendarOf(sources, on)
          /\ FirstCalendarOf(sources, on) = 0
               => \/ FirstCalendarOf(sources, more) = 0
                  \/ FirstCalendarOf(sources, more) = c /\ SourceOf[c] \in sources
    BY FirstWithNewest DEF more
  <1>5. ASSUME NEW i \in 1..3, FoundBy(i, pass, more, new), FirstCalendarOf(pass[i], on) = 0
        PROVE  new = c /\ RankOf(pass, c) <= i /\ RankOf(pass, c) \in 1..4
    <2>1. new = c /\ SourceOf[c] \in pass[i]
      BY <1>4, <1>5 DEF FoundBy
    <2> QED BY <2>1, RankKnown
  <1>6. ASSUME NEW i \in 1..3, FoundBy(i, pass, on, old)
        PROVE  new = old \/ (new = c /\ RankOf(pass, c) < RankOf(pass, old))
    <2>1. RankOf(pass, old) = i
      BY <1>6, FoundRanks
    <2>2. FirstCalendarOf(pass[i], more) = old
      BY <1>4, <1>6 DEF FoundBy
    <2>3. ~FoundByNone(pass, more)
      BY <1>6, <2>2 DEF FoundByNone
    <2>4. PICK j \in 1..3 : FoundBy(j, pass, more, new)
      BY <1>3, <2>3
    <2>5. ~(i < j)
      BY <1>6, <2>2, <2>4 DEF FoundBy
    <2>6. CASE j = i
      BY <2>2, <2>4, <2>6 DEF FoundBy
    <2>7. CASE j < i
      <3>1. FirstCalendarOf(pass[j], on) = 0
        BY <1>6, <2>7 DEF FoundBy
      <3>2. new = c /\ RankOf(pass, c) <= j /\ RankOf(pass, c) \in 1..4
        BY <1>5, <2>4, <3>1
      <3> QED BY <2>1, <2>7, <3>2
    <2> QED BY <2>5, <2>6, <2>7
  <1>7. ASSUME FoundByNone(pass, on), Cardinality(Claims(pass, on)) = 1,
               old = FirstCalendarOf(Claims(pass, on), on)
        PROVE  \/ new = old
               \/ new = c /\ RankOf(pass, c) < RankOf(pass, old)
               \/ new = 0 /\ RankOf(pass, old) = 4
    <2>1. RankOf(pass, old) = 4
      <3>1. old \in on \cap Writable
        BY <1>7, FirstKnown
      <3> QED BY <1>7, <3>1, UnfoundRanks
    <2>2. ASSUME NEW i \in 1..3, FoundBy(i, pass, more, new)
          PROVE  new = c /\ RankOf(pass, c) < RankOf(pass, old)
      <3>1. new = c /\ RankOf(pass, c) <= i /\ RankOf(pass, c) \in 1..4
        BY <1>5, <1>7, <2>2 DEF FoundByNone
      <3> QED BY <2>1, <3>1
    <2>3. ASSUME Cardinality(Claims(pass, more)) = 1,
                 new = FirstCalendarOf(Claims(pass, more), more)
          PROVE  new = old
      <3>1. Claims(pass, on) \in SUBSET Claims(pass, more)
        BY <1>4 DEF Claims
      <3>2. IsFiniteSet(Claims(pass, more))
        BY <1>1, ClaimsFinite
      <3>3. Claims(pass, on) = Claims(pass, more)
        BY <1>7, <2>3, <3>1, <3>2, FS_Subset
      <3> QED BY <1>4, <1>7, <2>3, <3>3
    <2> QED BY <1>3, <2>1, <2>2, <2>3
  <1> QED BY <1>2, <1>6, <1>7

\* Wherever invites land, a calendar newer than the others does not change it but
\* through an earlier pass, or by making the last pass ambiguous
\* (chooseInviteCalendar, firstCalendarOf).
THEOREM DestinationIsStableHolds == Spec => []DestinationIsStable
  <1>1. ASSUME TypeOK PROVE DestinationIsStable
    <2> SUFFICES ASSUME NEW c \in Calendar \ enabled, NEW via \in {"mx", "imap"},
                        NEW guests \in SUBSET Person
                 PROVE  LET old == ChooseInviteCalendar(enabled, via, guests)
                            new == ChooseInviteCalendar(enabled \cup {c}, via, guests)
                            pass == Passes(via, guests)
                        IN  old # 0
                          /\ (\A d \in enabled : d < c /\ SourceOf[d] <= SourceOf[c])
                            => \/ new = old
                               \/ new = c /\ RankOf(pass, c) < RankOf(pass, old)
                               \/ new = 0 /\ RankOf(pass, old) = 4
      BY DEF DestinationIsStable, RankOf
    <2>1. enabled \in SUBSET Calendar
      BY <1>1 DEF TypeOK
    <2>2. (\A d \in enabled : d < c /\ SourceOf[d] <= SourceOf[c]) => IsNewest(c, enabled)
      BY DEF IsNewest
    <2> QED BY <2>1, <2>2, DestinationStays
  <1> QED BY <1>1, InvitationTypes, PTL

-----------------------------------------------------------------------------
(* The pull that brings the mail: MailPull.tla, as PulledMail has it.      *)

\* The numbers and folders of its assumption,
LEMMA PullNumbers ==
  /\ Synced \in Seq(Pull!Elements(Synced)) /\ AllMail \in Seq(Pull!Elements(AllMail))
  /\ MaxUid \in Nat /\ MaxChanges \in Nat /\ MaxPullFailures \in Nat
  /\ NoMail \notin Pull!Folder
  BY PullAssumption

\* and what it says of the null value.
LEMMA PullNone ==
  NoMail \notin Pull!Bookmark /\ NoMail \notin Pull!Entry /\ NoMail \notin Pull!MessageRow
  BY PullAssumption

\* The copy of FiniteSets that an instance brings is the same.
LEMMA SameFiniteness == \A S : Pull!IsFiniteSet(S) <=> IsFiniteSet(S)
  BY DEF Pull!IsFiniteSet, IsFiniteSet

\* So is its count of elements.
LEMMA SameCardinality == \A S : Pull!Cardinality(S) = Cardinality(S)
  BY SameFiniteness DEF Pull!Cardinality, Cardinality

\* The folders a cycle goes through are folders, and every folder is searched.
LEMMA FoldersKnown ==
  /\ Len(Synced) \in Nat /\ Len(Pull!Searched) \in Nat /\ Len(Synced) <= Len(Pull!Searched)
  /\ \A i \in 1 .. Len(Synced) : Synced[i] \in Pull!Folder
  /\ \A i \in 1 .. Len(Pull!Searched) : Pull!Searched[i] \in Pull!Folder
  /\ \A f \in Pull!Folder : \E i \in 1 .. Len(Pull!Searched) : Pull!Searched[i] = f
  <1>1. Synced \in Seq(Pull!Elements(Synced)) /\ AllMail \in Seq(Pull!Elements(AllMail))
    BY PullNumbers
  <1>2. /\ Len(Synced) \in Nat /\ Len(AllMail) \in Nat
        /\ DOMAIN Synced = 1 .. Len(Synced)
    BY <1>1
  <1>3. /\ Len(Pull!Searched) = Len(Synced) + Len(AllMail)
        /\ DOMAIN Pull!Searched = 1 .. Len(Pull!Searched)
        /\ \A i \in 1 .. Len(Synced) : Pull!Searched[i] = Synced[i]
    BY <1>1 DEF Pull!Searched
  <1>4. \A i \in 1 .. Len(Pull!Searched) : Pull!Searched[i] \in Pull!Folder
    BY <1>3 DEF Pull!Folder, Pull!Elements
  <1>5. \A f \in Pull!Folder : \E i \in 1 .. Len(Pull!Searched) : Pull!Searched[i] = f
    BY <1>3 DEF Pull!Folder, Pull!Elements
  <1>6. \A i \in 1 .. Len(Synced) : i \in 1 .. Len(Pull!Searched)
    BY <1>2, <1>3
  <1> QED BY <1>2, <1>3, <1>4, <1>5, <1>6

\* Copies of one folder have UIDs of their own.
UidsApart == \A r, s \in upMail : r.folder = s.folder /\ r.uid = s.uid => r = s

\* No copy has a UID that the folder will give away.
UidsBelowNext == \A r \in upMail : r.uid < upNext[r.folder]

\* Rows of ours that mirror a copy say where.
GoodRow == {r \in Pull!MessageRow \cup {NoMail} :
               r # NoMail /\ r.owned /\ r.uid > 0 => r.folder \in Pull!Folder}

RowsPoint == pulled \in [Msg -> GoodRow]

\* Steps that are in a folder, are in one that the cycle syncs.
InFolder ==
  cycle.pc \in {"flags", "scan", "bodies", "mark"} => cycle.at \in 1 .. Len(Synced)

\* What was found had been looked for, and is kept for the search only.
FoundWereLost ==
  /\ Pull!Msgs(cycle.found) \subseteq Pull!Msgs(cycle.lost)
  /\ cycle.pc # "search" => cycle.found = {}

Typed == Pull!TypeOK /\ UidsApart /\ UidsBelowNext /\ RowsPoint /\ InFolder /\ FoundWereLost

\* The bounds are numbers.
LEMMA NumbersKnown ==
  /\ MaxUid \in Nat /\ MaxChanges \in Nat /\ MaxPullFailures \in Nat
  /\ 0 \in 0 .. MaxUid /\ 1 \in 1 .. (MaxUid + 1)
  BY PullNumbers

\* The cycle before it begins is of its type and has asked nothing.
LEMMA IdleTyped ==
  /\ Pull!Idle \in Pull!Cycle /\ Pull!Idle.pc = "idle"
  /\ Pull!Idle.found = {} /\ Pull!Idle.lost = {} /\ Pull!Idle.want = {}
       /\ Pull!Idle.unsure = {}
  <1>1. 1 \in 1 .. (Len(Pull!Searched) + 1)
    BY FoldersKnown
  <1>2. Pull!Idle \in Pull!Cycle
    BY <1>1, NumbersKnown DEF Pull!Idle, Pull!Cycle
  <1> QED BY <1>2 DEF Pull!Idle

\* A folder has no more copies than there are UIDs.
LEMMA CopiesFew ==
  ASSUME upMail \subseteq Pull!Mail, UidsApart, NEW f, NEW T \in SUBSET Pull!In(f)
  PROVE  IsFiniteSet(T) /\ Cardinality(T) \in 0 .. MaxUid
  <1> DEFINE g == [r \in T |-> r.uid]
  <1>1. g \in Injection(T, Pull!Uid)
    <2>1. \A r \in T : r \in Pull!Mail /\ r \in upMail /\ r.folder = f /\ r.uid \in Pull!Uid
      BY DEF Pull!In, Pull!Mail
    <2> QED BY <2>1 DEF Injection, IsInjective, UidsApart
  <1>2. IsFiniteSet(Pull!Uid) /\ Cardinality(Pull!Uid) = MaxUid
    BY NumbersKnown, FS_Interval DEF Pull!Uid
  <1> HIDE DEF g
  <1>3. IsFiniteSet(T) /\ Cardinality(T) <= Cardinality(Pull!Uid)
    BY <1>1, <1>2, FS_Injection
  <1> QED BY <1>2, <1>3, NumbersKnown, FS_CardinalityType

\* What numbering a folder anew makes of its copies: their rank.
RankIn(f, r) == Pull!Cardinality({s \in Pull!In(f) : s.uid <= r.uid})

\* A rank is a UID, at most the number of messages in the folder, and no other's.
LEMMA RanksKnown ==
  ASSUME upMail \subseteq Pull!Mail, UidsApart, NEW f, NEW r \in Pull!In(f)
  PROVE  /\ RankIn(f, r) \in 1 .. MaxUid
         /\ RankIn(f, r) <= Cardinality(Pull!In(f))
         /\ \A s \in Pull!In(f) : s # r => RankIn(f, s) # RankIn(f, r)
  <1> DEFINE Below(t) == {s \in Pull!In(f) : s.uid <= t.uid}
  <1>1. \A t \in Pull!In(f) : t.uid \in 1 .. MaxUid /\ t.uid \in Nat /\ t \in upMail
        /\ t.folder = f
    BY DEF Pull!In, Pull!Mail, Pull!Uid
  <1>2. ASSUME NEW t \in Pull!In(f)
        PROVE  IsFiniteSet(Below(t)) /\ Cardinality(Below(t)) \in 0 .. MaxUid
               /\ t \in Below(t)
    BY <1>1, CopiesFew
  <1>3. ASSUME NEW t \in Pull!In(f) PROVE Cardinality(Below(t)) # 0
    BY <1>2, <1>3, FS_EmptySet
  <1>4. IsFiniteSet(Pull!In(f)) /\ Cardinality(Below(r)) <= Cardinality(Pull!In(f))
    <2>1. IsFiniteSet(Pull!In(f))
      BY CopiesFew
    <2> QED BY <2>1, FS_Subset
  <1>5. ASSUME NEW s \in Pull!In(f), NEW t \in Pull!In(f), s.uid < t.uid
        PROVE  Cardinality(Below(s)) # Cardinality(Below(t))
    <2>1. Below(s) \in SUBSET Below(t)
      BY <1>1, <1>5
    <2>2. t \in Below(t) /\ t \notin Below(s)
      BY <1>1, <1>5
    <2>3. IsFiniteSet(Below(t))
      BY <1>2
    <2> HIDE DEF Below
    <2> QED BY <2>1, <2>2, <2>3, FS_Subset
  <1>6. ASSUME NEW s \in Pull!In(f), s # r
               PROVE Cardinality(Below(s)) # Cardinality(Below(r))
    <2>1. s.uid # r.uid
      BY <1>1, <1>6 DEF UidsApart
    <2>2. s.uid < r.uid \/ r.uid < s.uid
      BY <1>1, <2>1
    <2> QED BY <1>5, <2>2
  <1>7. Cardinality(Below(r)) \in 1 .. MaxUid
    <2>1. Cardinality(Below(r)) \in 0 .. MaxUid /\ Cardinality(Below(r)) # 0
      BY <1>2, <1>3
    <2> HIDE DEF Below
    <2> QED BY <2>1, NumbersKnown
  <1> QED BY <1>4, <1>6, <1>7, SameCardinality DEF RankIn

\* At the start the folders are numbered from one without gaps.
LEMMA FirstNumbers ==
  ASSUME Pull!Init
  PROVE  UidsApart /\ UidsBelowNext
         /\ \A f \in Pull!Folder : upNext[f] \in 1 .. (MaxUid + 1)
  <1>1. upMail \subseteq Pull!Mail
    BY DEF Pull!Init
  <1>2. UidsApart
    BY DEF Pull!Init, UidsApart
  <1>3. \A f \in Pull!Folder : upNext[f] = Cardinality(Pull!In(f)) + 1
    BY SameCardinality DEF Pull!Init, Pull!In
  <1>4. ASSUME NEW f \in Pull!Folder PROVE upNext[f] \in 1 .. (MaxUid + 1)
    <2>1. Cardinality(Pull!In(f)) \in 0 .. MaxUid
      BY <1>1, <1>2, CopiesFew
    <2> QED BY <1>3, <2>1, NumbersKnown
  <1>5. ASSUME NEW r \in upMail PROVE r.uid < upNext[r.folder]
    <2> DEFINE f == r.folder
               U == {s.uid : s \in Pull!In(f)}
               g == [s \in Pull!In(f) |-> s.uid]
    <2>1. f \in Pull!Folder /\ r.uid \in Nat /\ r.uid >= 1
      BY <1>1, NumbersKnown DEF Pull!Mail, Pull!Uid
    <2>2. 1 .. r.uid \in SUBSET U
      BY <1>5 DEF Pull!Init, Pull!In
    <2>3. IsFiniteSet(Pull!In(f)) /\ Cardinality(Pull!In(f)) \in Nat
      BY <1>1, <1>2, CopiesFew, NumbersKnown
    <2>4. g \in Surjection(Pull!In(f), U)
      BY DEF Surjection
    <2>5. IsFiniteSet(U) /\ Cardinality(U) <= Cardinality(Pull!In(f))
      <3> HIDE DEF g, U
      <3> QED BY <2>3, <2>4, FS_Surjection
    <2>6. Cardinality(1 .. r.uid) <= Cardinality(U)
      <3> HIDE DEF U
      <3> QED BY <2>2, <2>5, FS_Subset
    <2>7. Cardinality(1 .. r.uid) = r.uid
      BY <2>1, FS_Interval
    <2>8. Cardinality(U) \in Nat
      BY <2>5, FS_CardinalityType
    <2> HIDE DEF U, g
    <2>9. r.uid <= Cardinality(Pull!In(f))
      BY <2>1, <2>3, <2>5, <2>6, <2>7, <2>8
    <2> QED BY <1>3, <2>1, <2>3, <2>9
  <1> QED BY <1>2, <1>4, <1>5 DEF UidsBelowNext

-----------------------------------------------------------------------------
(* Types. *)

\* The types hold at the beginning.
LEMMA PullTypesBegin == Pull!Init => Typed
  <1> SUFFICES ASSUME Pull!Init PROVE Typed
    OBVIOUS
  <1>1. UidsApart /\ upNext \in [Pull!Folder -> 1 .. (MaxUid + 1)]
    BY FirstNumbers DEF Pull!Init
  <1>2. /\ upMail \subseteq Pull!Mail
        /\ upValid \in [Pull!Folder -> Nat]
        /\ pulled \in [Msg -> Pull!MessageRow \cup {NoMail}]
        /\ bookmark \in [Pull!Folder -> Pull!Bookmark \cup {NoMail}]
        /\ cycle \in Pull!Cycle /\ cycle.pc = "idle" /\ cycle.found = {}
    BY IdleTyped DEF Pull!Init
  <1>3. passed \subseteq Msg /\ takenOut \subseteq Msg
        /\ stayed \subseteq Msg \X Pull!Folder
        /\ pullChanges \in 0 .. MaxChanges /\ pullFailures \in 0 .. MaxPullFailures
    BY NumbersKnown DEF Pull!Init
  <1>4. Pull!TypeOK
    BY <1>1, <1>2, <1>3 DEF Pull!TypeOK
  <1>5. RowsPoint
    BY DEF Pull!Init, RowsPoint, GoodRow
  <1>6. InFolder /\ FoundWereLost
    BY <1>2 DEF InFolder, FoundWereLost, Pull!Msgs
  <1>7. UidsBelowNext
    BY FirstNumbers
  <1> QED BY <1>1, <1>4, <1>5, <1>6, <1>7 DEF Typed

\* A copy of a folder is one of the mail.
LEMMA CopiesTyped ==
  ASSUME Pull!TypeOK, NEW f
  PROVE  \A r \in Pull!In(f) : /\ r \in upMail /\ r \in Pull!Mail /\ r.folder = f
                                    /\ r.folder \in Pull!Folder
                         /\ r.msg \in Msg /\ r.uid \in Pull!Uid /\ r.uid \in 1 .. MaxUid
  BY DEF Pull!TypeOK, Pull!In, Pull!Mail, Pull!Uid

\* Rows after copies have been met: rows they are, and none goes.
LEMMA RowsAfterTyped ==
  ASSUME Pull!TypeOK, RowsPoint, NEW refs,
         \A r \in refs : r.folder \in Pull!Folder /\ r.uid \in Pull!Uid /\ r.msg \in Msg,
         NEW new
  PROVE  /\ Pull!RowsAfter(refs, new) \in [Msg -> GoodRow]
         /\ \A m \in Msg : pulled[m] # NoMail => Pull!RowsAfter(refs, new)[m] # NoMail
         /\ \A m \in Pull!Msgs(refs) \cap new : Pull!RowsAfter(refs, new)[m] # NoMail
  <1> DEFINE Met(m) == CHOOSE r \in refs : r.msg = m
             New(m) == [live |-> TRUE, owned |-> TRUE, folder |-> Met(m).folder,
                        uid |-> Met(m).uid,
                        spam |-> Met(m).folder \in Junk \/ m \in Suspect,
                        leaving |-> FALSE, queue |-> NoMail]
             Old(m) == Pull!Refreshed(m, Met(m).folder, Met(m).uid)
  <1>1. ASSUME NEW m \in Msg, \E r \in refs : r.msg = m
        PROVE  Met(m).folder \in Pull!Folder /\ Met(m).uid \in 1 .. MaxUid
               /\ Met(m).uid \in 0 .. MaxUid
    <2>1. Met(m) \in refs
      BY <1>1
    <2> QED BY <2>1, NumbersKnown DEF Pull!Uid
  <1>2. ASSUME NEW m \in Msg, \E r \in refs : r.msg = m
        PROVE  New(m) \in GoodRow /\ New(m) # NoMail
    <2>1. New(m) \in Pull!MessageRow
      BY <1>1, <1>2 DEF Pull!MessageRow
    <2>2. New(m) # NoMail
      BY <2>1, PullNone
    <2>3. New(m).folder \in Pull!Folder
      BY <1>1, <1>2
    <2> HIDE DEF New
    <2> QED BY <2>1, <2>2, <2>3 DEF GoodRow
  <1>3. ASSUME NEW m \in Msg, \E r \in refs : r.msg = m
        PROVE  Old(m) \in GoodRow /\ (pulled[m] # NoMail => Old(m) # NoMail)
    <2> DEFINE f == Met(m).folder
               u == Met(m).uid
               sp == f \in Junk
               t == [pulled[m] EXCEPT !.folder = f, !.uid = u, !.spam = sp]
    <2>1. pulled[m] \in GoodRow
      BY DEF RowsPoint
    <2>2. Old(m) = pulled[m] \/ (pulled[m] # NoMail /\ Old(m) = t)
      BY DEF Pull!Refreshed
    <2>3. ASSUME pulled[m] # NoMail PROVE t \in GoodRow /\ t # NoMail
      <3>1. pulled[m] \in Pull!MessageRow
        BY <2>1, <2>3 DEF GoodRow
      <3>2. f \in Pull!Folder /\ u \in 0 .. MaxUid
        BY <1>1, <1>3
      <3>4. sp \in BOOLEAN
        OBVIOUS
      <3> HIDE DEF f, u, Met, sp
      <3>3. t \in Pull!MessageRow /\ t.folder = f
        BY <3>1, <3>2, <3>4 DEF Pull!MessageRow
      <3> HIDE DEF t
      <3> QED BY <3>2, <3>3, PullNone DEF GoodRow
    <2> HIDE DEF t, Old
    <2> QED BY <2>1, <2>2, <2>3
  <1>4. \A m \in Msg : Pull!RowsAfter(refs, new)[m]
          = IF \E r \in refs : r.msg = m THEN IF m \in new THEN New(m) ELSE Old(m)
            ELSE pulled[m]
    BY DEF Pull!RowsAfter
  <1>5. Pull!RowsAfter(refs, new) = [m \in Msg |-> Pull!RowsAfter(refs, new)[m]]
    BY DEF Pull!RowsAfter
  <1> HIDE DEF New, Old, Met
  <1>6. \A m \in Msg : /\ Pull!RowsAfter(refs, new)[m] \in GoodRow
                       /\ pulled[m] # NoMail => Pull!RowsAfter(refs, new)[m] # NoMail
    BY <1>2, <1>3, <1>4 DEF RowsPoint
  <1>7. ASSUME NEW m \in Pull!Msgs(refs) \cap new
               PROVE Pull!RowsAfter(refs, new)[m] # NoMail
    <2>1. m \in Msg /\ \E r \in refs : r.msg = m
      BY DEF Pull!Msgs
    <2> QED BY <1>2, <1>4, <1>7, <2>1
  <1> QED BY <1>5, <1>6, <1>7

\* The rows that were good, and the cycle and the bookmark that were typed, are.
LEMMA StepTyped ==
  ASSUME Typed, UNCHANGED Pull!upstream, pulled' \in [Msg -> GoodRow],
         bookmark' \in [Pull!Folder -> Pull!Bookmark \cup {NoMail}],
         cycle' \in Pull!Cycle, InFolder', FoundWereLost',
         passed' \subseteq Msg, takenOut' \subseteq Msg,
           stayed' \subseteq Msg \X Pull!Folder,
         pullChanges' = pullChanges, pullFailures' = pullFailures \/ Pull!Fails
  PROVE  Typed'
  <1>1. pullFailures' \in 0 .. MaxPullFailures
    BY NumbersKnown DEF Typed, Pull!TypeOK, Pull!Fails
  <1>2. pulled' \in [Msg -> Pull!MessageRow \cup {NoMail}]
    BY DEF GoodRow
  <1>3. Pull!TypeOK'
    BY <1>1, <1>2 DEF Typed, Pull!TypeOK, Pull!upstream
  <1> QED BY <1>3 DEF Typed, UidsApart, UidsBelowNext, RowsPoint, Pull!upstream

\* Leaving a folder.
LEMMA LeaveTyped ==
  ASSUME NEW r \in Pull!Cycle, r.at <= Len(Pull!Searched), NEW f
  PROVE  /\ Pull!Leave(r, f) \in Pull!Cycle
         /\ Pull!Leave(r, f).pc = "open" /\ Pull!Leave(r, f).at = r.at + 1
         /\ Pull!Leave(r, f).found = {} /\ Pull!Leave(r, f).want = {}
  <1>1. Pull!Gone(r, f) \subseteq Pull!Ref
    BY DEF Pull!Gone, Pull!Cycle
  <1>2. r.at + 1 \in 1 .. (Len(Pull!Searched) + 1)
    BY FoldersKnown DEF Pull!Cycle
  <1> DEFINE g == r.lost \cup Pull!Gone(r, f)
             a == r.at + 1
  <1>3. g \in SUBSET Pull!Ref /\ r.base \in SUBSET Pull!Ref /\ r.seen \in SUBSET Msg
        /\ r.whole \in BOOLEAN
    BY <1>1 DEF Pull!Cycle
  <1>4. Pull!Leave(r, f) = [Pull!Idle EXCEPT !.pc = "open", !.at = a, !.base = r.base,
        !.seen = r.seen,
                                   !.whole = r.whole, !.lost = g]
    BY DEF Pull!Leave
  <1> HIDE DEF g, a
  <1>5. Pull!Leave(r, f) \in Pull!Cycle
    BY <1>2, <1>3, <1>4, IdleTyped, ZenonT(30) DEF Pull!Cycle, a
  <1>6. /\ Pull!Leave(r, f).pc = "open" /\ Pull!Leave(r, f).at = a
        /\ Pull!Leave(r, f).found = {} /\ Pull!Leave(r, f).want = {}
    BY <1>4, IdleTyped DEF Pull!Cycle
  <1> QED BY <1>5, <1>6 DEF a

\* A cycle that passes over the rest of a folder is of its type and goes on with the
\* next.
LEMMA AbandonTyped ==
  ASSUME NEW r \in Pull!Cycle, r.at <= Len(Pull!Searched), NEW f
  PROVE  /\ Pull!Abandon(r, f) \in Pull!Cycle
         /\ Pull!Abandon(r, f).pc = "open" /\ Pull!Abandon(r, f).at = r.at + 1
         /\ Pull!Abandon(r, f).found = {} /\ Pull!Abandon(r, f).want = {}
  <1> DEFINE t == [r EXCEPT !.whole = FALSE, !.byUid = FALSE, !.byId = FALSE]
  <1>1. t \in Pull!Cycle /\ t.at = r.at
    BY DEF Pull!Cycle
  <1> HIDE DEF t
  <1>2. Pull!Abandon(r, f) = Pull!Leave(t, f)
    BY DEF Pull!Abandon, t
  <1> QED BY <1>1, <1>2, LeaveTyped

\* What a bookmark is written from.
LEMMA SavedTyped ==
  ASSUME Pull!TypeOK, NEW f \in Pull!Folder, NEW v \in Nat, NEW last \in 0 .. MaxUid,
         Pull!SaveMark(f, v, last)
  PROVE  /\ bookmark' \in [Pull!Folder -> Pull!Bookmark \cup {NoMail}]
         /\ pullFailures' = pullFailures \/ Pull!Fails
         /\ \A g \in Pull!Folder : g # f => bookmark'[g] = bookmark[g]
         /\ \/ bookmark'[f] = bookmark[f]
            \/ bookmark'[f].valid = v /\ bookmark'[f].last = last
  <1> DEFINE b == [valid |-> v, last |-> last]
  <1>1. b \in Pull!Bookmark /\ b.valid = v /\ b.last = last
    BY DEF Pull!Bookmark
  <1>2. bookmark' = bookmark \/ bookmark' = [bookmark EXCEPT ![f] = b]
    BY DEF Pull!SaveMark
  <1>3. pullFailures' = pullFailures \/ Pull!Fails
    BY DEF Pull!SaveMark, Pull!Works, Pull!Fails
  <1> HIDE DEF b
  <1> QED BY <1>1, <1>2, <1>3 DEF Pull!TypeOK

\* The plan for a folder.
LEMMA PlanTyped ==
  ASSUME Pull!TypeOK, NEW f \in Pull!Folder, NEW st \in Pull!Bookmark \cup {NoMail}
  PROVE  LET p == Pull!Plan(f, st) IN
         /\ p \in Pull!Cycle /\ p.pc \in {"flags", "scan"} /\ p.at = cycle.at
         /\ p.valid = upValid[f] /\ p.next = upNext[f] /\ p.top = cycle.top
         /\ p.found = cycle.found /\ p.lost = cycle.lost
         /\ p.last \in 0 .. MaxUid
         /\ p.last # 0 => st # NoMail /\ st.valid = upValid[f] /\ p.last = st.last
  <1> DEFINE full == st = NoMail \/ st.valid # upValid[f]
             last == IF full THEN 0 ELSE st.last
             pc == IF last > 0 THEN "flags" ELSE "scan"
             byUid == ~full
             byId == full /\ st # NoMail
             v == upValid[f]
             n == upNext[f]
  <1>1. last \in 0 .. MaxUid
        /\ (last # 0 => st # NoMail /\ st.valid = upValid[f] /\ last = st.last)
    BY NumbersKnown DEF Pull!Bookmark
  <1>2. pc \in {"flags", "scan"} /\ byUid \in BOOLEAN /\ byId \in BOOLEAN
    OBVIOUS
  <1>3. v \in Nat /\ n \in 1 .. (MaxUid + 1) /\ cycle \in Pull!Cycle
    BY DEF Pull!TypeOK
  <1>4. Pull!Plan(f, st) = [cycle EXCEPT !.valid = v, !.next = n, !.last = last,
        !.byUid = byUid,
                                  !.byId = byId, !.pc = pc]
    BY DEF Pull!Plan
  <1> HIDE DEF full, last, pc, byUid, byId, v, n
  <1>5. Pull!Plan(f, st) \in Pull!Cycle
    BY <1>1, <1>2, <1>3, <1>4, ZenonT(30) DEF Pull!Cycle
  <1>6. /\ Pull!Plan(f, st).pc = pc /\ Pull!Plan(f, st).at = cycle.at
             /\ Pull!Plan(f, st).valid = v
        /\ Pull!Plan(f, st).next = n /\ Pull!Plan(f, st).top = cycle.top
             /\ Pull!Plan(f, st).last = last
        /\ Pull!Plan(f, st).found = cycle.found /\ Pull!Plan(f, st).lost = cycle.lost
    BY <1>3, <1>4 DEF Pull!Cycle
  <1> QED BY <1>1, <1>2, <1>5, <1>6 DEF v, n

\* The beginning of a cycle keeps the types.
LEMMA BeginTyped == Typed /\ Pull!Begin => Typed'
  <1> SUFFICES ASSUME Typed, Pull!Begin PROVE Typed'
    OBVIOUS
  <1>1. PICK base \in Pull!Baselines : cycle' = [Pull!Idle EXCEPT !.pc = "open",
             !.base = base]
    BY DEF Pull!Begin
  <1>2. base \in SUBSET Pull!Ref
    <2> DEFINE all == {[folder |-> pulled[m].folder, uid |-> pulled[m].uid, msg |-> m] :
                         m \in {n \in Msg : Pull!Mirrors(n)}}
    <2>1. base \in SUBSET all
      BY DEF Pull!Baselines
    <2>2. all \subseteq Pull!Ref
      <3> SUFFICES ASSUME NEW m \in Msg, Pull!Mirrors(m)
                   PROVE  [folder |-> pulled[m].folder, uid |-> pulled[m].uid,
                          msg |-> m] \in Pull!Ref
        OBVIOUS
      <3>1. pulled[m] \in GoodRow
        BY DEF Typed, RowsPoint
      <3>2. pulled[m].folder \in Pull!Folder /\ pulled[m].uid \in 1 .. MaxUid
        BY <3>1, NumbersKnown DEF GoodRow, Pull!MessageRow, Pull!Mirrors
      <3> QED BY <3>2 DEF Pull!Ref, Pull!Uid
    <2> HIDE DEF all
    <2> QED BY <2>1, <2>2
  <1>3. cycle' \in Pull!Cycle /\ cycle'.pc = "open" /\ cycle'.found = {}
    BY <1>1, <1>2, IdleTyped DEF Pull!Cycle
  <1>4. InFolder' /\ FoundWereLost'
    BY <1>3 DEF InFolder, FoundWereLost, Pull!Msgs
  <1>5. stayed' \subseteq Msg \X Pull!Folder
    <2>1. stayed' = {<<r.msg, r.folder>> : r \in upMail}
      BY DEF Pull!Begin
    <2>2. \A r \in upMail : r.msg \in Msg /\ r.folder \in Pull!Folder
      BY DEF Typed, Pull!TypeOK, Pull!Mail
    <2> QED BY <2>1, <2>2
  <1>6. /\ UNCHANGED Pull!upstream /\ pulled' = pulled /\ bookmark' = bookmark
             /\ passed' = passed
        /\ takenOut' = takenOut /\ pullChanges' = pullChanges
             /\ pullFailures' = pullFailures
    BY DEF Pull!Begin
  <1> QED BY <1>3, <1>4, <1>5, <1>6, StepTyped DEF Typed, Pull!TypeOK, RowsPoint

\* A step of the cycle that is on its way to the next folder is in none.
LEMMA OutsideTyped ==
  ASSUME cycle'.pc \notin {"flags", "scan", "bodies", "mark"}, cycle'.found = {}
  PROVE  InFolder' /\ FoundWereLost'
  BY DEF InFolder, FoundWereLost, Pull!Msgs

\* Opening a folder keeps the types.
LEMMA OpenTyped ==
  ASSUME NEW f \in Pull!Folder, Typed, Pull!Open(f)
  PROVE  Typed'
  <1>1. /\ cycle.pc = "open" /\ cycle \in Pull!Cycle /\ cycle.at \in 1 .. Len(Synced)
        /\ cycle.at <= Len(Pull!Searched)
    BY FoldersKnown DEF Pull!Open, Typed, Pull!TypeOK, Pull!Cycle
  <1>2. /\ UNCHANGED Pull!upstream /\ pulled' = pulled /\ passed' = passed
             /\ stayed' = stayed
        /\ takenOut' = takenOut /\ pullChanges' = pullChanges
    BY DEF Pull!Open, Pull!history
  <1>3. bookmark[f] \in Pull!Bookmark \cup {NoMail}
        /\ NoMail \in Pull!Bookmark \cup {NoMail}
    BY DEF Typed, Pull!TypeOK
  <1>4. \/ (cycle' = Pull!Plan(f, bookmark[f]) \/ cycle' = Pull!Plan(f, NoMail))
             /\ UNCHANGED bookmark
           /\ (pullFailures' = pullFailures \/ Pull!Fails)
        \/ LET p == Pull!Plan(f, bookmark[f]) IN
             /\ cycle' = Pull!Leave([p EXCEPT !.byId = FALSE], f)
             /\ Pull!SaveMark(f, p.valid, IF p.next - 1 > p.last THEN p.next - 1
                  ELSE p.last)
        \/ cycle' = Pull!Abandon(cycle, f) /\ Pull!Fails /\ UNCHANGED bookmark
    BY DEF Pull!Open, Pull!Works
  <1>5. CASE (cycle' = Pull!Plan(f, bookmark[f]) \/ cycle' = Pull!Plan(f, NoMail))
             /\ UNCHANGED bookmark
             /\ (pullFailures' = pullFailures \/ Pull!Fails)
    <2>1. /\ cycle' \in Pull!Cycle /\ cycle'.at = cycle.at /\ cycle'.found = cycle.found
          /\ cycle'.lost = cycle.lost
      BY <1>3, <1>5, PlanTyped DEF Typed
    <2>2. InFolder' /\ FoundWereLost'
      BY <1>1, <2>1 DEF InFolder, FoundWereLost, Pull!Msgs, Typed
    <2> QED BY <1>2, <1>5, <2>1, <2>2, StepTyped DEF Typed, Pull!TypeOK, RowsPoint
  <1>6. CASE LET p == Pull!Plan(f, bookmark[f]) IN
             /\ cycle' = Pull!Leave([p EXCEPT !.byId = FALSE], f)
             /\ Pull!SaveMark(f, p.valid, IF p.next - 1 > p.last THEN p.next - 1
                  ELSE p.last)
    <2> DEFINE p == Pull!Plan(f, bookmark[f])
               q == [p EXCEPT !.byId = FALSE]
               l == IF p.next - 1 > p.last THEN p.next - 1 ELSE p.last
    <2>1. /\ p \in Pull!Cycle /\ p.at = cycle.at /\ p.valid = upValid[f]
               /\ p.next = upNext[f]
          /\ p.last \in 0 .. MaxUid
      BY <1>3, PlanTyped DEF Typed
    <2>2. q \in Pull!Cycle /\ q.at = cycle.at
      <3> HIDE DEF p
      <3> QED BY <2>1 DEF Pull!Cycle
    <2>3. l \in 0 .. MaxUid /\ p.valid \in Nat
      BY <2>1, NumbersKnown DEF Typed, Pull!TypeOK
    <2>4. cycle' = Pull!Leave(q, f) /\ Pull!SaveMark(f, p.valid, l)
      BY <1>6
    <2> HIDE DEF p, q, l
    <2>5. cycle' \in Pull!Cycle /\ cycle'.pc = "open" /\ cycle'.found = {}
      BY <1>1, <2>2, <2>4, LeaveTyped
    <2>6. bookmark' \in [Pull!Folder -> Pull!Bookmark \cup {NoMail}]
          /\ (pullFailures' = pullFailures \/ Pull!Fails)
      BY <2>3, <2>4, SavedTyped DEF Typed
    <2> QED BY <1>2, <2>5, <2>6, OutsideTyped, StepTyped DEF Typed, Pull!TypeOK, RowsPoint
  <1>7. CASE cycle' = Pull!Abandon(cycle, f) /\ Pull!Fails /\ UNCHANGED bookmark
    <2>1. cycle' \in Pull!Cycle /\ cycle'.pc = "open" /\ cycle'.found = {}
      BY <1>1, <1>7, AbandonTyped
    <2> QED BY <1>2, <1>7, <2>1, OutsideTyped, StepTyped DEF Typed, Pull!TypeOK, RowsPoint
  <1> QED BY <1>4, <1>5, <1>6, <1>7

\* The refresh of flags keeps the types.
LEMMA RefreshFlagsTyped ==
  ASSUME NEW f \in Pull!Folder, Typed, Pull!RefreshFlags(f)
  PROVE  Typed'
  <1> DEFINE below == {r \in Pull!In(f) : r.uid <= cycle.last}
             met == {b \in cycle.base : b.folder = f
                       /\ \E r \in below : r.uid = b.uid /\ ~r.del}
             more(r) == IF cycle.next > cycle.last + 1 THEN [r EXCEPT !.pc = "scan"]
               ELSE Pull!Leave(r, f)
             present == Pull!Uids(below)
             seen == cycle.seen \cup Pull!Msgs(met)
             r1 == [cycle EXCEPT !.present = present, !.seen = seen]
             r2 == [cycle EXCEPT !.byUid = FALSE]
  <1>1. /\ cycle.pc = "flags" /\ cycle \in Pull!Cycle /\ cycle.at \in 1 .. Len(Synced)
        /\ cycle.at <= Len(Pull!Searched)
    BY FoldersKnown DEF Pull!RefreshFlags, Typed, Pull!TypeOK, InFolder
  <1>2. /\ UNCHANGED Pull!upstream /\ bookmark' = bookmark /\ passed' = passed
             /\ stayed' = stayed
        /\ takenOut' = takenOut /\ pullChanges' = pullChanges
    BY DEF Pull!RefreshFlags, Pull!history
  <1>3. \/ /\ cycle' = more(r1)
           /\ \E kept \in SUBSET met :
                /\ pulled' = Pull!RowsAfter(met \ kept, {})
                /\ IF kept = {} THEN Pull!Works ELSE Pull!Fails
        \/ cycle' = more(r2) /\ UNCHANGED pulled /\ Pull!Fails
    BY DEF Pull!RefreshFlags
  <1>4. present \in SUBSET Pull!Uid /\ seen \in SUBSET Msg
    <2>1. \A r \in Pull!In(f) : r.uid \in Pull!Uid
      BY CopiesTyped DEF Typed
    <2>2. \A b \in cycle.base : b.msg \in Msg
      BY <1>1 DEF Pull!Cycle, Pull!Ref
    <2> QED BY <1>1, <2>1, <2>2 DEF Pull!Uids, Pull!Msgs, Pull!Cycle
  <1>5. /\ r1 \in Pull!Cycle /\ r1.at = cycle.at /\ r1.found = cycle.found
             /\ r1.lost = cycle.lost
        /\ r2 \in Pull!Cycle /\ r2.at = cycle.at /\ r2.found = cycle.found
             /\ r2.lost = cycle.lost
    <2> HIDE DEF present, seen
    <2> QED BY <1>1, <1>4 DEF Pull!Cycle
  <1>6. ASSUME NEW r \in Pull!Cycle, r.at = cycle.at, r.found = cycle.found,
               r.lost = cycle.lost,
               cycle' = more(r)
        PROVE  cycle' \in Pull!Cycle /\ InFolder' /\ FoundWereLost'
    <2>1. CASE cycle' = Pull!Leave(r, f)
      <3>1. cycle' \in Pull!Cycle /\ cycle'.pc = "open" /\ cycle'.found = {}
        BY <1>1, <1>6, <2>1, LeaveTyped
      <3> QED BY <3>1, OutsideTyped
    <2>2. CASE cycle' = [r EXCEPT !.pc = "scan"]
      <3>1. /\ cycle' \in Pull!Cycle /\ cycle'.at = cycle.at /\ cycle'.found = cycle.found
            /\ cycle'.lost = cycle.lost
        BY <1>6, <2>2 DEF Pull!Cycle
      <3> QED BY <1>1, <3>1 DEF InFolder, FoundWereLost, Pull!Msgs, Typed
    <2> QED BY <1>6, <2>1, <2>2
  <1>7. cycle' \in Pull!Cycle /\ InFolder' /\ FoundWereLost'
    <2> HIDE DEF r1, r2, more
    <2> QED BY <1>3, <1>5, <1>6
  <1>8. pulled' \in [Msg -> GoodRow] /\ (pullFailures' = pullFailures \/ Pull!Fails)
    <2>1. CASE \E kept \in SUBSET met :
                /\ pulled' = Pull!RowsAfter(met \ kept, {})
                /\ IF kept = {} THEN Pull!Works ELSE Pull!Fails
      <3>1. PICK kept \in SUBSET met :
                /\ pulled' = Pull!RowsAfter(met \ kept, {})
                /\ IF kept = {} THEN Pull!Works ELSE Pull!Fails
        BY <2>1
      <3>2. \A b \in met \ kept : b.folder \in Pull!Folder /\ b.uid \in Pull!Uid
            /\ b.msg \in Msg
        BY <1>1 DEF Pull!Cycle, Pull!Ref
      <3> HIDE DEF met
      <3> QED BY <3>1, <3>2, RowsAfterTyped DEF Typed, Pull!Works
    <2>2. CASE UNCHANGED pulled /\ Pull!Fails
      BY <2>2 DEF Typed, RowsPoint
    <2> QED BY <1>3, <2>1, <2>2
  <1> QED BY <1>2, <1>7, <1>8, StepTyped DEF Typed, Pull!TypeOK

\* A set of UIDs that is not empty has a greatest one.
LEMMA GreatestUid ==
  ASSUME NEW T \in SUBSET Pull!Uid, T # {}
  PROVE  \E x \in T : \A y \in T : y <= x
  <1> DEFINE Over == {n \in Nat : \A u \in T : u <= n}
  <1>1. MaxUid \in Over
    BY NumbersKnown DEF Pull!Uid
  <1>2. PICK x \in Over : \A y \in Over : x <= y
    <2>1. Over \in SUBSET Nat /\ Over # {}
      BY <1>1
    <2> HIDE DEF Over
    <2> QED BY <2>1, LeastNumber
  <1>3. x \in T
    <2>1. SUFFICES ASSUME x \notin T PROVE FALSE
      OBVIOUS
    <2>2. PICK u \in T : TRUE
      OBVIOUS
    <2>3. \A v \in T : v \in Nat /\ v >= 1 /\ v <= x /\ v # x
      BY <1>2, <2>1, NumbersKnown DEF Pull!Uid
    <2>4. x \in Nat /\ x >= 1
      BY <1>2, <2>2, <2>3
    <2>5. x - 1 \in Over
      BY <2>3, <2>4
    <2> QED BY <1>2, <2>4, <2>5
  <1> QED BY <1>2, <1>3

\* The step of a cycle within its folder.
LEMMA InsideTyped ==
  ASSUME Typed, NEW f, cycle.pc \in {"flags", "scan", "bodies", "mark"},
         \/ cycle' = Pull!Leave(cycle, f) \/ cycle' = Pull!Abandon(cycle, f)
         \/ cycle' \in Pull!Cycle /\ cycle'.at = cycle.at /\ cycle'.found = cycle.found
              /\ cycle'.lost = cycle.lost
  PROVE  cycle' \in Pull!Cycle /\ InFolder' /\ FoundWereLost'
  <1>1. cycle \in Pull!Cycle /\ cycle.at \in 1 .. Len(Synced)
        /\ cycle.at <= Len(Pull!Searched)
    BY FoldersKnown DEF Typed, Pull!TypeOK, InFolder
  <1>2. CASE cycle' = Pull!Leave(cycle, f) \/ cycle' = Pull!Abandon(cycle, f)
    <2>1. cycle' \in Pull!Cycle /\ cycle'.pc = "open" /\ cycle'.found = {}
      BY <1>1, <1>2, LeaveTyped, AbandonTyped
    <2> QED BY <2>1, OutsideTyped
  <1>3. CASE cycle' \in Pull!Cycle /\ cycle'.at = cycle.at /\ cycle'.found = cycle.found
             /\ cycle'.lost = cycle.lost
    BY <1>1, <1>3 DEF InFolder, FoundWereLost, Pull!Msgs, Typed
  <1> QED BY <1>2, <1>3

\* What a scan does: it finds the folder's new UIDs, and reads on, or abandons it.
LEMMA ScanSteps ==
  ASSUME NEW f \in Pull!Folder, Pull!Scan(f)
  PROVE  /\ \/ /\ \E T \in SUBSET Pull!In(f) : pulled' = Pull!RowsAfter(T, {})
               /\ \E p \in {"mark", "bodies"} : \E s, w, x, t :
                    cycle' = [cycle EXCEPT !.pc = p, !.seen = s, !.want = w,
                                           !.failed = x, !.top = t]
            \/ cycle' = Pull!Abandon(cycle, f) /\ UNCHANGED pulled
         /\ passed \subseteq passed'
  <1> DEFINE above == {r \in Pull!In(f) : r.uid > cycle.last}
             blank == {r \in above : r.msg \in Blank}
             dead == {r \in above \ blank : r.del}
             named == {r \in above \ (blank \cup dead) : r.msg \notin Synthetic}
             top == IF above = {} THEN 0
                    ELSE CHOOSE u \in Pull!Uids(above) : \A v \in Pull!Uids(above) : v <= u
             known(bad) == {r \in named \ bad : pulled[r.msg] # NoMail}
             want(bad) == above \ (blank \cup dead \cup bad \cup known(bad))
             pc(bad) == IF want(bad) = {} THEN "mark" ELSE "bodies"
             seen(bad) == cycle.seen \cup Pull!Msgs(known(bad)) \cup (Pull!Msgs(dead) \ Synthetic)
             wants(bad) == Pull!Uids(want(bad))
             fails(bad) == Pull!Uids(bad)
             next1(bad) == [cycle EXCEPT !.pc = pc(bad), !.seen = seen(bad),
               !.want = wants(bad), !.failed = fails(bad), !.top = top]
  <1>1. \/ /\ \E bad \in SUBSET named : \E kept \in SUBSET (named \ bad) :
                /\ kept \subseteq known(bad)
                /\ IF bad \cup kept = {} THEN Pull!Works ELSE Pull!Fails
                /\ pulled' = Pull!RowsAfter(known(bad) \ kept, {})
                /\ cycle' = next1(bad)
           /\ passed' = passed \cup Pull!Msgs(dead)
        \/ cycle' = Pull!Abandon(cycle, f) /\ Pull!Fails /\ UNCHANGED <<pulled, passed>>
    BY ZenonT(60) DEF Pull!Scan
  <1>2. \A bad, kept : known(bad) \ kept \in SUBSET Pull!In(f)
    OBVIOUS
  <1>3. \A bad : pc(bad) \in {"mark", "bodies"}
    OBVIOUS
  <1> DEFINE Goes == \E p \in {"mark", "bodies"} : \E s, w, x, t :
                      cycle' = [cycle EXCEPT !.pc = p, !.seen = s, !.want = w,
                                             !.failed = x, !.top = t]
  <1>4. ASSUME NEW bad, cycle' = next1(bad) PROVE Goes
    <2> HIDE DEF pc, seen, wants, fails, top
    <2> QED BY <1>3, <1>4
  <1> HIDE DEF known, named, next1, dead, Goes
  <1>5. passed \subseteq passed'
    BY <1>1
  <1>6. CASE \E bad \in SUBSET named : \E kept \in SUBSET (named \ bad) :
               /\ pulled' = Pull!RowsAfter(known(bad) \ kept, {})
               /\ cycle' = next1(bad)
    <2>4. PICK bad \in SUBSET named : \E kept \in SUBSET (named \ bad) :
               /\ pulled' = Pull!RowsAfter(known(bad) \ kept, {})
               /\ cycle' = next1(bad)
      BY <1>6
    <2>1. PICK kept \in SUBSET (named \ bad) :
               /\ pulled' = Pull!RowsAfter(known(bad) \ kept, {})
               /\ cycle' = next1(bad)
      BY <2>4
    <2>2. known(bad) \ kept \in SUBSET Pull!In(f)
      BY <1>2
    <2>3. Goes /\ \E T \in SUBSET Pull!In(f) : pulled' = Pull!RowsAfter(T, {})
      BY <1>4, <2>1, <2>2
    <2> QED BY <1>5, <2>3, Zenon DEF Goes
  <1> QED BY <1>1, <1>5, <1>6

\* The scan for new UIDs keeps the types.
LEMMA ScanTyped ==
  ASSUME NEW f \in Pull!Folder, Typed, Pull!Scan(f)
  PROVE  Typed'
  <1> DEFINE above == {r \in Pull!In(f) : r.uid > cycle.last}
             blank == {r \in above : r.msg \in Blank}
             dead == {r \in above \ blank : r.del}
             named == {r \in above \ (blank \cup dead) : r.msg \notin Synthetic}
             top == IF above = {} THEN 0
                    ELSE CHOOSE u \in Pull!Uids(above) : \A v \in Pull!Uids(above) : v <= u
             known(bad) == {r \in named \ bad : pulled[r.msg] # NoMail}
             want(bad) == above \ (blank \cup dead \cup bad \cup known(bad))
             pc(bad) == IF want(bad) = {} THEN "mark" ELSE "bodies"
             seen(bad) == cycle.seen \cup Pull!Msgs(known(bad)) \cup (Pull!Msgs(dead) \ Synthetic)
             wants(bad) == Pull!Uids(want(bad))
             fails(bad) == Pull!Uids(bad)
             next1(bad) == [cycle EXCEPT !.pc = pc(bad), !.seen = seen(bad),
               !.want = wants(bad),
                                       !.failed = fails(bad), !.top = top]
  <1>1. cycle.pc = "scan" /\ cycle \in Pull!Cycle
    BY DEF Pull!Scan, Typed, Pull!TypeOK
  <1>2. /\ UNCHANGED Pull!upstream /\ bookmark' = bookmark /\ stayed' = stayed
        /\ takenOut' = takenOut /\ pullChanges' = pullChanges
    BY DEF Pull!Scan
  <1>3. \/ /\ \E bad \in SUBSET named : \E kept \in SUBSET (named \ bad) :
                /\ kept \subseteq known(bad)
                /\ IF bad \cup kept = {} THEN Pull!Works ELSE Pull!Fails
                /\ pulled' = Pull!RowsAfter(known(bad) \ kept, {})
                /\ cycle' = next1(bad)
           /\ passed' = passed \cup Pull!Msgs(dead)
        \/ cycle' = Pull!Abandon(cycle, f) /\ Pull!Fails /\ UNCHANGED <<pulled, passed>>
    BY ZenonT(60) DEF Pull!Scan
  <1>4. \A r \in above : /\ r.folder \in Pull!Folder /\ r.uid \in Pull!Uid /\ r.msg \in Msg
                         /\ r.uid \in 1 .. MaxUid
    BY CopiesTyped DEF Typed
  <1>5. top \in 0 .. MaxUid
    <2>1. CASE above = {}
      BY <2>1, NumbersKnown
    <2>2. CASE above # {}
      <3>1. Pull!Uids(above) \in SUBSET Pull!Uid /\ Pull!Uids(above) # {}
        BY <1>4, <2>2 DEF Pull!Uids
      <3> HIDE DEF above
      <3>2. top \in Pull!Uids(above)
        BY <2>2, <3>1, GreatestUid
      <3> HIDE DEF top
      <3> QED BY <3>1, <3>2, NumbersKnown DEF Pull!Uid
    <2> QED BY <2>1, <2>2
  <1>6. ASSUME NEW bad \in SUBSET named
        PROVE  /\ pc(bad) \in {"mark", "bodies"} /\ seen(bad) \in SUBSET Msg
               /\ wants(bad) \in SUBSET Pull!Uid /\ fails(bad) \in SUBSET Pull!Uid
    BY <1>1, <1>4 DEF Pull!Msgs, Pull!Uids, Pull!Cycle
  <1>7. ASSUME NEW bad \in SUBSET named
        PROVE  /\ next1(bad) \in Pull!Cycle /\ next1(bad).at = cycle.at
               /\ next1(bad).found = cycle.found /\ next1(bad).lost = cycle.lost
    <2>1. /\ pc(bad) \in {"mark", "bodies"} /\ seen(bad) \in SUBSET Msg
          /\ wants(bad) \in SUBSET Pull!Uid /\ fails(bad) \in SUBSET Pull!Uid
      BY <1>6
    <2> HIDE DEF pc, seen, wants, fails, top
    <2> QED BY <1>1, <1>5, <2>1 DEF Pull!Cycle
  <1>8. CASE /\ \E bad \in SUBSET named : \E kept \in SUBSET (named \ bad) :
                  /\ kept \subseteq known(bad)
                  /\ IF bad \cup kept = {} THEN Pull!Works ELSE Pull!Fails
                  /\ pulled' = Pull!RowsAfter(known(bad) \ kept, {})
                  /\ cycle' = next1(bad)
             /\ passed' = passed \cup Pull!Msgs(dead)
    <2>1. PICK bad \in SUBSET named : \E kept \in SUBSET (named \ bad) :
                  /\ IF bad \cup kept = {} THEN Pull!Works ELSE Pull!Fails
                  /\ pulled' = Pull!RowsAfter(known(bad) \ kept, {})
                  /\ cycle' = next1(bad)
      BY <1>8
    <2>2. PICK kept \in SUBSET (named \ bad) :
                  /\ IF bad \cup kept = {} THEN Pull!Works ELSE Pull!Fails
                  /\ pulled' = Pull!RowsAfter(known(bad) \ kept, {})
                  /\ cycle' = next1(bad)
      BY <2>1
    <2>3. \A r \in known(bad) \ kept : r.folder \in Pull!Folder /\ r.uid \in Pull!Uid
          /\ r.msg \in Msg
      BY <1>4
    <2>4. passed' \subseteq Msg
      BY <1>4, <1>8 DEF Typed, Pull!TypeOK, Pull!Msgs
    <2>5. /\ cycle' \in Pull!Cycle /\ cycle'.at = cycle.at /\ cycle'.found = cycle.found
               /\ cycle'.lost = cycle.lost
      <3> HIDE DEF next1, named
      <3> QED BY <1>7, <2>2
    <2>6. pulled' = Pull!RowsAfter(known(bad) \ kept, {})
          /\ (pullFailures' = pullFailures \/ Pull!Fails)
      BY <2>2 DEF Pull!Works
    <2> HIDE DEF known, next1, named, dead, blank, above
    <2>7. pulled' \in [Msg -> GoodRow]
      BY <2>3, <2>6, RowsAfterTyped DEF Typed
    <2>8. cycle' \in Pull!Cycle /\ InFolder' /\ FoundWereLost'
      BY <1>1, <2>5, InsideTyped
    <2> QED BY <1>2, <2>4, <2>6, <2>7, <2>8, StepTyped DEF Typed, Pull!TypeOK
  <1>9. CASE cycle' = Pull!Abandon(cycle, f) /\ Pull!Fails /\ UNCHANGED <<pulled, passed>>
    <2>1. cycle' \in Pull!Cycle /\ InFolder' /\ FoundWereLost'
      BY <1>1, <1>9, InsideTyped
    <2> QED BY <1>2, <1>9, <2>1, StepTyped DEF Typed, Pull!TypeOK, RowsPoint
  <1> QED BY <1>3, <1>8, <1>9

\* Fetching bodies keeps the types: a new row has a place in the folder.
LEMMA FetchBodiesTyped ==
  ASSUME NEW f \in Pull!Folder, Typed, Pull!FetchBodies(f)
  PROVE  Typed'
  <1> DEFINE there == {r \in Pull!In(f) : r.uid \in cycle.want}
             dead == {r \in there : r.del}
             good == {r \in there \ dead : r.msg \notin Hollow}
             known(got) == {r \in got : pulled[r.msg] # NoMail}
             seen(got) == cycle.seen \cup Pull!Msgs(known(got))
             run1(got) == [cycle EXCEPT !.seen = seen(got)]
             fails(got) == cycle.failed \cup Pull!Uids(good \ got)
             run2(got) == [run1(got) EXCEPT !.pc = "mark", !.want = {},
               !.failed = fails(got)]
  <1>1. cycle.pc = "bodies" /\ cycle \in Pull!Cycle
    BY DEF Pull!FetchBodies, Typed, Pull!TypeOK
  <1>2. /\ UNCHANGED Pull!upstream /\ bookmark' = bookmark /\ stayed' = stayed
        /\ takenOut' = takenOut /\ pullChanges' = pullChanges
    BY DEF Pull!FetchBodies
  <1>3. \A r \in there : r.folder \in Pull!Folder /\ r.uid \in Pull!Uid /\ r.msg \in Msg
    BY CopiesTyped DEF Typed
  <1>4. PICK got \in SUBSET good : \E kept \in SUBSET got :
           /\ kept \subseteq known(got)
           /\ pulled' = Pull!RowsAfter(got \ kept, Pull!Msgs(got \ known(got)))
           /\ \/ /\ cycle' = [run1(got) EXCEPT !.pc = "mark", !.want = {},
                               !.failed = @ \cup Pull!Uids(good \ got)]
                 /\ passed' = passed \cup Pull!Msgs(dead)
                 /\ IF got \ kept = good THEN Pull!Works ELSE Pull!Fails
              \/ /\ cycle' = Pull!Abandon(run1(got), f)
                 /\ Pull!Fails
                 /\ UNCHANGED passed
    BY DEF Pull!FetchBodies
  <1>5. seen(got) \in SUBSET Msg /\ fails(got) \in SUBSET Pull!Uid
    BY <1>1, <1>3 DEF Pull!Msgs, Pull!Uids, Pull!Cycle
  <1>6. /\ run1(got) \in Pull!Cycle /\ run1(got).at = cycle.at
             /\ run1(got).found = cycle.found
        /\ run1(got).lost = cycle.lost /\ run1(got).failed = cycle.failed
    <2> HIDE DEF seen
    <2> QED BY <1>1, <1>5 DEF Pull!Cycle
  <1>7. /\ run2(got) \in Pull!Cycle /\ run2(got).at = cycle.at
             /\ run2(got).found = cycle.found
        /\ run2(got).lost = cycle.lost
    <2> HIDE DEF run1, fails
    <2> QED BY <1>5, <1>6 DEF Pull!Cycle
  <1>8. cycle' = run2(got) \/ cycle' = Pull!Abandon(run1(got), f)
    <2>1. [run1(got) EXCEPT !.pc = "mark", !.want = {},
                            !.failed = @ \cup Pull!Uids(good \ got)] = run2(got)
      <3> HIDE DEF run1, there, dead, good
      <3> QED BY <1>6
    <2> HIDE DEF run1, run2, there, dead, good, known
    <2> QED BY <1>4, <2>1
  <1>9. cycle' \in Pull!Cycle /\ InFolder' /\ FoundWereLost'
    <2> HIDE DEF run1, run2
    <2>1. CASE cycle' = run2(got)
      BY <1>1, <1>7, <2>1, InsideTyped
    <2>2. CASE cycle' = Pull!Abandon(run1(got), f)
      <3>1. cycle.at <= Len(Pull!Searched)
        BY <1>1, FoldersKnown DEF Typed, InFolder
      <3>2. cycle' \in Pull!Cycle /\ cycle'.pc = "open" /\ cycle'.found = {}
        BY <1>6, <2>2, <3>1, AbandonTyped
      <3> QED BY <3>2, OutsideTyped
    <2> QED BY <1>8, <2>1, <2>2
  <1>10. pulled' \in [Msg -> GoodRow]
    <2>1. PICK kept \in SUBSET got : pulled' = Pull!RowsAfter(got \ kept,
               Pull!Msgs(got \ known(got)))
      BY <1>4
    <2>2. \A r \in got \ kept : r.folder \in Pull!Folder /\ r.uid \in Pull!Uid
          /\ r.msg \in Msg
      BY <1>3
    <2> HIDE DEF known, there, dead, good
    <2> QED BY <2>1, <2>2, RowsAfterTyped DEF Typed
  <1>11. pullFailures' = pullFailures \/ Pull!Fails
    BY <1>4 DEF Pull!Works
  <1>12. passed' \subseteq Msg
    <2>1. passed' = passed \cup Pull!Msgs(dead) \/ passed' = passed
      BY <1>4
    <2> QED BY <1>3, <2>1 DEF Typed, Pull!TypeOK, Pull!Msgs
  <1> QED BY <1>2, <1>9, <1>10, <1>11, <1>12, StepTyped DEF Typed, Pull!TypeOK

\* nextLastSeen gives a number between the old one and the greatest UID fetched;
\* below it nothing has failed.
LEMMA NextLastSeenBelow ==
  ASSUME NEW prev \in 0 .. MaxUid, NEW top \in 0 .. MaxUid, NEW failed \in SUBSET Pull!Uid
  PROVE  LET n == Pull!NextLastSeen(prev, top, failed) IN
         /\ n \in 0 .. MaxUid
         /\ prev <= n /\ (n <= top \/ n = prev)
         /\ \A u \in failed : u > prev => u > n
  <1> DEFINE last == IF top > prev THEN top ELSE prev
             low == {u \in failed : u > prev /\ u - 1 < last}
             least == CHOOSE u \in low : \A v \in low : u <= v
  <1>1. last \in 0 .. MaxUid /\ prev <= last /\ (last = top \/ last = prev)
    BY NumbersKnown
  <1>2. Pull!NextLastSeen(prev, top, failed) = IF low = {} THEN last ELSE least - 1
    BY DEF Pull!NextLastSeen
  <1>3. \A u \in failed : u \in Nat /\ u <= MaxUid /\ u \in 1 .. MaxUid
    BY NumbersKnown DEF Pull!Uid
  <1>4. CASE low = {}
    <2>1. \A u \in failed : u > prev => ~(u - 1 < last)
      BY <1>4
    <2> HIDE DEF low, last, least
    <2>2. \A u \in failed : u > prev => u > last
      BY <1>1, <1>3, <2>1, NumbersKnown
    <2> QED BY <1>1, <1>2, <1>4, <2>2, NumbersKnown
  <1>5. CASE low # {}
    <2>1. low \in SUBSET Nat
      BY <1>3
    <2>2. least \in low /\ \A v \in low : least <= v
      <3> HIDE DEF low
      <3> QED BY <1>5, <2>1, LeastNumber
    <2>3. least \in 1 .. MaxUid /\ least > prev /\ least - 1 < last
      <3> HIDE DEF least, last
      <3> QED BY <1>3, <2>2
    <2>4. \A u \in failed : u > prev => u > least - 1
      <3>1. ASSUME NEW u \in failed, u > prev PROVE u > least - 1
        <4>1. CASE u \in low
          <5> HIDE DEF low, least
          <5> QED BY <1>3, <2>2, <2>3, <4>1, NumbersKnown
        <4>2. CASE u \notin low
          <5>1. ~(u - 1 < last)
            BY <3>1, <4>2
          <5> HIDE DEF low, least, last
          <5> QED BY <1>1, <1>3, <2>3, <5>1, NumbersKnown
        <4> QED BY <4>1, <4>2
      <3> QED BY <3>1
    <2> HIDE DEF low, least, last
    <2> QED BY <1>1, <1>2, <1>5, <2>3, <2>4, NumbersKnown
  <1> QED BY <1>4, <1>5

\* Writing a bookmark keeps the types.
LEMMA WriteMarkTyped ==
  ASSUME NEW f \in Pull!Folder, Typed, Pull!WriteMark(f)
  PROVE  Typed'
  <1> DEFINE n == Pull!NextLastSeen(cycle.last, cycle.top, cycle.failed)
             b == cycle.byId /\ cycle.failed = {}
             q == [cycle EXCEPT !.byId = b]
  <1>1. /\ cycle.pc = "mark" /\ cycle \in Pull!Cycle /\ cycle.at \in 1 .. Len(Synced)
        /\ cycle.at <= Len(Pull!Searched)
    BY FoldersKnown DEF Pull!WriteMark, Typed, Pull!TypeOK, InFolder
  <1>2. /\ UNCHANGED Pull!upstream /\ pulled' = pulled /\ passed' = passed
             /\ stayed' = stayed
        /\ takenOut' = takenOut /\ pullChanges' = pullChanges
    BY DEF Pull!WriteMark, Pull!history
  <1>3. n \in 0 .. MaxUid /\ cycle.valid \in Nat
    BY <1>1, NextLastSeenBelow DEF Pull!Cycle
  <1>4. Pull!SaveMark(f, cycle.valid, n)
    BY DEF Pull!WriteMark
  <1>5. cycle' = Pull!Leave(q, f)
    BY DEF Pull!WriteMark
  <1>6. q \in Pull!Cycle /\ q.at = cycle.at
    <2>1. b \in BOOLEAN
      OBVIOUS
    <2> HIDE DEF b
    <2> QED BY <1>1, <2>1 DEF Pull!Cycle
  <1> HIDE DEF n, q
  <1>7. cycle' \in Pull!Cycle /\ cycle'.pc = "open" /\ cycle'.found = {}
    BY <1>1, <1>5, <1>6, LeaveTyped
  <1>8. bookmark' \in [Pull!Folder -> Pull!Bookmark \cup {NoMail}]
        /\ (pullFailures' = pullFailures \/ Pull!Fails)
    BY <1>3, <1>4, SavedTyped DEF Typed
  <1> QED BY <1>2, <1>7, <1>8, OutsideTyped, StepTyped DEF Typed, Pull!TypeOK, RowsPoint

\* The search for missing messages keeps the types when it begins,
LEMMA JudgeTyped == Typed /\ Pull!Judge => Typed'
  <1> SUFFICES ASSUME Typed, Pull!Judge PROVE Typed'
    OBVIOUS
  <1> DEFINE cands == {g \in cycle.lost : g.msg \notin cycle.seen /\ Pull!Untouched(g)}
             named == {g \in cands : ~Pull!Held(cands, g.folder)}
             s == [Pull!Search EXCEPT !.lost = named]
  <1>1. cycle \in Pull!Cycle
    BY DEF Typed, Pull!TypeOK
  <1>2. /\ UNCHANGED Pull!upstream /\ pulled' = pulled /\ bookmark' = bookmark
             /\ passed' = passed
        /\ stayed' = stayed /\ takenOut' = takenOut /\ pullChanges' = pullChanges
    BY DEF Pull!Judge, Pull!history
  <1>3. (cycle' = Pull!Idle \/ cycle' = s) /\ (pullFailures' = pullFailures \/ Pull!Fails)
    BY DEF Pull!Judge, Pull!Works
  <1>4. named \in SUBSET Pull!Ref
    BY <1>1 DEF Pull!Cycle
  <1>5. s \in Pull!Cycle /\ s.pc = "search" /\ s.found = {}
    <2> HIDE DEF named
    <2> QED BY <1>1, <1>4, IdleTyped DEF Pull!Cycle, Pull!Search
  <1>6. cycle' \in Pull!Cycle /\ cycle'.pc \in {"idle", "search"} /\ cycle'.found = {}
    <2> HIDE DEF s
    <2> QED BY <1>3, <1>5, IdleTyped
  <1> QED BY <1>2, <1>3, <1>6, OutsideTyped, StepTyped DEF Typed, Pull!TypeOK, RowsPoint

\* as each folder is asked,
LEMMA AskFolderTyped ==
  ASSUME NEW f \in Pull!Folder, Typed, Pull!AskFolder(f)
  PROVE  Typed'
  <1> DEFINE ask == {g \in cycle.lost : g.msg \notin Synthetic \cup Pull!Msgs(cycle.found)}
             here(bad) == {[folder |-> f, uid |-> r.uid, msg |-> r.msg] :
                             r \in {r \in Pull!In(f) : r.msg \in Pull!Msgs(ask \ bad)}}
             at == cycle.at + 1
             unsure(bad) == cycle.unsure \cup Pull!Msgs(bad)
             found(bad) == cycle.found \cup here(bad)
             s(bad) == [cycle EXCEPT !.at = at, !.unsure = unsure(bad),
               !.found = found(bad)]
  <1>1. cycle \in Pull!Cycle /\ cycle.pc = "search" /\ cycle.at <= Len(Pull!Searched)
    BY DEF Pull!AskFolder, Typed, Pull!TypeOK
  <1>2. /\ UNCHANGED Pull!upstream /\ pulled' = pulled /\ bookmark' = bookmark
             /\ passed' = passed
        /\ stayed' = stayed /\ takenOut' = takenOut /\ pullChanges' = pullChanges
    BY DEF Pull!AskFolder, Pull!history
  <1>3. PICK bad \in SUBSET ask : cycle' = s(bad)
             /\ (pullFailures' = pullFailures \/ Pull!Fails)
    BY DEF Pull!AskFolder, Pull!Works
  <1>4. /\ at \in 1 .. (Len(Pull!Searched) + 1)
        /\ unsure(bad) \in SUBSET Msg
    BY <1>1, FoldersKnown DEF Pull!Cycle, Pull!Ref, Pull!Msgs
  <1>5. here(bad) \in SUBSET Pull!Ref
    <2>1. \A r \in Pull!In(f) : r.uid \in Pull!Uid /\ r.msg \in Msg
      BY CopiesTyped DEF Typed
    <2>2. \A r \in Pull!In(f) : [folder |-> f, uid |-> r.uid, msg |-> r.msg] \in Pull!Ref
      BY <2>1 DEF Pull!Ref
    <2> QED BY <2>2
  <1>6. found(bad) \in SUBSET Pull!Ref
    BY <1>1, <1>5 DEF Pull!Cycle
  <1>7. /\ cycle' \in Pull!Cycle /\ cycle'.pc = "search" /\ cycle'.found = found(bad)
        /\ cycle'.lost = cycle.lost
    <2> HIDE DEF at, unsure, found, ask
    <2> QED BY <1>1, <1>3, <1>4, <1>6 DEF Pull!Cycle
  <1>8. FoundWereLost'
    <2>1. Pull!Msgs(here(bad)) \subseteq Pull!Msgs(cycle.lost)
      BY DEF Pull!Msgs
    <2>2. Pull!Msgs(found(bad)) = Pull!Msgs(cycle.found) \cup Pull!Msgs(here(bad))
      <3> HIDE DEF here
      <3> QED BY DEF Pull!Msgs
    <2>3. Pull!Msgs(cycle.found) \subseteq Pull!Msgs(cycle.lost)
      BY DEF Typed, FoundWereLost
    <2>4. Pull!Msgs(found(bad)) \subseteq Pull!Msgs(cycle.lost)
      <3> HIDE DEF here, found
      <3> QED BY <2>1, <2>2, <2>3
    <2> HIDE DEF found
    <2> QED BY <1>7, <2>4 DEF FoundWereLost, Pull!Msgs
  <1>9. InFolder'
    BY <1>7 DEF InFolder
  <1> QED BY <1>2, <1>3, <1>7, <1>8, <1>9, StepTyped DEF Typed, Pull!TypeOK, RowsPoint

\* and when it decides.
LEMMA DecideTyped == Typed /\ Pull!Decide => Typed'
  <1> SUFFICES ASSUME Typed, Pull!Decide PROVE Typed'
    OBVIOUS
  <1> DEFINE lost(m) == CHOOSE g \in cycle.lost : g.msg = m
             s == [Pull!Idle EXCEPT !.pc = "vault", !.lost = Pull!GoneForGood]
  <1>1. cycle \in Pull!Cycle
    BY DEF Typed, Pull!TypeOK
  <1>2. /\ UNCHANGED Pull!upstream /\ bookmark' = bookmark /\ passed' = passed
        /\ stayed' = stayed /\ takenOut' = takenOut /\ pullChanges' = pullChanges
    BY DEF Pull!Decide, Pull!history
  <1>3. cycle' = Pull!Idle \/ cycle' = s
    BY DEF Pull!Decide
  <1>4. s \in Pull!Cycle /\ s.pc = "vault" /\ s.found = {}
    <2>1. Pull!GoneForGood \in SUBSET Pull!Ref
      BY <1>1 DEF Pull!Cycle, Pull!GoneForGood
    <2> QED BY <2>1, IdleTyped DEF Pull!Cycle
  <1>5. cycle' \in Pull!Cycle /\ cycle'.pc \in {"idle", "vault"} /\ cycle'.found = {}
    <2> HIDE DEF s
    <2> QED BY <1>3, <1>4, IdleTyped
  <1>6. ASSUME NEW m \in Pull!Msgs(cycle.found)
        PROVE  Pull!Follow(lost(m)) \in GoodRow /\ lost(m).msg = m
               /\ (pulled[m] # NoMail => Pull!Follow(lost(m)) # NoMail)
    <2> DEFINE g == lost(m)
               new == CHOOSE r \in cycle.found : r.msg = m
               t == [pulled[m] EXCEPT !.folder = new.folder, !.uid = new.uid]
    <2>1. g \in cycle.lost /\ g.msg = m
      BY <1>6 DEF Typed, FoundWereLost, Pull!Msgs
    <2>2. new \in cycle.found
      BY <1>6 DEF Pull!Msgs
    <2>3. new \in Pull!Ref /\ g \in Pull!Ref
      BY <1>1, <2>1, <2>2 DEF Pull!Cycle
    <2>4. new.folder \in Pull!Folder /\ new.uid \in 1 .. MaxUid /\ new.uid \in 0 .. MaxUid
          /\ m \in Msg
      BY <2>1, <2>3, NumbersKnown DEF Pull!Ref, Pull!Uid
    <2>5. pulled[m] \in GoodRow
      BY <2>4 DEF Typed, RowsPoint
    <2>6. Pull!Follow(g) = pulled[m] \/ (pulled[m] # NoMail /\ Pull!Follow(g) = t)
      BY <2>1 DEF Pull!Follow, Pull!Mirrors
    <2>7. ASSUME pulled[m] # NoMail PROVE t \in GoodRow /\ t # NoMail
      <3>1. pulled[m] \in Pull!MessageRow
        BY <2>5, <2>7 DEF GoodRow
      <3> HIDE DEF new
      <3>2. t \in Pull!MessageRow /\ t.folder = new.folder
        BY <2>4, <3>1 DEF Pull!MessageRow
      <3> HIDE DEF t
      <3> QED BY <2>4, <3>2, PullNone DEF GoodRow
    <2> HIDE DEF g, t, new, lost
    <2> QED BY <2>1, <2>5, <2>6, <2>7 DEF g
  <1>7. PICK kept \in SUBSET Pull!Msgs(cycle.found) :
          /\ pulled' = [m \in Msg |-> IF m \in Pull!Msgs(cycle.found) \ kept
               THEN Pull!Follow(lost(m)) ELSE pulled[m]]
          /\ (pullFailures' = pullFailures \/ Pull!Fails)
    BY DEF Pull!Decide, Pull!Works
  <1>8. pulled' \in [Msg -> GoodRow]
    <2> HIDE DEF lost
    <2> QED BY <1>6, <1>7 DEF Typed, RowsPoint
  <1> QED BY <1>2, <1>5, <1>7, <1>8, OutsideTyped, StepTyped DEF Typed, Pull!TypeOK

\* Vaulting keeps the types.
LEMMA VaultTyped ==
  ASSUME NEW g \in Pull!Ref, Typed, Pull!Vault(g)
  PROVE  Typed'
  <1> DEFINE t == [pulled[g.msg] EXCEPT !.live = FALSE, !.uid = 0]
  <1>1. cycle \in Pull!Cycle /\ cycle.pc = "vault" /\ g.msg \in Msg
    BY DEF Pull!Vault, Typed, Pull!TypeOK, Pull!Ref
  <1>2. /\ UNCHANGED Pull!upstream /\ bookmark' = bookmark /\ passed' = passed
        /\ stayed' = stayed /\ pullChanges' = pullChanges
    BY DEF Pull!Vault
  <1>3. \/ Pull!Untouched(g)
             /\ pulled' = [pulled EXCEPT ![g.msg].live = FALSE, ![g.msg].uid = 0]
           /\ takenOut' = takenOut \ {g.msg} /\ Pull!Works
        \/ UNCHANGED <<pulled, takenOut>> /\ (Pull!Fails \/ Pull!Works)
    BY DEF Pull!Vault
  <1>4. pulled' \in [Msg -> GoodRow] /\ takenOut' \subseteq Msg
        /\ (pullFailures' = pullFailures \/ Pull!Fails)
    <2>1. CASE Pull!Untouched(g)
               /\ pulled' = [pulled EXCEPT ![g.msg].live = FALSE, ![g.msg].uid = 0]
               /\ takenOut' = takenOut \ {g.msg} /\ Pull!Works
      <3>1. pulled[g.msg] \in Pull!MessageRow
        BY <1>1, <2>1 DEF Typed, RowsPoint, GoodRow, Pull!Untouched, Pull!Mirrors
      <3>2. t \in Pull!MessageRow /\ t.uid = 0
        BY <3>1, NumbersKnown DEF Pull!MessageRow
      <3>3. pulled' = [pulled EXCEPT ![g.msg] = t]
        BY <2>1
      <3> HIDE DEF t
      <3>4. t \in GoodRow
        BY <3>2 DEF GoodRow
      <3> QED BY <2>1, <3>3, <3>4 DEF Typed, Pull!TypeOK, RowsPoint, Pull!Works
    <2>2. CASE UNCHANGED <<pulled, takenOut>> /\ (Pull!Fails \/ Pull!Works)
      BY <2>2 DEF Typed, Pull!TypeOK, RowsPoint, Pull!Works
    <2> QED BY <1>3, <2>1, <2>2
  <1>5. cycle' \in Pull!Cycle /\ cycle'.pc \in {"idle", "vault"} /\ FoundWereLost'
    <2> DEFINE l == cycle.lost \ {g}
    <2>1. CASE cycle' = Pull!Idle
      BY <2>1, IdleTyped DEF FoundWereLost, Pull!Msgs
    <2>2. CASE cycle' = [cycle EXCEPT !.lost = l]
      <3>1. l \in SUBSET Pull!Ref
        BY <1>1 DEF Pull!Cycle
      <3>2. cycle' \in Pull!Cycle /\ cycle'.pc = "vault" /\ cycle'.found = cycle.found
            /\ cycle'.lost = l
        <4> HIDE DEF l
        <4> QED BY <1>1, <2>2, <3>1 DEF Pull!Cycle
      <3>3. cycle.found = {}
        BY <1>1 DEF Typed, FoundWereLost
      <3> QED BY <3>2, <3>3 DEF FoundWereLost, Pull!Msgs
    <2> QED BY <2>1, <2>2 DEF Pull!Vault
  <1>6. InFolder'
    BY <1>5 DEF InFolder
  <1> QED BY <1>2, <1>4, <1>5, <1>6, StepTyped DEF Typed, Pull!TypeOK

\* A crash keeps the types.
LEMMA PullCrashTyped == Typed /\ Pull!Crash => Typed'
  <1> SUFFICES ASSUME Typed, Pull!Crash PROVE Typed'
    OBVIOUS
  <1>1. /\ UNCHANGED Pull!upstream /\ pulled' = pulled /\ bookmark' = bookmark
             /\ passed' = passed
        /\ stayed' = stayed /\ takenOut' = takenOut /\ pullChanges' = pullChanges
        /\ cycle' = Pull!Idle /\ Pull!Fails
    BY DEF Pull!Crash, Pull!history
  <1> QED BY <1>1, IdleTyped, OutsideTyped, StepTyped DEF Typed, Pull!TypeOK, RowsPoint

-----------------------------------------------------------------------------
(* Types upstream, and in the hands of the user. *)

\* What others do to the folders leaves rows and bookmarks.
LEMMA OthersTyped ==
  ASSUME Typed, upMail' \subseteq Pull!Mail, upNext' \in [Pull!Folder -> 1 .. (MaxUid + 1)],
         upValid' \in [Pull!Folder -> Nat], UidsApart', UidsBelowNext',
         pulled' = pulled, bookmark' = bookmark, cycle' = cycle \/ cycle' = Pull!Idle,
         passed' = passed, takenOut' = takenOut, stayed' \subseteq stayed,
         pullChanges' \in 0 .. MaxChanges, pullFailures' = pullFailures
  PROVE  Typed'
  <1>1. cycle' \in Pull!Cycle /\ InFolder' /\ FoundWereLost'
    <2>1. CASE cycle' = cycle
      BY <2>1 DEF Typed, Pull!TypeOK, InFolder, FoundWereLost, Pull!Msgs
    <2>2. CASE cycle' = Pull!Idle
      BY <2>2, IdleTyped, OutsideTyped
    <2> QED BY <2>1, <2>2
  <1>2. Pull!TypeOK'
    BY <1>1 DEF Typed, Pull!TypeOK
  <1> QED BY <1>1, <1>2 DEF Typed, RowsPoint

\* A change is counted within its bound.
LEMMA ChangeTyped ==
  ASSUME Typed, Pull!Change
  PROVE  pullChanges' \in 0 .. MaxChanges
  BY NumbersKnown DEF Typed, Pull!TypeOK, Pull!Change

\* Filing a message keeps the types: it has the next UID.
LEMMA FileTyped ==
  ASSUME NEW m \in Msg, NEW f \in Pull!Folder, Typed, Pull!File(m, f)
  PROVE  Typed'
  <1> DEFINE n == upNext[f]
             c == [folder |-> f, uid |-> n, msg |-> m, del |-> FALSE]
  <1>1. /\ upMail' = upMail \cup {c} /\ upNext' = [upNext EXCEPT ![f] = @ + 1]
        /\ upValid' = upValid /\ pulled' = pulled /\ bookmark' = bookmark /\ cycle' = cycle
             /\ passed' = passed
        /\ stayed' = stayed /\ takenOut' = takenOut /\ pullFailures' = pullFailures
        /\ n <= MaxUid /\ Pull!Change
    BY DEF Pull!File, Pull!history
  <1>2. n \in 1 .. MaxUid /\ upNext \in [Pull!Folder -> 1 .. (MaxUid + 1)]
    BY <1>1, NumbersKnown DEF Typed, Pull!TypeOK
  <1>3. c \in Pull!Mail /\ c.folder = f /\ c.uid = n
    BY <1>2 DEF Pull!Mail, Pull!Uid
  <1>4. \A r \in upMail : r \in Pull!Mail /\ r.folder \in Pull!Folder /\ r.uid \in Nat
                        /\ r.uid < upNext[r.folder]
    BY NumbersKnown DEF Typed, Pull!TypeOK, UidsBelowNext, Pull!Mail, Pull!Uid
  <1> HIDE DEF c
  <1>5. upNext' \in [Pull!Folder -> 1 .. (MaxUid + 1)] /\ upNext'[f] = n + 1
        /\ \A g \in Pull!Folder : g # f => upNext'[g] = upNext[g]
    BY <1>1, <1>2, NumbersKnown
  <1>6. upMail' \subseteq Pull!Mail
    BY <1>1, <1>3 DEF Typed, Pull!TypeOK
  <1>7. UidsApart'
    <2>1. ASSUME NEW r \in upMail, r.folder = f PROVE r.uid # n
      BY <1>2, <1>4, <2>1
    <2> HIDE DEF n
    <2> QED BY <1>1, <1>3, <2>1 DEF Typed, UidsApart
  <1>8. UidsBelowNext'
    <2>1. ASSUME NEW r \in upMail PROVE r.uid < upNext'[r.folder]
      <3>1. CASE r.folder = f
        <4> HIDE DEF n
        <4>1. r.uid < n
          BY <1>4, <3>1 DEF n
        <4> QED BY <1>2, <1>4, <1>5, <3>1, <4>1
      <3>2. CASE r.folder # f
        BY <1>4, <1>5, <3>2
      <3> QED BY <3>1, <3>2
    <2>2. c.uid < upNext'[c.folder]
      <3> HIDE DEF n
      <3> QED BY <1>2, <1>3, <1>5
    <2> QED BY <1>1, <2>1, <2>2 DEF UidsBelowNext
  <1>9. upValid' \in [Pull!Folder -> Nat]
    BY <1>1 DEF Typed, Pull!TypeOK
  <1> QED BY <1>1, <1>5, <1>6, <1>7, <1>8, <1>9, ChangeTyped, OthersTyped

\* Copies go.
LEMMA FewerTyped ==
  ASSUME Typed, upMail' \in SUBSET upMail, UNCHANGED <<upNext, upValid>>
  PROVE  /\ upMail' \subseteq Pull!Mail /\ UidsApart' /\ UidsBelowNext'
         /\ upNext' \in [Pull!Folder -> 1 .. (MaxUid + 1)]
              /\ upValid' \in [Pull!Folder -> Nat]
  BY DEF Typed, Pull!TypeOK, UidsApart, UidsBelowNext

\* An expunge keeps the types.
LEMMA ExpungeTyped ==
  ASSUME NEW r \in upMail, Typed, Pull!Expunge(r)
  PROVE  Typed'
  <1>1. /\ upMail' \in SUBSET upMail /\ UNCHANGED <<upNext, upValid>> /\ pulled' = pulled
        /\ bookmark' = bookmark /\ cycle' = cycle /\ passed' = passed
        /\ stayed' \subseteq stayed /\ takenOut' = takenOut /\ pullFailures' = pullFailures
        /\ Pull!Change
    BY DEF Pull!Expunge, Pull!Remove
  <1> QED BY <1>1, ChangeTyped, FewerTyped, OthersTyped

\* A mark for deletion keeps the types.
LEMMA FlagTyped ==
  ASSUME NEW r \in upMail, Typed, Pull!Flag(r)
  PROVE  Typed'
  <1> DEFINE d == ~r.del
             c == [r EXCEPT !.del = d]
  <1>1. /\ upMail' = (upMail \ {r}) \cup {c} /\ upNext' = upNext /\ upValid' = upValid
             /\ pulled' = pulled
        /\ bookmark' = bookmark /\ cycle' = cycle /\ passed' = passed
        /\ stayed' = stayed /\ takenOut' = takenOut /\ pullFailures' = pullFailures
             /\ Pull!Change
    BY DEF Pull!Flag, Pull!history
  <1>2. r \in Pull!Mail /\ d \in BOOLEAN
    BY DEF Typed, Pull!TypeOK
  <1> HIDE DEF d
  <1>3. c \in Pull!Mail /\ c.folder = r.folder /\ c.uid = r.uid /\ c.msg = r.msg
    BY <1>2 DEF Pull!Mail
  <1> HIDE DEF c
  <1>4. upMail' \subseteq Pull!Mail
    BY <1>1, <1>3 DEF Typed, Pull!TypeOK
  <1>5. UidsApart'
    BY <1>1, <1>3 DEF Typed, UidsApart
  <1>6. UidsBelowNext'
    BY <1>1, <1>3 DEF Typed, UidsBelowNext
  <1>7. upNext' \in [Pull!Folder -> 1 .. (MaxUid + 1)] /\ upValid' \in [Pull!Folder -> Nat]
    BY <1>1 DEF Typed, Pull!TypeOK
  <1> QED BY <1>1, <1>4, <1>5, <1>6, <1>7, ChangeTyped, OthersTyped

\* A new UIDVALIDITY keeps the types: the new UIDs are apart and below the next.
LEMMA RenumberTyped ==
  ASSUME NEW f \in Pull!Folder, Typed, Pull!Renumber(f)
  PROVE  Typed'
  <1> DEFINE Again(r) == [r EXCEPT !.uid = RankIn(f, r)]
             old == upMail \ Pull!In(f)
             fresh == {Again(r) : r \in Pull!In(f)}
             n == Pull!Cardinality(Pull!In(f)) + 1
             v == upValid[f] + 1
  <1>1. /\ upMail' = old \cup fresh /\ upNext' = [upNext EXCEPT ![f] = n]
        /\ upValid' = [upValid EXCEPT ![f] = v] /\ pulled' = pulled
        /\ bookmark' = bookmark /\ (cycle' = cycle \/ cycle' = Pull!Idle)
             /\ passed' = passed
        /\ stayed' = stayed /\ takenOut' = takenOut /\ pullFailures' = pullFailures
             /\ Pull!Change
    <2>1. /\ upMail' = old \cup fresh
          /\ upNext' = [upNext EXCEPT ![f] = n] /\ upValid' = [upValid EXCEPT ![f] = v]
      BY DEF Pull!Renumber, RankIn
    <2> HIDE DEF old, fresh, n, v
    <2> QED BY <2>1 DEF Pull!Renumber, Pull!history
  <1>2. upMail \subseteq Pull!Mail /\ UidsApart
    BY DEF Typed, Pull!TypeOK
  <1>3. ASSUME NEW r \in Pull!In(f)
        PROVE  /\ RankIn(f, r) \in 1 .. MaxUid /\ RankIn(f, r) < n
               /\ \A s \in Pull!In(f) : s # r => RankIn(f, s) # RankIn(f, r)
    <2>1. /\ RankIn(f, r) \in 1 .. MaxUid /\ RankIn(f, r) <= Cardinality(Pull!In(f))
          /\ \A s \in Pull!In(f) : s # r => RankIn(f, s) # RankIn(f, r)
      BY <1>2, RanksKnown
    <2>2. Cardinality(Pull!In(f)) \in Nat
      BY <1>2, CopiesFew, NumbersKnown
    <2> QED BY <2>1, <2>2, NumbersKnown, SameCardinality
  <1>4. n \in 1 .. (MaxUid + 1) /\ v \in Nat
    <2>1. Cardinality(Pull!In(f)) \in 0 .. MaxUid
      BY <1>2, CopiesFew
    <2>2. Pull!Cardinality(Pull!In(f)) \in 0 .. MaxUid
      BY <2>1, SameCardinality
    <2>3. upValid[f] \in Nat
      BY DEF Typed, Pull!TypeOK
    <2> QED BY <2>2, <2>3, NumbersKnown
  <1>5. ASSUME NEW r \in Pull!In(f)
        PROVE  Again(r) \in Pull!Mail /\ Again(r).folder = f /\ Again(r).uid = RankIn(f, r)
    <2>1. r \in Pull!Mail /\ r.folder = f
      BY <1>2 DEF Pull!In
    <2> DEFINE k == RankIn(f, r)
    <2>2. k \in Pull!Uid
      BY <1>3 DEF Pull!Uid
    <2> HIDE DEF k
    <2>3. [r EXCEPT !.uid = k] \in Pull!Mail /\ [r EXCEPT !.uid = k].folder = f
          /\ [r EXCEPT !.uid = k].uid = k
      BY <2>1, <2>2 DEF Pull!Mail
    <2> QED BY <2>3 DEF k
  <1>6. \A r \in old : r \in upMail /\ r \in Pull!Mail /\ r.folder \in Pull!Folder
        /\ r.folder # f
    BY <1>2 DEF Pull!In, Pull!Mail
  <1> HIDE DEF Again, old, n, v
  <1>7. \A r \in fresh : \E s \in Pull!In(f) : r = Again(s)
    OBVIOUS
  <1> HIDE DEF fresh
  <1>8. upMail' \subseteq Pull!Mail
    BY <1>1, <1>5, <1>6, <1>7
  <1>9. UidsApart'
    <2>1. ASSUME NEW r \in fresh, NEW s \in fresh, r.uid = s.uid PROVE r = s
      BY <1>3, <1>5, <1>7, <2>1
    <2>2. ASSUME NEW r \in old, NEW s \in fresh PROVE r.folder # s.folder
      BY <1>5, <1>6, <1>7
    <2>3. ASSUME NEW r \in old, NEW s \in old, r.folder = s.folder, r.uid = s.uid
                 PROVE r = s
      BY <1>6, <2>3 DEF Typed, UidsApart
    <2> QED BY <1>1, <2>1, <2>2, <2>3 DEF UidsApart
  <1>10. /\ upNext' \in [Pull!Folder -> 1 .. (MaxUid + 1)]
              /\ upValid' \in [Pull!Folder -> Nat]
         /\ upNext'[f] = n /\ \A g \in Pull!Folder : g # f => upNext'[g] = upNext[g]
    BY <1>1, <1>4 DEF Typed, Pull!TypeOK
  <1>11. UidsBelowNext'
    <2>1. ASSUME NEW r \in old PROVE r.uid < upNext'[r.folder]
      BY <1>6, <1>10 DEF Typed, UidsBelowNext
    <2>2. ASSUME NEW r \in fresh PROVE r.uid < upNext'[r.folder]
      BY <1>3, <1>5, <1>7, <1>10
    <2> QED BY <1>1, <2>1, <2>2 DEF UidsBelowNext
  <1> QED BY <1>1, <1>8, <1>9, <1>10, <1>11, ChangeTyped, OthersTyped

\* What the user does to a row and what is pushed for it, when the cycle and the
\* bookmarks are left.
LEMMA PullRowTyped ==
  ASSUME Typed, NEW m \in Msg, NEW t \in GoodRow, pulled' = [pulled EXCEPT ![m] = t],
         upMail' \in SUBSET upMail,
           UNCHANGED <<upNext, upValid, bookmark, cycle, passed, pullFailures>>,
         takenOut' \subseteq takenOut \cup {m}, stayed' \subseteq stayed,
         pullChanges' \in 0 .. MaxChanges
  PROVE  Typed'
  <1>1. pulled' \in [Msg -> GoodRow]
    BY DEF Typed, RowsPoint
  <1>2. pulled' \in [Msg -> Pull!MessageRow \cup {NoMail}]
    BY <1>1 DEF GoodRow
  <1>3. Pull!TypeOK'
    BY <1>2 DEF Typed, Pull!TypeOK
  <1> QED BY <1>1, <1>3, FewerTyped
          DEF Typed, RowsPoint, InFolder, FoundWereLost, Pull!Msgs

\* Local delivery keeps the types.
LEMMA DeliverHereTyped ==
  ASSUME NEW m \in Msg, Typed, Pull!DeliverHere(m)
  PROVE  Typed'
  <1> DEFINE t == [live |-> TRUE, owned |-> FALSE, folder |-> NoMail, uid |-> 0,
                   spam |-> FALSE, leaving |-> FALSE, queue |-> NoMail]
  <1>1. t \in Pull!MessageRow /\ ~t.owned
    BY NumbersKnown DEF Pull!MessageRow
  <1>2. pulled' = [pulled EXCEPT ![m] = t] /\ Pull!Change
        /\ UNCHANGED <<upMail, upNext, upValid, bookmark, cycle, passed, stayed, takenOut,
             pullFailures>>
    BY DEF Pull!DeliverHere, Pull!upstream, Pull!history
  <1> HIDE DEF t
  <1>3. t \in GoodRow
    BY <1>1 DEF GoodRow
  <1> QED BY <1>2, <1>3, ChangeTyped, PullRowTyped

\* What is queued names a copy.
LEMMA QueuedTyped ==
  ASSUME Typed, NEW m \in Msg, pulled[m] # NoMail, NEW d \in BOOLEAN
  PROVE  /\ pulled[m] \in Pull!MessageRow
         /\ pulled[m].owned /\ pulled[m].uid > 0 => pulled[m].folder \in Pull!Folder
         /\ Pull!Queued(m, d) \in Pull!Entry \cup {NoMail}
  <1>1. pulled[m] \in GoodRow
    BY DEF Typed, RowsPoint
  <1>2. /\ pulled[m] \in Pull!MessageRow
        /\ pulled[m].owned /\ pulled[m].uid > 0 => pulled[m].folder \in Pull!Folder
    BY <1>1 DEF GoodRow
  <1>3. Pull!Mirrors(m) => pulled[m].folder \in Pull!Folder /\ pulled[m].uid \in Pull!Uid
    BY <1>2, NumbersKnown DEF Pull!Mirrors, Pull!Uid, Pull!MessageRow
  <1>4. pulled[m].queue \in Pull!Entry \cup {NoMail}
    BY <1>2 DEF Pull!MessageRow
  <1> QED BY <1>2, <1>3, <1>4 DEF Pull!Queued, Pull!Entry

\* An edit writes one row, which is again a good one.
LEMMA EditRow ==
  ASSUME NEW m \in Msg, Typed, Pull!Edit(m)
  PROVE  \E t \in GoodRow : t # NoMail /\ pulled' = [pulled EXCEPT ![m] = t]
  <1> DEFINE q0 == Pull!Queued(m, FALSE)
             q1 == Pull!Queued(m, TRUE)
             a == [pulled[m] EXCEPT !.queue = q0]
             b == [pulled[m] EXCEPT !.leaving = TRUE, !.queue = q1]
             c == [pulled[m] EXCEPT !.leaving = FALSE]
             d == [pulled[m] EXCEPT !.live = FALSE, !.queue = q1]
  <1>1. pulled[m] # NoMail
    BY DEF Pull!Edit
  <1>2. pulled[m] \in Pull!MessageRow
        /\ (pulled[m].owned /\ pulled[m].uid > 0 => pulled[m].folder \in Pull!Folder)
        /\ q0 \in Pull!Entry \cup {NoMail} /\ q1 \in Pull!Entry \cup {NoMail}
    BY <1>1, QueuedTyped
  <1>3. \E t \in {a, b, c, d} : pulled' = [pulled EXCEPT ![m] = t]
    <2>1. \/ pulled' = [pulled EXCEPT ![m].queue = q0]
          \/ pulled' = [pulled EXCEPT ![m].leaving = TRUE, ![m].queue = q1]
          \/ pulled' = [pulled EXCEPT ![m].leaving = FALSE]
          \/ pulled' = [pulled EXCEPT ![m].live = FALSE, ![m].queue = q1]
      BY DEF Pull!Edit
    <2> HIDE DEF q0, q1
    <2>2. pulled \in [Msg -> GoodRow]
      BY DEF Typed, RowsPoint
    <2>3. CASE pulled' = [pulled EXCEPT ![m].queue = q0]
      BY <2>2, <2>3
    <2>4. CASE pulled' = [pulled EXCEPT ![m].leaving = TRUE, ![m].queue = q1]
      <3>1. pulled' = [pulled EXCEPT ![m] = b]
        BY <2>2, <2>4
      <3> QED BY <3>1
    <2>5. CASE pulled' = [pulled EXCEPT ![m].leaving = FALSE]
      BY <2>2, <2>5
    <2>6. CASE pulled' = [pulled EXCEPT ![m].live = FALSE, ![m].queue = q1]
      <3>1. pulled' = [pulled EXCEPT ![m] = d]
        BY <2>2, <2>6
      <3> QED BY <3>1
    <2> QED BY <2>1, <2>3, <2>4, <2>5, <2>6
  <1>4. ASSUME NEW t \in {a, b, c, d} PROVE t \in GoodRow /\ t # NoMail
    <2> HIDE DEF q0, q1
    <2>1. CASE t = a
      <3>1. t \in Pull!MessageRow /\ t.owned = pulled[m].owned /\ t.uid = pulled[m].uid
            /\ t.folder = pulled[m].folder
        BY <1>2, <2>1 DEF Pull!MessageRow
      <3> QED BY <1>2, <3>1, PullNone DEF GoodRow
    <2>2. CASE t = b
      <3>1. t \in Pull!MessageRow /\ t.owned = pulled[m].owned /\ t.uid = pulled[m].uid
            /\ t.folder = pulled[m].folder
        BY <1>2, <2>2 DEF Pull!MessageRow
      <3> QED BY <1>2, <3>1, PullNone DEF GoodRow
    <2>3. CASE t = c
      <3>1. t \in Pull!MessageRow /\ t.owned = pulled[m].owned /\ t.uid = pulled[m].uid
            /\ t.folder = pulled[m].folder
        BY <1>2, <2>3 DEF Pull!MessageRow
      <3> QED BY <1>2, <3>1, PullNone DEF GoodRow
    <2>4. CASE t = d
      <3>1. t \in Pull!MessageRow /\ t.owned = pulled[m].owned /\ t.uid = pulled[m].uid
            /\ t.folder = pulled[m].folder
        BY <1>2, <2>4 DEF Pull!MessageRow
      <3> QED BY <1>2, <3>1, PullNone DEF GoodRow
    <2> QED BY <2>1, <2>2, <2>3, <2>4
  <1> HIDE DEF a, b, c, d
  <1> QED BY <1>3, <1>4

\* An edit keeps the types.
LEMMA EditTyped ==
  ASSUME NEW m \in Msg, Typed, Pull!Edit(m)
  PROVE  Typed'
  <1>1. /\ UNCHANGED <<upNext, upValid, bookmark, cycle, passed, pullFailures>>
        /\ upMail' \in SUBSET upMail /\ stayed' \subseteq stayed
        /\ takenOut' \subseteq takenOut \cup {m} /\ Pull!Change
    BY DEF Pull!Edit, Pull!upstream
  <1>2. PICK t \in GoodRow : pulled' = [pulled EXCEPT ![m] = t]
    BY EditRow
  <1> QED BY <1>1, <1>2, ChangeTyped, PullRowTyped

\* So does a restoration,
LEMMA RestoreRow ==
  ASSUME NEW m \in Msg, Typed, Pull!Restore(m)
  PROVE  \E t \in GoodRow : t # NoMail /\ pulled' = [pulled EXCEPT ![m] = t]
  <1> DEFINE t == [pulled[m] EXCEPT !.live = TRUE, !.leaving = FALSE]
  <1>1. pulled' = [pulled EXCEPT ![m].live = TRUE, ![m].leaving = FALSE]
        /\ pulled[m] # NoMail
    BY DEF Pull!Restore
  <1>2. pulled \in [Msg -> GoodRow]
    BY DEF Typed, RowsPoint
  <1>3. pulled' = [pulled EXCEPT ![m] = t]
    BY <1>1, <1>2
  <1>4. pulled[m] \in Pull!MessageRow
        /\ (pulled[m].owned /\ pulled[m].uid > 0 => pulled[m].folder \in Pull!Folder)
    BY <1>1, QueuedTyped
  <1>5. t \in Pull!MessageRow /\ t.owned = pulled[m].owned /\ t.uid = pulled[m].uid
        /\ t.folder = pulled[m].folder
    BY <1>4 DEF Pull!MessageRow
  <1> HIDE DEF t
  <1>6. t \in GoodRow /\ t # NoMail
    BY <1>4, <1>5, PullNone DEF GoodRow
  <1> QED BY <1>3, <1>6

\* A restoration keeps the types.
LEMMA RestoreTyped ==
  ASSUME NEW m \in Msg, Typed, Pull!Restore(m)
  PROVE  Typed'
  <1>1. /\ UNCHANGED <<upNext, upValid, bookmark, cycle, passed, pullFailures>>
        /\ upMail' \in SUBSET upMail /\ stayed' \subseteq stayed
        /\ takenOut' \subseteq takenOut \cup {m} /\ Pull!Change
    BY DEF Pull!Restore, Pull!upstream
  <1>2. PICK t \in GoodRow : pulled' = [pulled EXCEPT ![m] = t]
    BY RestoreRow
  <1> QED BY <1>1, <1>2, ChangeTyped, PullRowTyped

\* and so does a push.
LEMMA PushRow ==
  ASSUME NEW m \in Msg, Typed, Pull!Push(m)
  PROVE  \E t \in GoodRow : t # NoMail /\ pulled' = [pulled EXCEPT ![m] = t]
  <1> DEFINE t == [pulled[m] EXCEPT !.queue = NoMail]
  <1>1. pulled' = [pulled EXCEPT ![m].queue = NoMail] /\ pulled[m] # NoMail
    BY DEF Pull!Push
  <1>2. pulled \in [Msg -> GoodRow]
    BY DEF Typed, RowsPoint
  <1>3. pulled' = [pulled EXCEPT ![m] = t]
    BY <1>1, <1>2
  <1>4. pulled[m] \in Pull!MessageRow
        /\ (pulled[m].owned /\ pulled[m].uid > 0 => pulled[m].folder \in Pull!Folder)
    BY <1>1, QueuedTyped
  <1>5. t \in Pull!MessageRow /\ t.owned = pulled[m].owned /\ t.uid = pulled[m].uid
        /\ t.folder = pulled[m].folder
    BY <1>4 DEF Pull!MessageRow
  <1> HIDE DEF t
  <1>6. t \in GoodRow /\ t # NoMail
    BY <1>4, <1>5, PullNone DEF GoodRow
  <1> QED BY <1>3, <1>6

\* A push keeps the types.
LEMMA PushTyped ==
  ASSUME NEW m \in Msg, Typed, Pull!Push(m)
  PROVE  Typed'
  <1>1. /\ UNCHANGED <<upNext, upValid, bookmark, cycle, passed, takenOut, pullChanges,
             pullFailures>>
        /\ upMail' \in SUBSET upMail /\ stayed' \subseteq stayed
    BY DEF Pull!Push
  <1>2. takenOut' \subseteq takenOut \cup {m} /\ pullChanges' \in 0 .. MaxChanges
    BY <1>1 DEF Typed, Pull!TypeOK
  <1>3. PICK t \in GoodRow : pulled' = [pulled EXCEPT ![m] = t]
    BY PushRow
  <1> QED BY <1>1, <1>2, <1>3, PullRowTyped

\* So does a step that changes nothing.
LEMMA StutterTyped == Typed /\ UNCHANGED Pull!vars => Typed'
  BY DEF Typed, Pull!TypeOK, UidsApart, UidsBelowNext, RowsPoint, InFolder, FoundWereLost,
         Pull!Msgs, Pull!vars

\* Every step keeps the types.
LEMMA TypesPreserved == Typed /\ [Pull!Next]_(Pull!vars) => Typed'
  <1> SUFFICES ASSUME Typed, [Pull!Next]_(Pull!vars) PROVE Typed'
    OBVIOUS
  <1>1. CASE Pull!Step
    BY <1>1, BeginTyped, OpenTyped, RefreshFlagsTyped, ScanTyped, FetchBodiesTyped,
       WriteMarkTyped, JudgeTyped, AskFolderTyped, DecideTyped, VaultTyped DEF Pull!Step
  <1>2. CASE Pull!Crash
    BY <1>2, PullCrashTyped
  <1>3. CASE \E m \in Msg, f \in Pull!Folder : Pull!File(m, f)
    BY <1>3, FileTyped
  <1>4. CASE \E r \in upMail : Pull!Expunge(r) \/ Pull!Flag(r)
    BY <1>4, ExpungeTyped, FlagTyped
  <1>5. CASE \E f \in Pull!Folder : Pull!Renumber(f)
    BY <1>5, RenumberTyped
  <1>6. CASE \E m \in Msg : Pull!DeliverHere(m) \/ Pull!Edit(m) \/ Pull!Restore(m)
             \/ Pull!Push(m)
    BY <1>6, DeliverHereTyped, EditTyped, RestoreTyped, PushTyped
  <1>7. CASE UNCHANGED Pull!vars
    BY <1>7, StutterTyped
  <1> QED BY <1>1, <1>2, <1>3, <1>4, <1>5, <1>6, <1>7 DEF Pull!Next

\* The cycle, the rows, the bookmarks and the folders have the form they are
\* meant to have, copies of one folder have UIDs of their own below its UIDNEXT, and
\* rows of the account name folders.
THEOREM PullTypes == Pull!Spec => []Typed
  BY PullTypesBegin, TypesPreserved, PTL DEF Pull!Spec

-----------------------------------------------------------------------------
(* NothingLostBelow. *)

\* Whoever asks later is not to fetch the message again, or has never been meant to.
Safe(m) == pulled[m] # NoMail \/ m \in passed \/ m \in Pull!Nameless

\* Nothing unsafe at or below n in folder f.
SafeUpTo(f, n) == \A r \in Pull!In(f) : r.uid <= n => Safe(r.msg)

\* A bookmark was written under an earlier UIDVALIDITY, or is below what will be
\* given away.
MarksAreOld ==
  \A f \in Pull!Folder : bookmark[f] # NoMail =>
    bookmark[f].valid <= upValid[f]
      /\ (bookmark[f].valid = upValid[f] => bookmark[f].last < upNext[f])

\* The folder of the cycle was not numbered anew while it was selected, and what
\* the cycle has read is safe, wanted or noted as failed.
RunCovers ==
  cycle.pc \in {"flags", "scan", "bodies", "mark"} =>
    LET f == Synced[cycle.at] IN
    /\ cycle.valid <= upValid[f]
    /\ cycle.pc # "mark" => cycle.valid = upValid[f]
    /\ cycle.valid = upValid[f] =>
         /\ cycle.last < upNext[f]
         /\ SafeUpTo(f, cycle.last)
         /\ cycle.pc \in {"bodies", "mark"} =>
              /\ cycle.top < upNext[f]
              /\ \A r \in Pull!In(f) : r.uid <= cycle.top =>
                   \/ Safe(r.msg)
                   \/ r.uid \in cycle.failed
                   \/ cycle.pc = "bodies" /\ r.uid \in cycle.want

Covered == MarksAreOld /\ Pull!NothingLostBelow /\ RunCovers

\* No step takes a row away, and none forgets that a message was passed.
LEMMA RowsStay ==
  ASSUME Typed, [Pull!Next]_(Pull!vars), NEW m \in Msg, pulled[m] # NoMail
  PROVE  pulled'[m] # NoMail
  <1>1. pulled \in [Msg -> GoodRow] /\ pulled[m] \in Pull!MessageRow
    BY DEF Typed, RowsPoint, GoodRow
  <1>2. ASSUME NEW f \in Pull!Folder, Pull!RefreshFlags(f) PROVE pulled'[m] # NoMail
    <2>1. CASE UNCHANGED pulled
      BY <2>1
    <2>2. CASE \E T \in SUBSET cycle.base : pulled' = Pull!RowsAfter(T, {})
      <3>1. PICK T \in SUBSET cycle.base : pulled' = Pull!RowsAfter(T, {})
        BY <2>2
      <3>2. \A b \in T : b.folder \in Pull!Folder /\ b.uid \in Pull!Uid /\ b.msg \in Msg
        BY DEF Typed, Pull!TypeOK, Pull!Cycle, Pull!Ref
      <3> QED BY <3>1, <3>2, RowsAfterTyped DEF Typed
    <2>3. UNCHANGED pulled \/ \E T \in SUBSET cycle.base : pulled' = Pull!RowsAfter(T, {})
      <3> DEFINE met == {b \in cycle.base : b.folder = f
                           /\ \E r \in {r \in Pull!In(f) : r.uid <= cycle.last} : r.uid = b.uid /\ ~r.del}
      <3>1. UNCHANGED pulled
            \/ \E kept \in SUBSET met : pulled' = Pull!RowsAfter(met \ kept, {})
        BY <1>2 DEF Pull!RefreshFlags
      <3>2. \A kept : met \ kept \in SUBSET cycle.base
        OBVIOUS
      <3> HIDE DEF met
      <3> QED BY <3>1, <3>2
    <2> QED BY <2>1, <2>2, <2>3
  <1>3. ASSUME NEW T \in SUBSET upMail, NEW new, pulled' = Pull!RowsAfter(T, new)
               PROVE pulled'[m] # NoMail
    <2>1. \A r \in T : r.folder \in Pull!Folder /\ r.uid \in Pull!Uid /\ r.msg \in Msg
      BY DEF Typed, Pull!TypeOK, Pull!Mail
    <2> QED BY <1>3, <2>1, RowsAfterTyped DEF Typed
  <1>4. ASSUME NEW f \in Pull!Folder, Pull!Scan(f) PROVE pulled'[m] # NoMail
    <2>1. UNCHANGED pulled \/ \E T \in SUBSET Pull!In(f) : pulled' = Pull!RowsAfter(T, {})
      BY <1>4, ScanSteps
    <2>2. Pull!In(f) \in SUBSET upMail
      BY DEF Pull!In
    <2> QED BY <1>3, <2>1, <2>2
  <1>5. ASSUME NEW f \in Pull!Folder, Pull!FetchBodies(f) PROVE pulled'[m] # NoMail
    <2>1. \E T \in SUBSET Pull!In(f) : \E new : pulled' = Pull!RowsAfter(T, new)
      <3> DEFINE there == {r \in Pull!In(f) : r.uid \in cycle.want}
                 live == {r \in there \ {r \in there : r.del} : r.msg \notin Hollow}
                 new(got) == Pull!Msgs(got \ {r \in got : pulled[r.msg] # NoMail})
      <3>1. \E got \in SUBSET live : \E kept \in SUBSET got :
              pulled' = Pull!RowsAfter(got \ kept, new(got))
        BY <1>5 DEF Pull!FetchBodies
      <3>2. live \in SUBSET Pull!In(f)
        OBVIOUS
      <3> HIDE DEF live, new
      <3>3. PICK got \in SUBSET live : \E kept \in SUBSET got :
              pulled' = Pull!RowsAfter(got \ kept, new(got))
        BY <3>1
      <3>4. \A kept : got \ kept \in SUBSET Pull!In(f)
        BY <3>2
      <3> QED BY <3>3, <3>4
    <2>2. Pull!In(f) \in SUBSET upMail
      BY DEF Pull!In
    <2> QED BY <1>3, <2>1, <2>2
  <1>6. ASSUME Pull!Decide PROVE pulled'[m] # NoMail
    <2> DEFINE lost(n) == CHOOSE g \in cycle.lost : g.msg = n
    <2>1. PICK kept \in SUBSET Pull!Msgs(cycle.found) :
            pulled' = [n \in Msg |-> IF n \in Pull!Msgs(cycle.found) \ kept
              THEN Pull!Follow(lost(n)) ELSE pulled[n]]
      BY <1>6 DEF Pull!Decide
    <2>2. CASE m \in Pull!Msgs(cycle.found)
      <3>1. lost(m).msg = m
        BY <2>2 DEF Typed, FoundWereLost, Pull!Msgs
      <3> HIDE DEF lost
      <3>2. Pull!Follow(lost(m)) # NoMail
        <4> DEFINE new == CHOOSE r \in cycle.found : r.msg = m
                   t == [pulled[m] EXCEPT !.folder = new.folder, !.uid = new.uid]
        <4>1. new \in cycle.found
          BY <2>2 DEF Pull!Msgs
        <4>2. new.folder \in Pull!Folder /\ new.uid \in 0 .. MaxUid
          BY <4>1, NumbersKnown DEF Typed, Pull!TypeOK, Pull!Cycle, Pull!Ref, Pull!Uid
        <4>3. Pull!Follow(lost(m)) = pulled[m] \/ Pull!Follow(lost(m)) = t
          BY <3>1 DEF Pull!Follow
        <4> HIDE DEF new
        <4>4. t \in Pull!MessageRow
          BY <1>1, <4>2 DEF Pull!MessageRow
        <4> HIDE DEF t
        <4> QED BY <4>3, <4>4, PullNone
      <3> QED BY <2>1, <3>2
    <2>3. CASE m \notin Pull!Msgs(cycle.found)
      BY <2>1, <2>3
    <2> QED BY <2>2, <2>3
  <1>7. ASSUME NEW g \in Pull!Ref, Pull!Vault(g) PROVE pulled'[m] # NoMail
    <2> DEFINE t == [pulled[g.msg] EXCEPT !.live = FALSE, !.uid = 0]
    <2>1. UNCHANGED pulled
          \/ (g.msg \in Msg /\ Pull!Untouched(g) /\ pulled' = [pulled EXCEPT ![g.msg] = t])
      BY <1>7 DEF Pull!Vault, Pull!Ref
    <2>2. ASSUME g.msg \in Msg, Pull!Untouched(g) PROVE t # NoMail
      <3>1. pulled[g.msg] \in Pull!MessageRow
        BY <1>1, <2>2 DEF GoodRow, Pull!Untouched, Pull!Mirrors
      <3>2. t \in Pull!MessageRow
        BY <3>1, NumbersKnown DEF Pull!MessageRow
      <3> QED BY <3>2, PullNone
    <2> HIDE DEF t
    <2> QED BY <1>1, <2>1, <2>2
  <1>8. ASSUME NEW n \in Msg, Pull!DeliverHere(n) PROVE pulled'[m] # NoMail
    BY <1>1, <1>8 DEF Pull!DeliverHere
  <1>9. ASSUME NEW n \in Msg, Pull!Edit(n) \/ Pull!Restore(n) \/ Pull!Push(n)
               PROVE pulled'[m] # NoMail
    <2>1. PICK t \in GoodRow : t # NoMail /\ pulled' = [pulled EXCEPT ![n] = t]
      BY <1>9, EditRow, RestoreRow, PushRow
    <2> QED BY <1>1, <2>1
  <1>10. CASE UNCHANGED pulled
    BY <1>10
  <1> QED BY <1>2, <1>4, <1>5, <1>6, <1>7, <1>8, <1>9, <1>10
          DEF Pull!Next, Pull!Step, Pull!Begin, Pull!Open, Pull!WriteMark, Pull!Judge,
            Pull!AskFolder, Pull!Crash, Pull!File, Pull!Expunge,
              Pull!Flag, Pull!Renumber, Pull!vars

\* What has been passed over stays so.
LEMMA PassedStay ==
  ASSUME Typed, [Pull!Next]_(Pull!vars)
  PROVE  passed \subseteq passed'
  <1>1. CASE Pull!Step
    <2>1. ASSUME NEW f \in Pull!Folder, Pull!Scan(f) PROVE passed \subseteq passed'
      BY <2>1, ScanSteps
    <2>2. ASSUME NEW f \in Pull!Folder, Pull!FetchBodies(f) PROVE passed \subseteq passed'
      BY <2>2 DEF Pull!FetchBodies
    <2>3. CASE passed' = passed
      BY <2>3
    <2> QED BY <1>1, <2>1, <2>2, <2>3
            DEF Pull!Step, Pull!Begin, Pull!Open, Pull!RefreshFlags, Pull!WriteMark,
              Pull!Judge, Pull!AskFolder, Pull!Decide, Pull!Vault,
                Pull!history
  <1>2. CASE ~Pull!Step
    BY <1>2 DEF Pull!Next, Pull!Crash, Pull!File, Pull!Expunge, Pull!Flag, Pull!Renumber,
       Pull!DeliverHere, Pull!Edit, Pull!Restore, Pull!Push,
                Pull!history, Pull!vars
  <1> QED BY <1>1, <1>2

\* What is safe stays safe: its row stays, or it stays passed over.
LEMMA SafeStay ==
  ASSUME Typed, [Pull!Next]_(Pull!vars), NEW m \in Msg, Safe(m)
  PROVE  Safe(m)'
  BY RowsStay, PassedStay DEF Safe

\* The numbers that a state of these types holds.
LEMMA NumbersOf ==
  ASSUME Typed
  PROVE  /\ \A f \in Pull!Folder : upValid[f] \in Nat /\ upNext[f] \in Nat /\ upNext[f] >= 1
                              /\ upNext[f] \in 1 .. (MaxUid + 1)
         /\ \A r \in upMail : r.folder \in Pull!Folder /\ r.uid \in Nat /\ r.uid >= 1
              /\ r.msg \in Msg
                            /\ r.uid < upNext[r.folder] /\ r.uid \in Pull!Uid
         /\ \A f \in Pull!Folder : bookmark[f] # NoMail => bookmark[f].valid \in Nat
              /\ bookmark[f].last \in Nat
                                                /\ bookmark[f].last \in 0 .. MaxUid
                                                /\ bookmark[f] \in Pull!Bookmark
         /\ cycle.valid \in Nat /\ cycle.last \in Nat /\ cycle.top \in Nat
         /\ cycle.last \in 0 .. MaxUid /\ cycle.top \in 0 .. MaxUid
         /\ cycle.failed \in SUBSET Pull!Uid /\ cycle.want \in SUBSET Pull!Uid
  <1>1. ASSUME NEW f \in Pull!Folder
        PROVE  upValid[f] \in Nat /\ upNext[f] \in 1 .. (MaxUid + 1)
    BY DEF Typed, Pull!TypeOK
  <1>2. ASSUME NEW n \in 1 .. (MaxUid + 1) PROVE n \in Nat /\ n >= 1
    BY NumbersKnown
  <1>3. ASSUME NEW r \in upMail
        PROVE  r.folder \in Pull!Folder /\ r.uid \in Pull!Uid /\ r.msg \in Msg
               /\ r.uid < upNext[r.folder]
    BY DEF Typed, Pull!TypeOK, UidsBelowNext, Pull!Mail
  <1>4. ASSUME NEW u \in Pull!Uid PROVE u \in Nat /\ u >= 1
    BY NumbersKnown DEF Pull!Uid
  <1>5. ASSUME NEW f \in Pull!Folder, bookmark[f] # NoMail
        PROVE  bookmark[f] \in Pull!Bookmark /\ bookmark[f].valid \in Nat
               /\ bookmark[f].last \in 0 .. MaxUid
    <2>1. bookmark[f] \in Pull!Bookmark
      BY <1>5 DEF Typed, Pull!TypeOK
    <2> QED BY <2>1 DEF Pull!Bookmark
  <1>6. ASSUME NEW n \in 0 .. MaxUid PROVE n \in Nat
    BY NumbersKnown
  <1>7. /\ cycle.valid \in Nat /\ cycle.last \in 0 .. MaxUid /\ cycle.top \in 0 .. MaxUid
        /\ cycle.failed \in SUBSET Pull!Uid /\ cycle.want \in SUBSET Pull!Uid
    <2>1. cycle \in Pull!Cycle
      BY DEF Typed, Pull!TypeOK
    <2> QED BY <2>1 DEF Pull!Cycle
  <1> QED BY <1>1, <1>2, <1>3, <1>4, <1>5, <1>6, <1>7

\* At the beginning no bookmark covers anything.
LEMMA CoveredBegins == Pull!Init => Covered
  <1> SUFFICES ASSUME Pull!Init PROVE Covered
    OBVIOUS
  <1>1. \A f \in Pull!Folder : bookmark[f] = NoMail
    BY DEF Pull!Init
  <1>2. Pull!NothingLostBelow
    BY <1>1, PullTypesBegin, NumbersOf DEF Pull!NothingLostBelow
  <1>3. RunCovers
    BY IdleTyped DEF Pull!Init, RunCovers
  <1> QED BY <1>1, <1>2, <1>3 DEF Covered, MarksAreOld

\* A step of the cycle: folders stay, each bookmark stays or is one that nothing
\* is lost below.
LEMMA CycleCovered ==
  ASSUME Typed, [Pull!Next]_(Pull!vars), Covered, UNCHANGED Pull!upstream,
         \A f \in Pull!Folder : \/ bookmark'[f] = bookmark[f]
                                \/ /\ bookmark'[f].valid <= upValid[f]
                                   /\ bookmark'[f].valid = upValid[f] =>
                                        /\ bookmark'[f].last < upNext[f]
                                        /\ \A r \in Pull!In(f) : r.uid <= bookmark'[f].last
                                             => Safe(r.msg)',
         RunCovers'
  PROVE  Covered'
  <1>1. upMail' = upMail /\ upNext' = upNext /\ upValid' = upValid
    BY DEF Pull!upstream
  <1>2. MarksAreOld'
    BY <1>1 DEF Covered, MarksAreOld
  <1>3. ASSUME NEW r \in upMail', bookmark'[r.folder] # NoMail,
               bookmark'[r.folder].valid = upValid'[r.folder],
               r.uid <= bookmark'[r.folder].last
        PROVE  Safe(r.msg)'
    <2>1. r \in upMail /\ r.folder \in Pull!Folder /\ r.msg \in Msg
          /\ r \in Pull!In(r.folder)
      BY <1>1, NumbersOf DEF Pull!In
    <2>2. CASE bookmark'[r.folder] = bookmark[r.folder]
      <3>1. Safe(r.msg)
        BY <1>1, <1>3, <2>1, <2>2 DEF Covered, Pull!NothingLostBelow, Safe
      <3> QED BY <2>1, <3>1, SafeStay
    <2>3. CASE bookmark'[r.folder] # bookmark[r.folder]
      BY <1>1, <1>3, <2>1, <2>3
    <2> QED BY <2>2, <2>3
  <1>4. Pull!NothingLostBelow'
    BY <1>3 DEF Pull!NothingLostBelow, Safe
  <1> QED BY <1>2, <1>4 DEF Covered

\* A step of others: each folder gets copies above what it had given away only, or
\* is numbered anew, and the cycle is not in it then or has read it.
LEMMA OthersCovered ==
  ASSUME Typed, Typed', [Pull!Next]_(Pull!vars), Covered, bookmark' = bookmark,
         cycle' = cycle \/ cycle' = Pull!Idle,
         \A f \in Pull!Folder :
           \/ /\ upValid'[f] = upValid[f] /\ upNext'[f] >= upNext[f]
              /\ \A r \in upMail' : r.folder = f =>
                   r.uid >= upNext[f] \/ \E s \in upMail : s.folder = f /\ s.uid = r.uid
                     /\ s.msg = r.msg
           \/ /\ upValid'[f] > upValid[f]
              /\ cycle.pc \in {"flags", "scan", "bodies"} /\ Synced[cycle.at] = f
                   => cycle' = Pull!Idle
  PROVE  Covered'
  <1>1. \A f \in Pull!Folder : /\ upValid[f] \in Nat /\ upValid'[f] \in Nat
                                    /\ upNext[f] \in Nat
                               /\ upNext'[f] \in Nat
    BY NumbersOf DEF Typed, Pull!TypeOK
  <1>2. MarksAreOld'
    <2> SUFFICES ASSUME NEW f \in Pull!Folder, bookmark[f] # NoMail
                 PROVE  /\ bookmark[f].valid <= upValid'[f]
                        /\ bookmark[f].valid = upValid'[f] => bookmark[f].last < upNext'[f]
      BY DEF MarksAreOld
    <2>1. bookmark[f].valid <= upValid[f]
          /\ (bookmark[f].valid = upValid[f] => bookmark[f].last < upNext[f])
      BY DEF Covered, MarksAreOld
    <2>2. bookmark[f].valid \in Nat /\ bookmark[f].last \in Nat
      BY NumbersOf
    <2> QED BY <1>1, <2>1, <2>2
  <1>3. ASSUME NEW f \in Pull!Folder, NEW n \in Nat, upValid'[f] = upValid[f],
               n < upNext[f],
               NEW r \in upMail', r.folder = f, r.uid <= n
        PROVE  \E s \in upMail : s.folder = f /\ s.uid = r.uid /\ s.msg = r.msg
               /\ s \in Pull!In(f)
    <2>1. r.uid \in Nat
      BY NumbersKnown DEF Typed, Pull!TypeOK, Pull!Mail, Pull!Uid
    <2>2. ~(r.uid >= upNext[f]) /\ ~(upValid'[f] > upValid[f])
      BY <1>1, <1>3, <2>1
    <2> QED BY <1>3, <2>2 DEF Pull!In
  <1>4. Pull!NothingLostBelow'
    <2> SUFFICES ASSUME NEW r \in upMail', bookmark[r.folder] # NoMail,
                        bookmark[r.folder].valid = upValid'[r.folder],
                          r.uid <= bookmark[r.folder].last
                 PROVE  Safe(r.msg)'
      BY DEF Pull!NothingLostBelow, Safe
    <2>1. r.folder \in Pull!Folder
      BY DEF Typed, Pull!TypeOK, Pull!Mail
    <2>2. /\ bookmark[r.folder].valid \in Nat /\ bookmark[r.folder].last \in Nat
          /\ bookmark[r.folder].valid <= upValid[r.folder]
          /\ bookmark[r.folder].valid = upValid[r.folder]
               => bookmark[r.folder].last < upNext[r.folder]
      BY <2>1, NumbersOf DEF Covered, MarksAreOld
    <2>3. upValid'[r.folder] = upValid[r.folder]
      BY <1>1, <2>1, <2>2
    <2>4. PICK s \in upMail : s.folder = r.folder /\ s.uid = r.uid /\ s.msg = r.msg
      BY <1>3, <2>1, <2>2, <2>3
    <2>5. Safe(s.msg) /\ s.msg \in Msg
      BY <2>2, <2>3, <2>4, NumbersOf DEF Covered, Pull!NothingLostBelow, Safe
    <2> QED BY <2>4, <2>5, SafeStay
  <1>5. RunCovers'
    <2>1. CASE cycle' = Pull!Idle
      BY <2>1, IdleTyped DEF RunCovers
    <2>2. CASE cycle' = cycle /\ cycle' # Pull!Idle
      <3> DEFINE f == Synced[cycle.at]
      <3> SUFFICES ASSUME cycle.pc \in {"flags", "scan", "bodies", "mark"}
                   PROVE  RunCovers'
        BY <2>2 DEF RunCovers
      <3>1. f \in Pull!Folder
        BY FoldersKnown DEF Typed, InFolder
      <3>2. /\ cycle.valid <= upValid[f]
            /\ cycle.pc # "mark" => cycle.valid = upValid[f]
            /\ cycle.valid = upValid[f] =>
                 /\ cycle.last < upNext[f]
                 /\ SafeUpTo(f, cycle.last)
                 /\ cycle.pc \in {"bodies", "mark"} =>
                      /\ cycle.top < upNext[f]
                      /\ \A r \in Pull!In(f) : r.uid <= cycle.top =>
                           \/ Safe(r.msg) \/ r.uid \in cycle.failed
                           \/ cycle.pc = "bodies" /\ r.uid \in cycle.want
        BY DEF Covered, RunCovers
      <3>3. cycle.valid \in Nat /\ cycle.last \in Nat /\ cycle.top \in Nat
        BY NumbersOf
      <3>4. \A r \in upMail : r.msg \in Msg
        BY NumbersOf
      <3> HIDE DEF f
      <3>5. cycle.valid <= upValid'[f] /\ (cycle.pc # "mark" => cycle.valid = upValid'[f])
        BY <1>1, <2>2, <3>1, <3>2, <3>3 DEF f
      <3>6. ASSUME cycle.valid = upValid'[f]
            PROVE  cycle.valid = upValid[f] /\ upValid'[f] = upValid[f]
                   /\ upNext'[f] >= upNext[f]
        BY <1>1, <3>1, <3>2, <3>3, <3>6
      <3>7. ASSUME cycle.valid = upValid'[f]
            PROVE  cycle.last < upNext'[f]
                   /\ (cycle.pc \in {"bodies", "mark"} => cycle.top < upNext'[f])
        BY <1>1, <3>1, <3>2, <3>3, <3>6, <3>7
      <3>8. ASSUME cycle.valid = upValid'[f], NEW r \in upMail', r.folder = f,
                   r.uid <= cycle.last
            PROVE  Safe(r.msg)'
        <4>1. PICK s \in upMail : s.uid = r.uid /\ s.msg = r.msg /\ s \in Pull!In(f)
          BY <1>3, <3>1, <3>2, <3>3, <3>6, <3>8
        <4>2. Safe(s.msg) /\ s.msg \in Msg
          BY <3>2, <3>4, <3>6, <3>8, <4>1 DEF SafeUpTo
        <4> QED BY <4>1, <4>2, SafeStay
      <3>9. ASSUME cycle.valid = upValid'[f], cycle.pc \in {"bodies", "mark"},
                   NEW r \in upMail', r.folder = f, r.uid <= cycle.top
            PROVE  \/ Safe(r.msg)'
                   \/ r.uid \in cycle.failed
                   \/ cycle.pc = "bodies" /\ r.uid \in cycle.want
        <4>1. PICK s \in upMail : s.uid = r.uid /\ s.msg = r.msg /\ s \in Pull!In(f)
          BY <1>3, <3>1, <3>2, <3>3, <3>6, <3>9
        <4>2. \/ Safe(s.msg) /\ s.msg \in Msg
              \/ s.uid \in cycle.failed
              \/ cycle.pc = "bodies" /\ s.uid \in cycle.want
          BY <3>2, <3>4, <3>6, <3>9, <4>1
        <4> QED BY <4>1, <4>2, SafeStay
      <3>10. f = Synced[cycle'.at]
        BY <2>2 DEF f
      <3> QED BY <2>2, <3>5, <3>7, <3>8, <3>9, <3>10 DEF RunCovers, SafeUpTo, Pull!In
    <2> QED BY <2>1, <2>2
  <1> QED BY <1>2, <1>4, <1>5 DEF Covered

\* In a step of the cycle that leaves its folder, or is in none.
LEMMA LeavesCover ==
  ASSUME cycle'.pc \notin {"flags", "scan", "bodies", "mark"}
  PROVE  RunCovers'
  BY DEF RunCovers

\* Opening a folder keeps what is covered: it begins from the bookmark, or from nothing.
LEMMA OpenCovers ==
  ASSUME NEW f \in Pull!Folder, Typed, [Pull!Next]_(Pull!vars), Covered, Pull!Open(f)
  PROVE  Covered'
  <1>1. /\ cycle.pc = "open" /\ cycle \in Pull!Cycle /\ cycle.at \in 1 .. Len(Synced)
             /\ Synced[cycle.at] = f
        /\ cycle.at <= Len(Pull!Searched)
    BY FoldersKnown DEF Pull!Open, Typed, Pull!TypeOK, Pull!Cycle
  <1>2. UNCHANGED Pull!upstream /\ pulled' = pulled /\ passed' = passed
    BY DEF Pull!Open, Pull!history
  <1>3. bookmark[f] \in Pull!Bookmark \cup {NoMail}
        /\ NoMail \in Pull!Bookmark \cup {NoMail}
    BY DEF Typed, Pull!TypeOK
  <1>4. \/ (cycle' = Pull!Plan(f, bookmark[f]) \/ cycle' = Pull!Plan(f, NoMail))
             /\ UNCHANGED bookmark
        \/ LET p == Pull!Plan(f, bookmark[f]) IN
             /\ Pull!In(f) = {}
             /\ cycle' = Pull!Leave([p EXCEPT !.byId = FALSE], f)
             /\ Pull!SaveMark(f, p.valid, IF p.next - 1 > p.last THEN p.next - 1
                  ELSE p.last)
        \/ cycle' = Pull!Abandon(cycle, f) /\ UNCHANGED bookmark
    BY DEF Pull!Open
  <1>5. CASE (cycle' = Pull!Plan(f, bookmark[f]) \/ cycle' = Pull!Plan(f, NoMail))
             /\ UNCHANGED bookmark
    <2>1. PICK st \in {bookmark[f], NoMail} : cycle' = Pull!Plan(f, st)
      BY <1>5
    <2>2. /\ cycle' \in Pull!Cycle /\ cycle'.pc \in {"flags", "scan"}
               /\ cycle'.at = cycle.at
          /\ cycle'.valid = upValid[f] /\ cycle'.last \in 0 .. MaxUid
          /\ cycle'.last # 0 => st # NoMail /\ st.valid = upValid[f]
               /\ cycle'.last = st.last
      BY <1>3, <2>1, PlanTyped DEF Typed
    <2>3. cycle'.last < upNext[f]
      <3>1. CASE cycle'.last = 0
        BY <3>1, NumbersOf
      <3>2. CASE cycle'.last # 0
        BY <2>1, <2>2, <3>2 DEF Covered, MarksAreOld
      <3> QED BY <3>1, <3>2
    <2>4. ASSUME NEW r \in Pull!In(f), r.uid <= cycle'.last PROVE Safe(r.msg)'
      <3>1. r \in upMail /\ r.folder = f /\ r.uid >= 1 /\ r.uid \in Nat /\ r.msg \in Msg
        BY NumbersOf DEF Pull!In
      <3>2. cycle'.last # 0
        BY <2>2, <2>4, <3>1, NumbersKnown
      <3>3. Safe(r.msg)
        BY <2>1, <2>2, <2>4, <3>1, <3>2 DEF Covered, Pull!NothingLostBelow, Safe
      <3> QED BY <3>1, <3>3, SafeStay
    <2>5. upMail' = upMail /\ upNext' = upNext /\ upValid' = upValid
      BY <1>2 DEF Pull!upstream
    <2>6. Synced[cycle'.at] = f
      BY <1>1, <2>2
    <2>7. upValid[f] \in Nat
      BY NumbersOf
    <2>8. RunCovers'
      BY <2>2, <2>3, <2>4, <2>5, <2>6, <2>7 DEF RunCovers, SafeUpTo, Pull!In
    <2> QED BY <1>2, <1>5, <2>8, CycleCovered
  <1>6. CASE LET p == Pull!Plan(f, bookmark[f]) IN
             /\ Pull!In(f) = {}
             /\ cycle' = Pull!Leave([p EXCEPT !.byId = FALSE], f)
             /\ Pull!SaveMark(f, p.valid, IF p.next - 1 > p.last THEN p.next - 1
                  ELSE p.last)
    <2> DEFINE p == Pull!Plan(f, bookmark[f])
               q == [p EXCEPT !.byId = FALSE]
               l == IF p.next - 1 > p.last THEN p.next - 1 ELSE p.last
    <2>1. /\ p \in Pull!Cycle /\ p.at = cycle.at /\ p.valid = upValid[f]
               /\ p.next = upNext[f]
          /\ p.last \in 0 .. MaxUid
          /\ p.last # 0 => bookmark[f] # NoMail /\ bookmark[f].valid = upValid[f]
               /\ p.last = bookmark[f].last
      BY <1>3, PlanTyped DEF Typed
    <2>2. q \in Pull!Cycle /\ q.at = cycle.at
      <3> HIDE DEF p
      <3> QED BY <2>1 DEF Pull!Cycle
    <2>3. p.last < upNext[f] /\ upNext[f] \in 1 .. (MaxUid + 1)
      <3> HIDE DEF p
      <3>1. CASE p.last = 0
        BY <3>1, NumbersOf
      <3>2. CASE p.last # 0
        BY <2>1, <3>2, NumbersOf DEF Covered, MarksAreOld
      <3> QED BY <3>1, <3>2
    <2>4. l \in 0 .. MaxUid /\ l < upNext[f]
      <3> HIDE DEF p
      <3> QED BY <2>1, <2>3, NumbersKnown
    <2>5. cycle' = Pull!Leave(q, f) /\ Pull!SaveMark(f, p.valid, l) /\ Pull!In(f) = {}
      BY <1>6
    <2>6. p.valid = upValid[f] /\ upValid[f] \in Nat
      BY <2>1, NumbersOf
    <2> HIDE DEF p, q, l
    <2>7. cycle'.pc = "open"
      BY <1>1, <2>2, <2>5, LeaveTyped
    <2>8. RunCovers'
      BY <2>7, LeavesCover
    <2>9. /\ \A g \in Pull!Folder : g # f => bookmark'[g] = bookmark[g]
          /\ bookmark'[f] = bookmark[f]
               \/ (bookmark'[f].valid = upValid[f] /\ bookmark'[f].last = l)
      BY <2>4, <2>5, <2>6, SavedTyped DEF Typed
    <2> QED BY <1>2, <2>4, <2>5, <2>6, <2>8, <2>9, CycleCovered
  <1>7. CASE cycle' = Pull!Abandon(cycle, f) /\ UNCHANGED bookmark
    <2>1. cycle'.pc = "open"
      BY <1>1, <1>7, AbandonTyped
    <2> QED BY <1>2, <1>7, <2>1, LeavesCover, CycleCovered
  <1> QED BY <1>4, <1>5, <1>6, <1>7

\* What the cycle knows of the folder it is in.
LEMMA CoveredHere ==
  ASSUME Typed, Covered, cycle.pc \in {"flags", "scan", "bodies", "mark"}, NEW f,
         Synced[cycle.at] = f
  PROVE  /\ f \in Pull!Folder /\ cycle \in Pull!Cycle /\ cycle.at <= Len(Pull!Searched)
         /\ cycle.valid <= upValid[f]
         /\ cycle.pc # "mark" => cycle.valid = upValid[f]
         /\ cycle.valid = upValid[f] =>
              /\ cycle.last < upNext[f]
              /\ SafeUpTo(f, cycle.last)
              /\ cycle.pc \in {"bodies", "mark"} =>
                   /\ cycle.top < upNext[f]
                   /\ \A r \in Pull!In(f) : r.uid <= cycle.top =>
                        \/ Safe(r.msg)
                        \/ r.uid \in cycle.failed
                        \/ cycle.pc = "bodies" /\ r.uid \in cycle.want
  BY FoldersKnown DEF Typed, Pull!TypeOK, InFolder, Covered, RunCovers

\* The refresh of flags keeps what is covered.
LEMMA RefreshFlagsCovers ==
  ASSUME NEW f \in Pull!Folder, Typed, [Pull!Next]_(Pull!vars), Covered,
         Pull!RefreshFlags(f)
  PROVE  Covered'
  <1> DEFINE seen == cycle.seen \cup Pull!Msgs({b \in cycle.base : b.folder = f
                        /\ \E r \in {r \in Pull!In(f) : r.uid <= cycle.last} : r.uid = b.uid /\ ~r.del})
             present == Pull!Uids({r \in Pull!In(f) : r.uid <= cycle.last})
             r1 == [cycle EXCEPT !.present = present, !.seen = seen]
             r2 == [cycle EXCEPT !.byUid = FALSE]
  <1>1. /\ cycle.pc = "flags" /\ Synced[cycle.at] = f /\ UNCHANGED Pull!upstream
             /\ bookmark' = bookmark
        /\ UNCHANGED passed
    BY DEF Pull!RefreshFlags, Pull!history
  <1>2. cycle \in Pull!Cycle /\ cycle.at <= Len(Pull!Searched)
    BY <1>1, CoveredHere
  <1>3. PICK r \in {r1, r2} :
          cycle' = IF cycle.next > cycle.last + 1 THEN [r EXCEPT !.pc = "scan"]
            ELSE Pull!Leave(r, f)
    BY DEF Pull!RefreshFlags
  <1>4. seen \in SUBSET Msg /\ present \in SUBSET Pull!Uid
    BY <1>2, CopiesTyped DEF Typed, Pull!Cycle, Pull!Msgs, Pull!Uids, Pull!Ref
  <1> HIDE DEF seen, present
  <1>5. /\ r \in Pull!Cycle /\ r.at = cycle.at /\ r.valid = cycle.valid
             /\ r.last = cycle.last
    BY <1>2, <1>3, <1>4, ZenonT(30) DEF Pull!Cycle
  <1> HIDE DEF r1, r2
  <1>6. CASE cycle' = Pull!Leave(r, f)
    <2>1. cycle'.pc = "open"
      BY <1>2, <1>5, <1>6, LeaveTyped
    <2> QED BY <1>1, <2>1, LeavesCover, CycleCovered
  <1>7. CASE cycle' = [r EXCEPT !.pc = "scan"]
    <2>1. cycle'.pc = "scan" /\ cycle'.at = cycle.at /\ cycle'.valid = cycle.valid
          /\ cycle'.last = cycle.last
      BY <1>5, <1>7 DEF Pull!Cycle
    <2>2. /\ cycle.valid = upValid[f] /\ cycle.last < upNext[f] /\ SafeUpTo(f, cycle.last)
          /\ cycle.valid \in Nat
      BY <1>1, CoveredHere, NumbersOf
    <2>3. upMail' = upMail /\ upNext' = upNext /\ upValid' = upValid
      BY <1>1 DEF Pull!upstream
    <2>4. \A c \in Pull!In(f) : c.uid <= cycle.last => Safe(c.msg)'
      BY <2>2, NumbersOf, SafeStay DEF SafeUpTo, Pull!In
    <2>5. RunCovers'
      BY <1>1, <2>1, <2>2, <2>3, <2>4 DEF RunCovers, SafeUpTo, Pull!In
    <2> QED BY <1>1, <2>5, CycleCovered
  <1> QED BY <1>3, <1>6, <1>7

\* The scan keeps it: every UID above the bookmark is wanted.
LEMMA ScanCovers ==
  ASSUME NEW f \in Pull!Folder, Typed, [Pull!Next]_(Pull!vars), Covered, Pull!Scan(f)
  PROVE  Covered'
  <1> DEFINE above == {r \in Pull!In(f) : r.uid > cycle.last}
             blank == {r \in above : r.msg \in Blank}
             dead == {r \in above \ blank : r.del}
             named == {r \in above \ (blank \cup dead) : r.msg \notin Synthetic}
             top == IF above = {} THEN 0
                    ELSE CHOOSE u \in Pull!Uids(above) : \A v \in Pull!Uids(above) : v <= u
             known(bad) == {r \in named \ bad : pulled[r.msg] # NoMail}
             want(bad) == above \ (blank \cup dead \cup bad \cup known(bad))
             pc(bad) == IF want(bad) = {} THEN "mark" ELSE "bodies"
             seen(bad) == cycle.seen \cup Pull!Msgs(known(bad)) \cup (Pull!Msgs(dead) \ Synthetic)
             wants(bad) == Pull!Uids(want(bad))
             fails(bad) == Pull!Uids(bad)
             next1(bad) == [cycle EXCEPT !.pc = pc(bad), !.seen = seen(bad),
               !.want = wants(bad),
                                       !.failed = fails(bad), !.top = top]
  <1>1. /\ cycle.pc = "scan" /\ Synced[cycle.at] = f /\ UNCHANGED Pull!upstream
             /\ bookmark' = bookmark
        /\ upMail' = upMail /\ upNext' = upNext /\ upValid' = upValid
    BY DEF Pull!Scan, Pull!upstream
  <1>2. /\ cycle \in Pull!Cycle /\ cycle.at <= Len(Pull!Searched)
             /\ cycle.valid = upValid[f]
        /\ cycle.last < upNext[f] /\ SafeUpTo(f, cycle.last)
    BY <1>1, CoveredHere
  <1>3. \/ /\ \E bad \in SUBSET named : \E kept \in SUBSET (named \ bad) :
                /\ kept \subseteq known(bad)
                /\ IF bad \cup kept = {} THEN Pull!Works ELSE Pull!Fails
                /\ pulled' = Pull!RowsAfter(known(bad) \ kept, {})
                /\ cycle' = next1(bad)
           /\ passed' = passed \cup Pull!Msgs(dead)
        \/ cycle' = Pull!Abandon(cycle, f) /\ Pull!Fails /\ UNCHANGED <<pulled, passed>>
    BY ZenonT(60) DEF Pull!Scan
  <1>4. \A r \in Pull!In(f) : /\ r \in upMail /\ r.folder = f /\ r.uid \in Pull!Uid
                                   /\ r.uid \in Nat
                              /\ r.msg \in Msg /\ r.uid < upNext[f]
    BY NumbersOf DEF Pull!In
  <1>5. CASE /\ \E bad \in SUBSET named : \E kept \in SUBSET (named \ bad) :
                  /\ kept \subseteq known(bad)
                  /\ IF bad \cup kept = {} THEN Pull!Works ELSE Pull!Fails
                  /\ pulled' = Pull!RowsAfter(known(bad) \ kept, {})
                  /\ cycle' = next1(bad)
             /\ passed' = passed \cup Pull!Msgs(dead)
    <2>1. PICK bad \in SUBSET named : cycle' = next1(bad)
      BY <1>5
    <2>2. /\ pc(bad) \in {"mark", "bodies"} /\ seen(bad) \in SUBSET Msg
          /\ wants(bad) \in SUBSET Pull!Uid /\ fails(bad) \in SUBSET Pull!Uid
      BY <1>2, <1>4 DEF Pull!Msgs, Pull!Uids, Pull!Cycle
    <2>3. top \in 0 .. MaxUid /\ top < upNext[f]
      <3>1. CASE above = {}
        BY <3>1, NumbersOf, NumbersKnown
      <3>2. CASE above # {}
        <4>1. Pull!Uids(above) \in SUBSET Pull!Uid /\ Pull!Uids(above) # {}
              /\ \A u \in Pull!Uids(above) : u < upNext[f]
          BY <1>4, <3>2 DEF Pull!Uids
        <4> HIDE DEF above
        <4>2. top \in Pull!Uids(above)
          BY <3>2, <4>1, GreatestUid
        <4> HIDE DEF top
        <4> QED BY <4>1, <4>2, NumbersKnown DEF Pull!Uid
      <3> QED BY <3>1, <3>2
    <2>4. /\ cycle'.pc = pc(bad) /\ cycle'.at = cycle.at /\ cycle'.valid = cycle.valid
          /\ cycle'.last = cycle.last /\ cycle'.top = top /\ cycle'.want = wants(bad)
          /\ cycle'.failed = fails(bad)
      <3> HIDE DEF pc, seen, wants, fails, top
      <3> QED BY <1>2, <2>1, <2>2, <2>3 DEF Pull!Cycle
    <2>5. ASSUME NEW r \in Pull!In(f), r.uid <= cycle.last PROVE Safe(r.msg)'
      BY <1>2, <1>4, <2>5, SafeStay DEF SafeUpTo
    <2>6. ASSUME NEW r \in Pull!In(f)
          PROVE  Safe(r.msg)' \/ r.uid \in fails(bad) \/ r \in want(bad)
      <3>1. CASE r.uid <= cycle.last
        BY <2>5, <3>1
      <3>2. CASE r.uid > cycle.last
        <4>1. r \in above
          BY <3>2
        <4>2. CASE r \in dead
          BY <1>5, <4>2 DEF Safe, Pull!Msgs
        <4>3. CASE r \in bad
          BY <4>3 DEF Pull!Uids
        <4>4. CASE r \in known(bad)
          <5>1. Safe(r.msg)
            BY <4>4 DEF Safe
          <5> QED BY <1>4, <5>1, SafeStay
        <4>5. CASE r \in blank
          <5>1. Safe(r.msg)
            BY <4>5 DEF Safe, Pull!Nameless
          <5> QED BY <1>4, <5>1, SafeStay
        <4> QED BY <4>1, <4>2, <4>3, <4>4, <4>5
      <3>3. cycle.last \in Nat
        BY NumbersOf
      <3> HIDE DEF want, fails
      <3> QED BY <1>4, <3>1, <3>2, <3>3
    <2>7. \A r \in want(bad) : pc(bad) = "bodies" /\ r.uid \in wants(bad)
      BY DEF Pull!Uids
    <2> HIDE DEF want, wants, fails, pc, top, next1
    <2>8. Synced[cycle'.at] = f /\ cycle'.valid = upValid[f] /\ upValid[f] \in Nat
      BY <1>1, <1>2, <2>4, NumbersOf
    <2>9. RunCovers'
      <3>1. ASSUME NEW r \in Pull!In(f)
            PROVE  \/ Safe(r.msg)'
                   \/ r.uid \in cycle'.failed
                   \/ cycle'.pc = "bodies" /\ r.uid \in cycle'.want
        BY <2>4, <2>6, <2>7
      <3>2. cycle'.last < upNext[f] /\ cycle'.top < upNext[f] /\ cycle'.valid <= upValid[f]
        BY <1>2, <2>3, <2>4, <2>8
      <3>3. \A r \in Pull!In(f) : r.uid <= cycle'.last => Safe(r.msg)'
        BY <2>4, <2>5
      <3> QED BY <1>1, <2>8, <3>1, <3>2, <3>3 DEF RunCovers, SafeUpTo, Pull!In
    <2> QED BY <1>1, <2>9, CycleCovered
  <1>6. CASE cycle' = Pull!Abandon(cycle, f) /\ Pull!Fails /\ UNCHANGED <<pulled, passed>>
    <2>1. cycle'.pc = "open"
      BY <1>2, <1>6, AbandonTyped
    <2> QED BY <1>1, <2>1, LeavesCover, CycleCovered
  <1> QED BY <1>3, <1>5, <1>6

\* Fetching keeps it: each UID it takes from the wanted is safe or noted as failed.
LEMMA FetchBodiesCovers ==
  ASSUME NEW f \in Pull!Folder, Typed, [Pull!Next]_(Pull!vars), Covered, Pull!FetchBodies(f)
  PROVE  Covered'
  <1> DEFINE there == {r \in Pull!In(f) : r.uid \in cycle.want}
             dead == {r \in there : r.del}
             good == {r \in there \ dead : r.msg \notin Hollow}
             known(got) == {r \in got : pulled[r.msg] # NoMail}
             seen(got) == cycle.seen \cup Pull!Msgs(known(got))
             run1(got) == [cycle EXCEPT !.seen = seen(got)]
             fails(got) == cycle.failed \cup Pull!Uids(good \ got)
             run2(got) == [run1(got) EXCEPT !.pc = "mark", !.want = {},
               !.failed = fails(got)]
  <1>1. /\ cycle.pc = "bodies" /\ Synced[cycle.at] = f /\ UNCHANGED Pull!upstream
             /\ bookmark' = bookmark
        /\ upMail' = upMail /\ upNext' = upNext /\ upValid' = upValid
    BY DEF Pull!FetchBodies, Pull!upstream
  <1>2. /\ cycle \in Pull!Cycle /\ cycle.at <= Len(Pull!Searched)
             /\ cycle.valid = upValid[f]
        /\ cycle.last < upNext[f] /\ SafeUpTo(f, cycle.last) /\ cycle.top < upNext[f]
        /\ \A r \in Pull!In(f) : r.uid <= cycle.top =>
              Safe(r.msg) \/ r.uid \in cycle.failed \/ r.uid \in cycle.want
    BY <1>1, CoveredHere
  <1>3. \A r \in Pull!In(f) : /\ r \in upMail /\ r.folder = f /\ r.uid \in Pull!Uid
                                   /\ r.uid \in Nat
                              /\ r.msg \in Msg
    BY NumbersOf DEF Pull!In
  <1>4. PICK got \in SUBSET good : \E kept \in SUBSET got :
           /\ kept \subseteq known(got)
           /\ pulled' = Pull!RowsAfter(got \ kept, Pull!Msgs(got \ known(got)))
           /\ \/ /\ cycle' = [run1(got) EXCEPT !.pc = "mark", !.want = {},
                               !.failed = @ \cup Pull!Uids(good \ got)]
                 /\ passed' = passed \cup Pull!Msgs(dead)
                 /\ IF got \ kept = good THEN Pull!Works ELSE Pull!Fails
              \/ /\ cycle' = Pull!Abandon(run1(got), f)
                 /\ Pull!Fails
                 /\ UNCHANGED passed
    BY DEF Pull!FetchBodies
  <1>5. seen(got) \in SUBSET Msg /\ fails(got) \in SUBSET Pull!Uid
    BY <1>2, <1>3 DEF Pull!Msgs, Pull!Uids, Pull!Cycle
  <1>6. /\ run1(got) \in Pull!Cycle /\ run1(got).at = cycle.at
             /\ run1(got).valid = cycle.valid
        /\ run1(got).last = cycle.last /\ run1(got).top = cycle.top
        /\ run1(got).failed = cycle.failed
    <2> HIDE DEF seen
    <2> QED BY <1>2, <1>5 DEF Pull!Cycle
  <1>7. /\ run2(got).pc = "mark" /\ run2(got).at = cycle.at /\ run2(got).valid = cycle.valid
        /\ run2(got).last = cycle.last /\ run2(got).top = cycle.top
        /\ run2(got).failed = fails(got)
    <2> HIDE DEF run1, fails
    <2> QED BY <1>5, <1>6 DEF Pull!Cycle
  <1>8. \/ cycle' = run2(got) /\ passed' = passed \cup Pull!Msgs(dead)
        \/ cycle' = Pull!Abandon(run1(got), f)
    <2>1. [run1(got) EXCEPT !.pc = "mark", !.want = {},
                            !.failed = @ \cup Pull!Uids(good \ got)] = run2(got)
      <3> HIDE DEF run1, there, dead, good
      <3> QED BY <1>6
    <2> HIDE DEF run1, run2, there, dead, good, known
    <2> QED BY <1>4, <2>1
  <1>9. ASSUME NEW r \in got PROVE Safe(r.msg)'
    <2>1. r \in Pull!In(f) /\ r.msg \in Msg
      BY <1>3
    <2>2. CASE pulled[r.msg] # NoMail
      BY <2>1, <2>2, SafeStay DEF Safe
    <2>3. CASE pulled[r.msg] = NoMail
      <3>1. PICK kept \in SUBSET got : /\ kept \subseteq known(got)
                                       /\ pulled' = Pull!RowsAfter(got \ kept,
                                            Pull!Msgs(got \ known(got)))
        BY <1>4
      <3>2. r \in got \ kept /\ r \in got \ known(got)
        BY <2>3, <3>1
      <3>3. \A c \in got \ kept : c.folder \in Pull!Folder /\ c.uid \in Pull!Uid
            /\ c.msg \in Msg
        BY <1>3
      <3>4. r.msg \in Pull!Msgs(got \ kept) \cap Pull!Msgs(got \ known(got))
        BY <3>2 DEF Pull!Msgs
      <3> HIDE DEF known, there, dead, good
      <3>5. pulled'[r.msg] # NoMail
        BY <3>1, <3>3, <3>4, RowsAfterTyped DEF Typed
      <3> QED BY <3>5 DEF Safe
    <2> QED BY <2>2, <2>3
  <1>10. CASE cycle' = run2(got) /\ passed' = passed \cup Pull!Msgs(dead)
    <2>1. ASSUME NEW r \in Pull!In(f), r.uid <= cycle.last PROVE Safe(r.msg)'
      BY <1>2, <1>3, <2>1, SafeStay DEF SafeUpTo
    <2>2. ASSUME NEW r \in Pull!In(f), r.uid <= cycle.top PROVE Safe(r.msg)'
                 \/ r.uid \in fails(got)
      <3>1. CASE Safe(r.msg)
        BY <1>3, <3>1, SafeStay
      <3>2. CASE r.uid \in cycle.failed
        BY <3>2
      <3>3. CASE r.uid \in cycle.want
        <4>1. r \in there
          BY <3>3
        <4>2. CASE r \in dead
          BY <1>10, <4>2 DEF Safe, Pull!Msgs
        <4>3. CASE r \in got
          BY <1>9, <4>3
        <4>4. CASE r \in good \ got
          BY <4>4 DEF Pull!Uids
        <4>5. CASE r.msg \in Hollow
          BY <4>5 DEF Safe, Pull!Nameless
        <4> QED BY <4>1, <4>2, <4>3, <4>4, <4>5
      <3> HIDE DEF fails
      <3> QED BY <1>2, <2>2, <3>1, <3>2, <3>3
    <2> HIDE DEF fails, run2, there, dead, good
    <2>3. /\ Synced[cycle'.at] = f /\ cycle'.valid = upValid[f] /\ upValid[f] \in Nat
          /\ cycle'.pc = "mark" /\ cycle'.last = cycle.last /\ cycle'.top = cycle.top
          /\ cycle'.failed = fails(got)
      BY <1>1, <1>2, <1>7, <1>10, NumbersOf
    <2>4. RunCovers'
      <3>1. ASSUME NEW r \in Pull!In(f), r.uid <= cycle'.top PROVE Safe(r.msg)'
                   \/ r.uid \in cycle'.failed
        BY <2>2, <2>3, <3>1
      <3>2. cycle'.last < upNext[f] /\ cycle'.top < upNext[f] /\ cycle'.valid <= upValid[f]
        BY <1>2, <2>3
      <3>3. \A r \in Pull!In(f) : r.uid <= cycle'.last => Safe(r.msg)'
        BY <2>1, <2>3
      <3> QED BY <1>1, <2>3, <3>1, <3>2, <3>3 DEF RunCovers, SafeUpTo, Pull!In
    <2> QED BY <1>1, <2>4, CycleCovered
  <1>11. CASE cycle' = Pull!Abandon(run1(got), f)
    <2> HIDE DEF run1
    <2>1. cycle'.pc = "open"
      BY <1>2, <1>6, <1>11, AbandonTyped
    <2> QED BY <1>1, <2>1, LeavesCover, CycleCovered
  <1> QED BY <1>8, <1>10, <1>11

\* The new bookmark stays below what failed, so that all below it is safe.
LEMMA WriteMarkCovers ==
  ASSUME NEW f \in Pull!Folder, Typed, [Pull!Next]_(Pull!vars), Covered, Pull!WriteMark(f)
  PROVE  Covered'
  <1> DEFINE n == Pull!NextLastSeen(cycle.last, cycle.top, cycle.failed)
             b == cycle.byId /\ cycle.failed = {}
             q == [cycle EXCEPT !.byId = b]
  <1>1. /\ cycle.pc = "mark" /\ Synced[cycle.at] = f /\ UNCHANGED Pull!upstream
        /\ Pull!SaveMark(f, cycle.valid, n) /\ cycle' = Pull!Leave(q, f)
    BY DEF Pull!WriteMark
  <1>2. /\ cycle \in Pull!Cycle /\ cycle.at <= Len(Pull!Searched)
             /\ cycle.valid <= upValid[f]
        /\ cycle.valid = upValid[f] =>
             /\ cycle.last < upNext[f] /\ SafeUpTo(f, cycle.last) /\ cycle.top < upNext[f]
             /\ \A r \in Pull!In(f) : r.uid <= cycle.top => Safe(r.msg)
                  \/ r.uid \in cycle.failed
    BY <1>1, CoveredHere
  <1>3. /\ n \in 0 .. MaxUid /\ cycle.last <= n /\ (n <= cycle.top \/ n = cycle.last)
        /\ \A u \in cycle.failed : u > cycle.last => u > n
    BY NumbersOf, NextLastSeenBelow
  <1>4. q \in Pull!Cycle /\ q.at = cycle.at
    <2>1. b \in BOOLEAN
      OBVIOUS
    <2> HIDE DEF b
    <2> QED BY <1>2, <2>1 DEF Pull!Cycle
  <1> HIDE DEF n, q
  <1>5. cycle'.pc = "open"
    BY <1>1, <1>2, <1>4, LeaveTyped
  <1>6. /\ \A g \in Pull!Folder : g # f => bookmark'[g] = bookmark[g]
        /\ bookmark'[f] = bookmark[f]
             \/ (bookmark'[f].valid = cycle.valid /\ bookmark'[f].last = n)
    BY <1>1, <1>3, NumbersOf, SavedTyped DEF Typed
  <1>7. ASSUME cycle.valid = upValid[f]
        PROVE  n < upNext[f] /\ \A r \in Pull!In(f) : r.uid <= n => Safe(r.msg)'
    <2>1. cycle.last \in Nat /\ cycle.top \in Nat /\ n \in Nat /\ upNext[f] \in Nat
      BY <1>3, NumbersOf, NumbersKnown
    <2>2. n < upNext[f]
      BY <1>2, <1>3, <1>7, <2>1
    <2>3. ASSUME NEW r \in Pull!In(f), r.uid <= n PROVE Safe(r.msg)'
      <3>1. r.uid \in Nat /\ r.msg \in Msg
        BY NumbersOf DEF Pull!In
      <3>2. CASE r.uid <= cycle.last
        BY <1>2, <1>7, <3>1, <3>2, SafeStay DEF SafeUpTo
      <3>3. CASE r.uid > cycle.last
        <4>1. r.uid <= cycle.top
          BY <1>3, <2>1, <2>3, <3>1, <3>3
        <4>2. r.uid \notin cycle.failed
          BY <1>3, <2>1, <2>3, <3>1, <3>3
        <4> QED BY <1>2, <1>7, <3>1, <4>1, <4>2, SafeStay
      <3> QED BY <2>1, <3>1, <3>2, <3>3
    <2> QED BY <2>2, <2>3
  <1> QED BY <1>1, <1>2, <1>5, <1>6, <1>7, LeavesCover, CycleCovered

\* The steps after the folders write no bookmark.
LEMMA JudgingCovers ==
  ASSUME Typed, [Pull!Next]_(Pull!vars), Covered,
         Pull!Begin \/ Pull!Judge \/ (\E f \in Pull!Folder : Pull!AskFolder(f))
           \/ Pull!Decide
           \/ (\E g \in Pull!Ref : Pull!Vault(g)) \/ Pull!Crash
  PROVE  Covered'
  <1>1. UNCHANGED Pull!upstream /\ bookmark' = bookmark
    BY DEF Pull!Begin, Pull!Judge, Pull!AskFolder, Pull!Decide, Pull!Vault, Pull!Crash
  <1>2. cycle \in Pull!Cycle
    BY DEF Typed, Pull!TypeOK
  <1>3. cycle'.pc \notin {"flags", "scan", "bodies", "mark"}
    <2>1. CASE Pull!Begin
      BY <2>1, IdleTyped DEF Pull!Begin, Pull!Cycle
    <2>2. CASE Pull!Judge
      <3>1. \/ cycle' = Pull!Idle
            \/ \E l : cycle' = [Pull!Search EXCEPT !.lost = l]
        BY <2>2 DEF Pull!Judge
      <3>2. Pull!Search.pc = "search"
            /\ \A l : [Pull!Search EXCEPT !.lost = l].pc = "search"
        BY IdleTyped DEF Pull!Search, Pull!Cycle
      <3> QED BY <3>1, <3>2, IdleTyped
    <2>3. ASSUME NEW f \in Pull!Folder, Pull!AskFolder(f) PROVE cycle'.pc = "search"
      <3>1. cycle.pc = "search" /\ \E a, u,
            w : cycle' = [cycle EXCEPT !.at = a, !.unsure = u, !.found = w]
        BY <2>3 DEF Pull!AskFolder
      <3> QED BY <1>2, <3>1 DEF Pull!Cycle
    <2>4. CASE Pull!Decide
      BY <2>4, IdleTyped DEF Pull!Decide, Pull!Cycle
    <2>5. ASSUME NEW g \in Pull!Ref, Pull!Vault(g) PROVE cycle'.pc \in {"idle", "vault"}
      <3>1. cycle.pc = "vault"
            /\ (cycle' = Pull!Idle \/ \E l : cycle' = [cycle EXCEPT !.lost = l])
        BY <2>5 DEF Pull!Vault
      <3> QED BY <1>2, <3>1, IdleTyped DEF Pull!Cycle
    <2>6. CASE Pull!Crash
      BY <2>6, IdleTyped DEF Pull!Crash
    <2> QED BY <2>1, <2>2, <2>3, <2>4, <2>5, <2>6
  <1> QED BY <1>1, <1>3, LeavesCover, CycleCovered

\* With less mail, what was covered is.
LEMMA FewerCovers ==
  ASSUME Typed, Typed', [Pull!Next]_(Pull!vars), Covered, upMail' \in SUBSET upMail,
         UNCHANGED <<upNext, upValid, bookmark, cycle>>
  PROVE  Covered'
  BY NumbersOf, OthersCovered

\* The changes of others keep it: new mail is above every bookmark of its UIDVALIDITY.
LEMMA UpstreamCovers ==
  ASSUME Typed, Typed', [Pull!Next]_(Pull!vars), Covered,
         \/ \E m \in Msg, f \in Pull!Folder : Pull!File(m, f)
         \/ \E r \in upMail : Pull!Expunge(r) \/ Pull!Flag(r)
         \/ \E f \in Pull!Folder : Pull!Renumber(f)
  PROVE  Covered'
  <1>1. ASSUME NEW m \in Msg, NEW f \in Pull!Folder, Pull!File(m, f) PROVE Covered'
    <2> DEFINE n == upNext[f]
               c == [folder |-> f, uid |-> n, msg |-> m, del |-> FALSE]
    <2>1. /\ upMail' = upMail \cup {c} /\ upNext' = [upNext EXCEPT ![f] = @ + 1]
               /\ upValid' = upValid
          /\ bookmark' = bookmark /\ cycle' = cycle
      BY <1>1 DEF Pull!File
    <2>2. c.folder = f /\ c.uid = upNext[f]
      OBVIOUS
    <2> HIDE DEF c
    <2>3. \A g \in Pull!Folder : upNext[g] \in Nat /\ upNext'[g] >= upNext[g]
      BY <2>1, NumbersOf DEF Typed, Pull!TypeOK
    <2>4. ASSUME NEW g \in Pull!Folder, NEW r \in upMail', r.folder = g
          PROVE  r.uid >= upNext[g] \/ \E s \in upMail : s.folder = g /\ s.uid = r.uid
                 /\ s.msg = r.msg
      BY <2>1, <2>2, <2>3, <2>4
    <2> QED BY <2>1, <2>3, <2>4, OthersCovered
  <1>2. ASSUME NEW r \in upMail, Pull!Expunge(r) PROVE Covered'
    <2>1. upMail' \in SUBSET upMail /\ UNCHANGED <<upNext, upValid, bookmark, cycle>>
      BY <1>2 DEF Pull!Expunge, Pull!Remove
    <2> QED BY <2>1, FewerCovers
  <1>3. ASSUME NEW r \in upMail, Pull!Flag(r) PROVE Covered'
    <2> DEFINE d == ~r.del
               c == [r EXCEPT !.del = d]
    <2>1. upMail' = (upMail \ {r}) \cup {c}
          /\ UNCHANGED <<upNext, upValid, bookmark, cycle>>
      BY <1>3 DEF Pull!Flag
    <2>2. r \in Pull!Mail
      BY DEF Typed, Pull!TypeOK
    <2> HIDE DEF d
    <2>3. c.folder = r.folder /\ c.uid = r.uid /\ c.msg = r.msg
      BY <2>2 DEF Pull!Mail
    <2> HIDE DEF c
    <2>4. \A g \in Pull!Folder : upNext[g] \in Nat
      BY NumbersOf
    <2> QED BY <2>1, <2>3, <2>4, OthersCovered
  <1>4. ASSUME NEW f \in Pull!Folder, Pull!Renumber(f) PROVE Covered'
    <2> DEFINE Again(r) == [r EXCEPT !.uid = Pull!Cardinality({s \in Pull!In(f) : s.uid <= r.uid})]
               fresh == {Again(r) : r \in Pull!In(f)}
    <2>1. /\ upMail' = (upMail \ Pull!In(f)) \cup fresh
          /\ upNext' = [upNext EXCEPT ![f] = Pull!Cardinality(Pull!In(f)) + 1]
          /\ upValid' = [upValid EXCEPT ![f] = @ + 1] /\ bookmark' = bookmark
          /\ cycle' = (IF cycle.pc \in {"flags", "scan", "bodies"} /\ Synced[cycle.at] = f
                     THEN Pull!Idle ELSE cycle)
      BY <1>4 DEF Pull!Renumber
    <2>2. \A r \in fresh : r.folder = f
      <3>1. \A r \in Pull!In(f) : r \in Pull!Mail /\ r.folder = f
        BY DEF Typed, Pull!TypeOK, Pull!In
      <3>2. \A r \in Pull!Mail : \A k : [r EXCEPT !.uid = k].folder = r.folder
        BY DEF Pull!Mail
      <3>3. ASSUME NEW q \in Pull!In(f) PROVE Again(q).folder = f
        BY <3>1, <3>2
      <3> HIDE DEF Again
      <3> QED BY <3>3
    <2> HIDE DEF fresh
    <2>3. /\ upValid'[f] > upValid[f]
          /\ \A g \in Pull!Folder : g # f => upValid'[g] = upValid[g]
               /\ upNext'[g] = upNext[g]
      BY <2>1, NumbersOf DEF Typed, Pull!TypeOK
    <2>4. \A g \in Pull!Folder : upNext[g] \in Nat
      BY NumbersOf
    <2>5. \A g \in Pull!Folder : g # f => \A r \in upMail' : r.folder = g => r \in upMail
      BY <2>1, <2>2
    <2> QED BY <2>1, <2>3, <2>4, <2>5, OthersCovered
  <1> QED BY <1>1, <1>2, <1>3, <1>4

\* Every step keeps what is covered.
LEMMA CoveredPreserved == Typed /\ Typed' /\ [Pull!Next]_(Pull!vars) /\ Covered => Covered'
  <1> SUFFICES ASSUME Typed, Typed', [Pull!Next]_(Pull!vars), Covered PROVE Covered'
    OBVIOUS
  <1>1. CASE Pull!Step
    BY <1>1, OpenCovers, RefreshFlagsCovers, ScanCovers, FetchBodiesCovers, WriteMarkCovers,
       JudgingCovers DEF Pull!Step
  <1>2. CASE Pull!Crash
    BY <1>2, JudgingCovers
  <1>3. CASE \/ \E m \in Msg, f \in Pull!Folder : Pull!File(m, f)
             \/ \E r \in upMail : Pull!Expunge(r) \/ Pull!Flag(r)
             \/ \E f \in Pull!Folder : Pull!Renumber(f)
    BY <1>3, UpstreamCovers
  <1>4. CASE \E m \in Msg : Pull!DeliverHere(m) \/ Pull!Edit(m) \/ Pull!Restore(m)
             \/ Pull!Push(m)
    <2>1. upMail' \in SUBSET upMail /\ UNCHANGED <<upNext, upValid, bookmark, cycle>>
      BY <1>4 DEF Pull!DeliverHere, Pull!Edit, Pull!Restore, Pull!Push, Pull!upstream
    <2> QED BY <2>1, FewerCovers
  <1>5. CASE UNCHANGED Pull!vars
    <2>1. upMail' \in SUBSET upMail /\ UNCHANGED <<upNext, upValid, bookmark, cycle>>
      BY <1>5 DEF Pull!vars
    <2> QED BY <2>1, FewerCovers
  <1> QED BY <1>1, <1>2, <1>3, <1>4, <1>5 DEF Pull!Next

\* Nothing is lost below a bookmark, for any messages, folders and failures:
\* whatever upstream has there has a row, or a cycle found it marked \Deleted.
THEOREM NothingLostBelowHolds == Pull!Spec => []NothingLostBelow
  <1>1. Typed /\ Covered /\ [Pull!Next]_(Pull!vars) => (Typed /\ Covered)'
    BY TypesPreserved, CoveredPreserved
  <1>2. Pull!Init => Typed /\ Covered
    BY PullTypesBegin, CoveredBegins
  <1>3. Covered => NothingLostBelow
    BY DEF Covered, NothingLostBelow
  <1> QED BY <1>1, <1>2, <1>3, PTL DEF Pull!Spec

-----------------------------------------------------------------------------
(* StayingIsKept. *)

\* A message that has stayed in a folder is there.
StayedIsThere == \A p \in stayed : \E r \in upMail : r.msg = p[1] /\ r.folder = p[2]

\* What has stayed in a folder that was asked was found, or the answer was no
\* answer.
AskedIsKnown ==
  cycle.pc = "search" =>
    \A g \in cycle.lost, i \in 1 .. Len(Pull!Searched) :
      g.msg \notin Synthetic /\ i < cycle.at /\ <<g.msg, Pull!Searched[i]>> \in stayed
        => g.msg \in Pull!Msgs(cycle.found) \cup cycle.unsure

\* What is about to be put away has stayed nowhere.
LostAreGone ==
  cycle.pc = "vault" =>
    \A g \in cycle.lost, f \in Pull!Folder : g.msg \notin Synthetic
      => <<g.msg, f>> \notin stayed

StaysKnown == StayedIsThere /\ AskedIsKnown /\ LostAreGone

\* When the cycle stays where it is, and what has stayed becomes less.
LEMMA SameStays ==
  ASSUME StaysKnown, cycle' = cycle \/ cycle' = Pull!Idle, stayed' \subseteq stayed,
         StayedIsThere'
  PROVE  StaysKnown'
  <1>1. CASE cycle' = cycle
    BY <1>1 DEF StaysKnown, AskedIsKnown, LostAreGone, Pull!Msgs
  <1>2. CASE cycle' = Pull!Idle
    BY <1>2, IdleTyped DEF StaysKnown, AskedIsKnown, LostAreGone
  <1> QED BY <1>1, <1>2

\* When folders stay, and the cycle neither searches nor puts away.
LEMMA ReadingStays ==
  ASSUME StaysKnown, upMail' = upMail, stayed' = stayed,
         cycle'.pc \notin {"search", "vault"}
  PROVE  StaysKnown'
  BY DEF StaysKnown, StayedIsThere, AskedIsKnown, LostAreGone

\* The steps before the search do not lead into it by themselves.
LEMMA PlansAreOpen ==
  ASSUME Typed, NEW f \in Pull!Folder,
         Pull!Open(f) \/ Pull!RefreshFlags(f) \/ Pull!Scan(f) \/ Pull!FetchBodies(f)
           \/ Pull!WriteMark(f)
  PROVE  cycle'.pc \notin {"search", "vault"}
  <1>1. cycle \in Pull!Cycle
    BY DEF Typed, Pull!TypeOK
  <1>2. \A r, g : Pull!Leave(r, g).pc = "open" /\ Pull!Abandon(r, g).pc = "open"
    BY IdleTyped DEF Pull!Leave, Pull!Abandon, Pull!Cycle
  <1>3. \A st : Pull!Plan(f, st).pc \in {"flags", "scan"}
    BY <1>1 DEF Pull!Plan, Pull!Cycle
  <1>4. CASE Pull!Open(f)
    BY <1>2, <1>3, <1>4 DEF Pull!Open
  <1>5. CASE Pull!RefreshFlags(f)
    <2> DEFINE met == {b \in cycle.base : b.folder = f
                        /\ \E r \in {r \in Pull!In(f) : r.uid <= cycle.last} : r.uid = b.uid /\ ~r.del}
               seen == cycle.seen \cup Pull!Msgs(met)
               present == Pull!Uids({r \in Pull!In(f) : r.uid <= cycle.last})
               r1 == [cycle EXCEPT !.present = present, !.seen = seen]
               r2 == [cycle EXCEPT !.byUid = FALSE]
    <2>1. PICK r \in {r1, r2} :
            cycle' = IF cycle.next > cycle.last + 1 THEN [r EXCEPT !.pc = "scan"]
              ELSE Pull!Leave(r, f)
      BY <1>5 DEF Pull!RefreshFlags
    <2> HIDE DEF present, seen
    <2>2. [r EXCEPT !.pc = "scan"].pc = "scan"
      BY <1>1, <2>1 DEF Pull!Cycle
    <2> QED BY <1>2, <2>1, <2>2
  <1>6. CASE Pull!Scan(f)
    <2>1. cycle' = Pull!Abandon(cycle, f) \/ cycle'.pc \in {"mark", "bodies"}
      <3>1. CASE \E p \in {"mark", "bodies"} : \E s, w, x, t :
                   cycle' = [cycle EXCEPT !.pc = p, !.seen = s, !.want = w,
                                          !.failed = x, !.top = t]
        <4>1. PICK p \in {"mark", "bodies"} : \E s, w, x, t :
                   cycle' = [cycle EXCEPT !.pc = p, !.seen = s, !.want = w,
                                          !.failed = x, !.top = t]
          BY <3>1, Zenon
        <4>2. cycle'.pc = p
          BY <1>1, <4>1 DEF Pull!Cycle
        <4> QED BY <4>2
      <3> QED BY <1>6, <3>1, ScanSteps, Zenon
    <2> QED BY <1>2, <2>1
  <1>7. CASE Pull!FetchBodies(f)
    <2>1. \E s : LET r == [cycle EXCEPT !.seen = s] IN
            \/ \E x : cycle' = [r EXCEPT !.pc = "mark", !.want = {}, !.failed = x]
            \/ cycle' = Pull!Abandon(r, f)
      BY <1>7 DEF Pull!FetchBodies
    <2> QED BY <1>1, <1>2, <2>1 DEF Pull!Cycle
  <1>8. CASE Pull!WriteMark(f)
    BY <1>2, <1>8 DEF Pull!WriteMark
  <1> QED BY <1>4, <1>5, <1>6, <1>7, <1>8

\* At the beginning of a cycle, what is on record as staying is the mail that is there.
LEMMA BeginStays == Typed /\ Pull!Begin => StaysKnown'
  <1> SUFFICES ASSUME Typed, Pull!Begin PROVE StaysKnown'
    OBVIOUS
  <1>1. cycle'.pc = "open" /\ upMail' = upMail
    BY IdleTyped DEF Pull!Begin, Pull!Cycle, Pull!upstream
  <1>2. StayedIsThere'
    <2>1. stayed' = {<<r.msg, r.folder>> : r \in upMail}
      BY DEF Pull!Begin
    <2> QED BY <1>1, <2>1 DEF StayedIsThere
  <1> QED BY <1>1, <1>2 DEF StaysKnown, AskedIsKnown, LostAreGone

\* The beginning of the search keeps what is known of it;
LEMMA JudgeStays == Typed /\ StaysKnown /\ Pull!Judge => StaysKnown'
  <1> SUFFICES ASSUME Typed, StaysKnown, Pull!Judge PROVE StaysKnown'
    OBVIOUS
  <1>1. cycle' = Pull!Idle \/ \E l : cycle' = [Pull!Search EXCEPT !.lost = l]
    BY DEF Pull!Judge
  <1>2. cycle'.pc \in {"idle", "search"} /\ cycle'.at = 1
    <2>1. /\ Pull!Idle.pc = "idle" /\ Pull!Idle.at = 1
          /\ \A l : /\ [Pull!Search EXCEPT !.lost = l].pc = "search"
                    /\ [Pull!Search EXCEPT !.lost = l].at = 1
      BY IdleTyped DEF Pull!Search, Pull!Idle
    <2> QED BY <1>1, <2>1
  <1>3. upMail' = upMail /\ stayed' = stayed
    BY DEF Pull!Judge, Pull!upstream, Pull!history
  <1>4. AskedIsKnown'
    BY <1>2, FoldersKnown DEF AskedIsKnown
  <1> QED BY <1>2, <1>3, <1>4 DEF StaysKnown, StayedIsThere, LostAreGone

\* a folder that is asked names such a message found or unsure;
LEMMA AskFolderStays ==
  ASSUME NEW f \in Pull!Folder, Typed, StaysKnown, Pull!AskFolder(f)
  PROVE  StaysKnown'
  <1> DEFINE ask == {g \in cycle.lost : g.msg \notin Synthetic \cup Pull!Msgs(cycle.found)}
             here(bad) == {[folder |-> f, uid |-> r.uid, msg |-> r.msg] :
                             r \in {r \in Pull!In(f) : r.msg \in Pull!Msgs(ask \ bad)}}
             at == cycle.at + 1
             unsure(bad) == cycle.unsure \cup Pull!Msgs(bad)
             found(bad) == cycle.found \cup here(bad)
             s(bad) == [cycle EXCEPT !.at = at, !.unsure = unsure(bad),
               !.found = found(bad)]
  <1>1. /\ cycle \in Pull!Cycle /\ cycle.pc = "search" /\ Pull!Searched[cycle.at] = f
        /\ upMail' = upMail /\ stayed' = stayed
    BY DEF Pull!AskFolder, Typed, Pull!TypeOK, Pull!upstream, Pull!history
  <1>2. PICK bad \in SUBSET ask : cycle' = s(bad)
    BY DEF Pull!AskFolder
  <1>3. /\ cycle'.pc = "search" /\ cycle'.found = found(bad) /\ cycle'.lost = cycle.lost
        /\ cycle'.at = at /\ cycle'.unsure = unsure(bad)
    <2> HIDE DEF at, unsure, found, ask
    <2> QED BY <1>1, <1>2 DEF Pull!Cycle
  <1>4. ASSUME NEW g \in cycle.lost, NEW i \in 1 .. Len(Pull!Searched),
               g.msg \notin Synthetic,
               i < cycle.at + 1, <<g.msg, Pull!Searched[i]>> \in stayed
        PROVE  g.msg \in Pull!Msgs(found(bad)) \cup unsure(bad)
    <2>1. CASE g.msg \in Pull!Msgs(cycle.found) \cup cycle.unsure
      BY <2>1 DEF Pull!Msgs
    <2>2. CASE g.msg \notin Pull!Msgs(cycle.found) \cup cycle.unsure
      <3>1. g \in ask
        BY <1>4, <2>2
      <3>2. ~(i < cycle.at)
        BY <1>1, <1>4, <2>2 DEF StaysKnown, AskedIsKnown
      <3>3. i = cycle.at
        BY <1>1, <1>4, <3>2, FoldersKnown DEF Pull!Cycle
      <3>4. PICK r \in upMail : r.msg = g.msg /\ r.folder = f
        BY <1>1, <1>4, <3>3 DEF StaysKnown, StayedIsThere
      <3>5. CASE g \in bad
        BY <3>5 DEF Pull!Msgs
      <3>6. CASE g \notin bad
        <4>1. g.msg \in Pull!Msgs(ask \ bad)
          BY <3>1, <3>6 DEF Pull!Msgs
        <4>2. [folder |-> f, uid |-> r.uid, msg |-> r.msg] \in here(bad)
          <5>1. r \in Pull!In(f) /\ r.msg \in Pull!Msgs(ask \ bad)
            BY <3>4, <4>1 DEF Pull!In
          <5> HIDE DEF ask
          <5> QED BY <5>1
        <4>3. r.msg \in Pull!Msgs(found(bad))
          <5> HIDE DEF here
          <5> QED BY <4>2 DEF Pull!Msgs
        <4> HIDE DEF found
        <4> QED BY <3>4, <4>3
      <3> QED BY <3>5, <3>6
    <2> QED BY <2>1, <2>2
  <1> HIDE DEF found, unsure
  <1>5. AskedIsKnown'
    BY <1>1, <1>3, <1>4 DEF AskedIsKnown, Pull!Msgs
  <1> QED BY <1>1, <1>3, <1>5 DEF StaysKnown, StayedIsThere, LostAreGone

\* the decision keeps it,
LEMMA DecideStays == Typed /\ StaysKnown /\ Pull!Decide => StaysKnown'
  <1> SUFFICES ASSUME Typed, StaysKnown, Pull!Decide PROVE StaysKnown'
    OBVIOUS
  <1>1. /\ cycle \in Pull!Cycle /\ cycle.pc = "search" /\ cycle.at > Len(Pull!Searched)
        /\ upMail' = upMail /\ stayed' = stayed
    BY DEF Pull!Decide, Typed, Pull!TypeOK, Pull!upstream, Pull!history
  <1>2. cycle' = Pull!Idle
        \/ cycle' = [Pull!Idle EXCEPT !.pc = "vault", !.lost = Pull!GoneForGood]
    BY DEF Pull!Decide
  <1>3. cycle'.pc = "idle" \/ (cycle'.pc = "vault" /\ cycle'.lost = Pull!GoneForGood)
    BY <1>2, IdleTyped DEF Pull!Cycle
  <1>4. ASSUME NEW g \in Pull!GoneForGood, NEW f \in Pull!Folder, g.msg \notin Synthetic
        PROVE  <<g.msg, f>> \notin stayed
    <2>1. g \in cycle.lost /\ g.msg \notin Pull!Msgs(cycle.found) \cup cycle.unsure
      BY DEF Pull!GoneForGood
    <2>2. PICK i \in 1 .. Len(Pull!Searched) : Pull!Searched[i] = f
      BY FoldersKnown
    <2>3. i < cycle.at
      BY <1>1, FoldersKnown DEF Pull!Cycle
    <2> QED BY <1>1, <1>4, <2>1, <2>2, <2>3 DEF StaysKnown, AskedIsKnown
  <1>5. LostAreGone'
    BY <1>1, <1>3, <1>4 DEF LostAreGone
  <1> QED BY <1>1, <1>3, <1>5 DEF StaysKnown, StayedIsThere, AskedIsKnown

\* and so does each message that goes to the vault.
LEMMA VaultStays ==
  ASSUME NEW g \in Pull!Ref, Typed, StaysKnown, Pull!Vault(g)
  PROVE  StaysKnown'
  <1>1. cycle \in Pull!Cycle /\ cycle.pc = "vault" /\ upMail' = upMail /\ stayed' = stayed
    BY DEF Pull!Vault, Typed, Pull!TypeOK, Pull!upstream
  <1>2. cycle' = Pull!Idle \/ cycle' = [cycle EXCEPT !.lost = @ \ {g}]
    BY DEF Pull!Vault
  <1>3. cycle'.pc = "idle" \/ (cycle'.pc = "vault" /\ cycle'.lost = cycle.lost \ {g})
    BY <1>1, <1>2, IdleTyped DEF Pull!Cycle
  <1> QED BY <1>1, <1>3 DEF StaysKnown, StayedIsThere, AskedIsKnown, LostAreGone

\* Others leave what has stayed, or it has not.
LEMMA OthersStay ==
  ASSUME Typed, StaysKnown,
         \/ \E m \in Msg, f \in Pull!Folder : Pull!File(m, f)
         \/ \E r \in upMail : Pull!Expunge(r) \/ Pull!Flag(r)
         \/ \E f \in Pull!Folder : Pull!Renumber(f)
         \/ \E m \in Msg : Pull!DeliverHere(m) \/ Pull!Edit(m) \/ Pull!Restore(m)
              \/ Pull!Push(m)
  PROVE  StaysKnown'
  <1>1. ASSUME NEW m \in Msg, NEW f \in Pull!Folder, Pull!File(m, f) PROVE StaysKnown'
    <2>1. upMail \subseteq upMail' /\ stayed' = stayed /\ cycle' = cycle
      BY <1>1 DEF Pull!File, Pull!history
    <2> QED BY <2>1, SameStays DEF StaysKnown, StayedIsThere
  <1>2. ASSUME NEW r \in upMail, Pull!Expunge(r) PROVE StaysKnown'
    <2>1. /\ upMail' = upMail \ {r} /\ stayed' = stayed \ {<<r.msg, r.folder>>}
               /\ cycle' = cycle
      BY <1>2 DEF Pull!Expunge, Pull!Remove
    <2>2. StayedIsThere'
      <3> SUFFICES ASSUME NEW p \in stayed, p # <<r.msg, r.folder>>
                   PROVE  \E s \in upMail' : s.msg = p[1] /\ s.folder = p[2]
        BY <2>1 DEF StayedIsThere
      <3>1. PICK s \in upMail : s.msg = p[1] /\ s.folder = p[2]
        BY DEF StaysKnown, StayedIsThere
      <3>2. p = <<s.msg, s.folder>>
        BY <3>1 DEF Typed, Pull!TypeOK
      <3> QED BY <2>1, <3>1, <3>2
    <2> QED BY <2>1, <2>2, SameStays
  <1>3. ASSUME NEW r \in upMail, Pull!Flag(r) PROVE StaysKnown'
    <2> DEFINE d == ~r.del
               c == [r EXCEPT !.del = d]
    <2>1. upMail' = (upMail \ {r}) \cup {c} /\ stayed' = stayed /\ cycle' = cycle
      BY <1>3 DEF Pull!Flag, Pull!history
    <2>2. r \in Pull!Mail
      BY DEF Typed, Pull!TypeOK
    <2> HIDE DEF d
    <2>3. c.folder = r.folder /\ c.msg = r.msg
      BY <2>2 DEF Pull!Mail
    <2> HIDE DEF c
    <2> QED BY <2>1, <2>3, SameStays DEF StaysKnown, StayedIsThere
  <1>4. ASSUME NEW f \in Pull!Folder, Pull!Renumber(f) PROVE StaysKnown'
    <2> DEFINE Again(r) == [r EXCEPT !.uid = Pull!Cardinality({s \in Pull!In(f) : s.uid <= r.uid})]
               fresh == {Again(r) : r \in Pull!In(f)}
    <2>1. /\ upMail' = (upMail \ Pull!In(f)) \cup fresh /\ stayed' = stayed
          /\ cycle' = cycle \/ cycle' = Pull!Idle
      BY <1>4 DEF Pull!Renumber, Pull!history
    <2>2. \A r \in Pull!In(f) : Again(r) \in fresh /\ Again(r).msg = r.msg
          /\ Again(r).folder = r.folder
      <3>1. \A r \in Pull!In(f) : r \in Pull!Mail
        BY DEF Typed, Pull!TypeOK, Pull!In
      <3>2. \A r \in Pull!Mail : \A k : /\ [r EXCEPT !.uid = k].folder = r.folder
                                        /\ [r EXCEPT !.uid = k].msg = r.msg
        BY DEF Pull!Mail
      <3> QED BY <3>1, <3>2
    <2> HIDE DEF fresh, Again
    <2>3. \A r \in upMail : \E s \in upMail' : s.msg = r.msg /\ s.folder = r.folder
      BY <2>1, <2>2
    <2>4. StayedIsThere'
      BY <2>1, <2>3 DEF StaysKnown, StayedIsThere
    <2> QED BY <2>1, <2>4, SameStays
  <1>5. ASSUME NEW m \in Msg, Pull!DeliverHere(m) \/ Pull!Edit(m) \/ Pull!Restore(m)
               PROVE StaysKnown'
    <2>1. upMail' = upMail /\ stayed' = stayed /\ cycle' = cycle
      BY <1>5 DEF Pull!DeliverHere, Pull!Edit, Pull!Restore, Pull!upstream, Pull!history
    <2> QED BY <2>1, SameStays DEF StaysKnown, StayedIsThere
  <1>6. ASSUME NEW m \in Msg, Pull!Push(m) PROVE StaysKnown'
    <2>1. PICK hit \in SUBSET upMail : /\ upMail' = upMail \ hit /\ cycle' = cycle
                                       /\ stayed' = stayed \ {<<r.msg,
                                            r.folder>> : r \in hit}
      BY <1>6 DEF Pull!Push
    <2>2. StayedIsThere'
      <3> SUFFICES ASSUME NEW p \in stayed, p \notin {<<r.msg, r.folder>> : r \in hit}
                   PROVE  \E s \in upMail' : s.msg = p[1] /\ s.folder = p[2]
        BY <2>1 DEF StayedIsThere
      <3>1. PICK s \in upMail : s.msg = p[1] /\ s.folder = p[2]
        BY DEF StaysKnown, StayedIsThere
      <3>2. p = <<s.msg, s.folder>>
        BY <3>1 DEF Typed, Pull!TypeOK
      <3> QED BY <2>1, <3>1, <3>2
    <2> QED BY <2>1, <2>2, SameStays
  <1> QED BY <1>1, <1>2, <1>3, <1>4, <1>5, <1>6

\* Every step keeps it.
LEMMA StaysPreserved == Typed /\ [Pull!Next]_(Pull!vars) /\ StaysKnown => StaysKnown'
  <1> SUFFICES ASSUME Typed, [Pull!Next]_(Pull!vars), StaysKnown PROVE StaysKnown'
    OBVIOUS
  <1>1. ASSUME NEW f \in Pull!Folder,
               Pull!Open(f) \/ Pull!RefreshFlags(f) \/ Pull!Scan(f) \/ Pull!FetchBodies(f)
                 \/ Pull!WriteMark(f)
        PROVE  StaysKnown'
    <2>1. upMail' = upMail /\ stayed' = stayed
      BY <1>1 DEF Pull!Open, Pull!RefreshFlags, Pull!Scan, Pull!FetchBodies, Pull!WriteMark,
         Pull!upstream, Pull!history
    <2> QED BY <1>1, <2>1, PlansAreOpen, ReadingStays
  <1>2. CASE Pull!Step
    BY <1>1, <1>2, BeginStays, JudgeStays, AskFolderStays, DecideStays,
       VaultStays DEF Pull!Step
  <1>3. CASE Pull!Crash
    <2>1. upMail' = upMail /\ stayed' = stayed /\ cycle' = Pull!Idle
      BY <1>3 DEF Pull!Crash, Pull!upstream, Pull!history
    <2> QED BY <2>1, SameStays DEF StaysKnown, StayedIsThere
  <1>4. CASE UNCHANGED Pull!vars
    <2>1. upMail' = upMail /\ stayed' = stayed /\ cycle' = cycle
      BY <1>4 DEF Pull!vars
    <2> QED BY <2>1, SameStays DEF StaysKnown, StayedIsThere
  <1> QED BY <1>2, <1>3, <1>4, OthersStay DEF Pull!Next

\* Only the last loop of the cycle puts rows in the vault for it, one at a time.
LEMMA VaultedByVault ==
  ASSUME Typed, Pull!Next, NEW m \in Msg, Pull!Vaulted(m)
  PROVE  cycle.pc = "vault" /\ \E g \in cycle.lost : g.msg = m
  <1>1. /\ cycle.pc = "vault" /\ cycle' # cycle /\ pulled'[m] # pulled[m]
    BY DEF Pull!Vaulted
  <1>2. \E g \in Pull!Ref : Pull!Vault(g)
    <2>1. ASSUME NEW f \in Pull!Folder
                 PROVE ~(Pull!RefreshFlags(f) \/ Pull!Scan(f) \/ Pull!FetchBodies(f))
      BY <1>1 DEF Pull!RefreshFlags, Pull!Scan, Pull!FetchBodies
    <2>2. ASSUME NEW n \in Msg
                 PROVE ~(Pull!DeliverHere(n) \/ Pull!Edit(n) \/ Pull!Restore(n)
                       \/ Pull!Push(n))
      BY <1>1 DEF Pull!DeliverHere, Pull!Edit, Pull!Restore, Pull!Push
    <2>3. pulled' # pulled /\ ~Pull!Decide
      BY <1>1 DEF Pull!Decide
    <2> QED BY <2>1, <2>2, <2>3
            DEF Pull!Next, Pull!Step, Pull!Begin, Pull!Open, Pull!WriteMark, Pull!Judge,
              Pull!AskFolder, Pull!Crash, Pull!File, Pull!Expunge,
                Pull!Flag, Pull!Renumber
  <1>3. PICK g \in Pull!Ref : Pull!Vault(g)
    BY <1>2
  <1>4. g \in cycle.lost
    BY <1>3 DEF Pull!Vault
  <1>5. pulled' = pulled
        \/ pulled' = [pulled EXCEPT ![g.msg].live = FALSE, ![g.msg].uid = 0]
    BY <1>3 DEF Pull!Vault
  <1>6. g.msg = m
    <2>1. pulled \in [Msg -> GoodRow]
      BY DEF Typed, RowsPoint
    <2> QED BY <1>1, <1>5, <2>1
  <1> QED BY <1>1, <1>4, <1>6

\* A message that stays in one folder throughout a cycle is not put in the vault
\* by it: whoever it asked for the message has found it or is unsure.
THEOREM StayingIsKeptHolds == Pull!Spec => StayingIsKept
  <1>1. Typed /\ StaysKnown /\ [Pull!Next]_(Pull!vars) => (Typed /\ StaysKnown)'
    BY TypesPreserved, StaysPreserved
  <1>2. Pull!Init => Typed /\ StaysKnown
    <2>1. Pull!Init => StaysKnown
      BY IdleTyped DEF Pull!Init, StaysKnown, StayedIsThere, AskedIsKnown, LostAreGone
    <2> QED BY <2>1, PullTypesBegin
  <1>3. Typed /\ StaysKnown /\ [Pull!Next]_(Pull!vars) =>
          [\A m \in Msg \ Synthetic, f \in Pull!Folder : Pull!Vaulted(m)
            => <<m, f>> \notin stayed]_(Pull!vars)
    <2> SUFFICES ASSUME Typed, StaysKnown, Pull!Next, NEW m \in Msg \ Synthetic,
                        NEW f \in Pull!Folder,
                        Pull!Vaulted(m)
                 PROVE  <<m, f>> \notin stayed
      OBVIOUS
    <2>1. cycle.pc = "vault" /\ \E g \in cycle.lost : g.msg = m
      BY VaultedByVault
    <2> QED BY <2>1 DEF StaysKnown, LostAreGone
  <1> QED BY <1>1, <1>2, <1>3, PTL DEF Pull!Spec, Pull!StayingIsKept, StayingIsKept

-----------------------------------------------------------------------------
(* The calendars read from a URL: CalendarFeeds.tla, as CalendarEvents     *)
(* brings it in.                                                           *)

\* The copies of FiniteSets that this instance brings are the same, too.
LEMMA FeedFiniteness == \A S : Feed!IsFiniteSet(S) <=> IsFiniteSet(S)
  BY DEF Feed!IsFiniteSet, IsFiniteSet

\* So are its numbers of elements.
LEMMA FeedCardinality == \A S : Feed!Cardinality(S) = Cardinality(S)
  BY FeedFiniteness DEF Feed!Cardinality, Cardinality

\* A component that has become an event, and the texts' events at their positions.
Event == [uid : FeedUid, content : Content, version : Version, todo : BOOLEAN,
          starts : BOOLEAN, ends : BOOLEAN]
Places == {J \in SUBSET Nat : IsFiniteSet(J)}
Texts == UNION {[J -> Event] : J \in Places}

\* What a synchronisation reads of a row, a match, and a write it prepares.
Identity == [id : Feed!RowId, uid : FeedUid, content : Content]
Pair == [at : Nat, id : Feed!RowId, byContent : BOOLEAN]
Write == [at : Nat, id : Feed!RowId, guests : Version \cup {None}]

SyncState == [pc : {"idle", "fetched", "make", "found", "read", "compared"},
              body : Feeds \cup {Feed!NoBody}, parts : Texts,
              cal : Feed!CalendarId \cup {0}, known : SUBSET Identity, creates : SUBSET Nat,
              updates : SUBSET Write, deletes : SUBSET FeedUid, lost : SUBSET Pair]

\* Whoever has found a calendar works on one that has been made, with the events
\* of the text it fetched.
FeedTyped ==
  /\ Feed!TypeOK
  /\ feedSync \in [Feed!Sync -> SyncState]
  /\ feedUpload \in [cal : Feed!CalendarId \cup {0}, parts : Texts]
  /\ \A p \in Feed!Sync : /\ feedSync[p].pc \in {"found", "read", "compared"}
                               => feedSync[p].cal \in Feed!CalendarId
                          /\ feedSync[p].pc # "compared" => feedSync[p].creates = {}
                               /\ feedSync[p].updates = {}
                          /\ feedSync[p].creates \subseteq DOMAIN feedSync[p].parts
                          /\ \A u \in feedSync[p].updates : u.at \in DOMAIN feedSync[p].parts
                          /\ feedSync[p].pc # "idle"
                               => /\ feedSync[p].body \in Feeds
                                  /\ feedSync[p].parts = Feed!ParseICS(feedSync[p].body)
  /\ feedUpload # Feed!NoUpload => feedUpload.cal \in Feed!CalendarId
       /\ feedUpload.parts # << >>
  /\ feedFetches \in Nat /\ feedRequests \in Nat

\* A text is a function from finitely many positions to events.
LEMMA TextHas ==
  ASSUME NEW f \in Texts
  PROVE  /\ DOMAIN f \in SUBSET Nat /\ IsFiniteSet(DOMAIN f)
         /\ \A j \in DOMAIN f : f[j] \in Event
         /\ f \in [DOMAIN f -> Event]
  <1>1. PICK J \in Places : f \in [J -> Event]
    BY DEF Texts
  <1> QED BY <1>1 DEF Places

\* Every such function is a text.
LEMMA TextIs ==
  ASSUME NEW J \in Places, NEW f \in [J -> Event]
  PROVE  f \in Texts
  BY DEF Texts

\* The empty text is one.
LEMMA EmptyText == << >> \in Texts /\ DOMAIN << >> = {}
  <1>1. DOMAIN << >> = {} /\ << >> \in [{} -> Event]
    OBVIOUS
  <1>2. {} \in Places
    BY FS_EmptySet DEF Places
  <1> QED BY <1>1, <1>2, TextIs

\* It is the only one without a position.
LEMMA OnlyEmptyText ==
  ASSUME NEW f \in Texts, DOMAIN f = {}
  PROVE  f = << >>
  <1>1. f \in [{} -> Event] /\ << >> \in [{} -> Event]
    BY TextHas
  <1>2. ASSUME NEW g \in [{} -> Event], NEW h \in [{} -> Event] PROVE g = h
    OBVIOUS
  <1> QED BY <1>1, <1>2

\* A text that lost positions is a text.
LEMMA TextShrinks ==
  ASSUME NEW f \in Texts, NEW J \in SUBSET DOMAIN f
  PROVE  Feed!Restrict(f, J) \in Texts /\ DOMAIN Feed!Restrict(f, J) = J
  <1>1. J \in Places
    BY TextHas, FS_Subset DEF Places
  <1>2. Feed!Restrict(f, J) \in [J -> Event]
    BY TextHas DEF Feed!Restrict
  <1> QED BY <1>1, <1>2, TextIs DEF Feed!Restrict

\* Components that pass become events.
LEMMA ChosenAreText ==
  ASSUME NEW text \in Seq(Feed!Component), NEW J \in SUBSET DOMAIN text,
         \A j \in J : text[j].uid # None
  PROVE  [j \in J |-> text[j]] \in Texts
  <1>1. DOMAIN text = 1 .. Len(text) /\ Len(text) \in Nat
    OBVIOUS
  <1>2. J \in Places
    <2>1. IsFiniteSet(1 .. Len(text))
      BY <1>1, FS_Interval
    <2>2. IsFiniteSet(J) /\ J \in SUBSET Nat
      BY <1>1, <2>1, FS_Subset
    <2> QED BY <2>2 DEF Places
  <1>3. ASSUME NEW j \in J PROVE text[j] \in Event
    <2>1. text[j] \in Feed!Component
      BY <1>1
    <2> QED BY <2>1, <1>3 DEF Feed!Component, Event
  <1>4. [j \in J |-> text[j]] \in [J -> Event]
    BY <1>3
  <1> QED BY <1>2, <1>4, TextIs

\* What ParseICS makes of a body is a text, by either parser, and holds every
\* component of the body that is intact, at its place.
LEMMA ParsedIsText ==
  ASSUME NEW body \in Feeds
  PROVE  /\ Feed!ParseICS(body) \in Texts
         /\ DOMAIN Feed!ParseICS(body) \subseteq DOMAIN body.parts
         /\ \A j \in DOMAIN Feed!ParseICS(body) : Feed!ParseICS(body)[j] = body.parts[j]
         /\ \A j \in DOMAIN body.parts :
               Feed!Intact(body, j) => j \in DOMAIN Feed!ParseICS(body)
  <1> DEFINE text == body.parts
             D == {j \in DOMAIN text : j <= body.decodes /\ Feed!parseICalEvent(text[j])}
             V == {j \in Feed!extractVEvents(text) : Feed!parseVEvent(text[j])}
             J == IF D # {} THEN D ELSE V
  <1>1. text \in Seq(Feed!Component) /\ body.decodes \in Nat
    BY FeedAssumption DEF Feed!Body
  <1>2. Feed!ParseICS(body) = [j \in J |-> text[j]]
    BY DEF Feed!ParseICS, Feed!Restrict
  <1>3. J \in SUBSET DOMAIN text /\ \A j \in J : text[j].uid # None
    BY DEF Feed!parseICalEvent, Feed!parseVEvent, Feed!extractVEvents
  <1>4. ASSUME NEW j \in DOMAIN text, Feed!Intact(body, j) PROVE j \in J
    <2>1. /\ text[j].uid # None /\ text[j].starts /\ text[j].ends
          /\ j <= body.decodes \/ (body.decodes = 0 /\ ~text[j].todo)
      BY <1>4 DEF Feed!Intact
    <2>2. CASE j <= body.decodes
      BY <2>1, <2>2 DEF Feed!parseICalEvent
    <2>3. CASE body.decodes = 0 /\ ~text[j].todo
      <3>1. \A i \in DOMAIN text : i \in Nat /\ i > 0
        BY <1>1
      <3>2. D = {}
        BY <2>3, <3>1
      <3>3. j \in V
        BY <2>1, <2>3 DEF Feed!parseVEvent, Feed!extractVEvents
      <3> QED BY <3>2, <3>3
    <2> QED BY <2>1, <2>2, <2>3
  <1> HIDE DEF J
  <1>5. [j \in J |-> text[j]] \in Texts
    BY <1>1, <1>3, ChosenAreText
  <1> QED BY <1>2, <1>3, <1>4, <1>5

\* So is what the decoder makes of an uploaded file.
LEMMA FileIsText ==
  ASSUME NEW file \in Files
  PROVE  Feed!RestrictValues(file, Feed!parseICalEvent) \in Texts
  <1> DEFINE D == {j \in DOMAIN file : Feed!parseICalEvent(file[j])}
  <1>1. Feed!RestrictValues(file, Feed!parseICalEvent) = [j \in D |-> file[j]]
    BY DEF Feed!RestrictValues, Feed!Restrict
  <1>2. file \in Seq(Feed!Component)
    BY FeedAssumption
  <1> QED BY <1>1, <1>2, ChosenAreText DEF Feed!parseICalEvent

-----------------------------------------------------------------------------
(* The matching as an operator. *)

\* What a synchronisation knows of a calendar's rows: none twice, no UID twice.
Apart(known) == \A k, l \in known : k.id = l.id \/ k.uid = l.uid => k = l

\* Then it knows finitely many.
LEMMA KnownIsFinite ==
  ASSUME NEW known \in SUBSET Identity, Apart(known)
  PROVE  IsFiniteSet(known)
  <1> DEFINE f == [k \in known |-> k.id]
  <1>1. f \in [known -> Feed!RowId]
    BY DEF Identity
  <1>2. f \in Injection(known, Feed!RowId)
    BY <1>1 DEF Apart, Injection, IsInjective
  <1>3. IsFiniteSet(Feed!RowId)
    BY FeedAssumption, FS_Interval DEF Feed!RowId
  <1> QED BY <1>2, <1>3, FS_Injection

\* A match as a record: event j goes to the row known as k.
UidPair(j, k) == [at |-> j, id |-> k.id, byContent |-> FALSE]
ContentPair(j, k) == [at |-> j, id |-> k.id, byContent |-> TRUE]

UidMatches(known, parts) ==
  UNION {{UidPair(j, k) : k \in Feed!Holder(known, parts[j].uid)} : j \in Feed!ByUid(known,
    parts)}
ContentMatches(known, parts) ==
  UNION {{ContentPair(j, k) : k \in Feed!Alike(known, parts[j].content)} :
         j \in Feed!ByContent(known, parts)}

\* The parts of the matching, by the names above.
LEMMA MatchingGives ==
  ASSUME NEW known, NEW parts
  PROVE  /\ Feed!matchFeedEvents(known, parts).matches
              = UidMatches(known, parts) \cup ContentMatches(known, parts)
         /\ Feed!matchFeedEvents(known, parts).creates
              = DOMAIN parts \ (Feed!ByUid(known, parts) \cup Feed!ByContent(known, parts))
         /\ Feed!matchFeedEvents(known, parts).deletes
              = {k.uid : k \in {k \in known :
                                  \A x \in Feed!matchFeedEvents(known,
                                    parts).matches : x.id # k.id}}
  BY DEF Feed!matchFeedEvents, UidMatches, ContentMatches, UidPair, ContentPair

\* A match by UID comes of an event and a row with its UID,
LEMMA UidMatchIs ==
  ASSUME NEW known, NEW parts, NEW x \in UidMatches(known, parts)
  PROVE  \E j \in DOMAIN parts, k \in known :
            j \in Feed!ByUid(known, parts) /\ k \in Feed!Holder(known, parts[j].uid)
              /\ x = UidPair(j, k)
  <1>1. \E j \in Feed!ByUid(known, parts) : \E k \in Feed!Holder(known,
        parts[j].uid) : x = UidPair(j, k)
    BY DEF UidMatches
  <1> QED BY <1>1 DEF Feed!ByUid, Feed!Holder

\* and every such pair of pass one is a match.
LEMMA UidMatchMade ==
  ASSUME NEW known, NEW parts, NEW j \in Feed!ByUid(known, parts),
         NEW k \in Feed!Holder(known, parts[j].uid)
  PROVE  UidPair(j, k) \in UidMatches(known, parts)
  BY DEF UidMatches

\* A match by content comes of an event and a row of its content,
LEMMA ContentMatchIs ==
  ASSUME NEW known, NEW parts, NEW x \in ContentMatches(known, parts)
  PROVE  \E j \in DOMAIN parts, k \in known :
            j \in Feed!ByContent(known, parts) /\ k \in Feed!Alike(known, parts[j].content)
              /\ x = ContentPair(j, k)
  <1>1. \E j \in Feed!ByContent(known, parts) : \E k \in Feed!Alike(known,
        parts[j].content) : x = ContentPair(j, k)
    BY DEF ContentMatches
  <1> QED BY <1>1 DEF Feed!ByContent, Feed!Alike

\* and every such pair of pass two is a match.
LEMMA ContentMatchMade ==
  ASSUME NEW known, NEW parts, NEW j \in Feed!ByContent(known, parts),
         NEW k \in Feed!Alike(known, parts[j].content)
  PROVE  ContentPair(j, k) \in ContentMatches(known, parts)
  BY DEF ContentMatches

\* An event whose UID a row has takes a row with that UID, or an earlier one does.
LEMMA UidIsTaken ==
  ASSUME NEW known \in SUBSET Identity, NEW parts \in Texts,
         NEW k \in known, NEW j \in DOMAIN parts, parts[j].uid = k.uid
  PROVE  \E x \in UidMatches(known, parts) : x.id = k.id
  <1> DEFINE T == {i \in DOMAIN parts : parts[i].uid = k.uid}
  <1>1. T \in SUBSET Nat /\ T # {}
    BY TextHas
  <1>2. PICK i \in T : \A n \in T : i <= n
    <2> HIDE DEF T
    <2> QED BY <1>1, LeastNumber
  <1>3. i \in Feed!ByUid(known, parts) /\ k \in Feed!Holder(known, parts[i].uid)
    <2>1. ASSUME NEW n \in DOMAIN parts, n < i PROVE parts[n].uid # parts[i].uid
      <3>1. i \in Nat /\ n \in Nat /\ ~(i <= n)
        BY <1>1, <2>1, TextHas
      <3> QED BY <1>2, <3>1
    <2> QED BY <1>2, <2>1 DEF Feed!ByUid, Feed!Holder
  <1>4. UidPair(i, k) \in UidMatches(known, parts) /\ UidPair(i, k).id = k.id
    BY <1>3, UidMatchMade DEF UidPair, ContentPair
  <1> QED BY <1>4

\* Rows are claimed by UID if there is a match by UID.
LEMMA ClaimedIsTaken ==
  ASSUME NEW known \in SUBSET Identity, Apart(known), NEW parts, NEW k \in known
  PROVE  k \in Feed!ClaimedByUid(known, parts) <=> \E x \in UidMatches(known,
         parts) : x.id = k.id
  <1>1. ASSUME k \in Feed!ClaimedByUid(known, parts)
        PROVE  \E x \in UidMatches(known, parts) : x.id = k.id
    <2>1. PICK j \in Feed!ByUid(known, parts) : k \in Feed!Holder(known, parts[j].uid)
      BY <1>1 DEF Feed!ClaimedByUid
    <2>2. UidPair(j, k) \in UidMatches(known, parts) /\ UidPair(j, k).id = k.id
      BY <2>1, UidMatchMade DEF UidPair, ContentPair
    <2> QED BY <2>2
  <1>2. ASSUME NEW x \in UidMatches(known, parts), x.id = k.id
        PROVE  k \in Feed!ClaimedByUid(known, parts)
    <2>1. PICK j \in DOMAIN parts, l \in known :
             /\ j \in Feed!ByUid(known, parts)
             /\ l \in Feed!Holder(known, parts[j].uid)
             /\ x = UidPair(j, l)
      BY UidMatchIs
    <2>2. l = k
      BY <1>2, <2>1 DEF Apart, Feed!Holder, UidPair, ContentPair
    <2> QED BY <2>1, <2>2 DEF Feed!ClaimedByUid
  <1> QED BY <1>1, <1>2

\* An event that content may place has one row of its content, which nobody claims.
LEMMA ContentPlaces ==
  ASSUME NEW known \in SUBSET Identity, Apart(known), NEW parts,
         NEW j \in Feed!ByContent(known, parts)
  PROVE  \E k \in known : /\ Feed!Alike(known, parts[j].content) = {k}
                          /\ k \notin Feed!ClaimedByUid(known, parts)
  <1> DEFINE A == Feed!Alike(known, parts[j].content)
  <1>1. Cardinality(A) = 1 /\ A \cap Feed!ClaimedByUid(known, parts) = {}
    BY FeedCardinality DEF Feed!ByContent
  <1>2. A \in SUBSET known
    BY DEF Feed!Alike
  <1>3. IsFiniteSet(A)
    BY <1>2, KnownIsFinite, FS_Subset
  <1>4. PICK k : A = {k}
    <2> HIDE DEF A
    <2> QED BY <1>1, <1>3, FS_Singleton
  <1> QED BY <1>1, <1>2, <1>4

\* Every event is matched or created.
LEMMA PlacedIsMatched ==
  ASSUME NEW known \in SUBSET Identity, Apart(known), NEW parts \in Texts,
         NEW j \in DOMAIN parts, j \notin Feed!matchFeedEvents(known, parts).creates
  PROVE  \E x \in Feed!matchFeedEvents(known, parts).matches : x.at = j
  <1>1. j \in Feed!ByUid(known, parts) \/ j \in Feed!ByContent(known, parts)
    BY MatchingGives
  <1>2. CASE j \in Feed!ByUid(known, parts)
    <2>1. PICK k \in Feed!Holder(known, parts[j].uid) : TRUE
      BY <1>2 DEF Feed!ByUid
    <2>2. UidPair(j, k) \in UidMatches(known, parts) /\ UidPair(j, k).at = j
      BY <1>2, <2>1, UidMatchMade DEF UidPair, ContentPair
    <2> QED BY <2>2, MatchingGives
  <1>3. CASE j \in Feed!ByContent(known, parts)
    <2>1. PICK k \in known : k \in Feed!Alike(known, parts[j].content)
      BY <1>3, ContentPlaces
    <2>2. ContentPair(j, k) \in ContentMatches(known, parts) /\ ContentPair(j, k).at = j
      BY <1>3, <2>1, ContentMatchMade DEF UidPair, ContentPair
    <2> QED BY <2>2, MatchingGives
  <1> QED BY <1>1, <1>2, <1>3

\* What a match says of its event and its row.
LEMMA MatchSays ==
  ASSUME NEW known \in SUBSET Identity, NEW parts,
         NEW x \in Feed!matchFeedEvents(known, parts).matches
  PROVE  /\ x.at \in DOMAIN parts
         /\ x.at \notin Feed!matchFeedEvents(known, parts).creates
         /\ x = [at |-> x.at, id |-> x.id, byContent |-> x.byContent]
         /\ x.byContent \in BOOLEAN
         /\ \E k \in known : x.id = k.id
         /\ ~x.byContent => \E k \in known : x.id = k.id /\ k.uid = parts[x.at].uid
  <1>1. CASE x \in UidMatches(known, parts)
    <2>1. PICK j \in DOMAIN parts, k \in known :
             /\ j \in Feed!ByUid(known, parts)
             /\ k \in Feed!Holder(known, parts[j].uid)
             /\ x = UidPair(j, k)
      BY <1>1, UidMatchIs
    <2>2. j \in DOMAIN parts /\ k \in known /\ k.uid = parts[j].uid
      BY <2>1 DEF Feed!ByUid, Feed!Holder
    <2>3. j \notin Feed!matchFeedEvents(known, parts).creates
      BY <2>1, MatchingGives
    <2> QED BY <2>1, <2>2, <2>3 DEF UidPair, ContentPair
  <1>2. CASE x \in ContentMatches(known, parts)
    <2>1. PICK j \in DOMAIN parts, k \in known :
             /\ j \in Feed!ByContent(known, parts)
             /\ k \in Feed!Alike(known, parts[j].content)
             /\ x = ContentPair(j, k)
      BY <1>2, ContentMatchIs
    <2>2. j \in DOMAIN parts /\ k \in known
      BY <2>1 DEF Feed!ByContent, Feed!Alike
    <2>3. j \notin Feed!matchFeedEvents(known, parts).creates
      BY <2>1, MatchingGives
    <2> QED BY <2>1, <2>2, <2>3 DEF UidPair, ContentPair
  <1> QED BY <1>1, <1>2, MatchingGives

\* A match is one of a place and a row.
LEMMA MatchIsPair ==
  ASSUME NEW known \in SUBSET Identity, NEW parts \in Texts,
         NEW x \in Feed!matchFeedEvents(known, parts).matches
  PROVE  x \in Pair
  <1>1. /\ x.at \in DOMAIN parts /\ \E k \in known : x.id = k.id
        /\ x = [at |-> x.at, id |-> x.id, byContent |-> x.byContent]
        /\ x.byContent \in BOOLEAN
    BY MatchSays
  <1>2. x.at \in Nat /\ x.id \in Feed!RowId
    BY <1>1, TextHas DEF Identity
  <1> QED BY <1>1, <1>2 DEF Pair

\* No event is matched twice.
LEMMA EventsAreApart ==
  ASSUME NEW known \in SUBSET Identity, Apart(known), NEW parts \in Texts,
         NEW x \in Feed!matchFeedEvents(known, parts).matches,
         NEW y \in Feed!matchFeedEvents(known, parts).matches, x.at = y.at
  PROVE  x = y
  <1>1. ASSUME NEW a \in UidMatches(known, parts)
        PROVE  \E k \in known : /\ a.at \in Feed!ByUid(known, parts)
                                /\ k.uid = parts[a.at].uid /\ a = UidPair(a.at, k)
    BY UidMatchIs DEF UidPair, Feed!Holder
  <1>2. ASSUME NEW a \in ContentMatches(known, parts)
        PROVE  \E k \in known : /\ a.at \in Feed!ByContent(known, parts)
                                /\ k \in Feed!Alike(known, parts[a.at].content)
                                /\ a = ContentPair(a.at, k)
    BY ContentMatchIs DEF ContentPair
  <1>3. \A j \in Feed!ByContent(known, parts) : j \notin Feed!ByUid(known, parts)
    BY DEF Feed!ByContent
  <1>4. CASE x \in UidMatches(known, parts) /\ y \in UidMatches(known, parts)
    BY <1>1, <1>4 DEF Apart
  <1>5. CASE x \in ContentMatches(known, parts) /\ y \in ContentMatches(known, parts)
    <2>1. x.at \in Feed!ByContent(known, parts)
      BY <1>2, <1>5
    <2>2. PICK k \in known : Feed!Alike(known, parts[x.at].content) = {k}
      BY <2>1, ContentPlaces
    <2>3. x = ContentPair(x.at, k)
      BY <1>2, <1>5, <2>2
    <2>4. y = ContentPair(y.at, k)
      <3>1. PICK l \in known : /\ l \in Feed!Alike(known, parts[y.at].content)
                               /\ y = ContentPair(y.at, l)
        BY <1>2, <1>5
      <3>2. l = k
        BY <2>2, <3>1
      <3> QED BY <3>1, <3>2
    <2> QED BY <2>3, <2>4
  <1> QED BY <1>1, <1>2, <1>3, <1>4, <1>5, MatchingGives

\* No row is matched twice.
LEMMA MatchesAreApart ==
  ASSUME NEW known \in SUBSET Identity, Apart(known), NEW parts \in Texts,
         NEW x \in Feed!matchFeedEvents(known, parts).matches,
         NEW y \in Feed!matchFeedEvents(known, parts).matches, x.id = y.id
  PROVE  x = y
  <1>1. ASSUME NEW a \in UidMatches(known, parts), NEW b \in UidMatches(known, parts),
               a.id = b.id
        PROVE  a = b
    <2>1. PICK i \in DOMAIN parts, k \in known :
             /\ i \in Feed!ByUid(known, parts)
             /\ k \in Feed!Holder(known, parts[i].uid)
             /\ a = UidPair(i, k)
      BY UidMatchIs
    <2>2. PICK j \in DOMAIN parts, l \in known :
             /\ j \in Feed!ByUid(known, parts)
             /\ l \in Feed!Holder(known, parts[j].uid)
             /\ b = UidPair(j, l)
      BY UidMatchIs
    <2>3. k = l
      BY <1>1, <2>1, <2>2 DEF Apart, Feed!Holder, UidPair, ContentPair
    <2>4. parts[i].uid = parts[j].uid
      BY <2>1, <2>2, <2>3 DEF Feed!Holder
    <2>5. i \in Nat /\ j \in Nat /\ i \in DOMAIN parts /\ j \in DOMAIN parts
      BY TextHas DEF Feed!ByUid
    <2>6. ~(i < j) /\ ~(j < i)
      BY <2>1, <2>2, <2>4, <2>5 DEF Feed!ByUid
    <2>7. i = j
      BY <2>1, <2>2, <2>5, <2>6
    <2> QED BY <2>1, <2>2, <2>3, <2>7
  <1>2. ASSUME NEW a \in UidMatches(known, parts), NEW b \in ContentMatches(known, parts)
        PROVE  a.id # b.id
    <2>1. PICK j \in DOMAIN parts, l \in known :
             /\ j \in Feed!ByContent(known, parts)
             /\ l \in Feed!Alike(known, parts[j].content)
             /\ b = ContentPair(j, l)
      BY ContentMatchIs
    <2>2. l \in known /\ l \notin Feed!ClaimedByUid(known, parts)
      BY <2>1, ContentPlaces
    <2>3. a.id # l.id
      BY <2>2, ClaimedIsTaken
    <2> QED BY <2>1, <2>3 DEF UidPair, ContentPair
  <1>3. ASSUME NEW a \in ContentMatches(known, parts),
               NEW b \in ContentMatches(known, parts),
               a.id = b.id
        PROVE  a = b
    <2>1. PICK i \in DOMAIN parts, k \in known :
             /\ i \in Feed!ByContent(known, parts)
             /\ k \in Feed!Alike(known, parts[i].content)
             /\ a = ContentPair(i, k)
      BY ContentMatchIs
    <2>2. PICK j \in DOMAIN parts, l \in known :
             /\ j \in Feed!ByContent(known, parts)
             /\ l \in Feed!Alike(known, parts[j].content)
             /\ b = ContentPair(j, l)
      BY ContentMatchIs
    <2>3. k = l
      BY <1>3, <2>1, <2>2 DEF Apart, Feed!Alike, UidPair, ContentPair
    <2>4. parts[i].content = parts[j].content
      BY <2>1, <2>2, <2>3 DEF Feed!Alike
    <2> DEFINE O == {n \in DOMAIN parts : parts[n].content = parts[i].content}
    <2>5. Cardinality(O) = 1 /\ i \in O /\ j \in O
      <3>1. Feed!Occurrences(parts, parts[i].content) = 1
        BY <2>1 DEF Feed!ByContent
      <3> QED BY <2>4, <3>1, FeedCardinality DEF Feed!Occurrences
    <2>6. IsFiniteSet(O)
      BY TextHas, FS_Subset
    <2>7. i = j
      <3> HIDE DEF O
      <3>1. PICK n : O = {n}
        BY <2>5, <2>6, FS_Singleton
      <3> QED BY <2>5, <3>1
    <2> QED BY <2>1, <2>2, <2>3, <2>7
  <1> QED BY <1>1, <1>2, <1>3, MatchingGives

-----------------------------------------------------------------------------
(* Types. *)

\* The part of the assumption that is needed everywhere.
LEMMA BoundsAreNumbers ==
  /\ MaxRow \in Nat /\ MaxCalendar \in Nat /\ MaxFetches \in Nat /\ MaxFeedRequests \in Nat
  /\ None \notin BOOLEAN /\ None \notin Feed!EventRow
  BY FeedAssumption

\* The idle synchronisation and the missing upload are of their types.
LEMMA FeedIdleTyped ==
  /\ Feed!Idle \in SyncState /\ Feed!Idle.pc = "idle" /\ Feed!Idle.creates = {}
       /\ Feed!Idle.updates = {}
  /\ Feed!NoUpload \in [cal : Feed!CalendarId \cup {0}, parts : Texts]
  BY EmptyText DEF Feed!Idle, Feed!NoUpload, Feed!NoBody, SyncState

\* The types hold at the beginning.
LEMMA FeedTypesBegin == Feed!Init => FeedTyped
  <1> SUFFICES ASSUME Feed!Init PROVE FeedTyped
    OBVIOUS
  <1>1. Feed!TypeOK
    BY FeedIdleTyped, BoundsAreNumbers DEF Feed!Init, Feed!TypeOK, Feed!CalendarId,
       Feed!RowId, Feed!Sync, Feed!Idle, Feed!NoUpload
  <1> QED BY <1>1, FeedIdleTyped DEF Feed!Init, FeedTyped, Feed!Sync

\* What Typed says of one synchronisation.
SyncFits(s) ==
  /\ s \in SyncState
  /\ s.pc \in {"found", "read", "compared"} => s.cal \in Feed!CalendarId
  /\ s.pc # "compared" => s.creates = {} /\ s.updates = {}
  /\ s.creates \subseteq DOMAIN s.parts
  /\ \A u \in s.updates : u.at \in DOMAIN s.parts
  /\ s.pc # "idle" => s.body \in Feeds /\ s.parts = Feed!ParseICS(s.body)

\* A step that moves one synchronisation, if any, and none of the rest.
LEMMA TypesOfSync ==
  ASSUME FeedTyped, NEW p \in Feed!Sync, NEW s, SyncFits(s),
         feedSync' = [feedSync EXCEPT ![p] = s],
         UNCHANGED <<feedRow, feedUpload, lastFeedRow, feedRequests>>,
           feedDisturbed' \subseteq Feed!Sync,
         feedCalendar' \in [Feed!CalendarId -> BOOLEAN \cup {None}],
           lastFeedCalendar' \in 0 .. MaxCalendar,
         feedFetches' \in Nat
  PROVE  FeedTyped'
  <1>1. feedSync' \in [Feed!Sync -> SyncState]
        /\ \A q \in Feed!Sync : SyncFits(feedSync'[q])
    BY DEF FeedTyped, SyncFits
  <1>2. Feed!TypeOK'
    BY <1>1 DEF FeedTyped, Feed!TypeOK, SyncFits, SyncState, Feed!EventRow
  <1> QED BY <1>1, <1>2 DEF FeedTyped, SyncFits, Feed!NoUpload

\* A fetch keeps the types: what it parses is a text.
LEMMA FetchTyped ==
  ASSUME FeedTyped, NEW p \in Feed!Sync, Feed!fetchICS(p)
  PROVE  FeedTyped'
  <1>1. PICK body \in Feeds :
           feedSync' = [feedSync EXCEPT ![p].pc = "fetched", ![p].body = body,
             ![p].parts = Feed!ParseICS(body)]
    BY DEF Feed!fetchICS
  <1> DEFINE s == [feedSync[p] EXCEPT !.pc = "fetched", !.body = body,
                                      !.parts = Feed!ParseICS(body)]
  <1>2. feedSync' = [feedSync EXCEPT ![p] = s]
    BY <1>1
  <1>3. SyncFits(s)
    <2>1. feedSync[p] \in SyncState /\ Feed!ParseICS(body) \in Texts
      BY ParsedIsText DEF FeedTyped
    <2>2. s \in SyncState /\ s.pc = "fetched" /\ s.parts = Feed!ParseICS(body)
          /\ s.body = body /\ s.creates = feedSync[p].creates /\ s.updates = feedSync[p].updates
      BY <2>1 DEF SyncState
    <2>3. feedSync[p].creates = {} /\ feedSync[p].updates = {}
      BY DEF Feed!fetchICS, FeedTyped
    <2> HIDE DEF s
    <2> QED BY <2>2, <2>3 DEF SyncFits
  <1>4. feedFetches' \in Nat
    BY DEF Feed!fetchICS, FeedTyped
  <1> HIDE DEF s
  <1>5. /\ UNCHANGED <<feedRow, feedUpload, lastFeedRow, feedRequests>>
             /\ feedDisturbed' \subseteq Feed!Sync
        /\ feedCalendar' \in [Feed!CalendarId -> BOOLEAN \cup {None}]
             /\ lastFeedCalendar' \in 0 .. MaxCalendar
    BY DEF Feed!fetchICS, FeedTyped, Feed!TypeOK
  <1> QED BY <1>2, <1>3, <1>4, <1>5, TypesOfSync

\* What a state gives of a synchronisation that is not about to write.
LEMMA UnwrittenIs ==
  ASSUME FeedTyped, NEW p \in Feed!Sync, feedSync[p].pc # "compared"
  PROVE  /\ feedSync[p] \in SyncState /\ feedSync[p].creates = {} /\ feedSync[p].updates = {}
         /\ feedSync[p].pc # "idle" => /\ feedSync[p].body \in Feeds
                                       /\ feedSync[p].parts = Feed!ParseICS(feedSync[p].body)
  BY DEF FeedTyped

\* Finding the calendar keeps the types: one that is found has been made.
LEMMA FindTyped ==
  ASSUME FeedTyped, NEW p \in Feed!Sync, Feed!FindCalendar(p)
  PROVE  FeedTyped'
  <1>1. PICK s : SyncFits(s) /\ feedSync' = [feedSync EXCEPT ![p] = s]
    <2>1. CASE feedSync' = [feedSync EXCEPT ![p].pc = "make"]
      <3> DEFINE s == [feedSync[p] EXCEPT !.pc = "make"]
      <3>1. /\ s \in SyncState /\ s.pc = "make" /\ s.creates = {} /\ s.updates = {}
            /\ s.body \in Feeds /\ s.parts = Feed!ParseICS(s.body)
        BY UnwrittenIs DEF Feed!FindCalendar, SyncState
      <3>2. feedSync' = [feedSync EXCEPT ![p] = s]
        BY <2>1
      <3> HIDE DEF s
      <3>3. SyncFits(s)
        BY <3>1 DEF SyncFits
      <3> QED BY <3>2, <3>3
    <2>2. ASSUME NEW c \in Feed!Calendars,
                 feedSync' = [feedSync EXCEPT ![p].pc = "found", ![p].cal = c]
          PROVE  \E s : SyncFits(s) /\ feedSync' = [feedSync EXCEPT ![p] = s]
      <3> DEFINE s == [feedSync[p] EXCEPT !.pc = "found", !.cal = c]
      <3>1. /\ s \in SyncState /\ s.pc = "found" /\ s.creates = {} /\ s.updates = {}
            /\ s.cal = c
            /\ s.body \in Feeds /\ s.parts = Feed!ParseICS(s.body)
        BY UnwrittenIs DEF Feed!FindCalendar, SyncState, Feed!Calendars
      <3>2. feedSync' = [feedSync EXCEPT ![p] = s]
        BY <2>2
      <3>3. c \in Feed!CalendarId
        BY DEF Feed!Calendars
      <3> HIDE DEF s
      <3>4. SyncFits(s)
        BY <3>1, <3>3 DEF SyncFits
      <3> QED BY <3>2, <3>4
    <2>3. CASE feedSync' = [feedSync EXCEPT ![p] = Feed!Idle]
      <3>1. SyncFits(Feed!Idle)
        BY FeedIdleTyped DEF SyncFits
      <3> QED BY <2>3, <3>1
    <2> QED BY <2>1, <2>2, <2>3 DEF Feed!FindCalendar
  <1>2. /\ UNCHANGED <<feedRow, feedUpload, lastFeedRow, feedRequests>>
             /\ feedDisturbed' \subseteq Feed!Sync
        /\ feedCalendar' \in [Feed!CalendarId -> BOOLEAN \cup {None}]
             /\ lastFeedCalendar' \in 0 .. MaxCalendar
        /\ feedFetches' \in Nat
    BY DEF Feed!FindCalendar, FeedTyped, Feed!TypeOK
  <1> QED BY <1>1, <1>2, TypesOfSync

\* Making a calendar keeps the types: the bound leaves it an id.
LEMMA FeedCreateTyped ==
  ASSUME FeedTyped, NEW p \in Feed!Sync, Feed!CreateCalendar(p)
  PROVE  FeedTyped'
  <1> DEFINE c == lastFeedCalendar + 1
             s == [feedSync[p] EXCEPT !.pc = "found", !.cal = c]
  <1>1. c \in Feed!CalendarId /\ c \in 0 .. MaxCalendar
    BY BoundsAreNumbers DEF Feed!CreateCalendar, FeedTyped, Feed!TypeOK, Feed!CalendarId
  <1>2. feedSync' = [feedSync EXCEPT ![p] = s]
    BY DEF Feed!CreateCalendar
  <1>3. SyncFits(s)
    <2> HIDE DEF c
    <2>1. /\ s \in SyncState /\ s.pc = "found" /\ s.creates = {} /\ s.updates = {} /\ s.cal = c
          /\ s.body \in Feeds /\ s.parts = Feed!ParseICS(s.body)
      BY <1>1, UnwrittenIs DEF Feed!CreateCalendar, SyncState
    <2> HIDE DEF s
    <2> QED BY <1>1, <2>1 DEF SyncFits
  <1>4. /\ UNCHANGED <<feedRow, feedUpload, lastFeedRow, feedRequests>>
             /\ feedDisturbed' \subseteq Feed!Sync
        /\ feedCalendar' \in [Feed!CalendarId -> BOOLEAN \cup {None}]
             /\ lastFeedCalendar' \in 0 .. MaxCalendar
        /\ feedFetches' \in Nat
    BY <1>1 DEF Feed!CreateCalendar, FeedTyped, Feed!TypeOK
  <1> HIDE DEF s
  <1> QED BY <1>2, <1>3, <1>4, TypesOfSync

\* The identities of a calendar's rows.
LEMMA IdentitiesTyped ==
  ASSUME FeedTyped, NEW c
  PROVE  Feed!Identities(c) \subseteq Identity
  <1>1. ASSUME NEW i \in Feed!RowsOf(c)
        PROVE  [id |-> i, uid |-> feedRow[i].uid,
               content |-> feedRow[i].content] \in Identity
    <2>1. i \in Feed!RowId /\ feedRow[i] \in Feed!EventRow
      BY DEF Feed!RowsOf, FeedTyped, Feed!TypeOK
    <2> QED BY <2>1 DEF Feed!EventRow, Identity
  <1> QED BY <1>1 DEF Feed!Identities

\* Reading the rows keeps the types, be the feed refused or not.
LEMMA FeedReadTyped ==
  ASSUME FeedTyped, NEW p \in Feed!Sync, Feed!ReadRows(p)
  PROVE  FeedTyped'
  <1> DEFINE known == Feed!Identities(feedSync[p].cal)
             s == [feedSync[p] EXCEPT !.pc = "read", !.known = known]
  <1>1. feedSync' = [feedSync EXCEPT ![p] = Feed!Idle]
        \/ feedSync' = [feedSync EXCEPT ![p] = s]
    BY DEF Feed!ReadRows
  <1>2. SyncFits(s)
    <2>1. known \subseteq Identity
      BY IdentitiesTyped
    <2> HIDE DEF known
    <2>2. /\ s \in SyncState /\ s.pc = "read" /\ s.creates = {} /\ s.updates = {}
          /\ s.cal = feedSync[p].cal
          /\ s.body \in Feeds /\ s.parts = Feed!ParseICS(s.body)
      BY <2>1, UnwrittenIs DEF Feed!ReadRows, SyncState
    <2>3. s.cal \in Feed!CalendarId
      BY <2>2 DEF Feed!ReadRows, FeedTyped
    <2> HIDE DEF s
    <2> QED BY <2>2, <2>3 DEF SyncFits
  <1>3. SyncFits(Feed!Idle)
    BY FeedIdleTyped DEF SyncFits
  <1>4. /\ UNCHANGED <<feedRow, feedUpload, lastFeedRow, feedRequests>>
             /\ feedDisturbed' \subseteq Feed!Sync
        /\ feedCalendar' \in [Feed!CalendarId -> BOOLEAN \cup {None}]
             /\ lastFeedCalendar' \in 0 .. MaxCalendar
        /\ feedFetches' \in Nat
    BY DEF Feed!ReadRows, FeedTyped, Feed!TypeOK
  <1> HIDE DEF s
  <1> QED BY <1>1, <1>2, <1>3, <1>4, TypesOfSync

\* What the task will write, as the rows stand now, but for look-ups that are lost.
Stale(s, x) == feedRow[x.id] # None
  /\ (x.byContent \/ Feed!Changed(feedRow[x.id], s.parts[x.at]))
TaskWrite(x) == [at |-> x.at, id |-> x.id, guests |-> None]
TaskWrites(s, lost) ==
  {TaskWrite(x) : x \in {x \in Feed!matchFeedEvents(s.known, s.parts).matches \ lost :
                            Stale(s, x)}}

\* A synchronisation's state after its comparison.
AfterCompare(s, creates, updates, deletes, lost) ==
  [s EXCEPT !.pc = "compared", !.creates = creates, !.deletes = deletes,
    !.updates = updates, !.lost = lost]

\* The fields of that state.
LEMMA AfterCompareIs ==
  ASSUME NEW s \in SyncState, NEW creates \in SUBSET Nat, NEW updates \in SUBSET Write,
         NEW deletes \in SUBSET FeedUid, NEW lost \in SUBSET Pair, NEW t,
           t = AfterCompare(s, creates, updates, deletes, lost)
  PROVE  /\ t \in SyncState
         /\ t.pc = "compared" /\ t.parts = s.parts /\ t.cal = s.cal /\ t.known = s.known
         /\ t.creates = creates /\ t.updates = updates /\ t.deletes = deletes
         /\ t.body = s.body /\ t.lost = lost
  BY DEF AfterCompare, SyncState

\* The parts of the task's comparison.
LEMMA CompareTaskIs ==
  ASSUME Feed!CompareTask
  PROVE  LET s == feedSync["task"]
             m == Feed!matchFeedEvents(s.known, s.parts)
         IN  /\ s.pc = "read"
             /\ \E lost \in SUBSET m.matches :
                   feedSync' = [feedSync EXCEPT !["task"] =
                     AfterCompare(s, m.creates, TaskWrites(s, lost), m.deletes, lost)]
             /\ UNCHANGED <<feedCalendar, feedRow, feedUpload, lastFeedRow,
                  lastFeedCalendar, feedFetches, feedRequests,
                            feedDisturbed>>
  BY DEF Feed!CompareTask, AfterCompare, TaskWrites, TaskWrite, Stale

\* The task's writes are writes, of events of the feed.
LEMMA TaskWritesTyped ==
  ASSUME NEW s \in SyncState, NEW lost
  PROVE  /\ TaskWrites(s, lost) \subseteq Write
         /\ \A u \in TaskWrites(s, lost) : u.at \in DOMAIN s.parts
  <1>1. s.known \in SUBSET Identity /\ s.parts \in Texts
    BY DEF SyncState
  <1>2. ASSUME NEW x \in Feed!matchFeedEvents(s.known, s.parts).matches
        PROVE  TaskWrite(x) \in Write /\ TaskWrite(x).at \in DOMAIN s.parts
    <2>1. x.at \in DOMAIN s.parts /\ \E k \in s.known : x.id = k.id
      BY <1>1, MatchSays
    <2>2. x.at \in Nat /\ x.id \in Feed!RowId
      BY <1>1, <2>1, TextHas DEF Identity
    <2> QED BY <2>1, <2>2 DEF TaskWrite, Write
  <1> QED BY <1>2 DEF TaskWrites

\* The task's comparison keeps the types.
LEMMA CompareTyped ==
  ASSUME FeedTyped, Feed!CompareTask
  PROVE  FeedTyped'
  <1> DEFINE s == feedSync["task"]
             m == Feed!matchFeedEvents(s.known, s.parts)
  <1>1. s \in SyncState /\ "task" \in Feed!Sync /\ s.pc = "read"
        /\ s.cal \in Feed!CalendarId
    BY CompareTaskIs DEF FeedTyped, Feed!Sync
  <1>2. s.known \in SUBSET Identity /\ s.parts \in Texts
    BY <1>1 DEF SyncState
  <1>3. /\ m.creates \subseteq DOMAIN s.parts /\ m.creates \in SUBSET Nat
        /\ m.deletes \in SUBSET FeedUid
    BY <1>2, MatchingGives, TextHas DEF Identity
  <1>4. PICK lost \in SUBSET m.matches :
           feedSync' = [feedSync EXCEPT !["task"] =
             AfterCompare(s, m.creates, TaskWrites(s, lost), m.deletes, lost)]
    BY CompareTaskIs
  <1>5. /\ TaskWrites(s, lost) \subseteq Write
        /\ \A u \in TaskWrites(s, lost) : u.at \in DOMAIN s.parts
        /\ lost \in SUBSET Pair
    BY <1>1, <1>2, TaskWritesTyped, MatchIsPair
  <1> DEFINE t == AfterCompare(s, m.creates, TaskWrites(s, lost), m.deletes, lost)
  <1>8. s.body \in Feeds /\ s.parts = Feed!ParseICS(s.body)
    BY <1>1 DEF FeedTyped
  <1>9. feedSync' = [feedSync EXCEPT !["task"] = t]
    BY <1>4
  <1> HIDE DEF s, m
  <1>6. SyncFits(t)
    <2>1. /\ t \in SyncState
          /\ t.pc = "compared" /\ t.parts = s.parts /\ t.cal = s.cal
          /\ t.creates = m.creates /\ t.updates = TaskWrites(s, lost) /\ t.body = s.body
      BY <1>1, <1>3, <1>5, AfterCompareIs
    <2> HIDE DEF t
    <2> QED BY <1>1, <1>3, <1>5, <1>8, <2>1 DEF SyncFits
  <1>7. /\ UNCHANGED <<feedRow, feedUpload, lastFeedRow, feedRequests>>
             /\ feedDisturbed' \subseteq Feed!Sync
        /\ feedCalendar' \in [Feed!CalendarId -> BOOLEAN \cup {None}]
             /\ lastFeedCalendar' \in 0 .. MaxCalendar
        /\ feedFetches' \in Nat
    BY CompareTaskIs DEF FeedTyped, Feed!TypeOK
  <1> HIDE DEF t
  <1> QED BY <1>1, <1>9, <1>6, <1>7, TypesOfSync

\* The web request's view: the rows with the UID of event j, the events to create
\* and the writes.
Now(s, j) == {i \in Feed!RowsOf(s.cal) : feedRow[i].uid = s.parts[j].uid}
Wanting(s, lost) == {j \in DOMAIN s.parts : Now(s, j) = {}} \cup lost
Differing(s, lost) ==
  {j \in DOMAIN s.parts \ lost : \E i \in Now(s, j) : Feed!Changed(feedRow[i], s.parts[j])}
ManualWrite(s, j) == [at |-> j, id |-> CHOOSE i \in Now(s, j) : TRUE,
  guests |-> s.parts[j].version]
ManualWrites(s, lost) == {ManualWrite(s, j) : j \in Differing(s, lost)}
Unlisted(s) == {k.uid : k \in s.known} \ {p.uid : p \in Feed!ToSet(s.parts)}

\* Its state after the comparison.
AfterManual(s, creates, updates, deletes) ==
  [s EXCEPT !.pc = "compared", !.creates = creates, !.deletes = deletes,
    !.updates = updates]

\* The fields of that state.
LEMMA AfterManualIs ==
  ASSUME NEW s \in SyncState, NEW creates \in SUBSET Nat, NEW updates \in SUBSET Write,
         NEW deletes \in SUBSET FeedUid, NEW t,
           t = AfterManual(s, creates, updates, deletes)
  PROVE  /\ t \in SyncState
         /\ t.pc = "compared" /\ t.parts = s.parts /\ t.cal = s.cal /\ t.known = s.known
         /\ t.creates = creates /\ t.updates = updates /\ t.deletes = deletes
         /\ t.body = s.body
  BY DEF AfterManual, SyncState

\* The parts of the web request's comparison.
LEMMA CompareManualIs ==
  ASSUME Feed!syncICSURLSource
  PROVE  LET s == feedSync["manual"]
         IN  /\ s.pc = "read"
             /\ \E lost \in SUBSET DOMAIN s.parts :
                   feedSync' = [feedSync EXCEPT !["manual"] =
                     AfterManual(s, Wanting(s, lost), ManualWrites(s, lost), Unlisted(s))]
             /\ UNCHANGED <<feedCalendar, feedRow, feedUpload, lastFeedRow,
                  lastFeedCalendar, feedFetches, feedRequests,
                            feedDisturbed>>
  BY DEF Feed!syncICSURLSource, AfterManual, Wanting, ManualWrites, ManualWrite, Differing,
     Now,
         Unlisted

\* Its writes are writes, into rows of the calendar.
LEMMA ManualWritesTyped ==
  ASSUME NEW s \in SyncState, NEW lost
  PROVE  /\ ManualWrites(s, lost) \subseteq Write
         /\ \A u \in ManualWrites(s, lost) : u.at \in DOMAIN s.parts
              /\ u.id \in Feed!RowsOf(s.cal)
  <1> SUFFICES ASSUME NEW j \in Differing(s, lost)
               PROVE  /\ ManualWrite(s, j) \in Write
                      /\ ManualWrite(s, j).at \in DOMAIN s.parts
                      /\ ManualWrite(s, j).id \in Feed!RowsOf(s.cal)
    BY DEF ManualWrites
  <1>1. j \in DOMAIN s.parts /\ Now(s, j) # {}
    BY DEF Differing
  <1>2. (CHOOSE i \in Now(s, j) : TRUE) \in Now(s, j)
    BY <1>1
  <1>3. s.parts \in Texts
    BY DEF SyncState
  <1>4. j \in Nat /\ s.parts[j].version \in Version
    BY <1>1, <1>3, TextHas DEF Event
  <1>5. (CHOOSE i \in Now(s, j) : TRUE) \in Feed!RowsOf(s.cal)
        /\ (CHOOSE i \in Now(s, j) : TRUE) \in Feed!RowId
    BY <1>2 DEF Now, Feed!RowsOf
  <1> QED BY <1>1, <1>4, <1>5 DEF ManualWrite, Write

\* The web request's comparison keeps the types.
LEMMA ManualTyped ==
  ASSUME FeedTyped, Feed!syncICSURLSource
  PROVE  FeedTyped'
  <1> DEFINE s == feedSync["manual"]
  <1>1. s \in SyncState /\ "manual" \in Feed!Sync /\ s.pc = "read"
        /\ s.cal \in Feed!CalendarId
    BY CompareManualIs DEF FeedTyped, Feed!Sync
  <1>2. s.known \in SUBSET Identity /\ s.parts \in Texts
    BY <1>1 DEF SyncState
  <1>3. PICK lost \in SUBSET DOMAIN s.parts :
           feedSync' = [feedSync EXCEPT !["manual"] =
             AfterManual(s, Wanting(s, lost), ManualWrites(s, lost), Unlisted(s))]
    BY CompareManualIs
  <1>4. /\ Wanting(s, lost) \subseteq DOMAIN s.parts /\ Wanting(s, lost) \in SUBSET Nat
        /\ Unlisted(s) \in SUBSET FeedUid
    BY <1>2, TextHas DEF Identity, Wanting, Unlisted
  <1>5. /\ ManualWrites(s, lost) \subseteq Write
        /\ \A u \in ManualWrites(s, lost) : u.at \in DOMAIN s.parts
    BY <1>1, ManualWritesTyped
  <1> DEFINE t == AfterManual(s, Wanting(s, lost), ManualWrites(s, lost), Unlisted(s))
  <1>8. s.body \in Feeds /\ s.parts = Feed!ParseICS(s.body)
    BY <1>1 DEF FeedTyped
  <1>9. feedSync' = [feedSync EXCEPT !["manual"] = t]
    BY <1>3
  <1> HIDE DEF s
  <1>6. SyncFits(t)
    <2>1. /\ t \in SyncState
          /\ t.pc = "compared" /\ t.parts = s.parts /\ t.cal = s.cal /\ t.body = s.body
          /\ t.creates = Wanting(s, lost) /\ t.updates = ManualWrites(s, lost)
      BY <1>1, <1>4, <1>5, AfterManualIs
    <2> HIDE DEF t
    <2> QED BY <1>1, <1>4, <1>5, <1>8, <2>1 DEF SyncFits
  <1>7. /\ UNCHANGED <<feedRow, feedUpload, lastFeedRow, feedRequests>>
             /\ feedDisturbed' \subseteq Feed!Sync
        /\ feedCalendar' \in [Feed!CalendarId -> BOOLEAN \cup {None}]
             /\ lastFeedCalendar' \in 0 .. MaxCalendar
        /\ feedFetches' \in Nat
    BY CompareManualIs DEF FeedTyped, Feed!TypeOK
  <1> HIDE DEF t
  <1> QED BY <1>1, <1>9, <1>6, <1>7, TypesOfSync

-----------------------------------------------------------------------------
(* The transaction. *)

\* The new rows take the created events, each once.
LEMMA OrderIs ==
  ASSUME NEW s \in SyncState, s.creates \subseteq DOMAIN s.parts
  PROVE  /\ Cardinality(s.creates) \in Nat
         /\ Feed!SetToSeq(s.creates) \in [1 .. Cardinality(s.creates) -> s.creates]
         /\ \A j \in s.creates : \E n \in 1 .. Cardinality(s.creates) : Feed!SetToSeq(s.creates)[n] = j
  <1> DEFINE J == s.creates
             n == Cardinality(J)
             order == Feed!SetToSeq(J)
  <1>1. IsFiniteSet(J)
    BY TextHas, FS_Subset DEF SyncState
  <1>2. n \in Nat /\ ExistsBijection(1 .. n, J)
    BY <1>1, FS_CardinalityType
  <1>3. \E f \in [1 .. n -> J] : Feed!IsInjective(f)
    BY <1>2 DEF ExistsBijection, Bijection, Injection, IsInjective, Feed!IsInjective
  <1>4. order \in [1 .. n -> J] /\ Feed!IsInjective(order)
    BY <1>3, FeedCardinality DEF Feed!SetToSeq
  <1>5. order \in Injection(1 .. n, J)
    BY <1>4 DEF Injection, IsInjective, Feed!IsInjective
  <1>6. IsFiniteSet(1 .. n) /\ Cardinality(1 .. n) = n
    BY <1>2, FS_Interval
  <1> HIDE DEF order, n, J
  <1>7. order \in Surjection(1 .. n, J)
    <2>1. n = Cardinality(J)
      BY DEF n
    <2> QED BY <1>1, <1>5, <1>6, <2>1, FS_Injection
  <1>8. \A j \in J : \E k \in 1 .. n : order[k] = j
    BY <1>7 DEF Surjection
  <1> QED BY <1>2, <1>4, <1>8 DEF order, n, J

\* A row that is created.
LEMMA FreshIs ==
  ASSUME FeedTyped, NEW p \in Feed!Sync, feedSync[p].pc = "compared", NEW i \in Feed!RowId,
         i \in Feed!Fresh(feedSync[p])
  PROVE  \E j \in feedSync[p].creates :
            /\ j \in DOMAIN feedSync[p].parts /\ feedSync[p].parts[j] \in Event
            /\ Feed!Created(feedSync[p])[i]
                 = Feed!Made(feedSync[p].cal, feedSync[p].parts[j],
                   feedSync[p].parts[j].version)
  <1> DEFINE s == feedSync[p]
             n == i - lastFeedRow
  <1>1. s \in SyncState /\ s.creates \subseteq DOMAIN s.parts /\ s.parts \in Texts
    BY DEF FeedTyped, SyncState
  <1>2. /\ Cardinality(s.creates) \in Nat
        /\ Feed!SetToSeq(s.creates) \in [1 .. Cardinality(s.creates) -> s.creates]
    BY <1>1, OrderIs
  <1>3. n \in 1 .. Cardinality(s.creates)
    <2>1. lastFeedRow \in Nat /\ i \in Nat
      BY BoundsAreNumbers DEF FeedTyped, Feed!TypeOK, Feed!RowId
    <2> QED BY <1>2, <2>1, FeedCardinality DEF Feed!Fresh
  <1> DEFINE j == Feed!SetToSeq(s.creates)[n]
  <1>4. j \in s.creates
    BY <1>2, <1>3
  <1>5. s.parts[j] \in Event /\ j \in DOMAIN s.parts
    BY <1>1, <1>4, TextHas
  <1>6. Feed!Created(s)[i] = Feed!Made(s.cal, s.parts[j], s.parts[j].version)
    BY DEF Feed!Created
  <1> QED BY <1>4, <1>5, <1>6

\* A row a write is made of.
LEMMA MadeTyped ==
  ASSUME NEW c \in Feed!CalendarId, NEW e \in Event, NEW g \in Version \cup {None}
  PROVE  /\ Feed!Made(c, e, g) \in Feed!EventRow /\ Feed!Made(c, e, g) # None
         /\ Feed!Made(c, e, g).cal = c /\ Feed!Made(c, e, g).uid = e.uid
         /\ Feed!Made(c, e, g).content = e.content /\ Feed!Made(c, e, g).version = e.version
  <1>1. Feed!Made(c, e, g) \in Feed!EventRow
    BY DEF Feed!Made, Feed!EventRow, Event
  <1> QED BY <1>1, BoundsAreNumbers DEF Feed!Made

\* What becomes of a row by deletes and creates: a fresh one is made, another kept or
\* lost.
LEMMA CreatedIs ==
  ASSUME FeedTyped, NEW p \in Feed!Sync, feedSync[p].pc = "compared"
  PROVE  /\ Feed!Created(feedSync[p]) \in [Feed!RowId -> Feed!EventRow \cup {None}]
         /\ \A i \in Feed!RowId : i \notin Feed!Fresh(feedSync[p]) =>
               Feed!Created(feedSync[p])[i] = IF i \in Feed!Kept(feedSync[p])
                 THEN feedRow[i] ELSE None
         /\ \A i \in Feed!RowId : i \in Feed!Fresh(feedSync[p]) =>
               Feed!Created(feedSync[p])[i] # None
                 /\ Feed!Created(feedSync[p])[i].cal = feedSync[p].cal
  <1> DEFINE s == feedSync[p]
  <1>1. s.cal \in Feed!CalendarId
    BY DEF FeedTyped
  <1>2. ASSUME NEW i \in Feed!RowId, i \in Feed!Fresh(s)
        PROVE  Feed!Created(s)[i] \in Feed!EventRow /\ Feed!Created(s)[i] # None
               /\ Feed!Created(s)[i].cal = s.cal
    <2>1. PICK j \in s.creates :
             /\ s.parts[j] \in Event
             /\ Feed!Created(s)[i] = Feed!Made(s.cal, s.parts[j], s.parts[j].version)
      BY <1>2, FreshIs
    <2>2. s.parts[j].version \in Version \cup {None}
      BY <2>1 DEF Event
    <2> QED BY <1>1, <2>1, <2>2, MadeTyped
  <1>3. ASSUME NEW i \in Feed!RowId, i \notin Feed!Fresh(s)
        PROVE  Feed!Created(s)[i] = IF i \in Feed!Kept(s) THEN feedRow[i] ELSE None
    BY <1>3 DEF Feed!Created
  <1>4. \A i \in Feed!RowId : feedRow[i] \in Feed!EventRow \cup {None}
    BY DEF FeedTyped, Feed!TypeOK
  <1>5. \A i \in Feed!RowId : Feed!Created(s)[i] \in Feed!EventRow \cup {None}
    BY <1>2, <1>3, <1>4
  <1>6. Feed!Created(s) = [i \in Feed!RowId |-> Feed!Created(s)[i]]
    BY DEF Feed!Created
  <1>7. Feed!Created(s) \in [Feed!RowId -> Feed!EventRow \cup {None}]
    BY <1>5, <1>6
  <1> HIDE DEF s
  <1>8. /\ \A i \in Feed!RowId : i \notin Feed!Fresh(s) =>
               Feed!Created(s)[i] = IF i \in Feed!Kept(s) THEN feedRow[i] ELSE None
        /\ \A i \in Feed!RowId : i \in Feed!Fresh(s) => Feed!Created(s)[i] # None
             /\ Feed!Created(s)[i].cal = s.cal
    BY <1>2, <1>3
  <1> QED BY <1>7, <1>8 DEF s

\* The last write of a row is one of its writes.
LEMMA LastWriteIs ==
  ASSUME FeedTyped, NEW p \in Feed!Sync, NEW i,
         NEW mine, mine = {u \in feedSync[p].updates : u.id = i}, mine # {}
  PROVE  (CHOOSE u \in mine : \A v \in mine : v.at <= u.at) \in mine
  <1> DEFINE ats == {u.at : u \in mine}
  <1>1. feedSync[p].parts \in Texts /\ feedSync[p].updates \subseteq Write
        /\ \A u \in feedSync[p].updates : u.at \in DOMAIN feedSync[p].parts
    BY DEF FeedTyped, SyncState
  <1>2. ats \in SUBSET DOMAIN feedSync[p].parts /\ ats # {}
    BY <1>1
  <1>3. ats \in SUBSET Nat /\ IsFiniteSet(ats)
    <2> HIDE DEF ats
    <2> QED BY <1>1, <1>2, TextHas, FS_Subset
  <1>4. PICK a \in ats : \A b \in ats : b <= a
    <2> HIDE DEF ats
    <2> QED BY <1>2, <1>3, GreatestNumber
  <1>5. PICK u \in mine : u.at = a
    BY <1>4
  <1>6. \A v \in mine : v.at <= u.at
    BY <1>4, <1>5
  <1> QED BY <1>6

\* What becomes of a row: nothing but the creation, or a write.
LEMMA UpdatedIs ==
  ASSUME FeedTyped, NEW p \in Feed!Sync, feedSync[p].pc = "compared", NEW i \in Feed!RowId
  PROVE  \/ /\ \A u \in feedSync[p].updates : u.id # i
            /\ Feed!Updated(feedSync[p])[i] = Feed!Created(feedSync[p])[i]
         \/ /\ Feed!Created(feedSync[p])[i] = None /\ Feed!Updated(feedSync[p])[i] = None
         \/ /\ Feed!Created(feedSync[p])[i] # None
            /\ \E u \in feedSync[p].updates :
                  /\ u.id = i /\ u.guests \in Version \cup {None}
                  /\ u.at \in DOMAIN feedSync[p].parts /\ feedSync[p].parts[u.at] \in Event
                  /\ Feed!Updated(feedSync[p])[i]
                       = Feed!Made(feedSync[p].cal, feedSync[p].parts[u.at], u.guests)
  <1> DEFINE s == feedSync[p]
             mine == {u \in s.updates : u.id = i}
             last == CHOOSE u \in mine : \A v \in mine : v.at <= u.at
  <1>1. Feed!Updated(s)[i] = IF mine = {} \/ Feed!Created(s)[i] = None
        THEN Feed!Created(s)[i]
                        ELSE Feed!Made(s.cal, s.parts[last.at], last.guests)
    BY DEF Feed!Updated
  <1>2. CASE mine = {} \/ Feed!Created(s)[i] = None
    BY <1>1, <1>2
  <1>3. CASE mine # {} /\ Feed!Created(s)[i] # None
    <2>1. last \in mine
      BY <1>3, LastWriteIs
    <2>2. last \in s.updates /\ last.id = i
      BY <2>1
    <2> HIDE DEF last
    <2>3. /\ s.parts \in Texts /\ last \in Write /\ last.at \in DOMAIN s.parts
      BY <2>2 DEF FeedTyped, SyncState
    <2>4. s.parts[last.at] \in Event /\ last.guests \in Version \cup {None}
      BY <2>3, TextHas DEF Write
    <2>5. Feed!Updated(s)[i] = Feed!Made(s.cal, s.parts[last.at], last.guests)
      BY <1>1, <1>3
    <2> QED BY <1>3, <2>2, <2>3, <2>4, <2>5
  <1> QED BY <1>2, <1>3

\* The rows after the transaction are rows.
LEMMA UpdatedTyped ==
  ASSUME FeedTyped, NEW p \in Feed!Sync, feedSync[p].pc = "compared"
  PROVE  Feed!Updated(feedSync[p]) \in [Feed!RowId -> Feed!EventRow \cup {None}]
  <1>1. feedSync[p].cal \in Feed!CalendarId
    BY DEF FeedTyped
  <1>2. ASSUME NEW i \in Feed!RowId
               PROVE Feed!Updated(feedSync[p])[i] \in Feed!EventRow \cup {None}
    BY <1>1, UpdatedIs, CreatedIs, MadeTyped
  <1>3. Feed!Updated(feedSync[p]) = [i \in Feed!RowId |-> Feed!Updated(feedSync[p])[i]]
    BY DEF Feed!Updated
  <1> QED BY <1>2, <1>3

\* The transaction keeps the types, committed or rolled back.
LEMMA ApplyTyped ==
  ASSUME FeedTyped, NEW p \in Feed!Sync, Feed!ApplySyncChanges(p)
  PROVE  FeedTyped'
  <1>1. feedSync[p].pc = "compared" /\ feedSync' = [feedSync EXCEPT ![p] = Feed!Idle]
    BY DEF Feed!ApplySyncChanges
  <1>2. feedRow' \in [Feed!RowId -> Feed!EventRow \cup {None}]
        /\ lastFeedRow' \in 0 .. MaxRow
    <2>1. CASE Feed!Sound(feedSync[p])
      <3>1. feedRow' = Feed!Updated(feedSync[p])
            /\ lastFeedRow' = lastFeedRow + Cardinality(feedSync[p].creates)
            /\ lastFeedRow' <= MaxRow
        BY <2>1, FeedCardinality DEF Feed!ApplySyncChanges
      <3>2. Cardinality(feedSync[p].creates) \in Nat
        BY OrderIs DEF FeedTyped
      <3>3. lastFeedRow' \in 0 .. MaxRow
        BY <3>1, <3>2, BoundsAreNumbers DEF FeedTyped, Feed!TypeOK
      <3> QED BY <1>1, <3>1, <3>3, UpdatedTyped
    <2>2. CASE ~Feed!Sound(feedSync[p])
      BY <2>2 DEF Feed!ApplySyncChanges, FeedTyped, Feed!TypeOK
    <2> QED BY <2>1, <2>2
  <1>3. feedDisturbed' \subseteq Feed!Sync
    BY DEF Feed!ApplySyncChanges, FeedTyped, Feed!TypeOK, Feed!Touched
  <1>4. feedSync' \in [Feed!Sync -> SyncState]
        /\ \A q \in Feed!Sync : SyncFits(feedSync'[q])
    BY <1>1, FeedIdleTyped DEF FeedTyped, SyncFits
  <1>5. Feed!TypeOK'
    BY <1>2, <1>3, <1>4 DEF Feed!ApplySyncChanges, FeedTyped, Feed!TypeOK, SyncFits,
       SyncState, Feed!EventRow
  <1> QED BY <1>4, <1>5 DEF Feed!ApplySyncChanges, FeedTyped, SyncFits, Feed!NoUpload

\* So does the end of one whose statement fails.
LEMMA FailTyped ==
  ASSUME FeedTyped, NEW p \in Feed!Sync, Feed!StatementFails(p)
  PROVE  FeedTyped'
  <1>1. SyncFits(Feed!Idle)
    BY FeedIdleTyped DEF SyncFits
  <1>2. feedSync' = [feedSync EXCEPT ![p] = Feed!Idle]
    BY DEF Feed!StatementFails
  <1>3. /\ UNCHANGED <<feedRow, feedUpload, lastFeedRow, feedRequests>>
             /\ feedDisturbed' \subseteq Feed!Sync
        /\ feedCalendar' \in [Feed!CalendarId -> BOOLEAN \cup {None}]
             /\ lastFeedCalendar' \in 0 .. MaxCalendar
        /\ feedFetches' \in Nat
    BY DEF Feed!StatementFails, FeedTyped, Feed!TypeOK
  <1> QED BY <1>1, <1>2, <1>3, TypesOfSync

\* The rest moves no synchronisation.
LEMMA SyncStays ==
  ASSUME FeedTyped, feedSync' = feedSync
  PROVE  feedSync' \in [Feed!Sync -> SyncState]
         /\ \A q \in Feed!Sync : SyncFits(feedSync'[q])
  BY DEF FeedTyped, SyncFits

\* A step that moves no synchronisation keeps the types, if it does those of what it
\* moves.
LEMMA TypesOfRest ==
  ASSUME FeedTyped, feedSync' \in [Feed!Sync -> SyncState],
         \A q \in Feed!Sync : SyncFits(feedSync'[q]),
         feedRow' \in [Feed!RowId -> Feed!EventRow \cup {None}],
           lastFeedRow' \in 0 .. MaxRow,
         feedCalendar' \in [Feed!CalendarId -> BOOLEAN \cup {None}],
           lastFeedCalendar' = lastFeedCalendar,
         feedUpload' \in [cal : Feed!CalendarId \cup {0}, parts : Texts],
         feedUpload' # Feed!NoUpload => feedUpload'.cal \in Feed!CalendarId
           /\ feedUpload'.parts # << >>,
         feedDisturbed' \subseteq Feed!Sync, feedFetches' \in Nat, feedRequests' \in Nat
  PROVE  FeedTyped'
  <1>1. Feed!TypeOK'
    BY DEF FeedTyped, Feed!TypeOK, SyncFits, SyncState, Feed!EventRow
  <1> QED BY <1>1 DEF FeedTyped, SyncFits, Feed!NoUpload

\* An upload keeps the types: its file is a text.
LEMMA UploadTyped ==
  ASSUME FeedTyped, NEW c \in Feed!CalendarId, Feed!HandleImportICSWeb(c)
  PROVE  FeedTyped'
  <1>1. PICK file \in Files :
           /\ Feed!RestrictValues(file, Feed!parseICalEvent) # << >>
           /\ feedUpload' = [cal |-> c,
                parts |-> Feed!RestrictValues(file, Feed!parseICalEvent)]
    BY DEF Feed!HandleImportICSWeb
  <1>2. /\ feedUpload' \in [cal : Feed!CalendarId \cup {0}, parts : Texts]
        /\ feedUpload'.cal \in Feed!CalendarId /\ feedUpload'.parts # << >>
    BY <1>1, FileIsText
  <1> QED BY <1>2, SyncStays, TypesOfRest DEF Feed!HandleImportICSWeb, FeedTyped,
             Feed!TypeOK

\* One component of an upload: what is known of it.
Given == feedUpload.parts[Feed!Min(DOMAIN feedUpload.parts)]
GivenRows == {i \in Feed!RowsOf(feedUpload.cal) : feedRow[i].uid = Given.uid}
GivenRow == IF GivenRows = {} THEN lastFeedRow + 1 ELSE CHOOSE i \in GivenRows : TRUE

\* The component an upload is at is an event, for a calendar.
LEMMA GivenIs ==
  ASSUME FeedTyped, feedUpload # Feed!NoUpload
  PROVE  Given \in Event /\ feedUpload.cal \in Feed!CalendarId
  <1>1. feedUpload.parts \in Texts /\ feedUpload.parts # << >>
        /\ feedUpload.cal \in Feed!CalendarId
    BY DEF FeedTyped
  <1>2. DOMAIN feedUpload.parts # {}
    BY <1>1, OnlyEmptyText
  <1>3. PICK x \in DOMAIN feedUpload.parts : \A y \in DOMAIN feedUpload.parts : x <= y
    BY <1>1, <1>2, TextHas, LeastNumber
  <1>4. Feed!Min(DOMAIN feedUpload.parts) \in DOMAIN feedUpload.parts
    BY <1>3 DEF Feed!Min
  <1> QED BY <1>1, <1>4, TextHas DEF Given

\* The guest list the row has, if there is one.
GivenGuests == IF GivenRows = {} THEN None ELSE feedRow[CHOOSE i \in GivenRows : TRUE].guests

\* An import writes one row, if the calendar is there, with its guest list or without,
\* and takes the rest, unless it fails.
LEMMA ImportIs ==
  ASSUME FeedTyped, Feed!ImportICS
  PROVE  /\ feedUpload # Feed!NoUpload
         /\ feedUpload' = Feed!NoUpload
              \/ /\ feedUpload' \in [cal : Feed!CalendarId \cup {0}, parts : Texts]
                                           /\ feedUpload'.cal \in Feed!CalendarId
                                                /\ feedUpload'.parts # << >>
         /\ \/ UNCHANGED <<feedRow, lastFeedRow, feedDisturbed>>
            \/ /\ GivenRow \in Feed!RowId
               /\ GivenRows = {} => GivenRow = lastFeedRow + 1
               /\ GivenRows # {} => GivenRow \in GivenRows
               /\ lastFeedRow' = IF GivenRows = {} THEN lastFeedRow + 1 ELSE lastFeedRow
               /\ \E guests \in Version \cup {None} :
                     feedRow' = [feedRow EXCEPT ![GivenRow] =
                                   Feed!Made(feedUpload.cal, Given, guests)]
               /\ feedDisturbed' = feedDisturbed \cup Feed!Touched(feedUpload.cal)
  <1> DEFINE first == Feed!Min(DOMAIN feedUpload.parts)
             rest == Feed!Restrict(feedUpload.parts, DOMAIN feedUpload.parts \ {first})
  <1>1. /\ feedUpload # Feed!NoUpload
        /\ \/ feedUpload' = Feed!NoUpload
                /\ UNCHANGED <<feedRow, lastFeedRow, feedDisturbed>>
           \/ /\ GivenRows # {} \/ lastFeedRow < MaxRow
              /\ lastFeedRow' = IF GivenRows = {} THEN lastFeedRow + 1 ELSE lastFeedRow
              /\ \E guests \in {Given.version, GivenGuests} :
                    /\ feedRow' = [feedRow EXCEPT ![IF GivenRows = {} THEN lastFeedRow'
                                                   ELSE CHOOSE i \in GivenRows : TRUE]
                                     = Feed!Made(feedUpload.cal, Given, guests)]
                    /\ feedUpload' = IF rest = << >> \/ guests # Given.version
                                     THEN Feed!NoUpload
                                     ELSE [feedUpload EXCEPT !.parts = rest]
              /\ feedDisturbed' = feedDisturbed \cup Feed!Touched(feedUpload.cal)
    BY DEF Feed!ImportICS, GivenRows, Given, GivenGuests
  <1>2. rest \in Texts /\ feedUpload \in [cal : Feed!CalendarId \cup {0}, parts : Texts]
        /\ feedUpload.cal \in Feed!CalendarId
    BY <1>1, TextShrinks DEF FeedTyped
  <1> HIDE DEF rest
  <1>3. ASSUME GivenRows # {} \/ lastFeedRow < MaxRow
        PROVE  /\ GivenRow \in Feed!RowId
               /\ GivenRows = {} => GivenRow = lastFeedRow + 1
               /\ GivenRows # {} => GivenRow \in GivenRows
    <2>1. lastFeedRow \in 0 .. MaxRow
      BY DEF FeedTyped, Feed!TypeOK
    <2>2. CASE GivenRows = {}
      BY <1>3, <2>1, <2>2, BoundsAreNumbers DEF GivenRow, Feed!RowId
    <2>3. CASE GivenRows # {}
      <3>1. GivenRow \in GivenRows
        BY <2>3 DEF GivenRow
      <3> QED BY <2>3, <3>1 DEF GivenRows, Feed!RowsOf
    <2> QED BY <2>2, <2>3
  <1>4. Given.version \in Version \cup {None} /\ GivenGuests \in Version \cup {None}
    <2>1. Given.version \in Version
      BY <1>1, GivenIs DEF Event
    <2>2. ASSUME GivenRows # {} PROVE feedRow[CHOOSE i \in GivenRows : TRUE] \in Feed!EventRow
      <3>1. (CHOOSE i \in GivenRows : TRUE) \in GivenRows
        BY <2>2
      <3> QED BY <3>1 DEF GivenRows, Feed!RowsOf, FeedTyped, Feed!TypeOK
    <2> QED BY <2>1, <2>2 DEF GivenGuests, Feed!EventRow
  <1>5. CASE feedUpload' = Feed!NoUpload /\ UNCHANGED <<feedRow, lastFeedRow, feedDisturbed>>
    BY <1>1, <1>5
  <1>6. ASSUME GivenRows # {} \/ lastFeedRow < MaxRow,
               NEW guests \in {Given.version, GivenGuests},
               lastFeedRow' = IF GivenRows = {} THEN lastFeedRow + 1 ELSE lastFeedRow,
               feedRow' = [feedRow EXCEPT ![IF GivenRows = {} THEN lastFeedRow'
                                            ELSE CHOOSE i \in GivenRows : TRUE]
                             = Feed!Made(feedUpload.cal, Given, guests)],
               feedUpload' = IF rest = << >> \/ guests # Given.version THEN Feed!NoUpload
                             ELSE [feedUpload EXCEPT !.parts = rest]
        PROVE  /\ feedUpload' = Feed!NoUpload
                    \/ /\ feedUpload' \in [cal : Feed!CalendarId \cup {0}, parts : Texts]
                       /\ feedUpload'.cal \in Feed!CalendarId /\ feedUpload'.parts # << >>
               /\ \E g \in Version \cup {None} :
                     feedRow' = [feedRow EXCEPT ![GivenRow] = Feed!Made(feedUpload.cal, Given, g)]
    <2>1. guests \in Version \cup {None}
      BY <1>4, <1>6
    <2>2. feedRow' = [feedRow EXCEPT ![GivenRow] = Feed!Made(feedUpload.cal, Given, guests)]
      BY <1>6 DEF GivenRow
    <2>3. feedUpload' = Feed!NoUpload
            \/ /\ feedUpload' \in [cal : Feed!CalendarId \cup {0}, parts : Texts]
               /\ feedUpload'.cal \in Feed!CalendarId /\ feedUpload'.parts # << >>
      BY <1>2, <1>6
    <2> QED BY <2>1, <2>2, <2>3
  <1> QED BY <1>1, <1>3, <1>5, <1>6

\* An import keeps the types.
LEMMA ImportTyped ==
  ASSUME FeedTyped, Feed!ImportICS
  PROVE  FeedTyped'
  <1>1. Given \in Event /\ feedUpload.cal \in Feed!CalendarId
    BY ImportIs, GivenIs
  <1>2. \A guests \in Version \cup {None} :
           Feed!Made(feedUpload.cal, Given, guests) \in Feed!EventRow
    BY <1>1, MadeTyped
  <1>3. feedRow' \in [Feed!RowId -> Feed!EventRow \cup {None}]
    BY <1>2, ImportIs DEF FeedTyped, Feed!TypeOK
  <1>4. lastFeedRow' \in 0 .. MaxRow
    BY ImportIs, BoundsAreNumbers DEF FeedTyped, Feed!TypeOK, Feed!RowId
  <1>5. feedDisturbed' \subseteq Feed!Sync
    BY ImportIs DEF FeedTyped, Feed!TypeOK, Feed!Touched
  <1>6. /\ feedUpload' \in [cal : Feed!CalendarId \cup {0}, parts : Texts]
        /\ feedUpload' # Feed!NoUpload => feedUpload'.cal \in Feed!CalendarId
             /\ feedUpload'.parts # << >>
    BY ImportIs, FeedIdleTyped
  <1>7. /\ feedSync' = feedSync /\ feedCalendar' = feedCalendar
             /\ lastFeedCalendar' = lastFeedCalendar
        /\ feedFetches' = feedFetches /\ feedRequests' = feedRequests
    BY DEF Feed!ImportICS
  <1>8. feedFetches' \in Nat /\ feedRequests' \in Nat
        /\ feedCalendar' \in [Feed!CalendarId -> BOOLEAN \cup {None}]
    BY <1>7 DEF FeedTyped, Feed!TypeOK
  <1> QED BY <1>3, <1>4, <1>5, <1>6, <1>7, <1>8, SyncStays, TypesOfRest

\* The master switch keeps the types.
LEMMA ToggleTyped ==
  ASSUME FeedTyped, NEW c \in Feed!CalendarId, Feed!HandleToggleCalendarEnabled(c)
  PROVE  FeedTyped'
  <1>1. feedCalendar' \in [Feed!CalendarId -> BOOLEAN \cup {None}]
    <2>1. feedCalendar[c] \in BOOLEAN
      BY DEF Feed!HandleToggleCalendarEnabled, FeedTyped, Feed!TypeOK, Feed!Calendars
    <2>2. PICK b \in BOOLEAN : b = ~feedCalendar[c]
      BY <2>1
    <2>3. feedCalendar' = [feedCalendar EXCEPT ![c] = b]
      BY <2>2 DEF Feed!HandleToggleCalendarEnabled
    <2> QED BY <2>3 DEF FeedTyped, Feed!TypeOK
  <1> QED BY <1>1, SyncStays, TypesOfRest DEF Feed!HandleToggleCalendarEnabled, FeedTyped,
             Feed!TypeOK

\* The deletion of a calendar keeps the types.
LEMMA FeedDeleteTyped ==
  ASSUME FeedTyped, NEW c \in Feed!CalendarId, Feed!HandleDeleteCalendarWeb(c)
  PROVE  FeedTyped'
  <1>1. /\ feedCalendar' \in [Feed!CalendarId -> BOOLEAN \cup {None}]
        /\ feedRow' \in [Feed!RowId -> Feed!EventRow \cup {None}]
             /\ feedDisturbed' \subseteq Feed!Sync
    BY DEF Feed!HandleDeleteCalendarWeb, FeedTyped, Feed!TypeOK, Feed!Touched
  <1> QED BY <1>1, SyncStays, TypesOfRest DEF Feed!HandleDeleteCalendarWeb, FeedTyped,
             Feed!TypeOK

\* The repair touches guest lists only.
LEMMA BackfillIs ==
  ASSUME NEW r \in Feed!EventRow \cup {None}
  PROVE  /\ Feed!BackfillAttendees(r) \in Feed!EventRow \cup {None}
         /\ Feed!BackfillAttendees(r) = None <=> r = None
         /\ r # None => /\ Feed!BackfillAttendees(r).cal = r.cal
                        /\ Feed!BackfillAttendees(r).uid = r.uid
  <1>1. CASE r = None
    BY <1>1 DEF Feed!BackfillAttendees
  <1>2. CASE r # None
    <2>1. r \in Feed!EventRow
      BY <1>2
    <2>2. /\ [r EXCEPT !.guests = r.version] \in Feed!EventRow
          /\ [r EXCEPT !.guests = r.version].cal = r.cal
          /\ [r EXCEPT !.guests = r.version].uid = r.uid
      BY <2>1 DEF Feed!EventRow
    <2> QED BY <1>2, <2>2, BoundsAreNumbers DEF Feed!BackfillAttendees
  <1> QED BY <1>1, <1>2

\* A restart keeps the types.
LEMMA RestartTyped ==
  ASSUME FeedTyped, Feed!Restart
  PROVE  FeedTyped'
  <1>1. feedRow' \in [Feed!RowId -> Feed!EventRow \cup {None}]
    <2>1. \A i \in Feed!RowId : Feed!BackfillAttendees(feedRow[i]) \in Feed!EventRow \cup {None}
      BY BackfillIs DEF FeedTyped, Feed!TypeOK
    <2> QED BY <2>1 DEF Feed!Restart
  <1>2. feedSync' \in [Feed!Sync -> SyncState]
        /\ \A q \in Feed!Sync : SyncFits(feedSync'[q])
    BY FeedIdleTyped DEF Feed!Restart, SyncFits
  <1>3. feedUpload' = Feed!NoUpload /\ feedDisturbed' = {}
        /\ feedRequests' = feedRequests + 1
        /\ UNCHANGED <<feedCalendar, lastFeedRow, lastFeedCalendar, feedFetches>>
    BY DEF Feed!Restart
  <1>4. lastFeedRow' \in 0 .. MaxRow
        /\ feedCalendar' \in [Feed!CalendarId -> BOOLEAN \cup {None}]
        /\ feedFetches' \in Nat /\ feedRequests' \in Nat
    BY <1>3 DEF FeedTyped, Feed!TypeOK
  <1> QED BY <1>1, <1>2, <1>3, <1>4, FeedIdleTyped, TypesOfRest

\* Every step keeps the types.
LEMMA TypesStay == FeedTyped /\ [Feed!Next]_(Feed!vars) => FeedTyped'
  <1> SUFFICES ASSUME FeedTyped, [Feed!Next]_(Feed!vars) PROVE FeedTyped'
    OBVIOUS
  <1>1. CASE UNCHANGED Feed!vars
    <2>1. UNCHANGED <<feedCalendar, feedRow, feedSync, feedUpload, lastFeedRow,
          lastFeedCalendar, feedFetches, feedRequests,
                      feedDisturbed>>
      BY <1>1 DEF Feed!vars
    <2>2. Feed!TypeOK'
      BY <2>1 DEF FeedTyped, Feed!TypeOK, Feed!EventRow
    <2> QED BY <2>1, <2>2 DEF FeedTyped, Feed!NoUpload
  <1> QED BY <1>1, FetchTyped, FindTyped, FeedCreateTyped, FeedReadTyped, ApplyTyped,
             CompareTyped,
             ManualTyped, UploadTyped, ToggleTyped, FeedDeleteTyped, ImportTyped,
               RestartTyped, FailTyped
          DEF Feed!Next

-----------------------------------------------------------------------------
(* The invariant. *)

\* A row has an id that was given out.
RowsNumbered == \A i \in Feed!RowId : feedRow[i] # None => i <= lastFeedRow

\* A row with an id that somebody remembers still is of the calendar it was of.
Aims(id, c) == id <= lastFeedRow /\ (feedRow[id] # None => feedRow[id].cal = c)

\* Whoever has read rows knows each once, of one calendar, and knows them all if
\* nobody has touched them; the task has events, or read no rows.
Reading(p) ==
  feedSync[p].pc \in {"read", "compared"} =>
    /\ Apart(feedSync[p].known)
    /\ \A k \in feedSync[p].known : Aims(k.id, feedSync[p].cal)
    /\ p \notin feedDisturbed => feedSync[p].known = Feed!Identities(feedSync[p].cal)
    /\ p = "task" => feedSync[p].parts # << >> \/ feedSync[p].known = {}

\* What is about to be written aims at rows of the calendar.
Writing(p) ==
  feedSync[p].pc = "compared" => \A u \in feedSync[p].updates : Aims(u.id, feedSync[p].cal)

\* What the task is about to write is what the matching says.
Matching ==
  LET s == feedSync["task"]
      m == Feed!matchFeedEvents(s.known, s.parts)
  IN  s.pc = "compared" =>
        /\ s.creates = m.creates /\ s.deletes = m.deletes /\ s.lost \subseteq m.matches
        /\ "task" \notin feedDisturbed => s.updates = TaskWrites(s, s.lost)

FeedInv ==
  /\ FeedTyped
  /\ Feed!Unique(feedRow)
  /\ RowsNumbered
  /\ \A p \in Feed!Sync : Reading(p) /\ Writing(p)
  /\ Matching

\* The invariant holds at the beginning, where nobody reads or writes.
LEMMA InvBegins == Feed!Init => FeedInv
  <1> SUFFICES ASSUME Feed!Init PROVE FeedInv
    OBVIOUS
  <1>1. \A p \in Feed!Sync : feedSync[p].pc = "idle"
    BY FeedIdleTyped DEF Feed!Init
  <1>2. "task" \in Feed!Sync
    BY DEF Feed!Sync
  <1> QED BY <1>1, <1>2, FeedTypesBegin
          DEF Feed!Init, FeedInv, Feed!Unique, RowsNumbered, Reading, Writing, Matching

\* Rows stay in their calendars, and new ones have new ids.
FeedRowsMove ==
  /\ lastFeedRow' >= lastFeedRow
  /\ \A i \in Feed!RowId : feedRow'[i] # None =>
        i > lastFeedRow \/ (feedRow[i] # None /\ feedRow'[i].cal = feedRow[i].cal)

\* No row of calendar c is changed, lost or made.
Quiet(c) ==
  \A i \in Feed!RowId :
    (feedRow[i] # None /\ feedRow[i].cal = c)
      \/ (feedRow'[i] # None /\ feedRow'[i].cal = c) => feedRow'[i] = feedRow[i]

\* While a calendar is quiet, its rows and their identities are what they were.
LEMMA QuietKnows ==
  ASSUME NEW c, Quiet(c)
  PROVE  Feed!Identities(c)' = Feed!Identities(c) /\ Feed!RowsOf(c)' = Feed!RowsOf(c)
  <1>1. Feed!RowsOf(c)' = Feed!RowsOf(c)
        /\ \A i \in Feed!RowsOf(c) : feedRow'[i] = feedRow[i]
    BY DEF Quiet, Feed!RowsOf
  <1> QED BY <1>1 DEF Feed!Identities

\* Aims are kept.
LEMMA AimsStay ==
  ASSUME FeedTyped, FeedTyped', FeedRowsMove, NEW id \in Feed!RowId, NEW c, Aims(id, c)
  PROVE  Aims(id, c)'
  <1>1. lastFeedRow \in Nat /\ lastFeedRow' \in Nat /\ id \in Nat
    BY BoundsAreNumbers DEF FeedTyped, Feed!TypeOK, Feed!RowId
  <1>2. id <= lastFeedRow'
    BY <1>1 DEF Aims, FeedRowsMove
  <1>3. ASSUME feedRow'[id] # None PROVE feedRow'[id].cal = c
    <2>1. ~(id > lastFeedRow)
      BY <1>1 DEF Aims
    <2>2. feedRow[id] # None /\ feedRow'[id].cal = feedRow[id].cal
      BY <1>3, <2>1 DEF FeedRowsMove
    <2> QED BY <2>2 DEF Aims
  <1> QED BY <1>2, <1>3 DEF Aims

\* What the task would write is the same as long as the rows it knows are.
LEMMA WritesStay ==
  ASSUME FeedTyped, NEW s \in SyncState, NEW lost,
         \A k \in s.known : feedRow'[k.id] = feedRow[k.id]
  PROVE  TaskWrites(s, lost)' = TaskWrites(s, lost)
  <1> SUFFICES ASSUME NEW x \in Feed!matchFeedEvents(s.known, s.parts).matches
               PROVE  feedRow'[x.id] = feedRow[x.id]
    BY DEF TaskWrites, TaskWrite, Stale
  <1>1. s.known \in SUBSET Identity
    BY DEF SyncState
  <1> QED BY <1>1, MatchSays

\* A step as the other synchronisation sees it: it is ended, or it stays, and its
\* calendar is quiet unless it is noted as disturbed.
Bystander(p) ==
  \/ feedSync'[p].pc \notin {"read", "compared"}
  \/ /\ feedSync'[p] = feedSync[p]
     /\ p \in feedDisturbed => p \in feedDisturbed'
     /\ p \in feedDisturbed' \/ Quiet(feedSync[p].cal)

\* What the invariant says of a synchronisation holds after another's step.
LEMMA BystanderKeeps ==
  ASSUME FeedInv, FeedTyped', FeedRowsMove, NEW p \in Feed!Sync, Bystander(p)
  PROVE  Reading(p)' /\ Writing(p)' /\ (p = "task" => Matching')
  <1>1. CASE feedSync'[p].pc \notin {"read", "compared"}
    BY <1>1 DEF Reading, Writing, Matching
  <1>2. CASE feedSync'[p].pc \in {"read", "compared"}
    <2>0. PICK s : s = feedSync[p]
      OBVIOUS
    <2>1. /\ feedSync'[p] = s /\ s.pc \in {"read", "compared"} /\ s \in SyncState
          /\ p \in feedDisturbed => p \in feedDisturbed'
          /\ p \in feedDisturbed' \/ Quiet(s.cal)
      BY <1>2, <2>0 DEF Bystander, FeedInv, FeedTyped
    <2>2. Reading(p) /\ Writing(p) /\ FeedTyped
      BY DEF FeedInv
    <2>3. \A k \in s.known : k.id \in Feed!RowId
      BY <2>1 DEF SyncState, Identity
    <2>4. \A u \in s.updates : u.id \in Feed!RowId
      BY <2>1 DEF SyncState, Write
    <2>5. \A k \in s.known : Aims(k.id, s.cal)'
      <3>1. \A k \in s.known : Aims(k.id, s.cal)
        BY <2>0, <2>1, <2>2 DEF Reading
      <3> QED BY <2>2, <2>3, <3>1, AimsStay
    <2>6. s.pc = "compared" => \A u \in s.updates : Aims(u.id, s.cal)'
      <3>1. s.pc = "compared" => \A u \in s.updates : Aims(u.id, s.cal)
        BY <2>0, <2>1, <2>2 DEF Writing
      <3> QED BY <2>2, <2>4, <3>1, AimsStay
    <2>7. ASSUME p \notin feedDisturbed'
          PROVE  /\ Quiet(s.cal) /\ p \notin feedDisturbed
                 /\ s.known = Feed!Identities(s.cal) /\ s.known = Feed!Identities(s.cal)'
      <3>1. Quiet(s.cal) /\ p \notin feedDisturbed
        BY <2>1, <2>7
      <3>2. s.known = Feed!Identities(s.cal)
        BY <2>0, <2>1, <2>2, <3>1 DEF Reading
      <3> QED BY <3>1, <3>2, QuietKnows
    <2>8. Reading(p)'
      <3>1. Apart(s.known) /\ (p = "task" => s.parts # << >> \/ s.known = {})
        BY <2>0, <2>1, <2>2 DEF Reading
      <3> QED BY <2>1, <2>5, <2>7, <3>1 DEF Reading, Aims
    <2>9. Writing(p)'
      BY <2>1, <2>6 DEF Writing, Aims
    <2>10. ASSUME p = "task", s.pc = "compared", p \notin feedDisturbed'
           PROVE  TaskWrites(s, s.lost)' = TaskWrites(s, s.lost)
      <3>1. Quiet(s.cal) /\ s.known = Feed!Identities(s.cal)
        BY <2>7, <2>10
      <3>2. \A k \in s.known : feedRow'[k.id] = feedRow[k.id]
        BY <3>1 DEF Feed!Identities, Quiet, Feed!RowsOf
      <3> QED BY <2>1, <2>2, <3>2, WritesStay
    <2>11. ASSUME p = "task" PROVE Matching'
      <3>1. Matching /\ feedSync["task"] = s
        BY <2>0, <2>11 DEF FeedInv
      <3>2. feedSync'["task"] = s
        BY <2>1, <2>11
      <3> DEFINE m == Feed!matchFeedEvents(s.known, s.parts)
      <3>3. s.pc = "compared" =>
              /\ s.creates = m.creates /\ s.deletes = m.deletes /\ s.lost \subseteq m.matches
              /\ "task" \notin feedDisturbed => s.updates = TaskWrites(s, s.lost)
        BY <3>1 DEF Matching
      <3>4. s.pc = "compared" /\ "task" \notin feedDisturbed' =>
              TaskWrites(s, s.lost)' = TaskWrites(s, s.lost) /\ "task" \notin feedDisturbed
        BY <2>7, <2>10, <2>11
      <3>5. s.pc = "compared" =>
              /\ s.creates = m.creates /\ s.deletes = m.deletes /\ s.lost \subseteq m.matches
              /\ "task" \notin feedDisturbed' => s.updates = TaskWrites(s, s.lost)'
        BY <3>3, <3>4
      <3> QED BY <3>2, <3>5 DEF Matching, TaskWrites, Stale
    <2> QED BY <2>8, <2>9, <2>11
  <1> QED BY <1>1, <1>2

\* What is left to show of a step.
Renewed(p) == Reading(p)' /\ Writing(p)' /\ (p = "task" => Matching')

\* So that a step keeps the invariant if it does for those it moves itself.
LEMMA InvStays ==
  ASSUME FeedInv, FeedTyped', FeedRowsMove, Feed!Unique(feedRow'), RowsNumbered',
         \A p \in Feed!Sync : Bystander(p) \/ Renewed(p)
  PROVE  FeedInv'
  <1>1. \A p \in Feed!Sync : Renewed(p)
    BY BystanderKeeps DEF Renewed
  <1>2. "task" \in Feed!Sync
    BY DEF Feed!Sync
  <1>3. \A p \in Feed!Sync : Reading(p)' /\ Writing(p)'
    BY <1>1 DEF Renewed
  <1>4. Matching'
    BY <1>1, <1>2 DEF Renewed
  <1> QED BY <1>3, <1>4 DEF FeedInv, Feed!Unique

\* Steps that leave the rows alone.
LEMMA RowsAlone ==
  ASSUME FeedInv, FeedTyped', UNCHANGED <<feedRow, lastFeedRow, feedDisturbed>>,
         \A p \in Feed!Sync : feedSync'[p] = feedSync[p]
           \/ feedSync'[p].pc \notin {"read", "compared"} \/ Renewed(p)
  PROVE  FeedInv'
  <1>1. FeedRowsMove
    <2>1. lastFeedRow \in Nat
      BY BoundsAreNumbers DEF FeedInv, FeedTyped, Feed!TypeOK
    <2> QED BY <2>1 DEF FeedRowsMove
  <1>2. Feed!Unique(feedRow') /\ RowsNumbered'
    BY DEF FeedInv, Feed!Unique, RowsNumbered
  <1>3. \A c : Quiet(c)
    BY DEF Quiet
  <1>4. \A p \in Feed!Sync : Bystander(p) \/ Renewed(p)
    BY <1>3 DEF Bystander
  <1> QED BY <1>1, <1>2, <1>4, InvStays

\* A fetch and the finding or making of a calendar keep the invariant.
LEMMA EarlyKeeps ==
  ASSUME FeedInv, FeedTyped', NEW p \in Feed!Sync, Feed!fetchICS(p) \/ Feed!FindCalendar(p)
         \/ Feed!CreateCalendar(p)
  PROVE  FeedInv'
  <1>1. UNCHANGED <<feedRow, lastFeedRow, feedDisturbed>>
    BY DEF Feed!fetchICS, Feed!FindCalendar, Feed!CreateCalendar
  <1>2. feedSync \in [Feed!Sync -> SyncState]
    BY DEF FeedInv, FeedTyped
  <1>3. ASSUME NEW q \in Feed!Sync, q # p PROVE feedSync'[q] = feedSync[q]
    BY <1>2, <1>3 DEF Feed!fetchICS, Feed!FindCalendar, Feed!CreateCalendar
  <1>4. feedSync'[p].pc \notin {"read", "compared"}
    <2>1. CASE Feed!fetchICS(p)
      <3>1. PICK t : /\ feedSync' = [feedSync EXCEPT ![p] = t]
                     /\ t.pc = "fetched"
        <4>1. PICK body \in Feeds :
                 feedSync' = [feedSync EXCEPT ![p].pc = "fetched", ![p].body = body,
                   ![p].parts = Feed!ParseICS(body)]
          BY <2>1 DEF Feed!fetchICS
        <4> DEFINE t == [feedSync[p] EXCEPT !.pc = "fetched", !.body = body,
                                            !.parts = Feed!ParseICS(body)]
        <4>2. t.pc = "fetched"
          BY <1>2 DEF SyncState
        <4>3. feedSync' = [feedSync EXCEPT ![p] = t]
          BY <4>1
        <4> QED BY <4>2, <4>3
      <3> QED BY <1>2, <3>1
    <2>2. CASE Feed!FindCalendar(p)
      BY <1>2, <2>2, FeedIdleTyped DEF Feed!FindCalendar, SyncState
    <2>3. CASE Feed!CreateCalendar(p)
      BY <1>2, <2>3 DEF Feed!CreateCalendar, SyncState
    <2> QED BY <2>1, <2>2, <2>3
  <1> QED BY <1>1, <1>3, <1>4, RowsAlone

\* The rows of a calendar have UIDs of their own.
LEMMA IdentitiesAreApart ==
  ASSUME FeedInv, NEW c
  PROVE  /\ Apart(Feed!Identities(c)) /\ \A k \in Feed!Identities(c) : Aims(k.id, c)
  <1>1. ASSUME NEW k \in Feed!Identities(c)
        PROVE  /\ k.id \in Feed!RowId /\ feedRow[k.id] # None /\ feedRow[k.id].cal = c
               /\ k.uid = feedRow[k.id].uid
               /\ k = [id |-> k.id, uid |-> feedRow[k.id].uid,
                    content |-> feedRow[k.id].content]
    BY DEF Feed!Identities, Feed!RowsOf
  <1>2. ASSUME NEW k \in Feed!Identities(c), NEW l \in Feed!Identities(c), k.id = l.id
               \/ k.uid = l.uid
        PROVE  k = l
    <2>1. k.id = l.id
      BY <1>1, <1>2 DEF FeedInv, Feed!Unique
    <2>2. /\ k = [id |-> k.id, uid |-> feedRow[k.id].uid, content |-> feedRow[k.id].content]
          /\ l = [id |-> l.id, uid |-> feedRow[l.id].uid, content |-> feedRow[l.id].content]
      BY <1>1
    <2> QED BY <2>1, <2>2
  <1>3. \A k \in Feed!Identities(c) : Aims(k.id, c)
    BY <1>1 DEF Aims, FeedInv, RowsNumbered
  <1> QED BY <1>2, <1>3 DEF Apart

\* Reading the rows keeps it: who has just read knows them all, each once.
LEMMA ReadKeeps ==
  ASSUME FeedInv, FeedTyped', NEW p \in Feed!Sync, Feed!ReadRows(p)
  PROVE  FeedInv'
  <1>1. UNCHANGED <<feedRow, lastFeedRow, feedDisturbed>>
    BY DEF Feed!ReadRows
  <1>2. feedSync \in [Feed!Sync -> SyncState] /\ feedSync[p] \in SyncState
    BY DEF FeedInv, FeedTyped
  <1>3. ASSUME NEW q \in Feed!Sync, q # p PROVE feedSync'[q] = feedSync[q]
    BY <1>2, <1>3 DEF Feed!ReadRows
  <1>4. feedSync'[p].pc \notin {"read", "compared"} \/ Renewed(p)
    <2>1. CASE Feed!Refuses(p, Feed!Identities(feedSync[p].cal))
      BY <1>2, <2>1, FeedIdleTyped DEF Feed!ReadRows
    <2>2. CASE ~Feed!Refuses(p, Feed!Identities(feedSync[p].cal))
      <3>1. PICK c : c = feedSync[p].cal
        OBVIOUS
      <3>2. /\ feedSync'[p].pc = "read" /\ feedSync'[p].known = Feed!Identities(c)
                 /\ feedSync'[p].cal = c
            /\ feedSync'[p].parts = feedSync[p].parts
        BY <1>2, <2>2, <3>1 DEF Feed!ReadRows, SyncState
      <3>3. Feed!Identities(c)' = Feed!Identities(c)
        BY <1>1 DEF Feed!Identities, Feed!RowsOf
      <3>4. p = "task" => feedSync[p].parts # << >> \/ Feed!Identities(c) = {}
        BY <2>2, <3>1 DEF Feed!Refuses
      <3>5. Apart(Feed!Identities(c)) /\ \A k \in Feed!Identities(c) : Aims(k.id, c)'
        BY <1>1, IdentitiesAreApart DEF Aims
      <3>6. Reading(p)'
        BY <3>2, <3>3, <3>4, <3>5 DEF Reading, Aims
      <3>7. Writing(p)' /\ (p = "task" => Matching')
        BY <3>2 DEF Writing, Matching
      <3> QED BY <3>6, <3>7 DEF Renewed
    <2> QED BY <2>1, <2>2
  <1> QED BY <1>1, <1>3, <1>4, RowsAlone

\* The task's comparison keeps it: it prepares what the matching says.
LEMMA CompareKeeps ==
  ASSUME FeedInv, FeedTyped', Feed!CompareTask
  PROVE  FeedInv'
  <1>1. PICK s : s = feedSync["task"]
    OBVIOUS
  <1> DEFINE m == Feed!matchFeedEvents(s.known, s.parts)
  <1>2. s.pc = "read" /\ UNCHANGED <<feedRow, lastFeedRow, feedDisturbed>>
    BY <1>1, CompareTaskIs
  <1>3. feedSync \in [Feed!Sync -> SyncState] /\ "task" \in Feed!Sync /\ s \in SyncState
    BY <1>1 DEF FeedInv, FeedTyped, Feed!Sync
  <1>4. PICK lost \in SUBSET m.matches :
           feedSync' = [feedSync EXCEPT !["task"] =
             AfterCompare(s, m.creates, TaskWrites(s, lost), m.deletes, lost)]
    BY <1>1, CompareTaskIs
  <1> DEFINE t == AfterCompare(s, m.creates, TaskWrites(s, lost), m.deletes, lost)
  <1>5. s.known \in SUBSET Identity /\ s.parts \in Texts
    BY <1>3 DEF SyncState
  <1>6. m.creates \in SUBSET Nat /\ m.deletes \in SUBSET FeedUid
        /\ TaskWrites(s, lost) \in SUBSET Write /\ lost \in SUBSET Pair
    <2>1. m.creates \in SUBSET Nat /\ m.deletes \in SUBSET FeedUid
      BY <1>5, MatchingGives, TextHas DEF Identity
    <2>2. TaskWrites(s, lost) \subseteq Write
      BY <1>3, TaskWritesTyped
    <2>3. lost \subseteq Pair
      BY <1>5, MatchIsPair
    <2> QED BY <2>1, <2>2, <2>3
  <1>7. /\ t.pc = "compared" /\ t.parts = s.parts /\ t.cal = s.cal /\ t.known = s.known
        /\ t.creates = m.creates /\ t.updates = TaskWrites(s, lost) /\ t.deletes = m.deletes
        /\ t.lost = lost
    <2>1. PICK creates \in SUBSET Nat, deletes \in SUBSET FeedUid, updates \in SUBSET Write :
             creates = m.creates /\ deletes = m.deletes /\ updates = TaskWrites(s, lost)
      BY <1>6
    <2>2. t = AfterCompare(s, creates, updates, deletes, lost)
      BY <2>1
    <2> HIDE DEF t, m
    <2> QED BY <1>3, <1>6, <2>1, <2>2, AfterCompareIs
  <1>8. TaskWrites(s, lost)' = TaskWrites(s, lost)
    BY <1>2 DEF TaskWrites, Stale
  <1>9. feedSync'["task"] = t
    BY <1>3, <1>4
  <1> HIDE DEF t
  <1>10. Reading("task")
    BY <1>3 DEF FeedInv
  <1>11. /\ Apart(s.known) /\ \A k \in s.known : Aims(k.id, s.cal)
         /\ "task" \notin feedDisturbed => s.known = Feed!Identities(s.cal)
         /\ s.parts # << >> \/ s.known = {}
    BY <1>1, <1>2, <1>10 DEF Reading
  <1>12. Feed!Identities(s.cal)' = Feed!Identities(s.cal)
         /\ \A k \in s.known : Aims(k.id, s.cal)'
    BY <1>2, <1>11 DEF Feed!Identities, Feed!RowsOf, Aims
  <1>13. Reading("task")'
    BY <1>2, <1>7, <1>9, <1>11, <1>12 DEF Reading, Aims
  <1>14. Writing("task")'
    <2>1. ASSUME NEW u \in TaskWrites(s, lost) PROVE Aims(u.id, s.cal)'
      <3>1. PICK x \in m.matches : u = TaskWrite(x)
        BY DEF TaskWrites
      <3>2. \E k \in s.known : x.id = k.id
        BY <1>5, <3>1, MatchSays
      <3> QED BY <1>12, <3>1, <3>2 DEF TaskWrite
    <2> QED BY <1>7, <1>9, <2>1 DEF Writing, Aims
  <1>15. Matching'
    BY <1>7, <1>8, <1>9 DEF Matching, TaskWrites, Stale
  <1>16. Renewed("task")
    BY <1>13, <1>14, <1>15 DEF Renewed
  <1>17. \A q \in Feed!Sync : q # "task" => feedSync'[q] = feedSync[q]
    BY <1>3, <1>4
  <1> QED BY <1>2, <1>16, <1>17, RowsAlone

\* The web request's comparison keeps it: it writes into rows it has just looked up.
LEMMA ManualKeeps ==
  ASSUME FeedInv, FeedTyped', Feed!syncICSURLSource
  PROVE  FeedInv'
  <1>1. PICK s : s = feedSync["manual"]
    OBVIOUS
  <1>2. s.pc = "read" /\ UNCHANGED <<feedRow, lastFeedRow, feedDisturbed>>
    BY <1>1, CompareManualIs
  <1>3. feedSync \in [Feed!Sync -> SyncState] /\ "manual" \in Feed!Sync /\ s \in SyncState
    BY <1>1 DEF FeedInv, FeedTyped, Feed!Sync
  <1>4. PICK lost \in SUBSET DOMAIN s.parts :
           feedSync' = [feedSync EXCEPT !["manual"] =
             AfterManual(s, Wanting(s, lost), ManualWrites(s, lost), Unlisted(s))]
    BY <1>1, CompareManualIs
  <1> DEFINE t == AfterManual(s, Wanting(s, lost), ManualWrites(s, lost), Unlisted(s))
  <1>5. s.known \in SUBSET Identity /\ s.parts \in Texts
    BY <1>3 DEF SyncState
  <1>6. /\ Wanting(s, lost) \in SUBSET Nat /\ Unlisted(s) \in SUBSET FeedUid
        /\ ManualWrites(s, lost) \in SUBSET Write
    <2>1. Wanting(s, lost) \in SUBSET Nat /\ Unlisted(s) \in SUBSET FeedUid
      BY <1>5, TextHas DEF Identity, Wanting, Unlisted
    <2>2. ManualWrites(s, lost) \subseteq Write
      BY <1>3, ManualWritesTyped
    <2> QED BY <2>1, <2>2
  <1>7. /\ t.pc = "compared" /\ t.parts = s.parts /\ t.cal = s.cal /\ t.known = s.known
        /\ t.updates = ManualWrites(s, lost)
    <2>1. PICK creates \in SUBSET Nat, deletes \in SUBSET FeedUid, updates \in SUBSET Write :
             /\ creates = Wanting(s, lost) /\ deletes = Unlisted(s)
             /\ updates = ManualWrites(s, lost)
      BY <1>6
    <2>2. t = AfterManual(s, creates, updates, deletes)
      BY <2>1
    <2> HIDE DEF t
    <2> QED BY <1>3, <2>1, <2>2, AfterManualIs
  <1>8. feedSync'["manual"] = t
    BY <1>3, <1>4
  <1> HIDE DEF t
  <1>9. Reading("manual")
    BY <1>3 DEF FeedInv
  <1>10. /\ Apart(s.known) /\ \A k \in s.known : Aims(k.id, s.cal)
         /\ "manual" \notin feedDisturbed => s.known = Feed!Identities(s.cal)
    BY <1>1, <1>2, <1>9 DEF Reading
  <1>11. Feed!Identities(s.cal)' = Feed!Identities(s.cal)
         /\ \A k \in s.known : Aims(k.id, s.cal)'
    BY <1>2, <1>10 DEF Feed!Identities, Feed!RowsOf, Aims
  <1>12. Reading("manual")'
    BY <1>2, <1>7, <1>8, <1>10, <1>11 DEF Reading, Aims
  <1>13. Writing("manual")'
    <2>1. ASSUME NEW u \in ManualWrites(s, lost) PROVE Aims(u.id, s.cal)'
      <3>1. u.id \in Feed!RowsOf(s.cal)
        BY <1>3, ManualWritesTyped
      <3> QED BY <1>2, <3>1 DEF Aims, Feed!RowsOf, FeedInv, RowsNumbered
    <2> QED BY <1>7, <1>8, <2>1 DEF Writing, Aims
  <1>14. Renewed("manual")
    BY <1>12, <1>13 DEF Renewed
  <1>15. \A q \in Feed!Sync : q # "manual" => feedSync'[q] = feedSync[q]
    BY <1>3, <1>4
  <1> QED BY <1>2, <1>14, <1>15, RowsAlone

-----------------------------------------------------------------------------
(* The steps that move rows. *)

\* Such a step concerns one calendar: rows of others stay, and whoever works on it
\* is noted as disturbed.
Within(c) == \A d : d # c => Quiet(d)

\* Whoever is elsewhere, or is noted, is a bystander of such a step.
LEMMA DisturbsOrQuiet ==
  ASSUME FeedInv, NEW c, Within(c), NEW p \in Feed!Sync, feedSync'[p] = feedSync[p],
         p \in feedDisturbed => p \in feedDisturbed',
         feedRow' = feedRow \/ (p \in Feed!Touched(c) => p \in feedDisturbed')
  PROVE  Bystander(p)
  <1>1. CASE feedSync[p].pc \notin {"read", "compared"}
    BY <1>1 DEF Bystander
  <1>2. CASE feedRow' = feedRow
    <2>1. Quiet(feedSync[p].cal)
      BY <1>2 DEF Quiet
    <2> QED BY <2>1 DEF Bystander
  <1>3. CASE feedSync[p].cal # c
    BY <1>3 DEF Within, Bystander
  <1>4. CASE feedSync[p].pc \in {"read", "compared"} /\ feedSync[p].cal = c
             /\ feedRow' # feedRow
    BY <1>4 DEF Feed!Touched, Bystander
  <1> QED BY <1>1, <1>2, <1>3, <1>4

\* A row the transaction keeps or writes was of its calendar, if it was there.
LEMMA ApplyRow ==
  ASSUME FeedInv, NEW p \in Feed!Sync, feedSync[p].pc = "compared", NEW i \in Feed!RowId
  PROVE  LET s == feedSync[p]
             after == Feed!Updated(s)[i]
         IN  /\ i \notin Feed!Fresh(s) /\ after # None => feedRow[i] # None
             /\ after # None /\ i \notin Feed!Fresh(s) => after.cal = feedRow[i].cal
             /\ i \in Feed!Fresh(s) => after # None /\ after.cal = s.cal /\ i > lastFeedRow
             /\ i \notin Feed!Fresh(s) /\ feedRow[i] # None /\ feedRow[i].cal # s.cal
                  => after = feedRow[i]
  <1>1. PICK s : s = feedSync[p]
    OBVIOUS
  <1>2. s.pc = "compared" /\ FeedTyped /\ Writing(p)
    BY <1>1 DEF FeedInv
  <1>3. s.cal \in Feed!CalendarId
    BY <1>1, <1>2 DEF FeedTyped
  <1>4. /\ i \notin Feed!Fresh(s) => Feed!Created(s)[i] = IF i \in Feed!Kept(s)
             THEN feedRow[i] ELSE None
        /\ i \in Feed!Fresh(s) => Feed!Created(s)[i] # None
             /\ Feed!Created(s)[i].cal = s.cal
    BY <1>1, <1>2, CreatedIs
  <1>5. \/ /\ \A u \in s.updates : u.id # i
           /\ Feed!Updated(s)[i] = Feed!Created(s)[i]
        \/ Feed!Created(s)[i] = None /\ Feed!Updated(s)[i] = None
        \/ /\ Feed!Created(s)[i] # None /\ Feed!Updated(s)[i] # None
                /\ Feed!Updated(s)[i].cal = s.cal
           /\ \E u \in s.updates : u.id = i
    <2>1. \/ /\ \A u \in s.updates : u.id # i
             /\ Feed!Updated(s)[i] = Feed!Created(s)[i]
          \/ Feed!Created(s)[i] = None /\ Feed!Updated(s)[i] = None
          \/ /\ Feed!Created(s)[i] # None
             /\ \E u \in s.updates :
                  /\ u.id = i /\ u.guests \in Version \cup {None}
                  /\ s.parts[u.at] \in Event
                  /\ Feed!Updated(s)[i] = Feed!Made(s.cal, s.parts[u.at], u.guests)
      BY <1>1, <1>2, UpdatedIs
    <2> QED BY <1>3, <2>1, MadeTyped
  <1>6. \A u \in s.updates : u.id = i /\ feedRow[i] # None => feedRow[i].cal = s.cal
    BY <1>1, <1>2 DEF Writing, Aims
  <1>7. i \in Feed!Fresh(s) => i > lastFeedRow
    BY <1>1, <1>2, BoundsAreNumbers DEF Feed!Fresh, FeedTyped, Feed!TypeOK, Feed!RowId
  <1>8. i \in Feed!Kept(s) => feedRow[i] # None
    BY DEF Feed!Kept
  <1>9. feedRow[i] # None /\ feedRow[i].cal # s.cal => i \in Feed!Kept(s)
    BY DEF Feed!Kept
  <1>10. CASE i \in Feed!Fresh(s)
    <2>1. Feed!Updated(s)[i] # None /\ Feed!Updated(s)[i].cal = s.cal
      BY <1>4, <1>5, <1>10
    <2> QED BY <1>1, <1>7, <1>10, <2>1
  <1>11. CASE i \notin Feed!Fresh(s) /\ i \notin Feed!Kept(s)
    <2>1. Feed!Updated(s)[i] = None
      BY <1>4, <1>5, <1>11
    <2> QED BY <1>1, <1>9, <1>11, <2>1
  <1>12. CASE i \notin Feed!Fresh(s) /\ i \in Feed!Kept(s)
    <2>1. Feed!Created(s)[i] = feedRow[i] /\ feedRow[i] # None
      BY <1>4, <1>8, <1>12
    <2>2. \/ Feed!Updated(s)[i] = feedRow[i]
          \/ Feed!Updated(s)[i] # None /\ Feed!Updated(s)[i].cal = s.cal
               /\ feedRow[i].cal = s.cal
      BY <1>5, <1>6, <2>1
    <2> QED BY <1>1, <1>12, <2>1, <2>2
  <1> QED BY <1>10, <1>11, <1>12

\* The transaction keeps the invariant: the constraint keeps UIDs apart, rows keep
\* their calendars.
LEMMA ApplyKeeps ==
  ASSUME FeedInv, FeedTyped', NEW p \in Feed!Sync, Feed!ApplySyncChanges(p)
  PROVE  FeedInv'
  <1>1. /\ feedSync[p].pc = "compared" /\ feedSync' = [feedSync EXCEPT ![p] = Feed!Idle]
             /\ FeedTyped
        /\ feedSync \in [Feed!Sync -> SyncState]
    BY DEF Feed!ApplySyncChanges, FeedInv, FeedTyped
  <1>2. feedSync'[p].pc = "idle" /\ \A q \in Feed!Sync : q # p => feedSync'[q] = feedSync[q]
    BY <1>1, FeedIdleTyped
  <1>3. Bystander(p)
    BY <1>2 DEF Bystander
  <1>4. \A q \in Feed!Sync : q # p => (q \in feedDisturbed => q \in feedDisturbed')
    BY DEF Feed!ApplySyncChanges
  <1>5. lastFeedRow \in Nat /\ Cardinality(feedSync[p].creates) \in Nat
    <2>1. lastFeedRow \in Nat
      BY <1>1, BoundsAreNumbers DEF FeedTyped, Feed!TypeOK
    <2> QED BY <1>1, <2>1, OrderIs DEF FeedTyped
  <1>6. CASE ~Feed!Sound(feedSync[p])
    <2>1. UNCHANGED <<feedRow, lastFeedRow>>
      BY <1>6 DEF Feed!ApplySyncChanges
    <2>2. FeedRowsMove /\ Feed!Unique(feedRow') /\ RowsNumbered'
      BY <1>5, <2>1 DEF FeedRowsMove, FeedInv, Feed!Unique, RowsNumbered
    <2>3. \A c : Within(c)
      BY <2>1 DEF Within, Quiet
    <2>4. \A q \in Feed!Sync : q # p => Bystander(q)
      BY <1>2, <1>4, <2>1, <2>3, DisturbsOrQuiet
    <2> QED BY <1>3, <2>2, <2>4, InvStays
  <1>7. CASE Feed!Sound(feedSync[p])
    <2>1. PICK s : s = feedSync[p]
      OBVIOUS
    <2>2. /\ feedRow' = Feed!Updated(s)
               /\ lastFeedRow' = lastFeedRow + Cardinality(s.creates)
          /\ Feed!Unique(feedRow')
      BY <1>7, <2>1, FeedCardinality DEF Feed!ApplySyncChanges, Feed!Sound
    <2>3. ASSUME NEW i \in Feed!RowId
          PROVE  /\ i \notin Feed!Fresh(s) /\ feedRow'[i] # None => feedRow[i] # None
                 /\ feedRow'[i] # None /\ i \notin Feed!Fresh(s)
                      => feedRow'[i].cal = feedRow[i].cal
                 /\ i \in Feed!Fresh(s) => feedRow'[i] # None /\ feedRow'[i].cal = s.cal
                      /\ i > lastFeedRow
                 /\ i \notin Feed!Fresh(s) /\ feedRow[i] # None /\ feedRow[i].cal # s.cal
                      => feedRow'[i] = feedRow[i]
      BY <1>1, <2>1, <2>2, ApplyRow
    <2>4. FeedRowsMove
      BY <1>5, <2>1, <2>2, <2>3 DEF FeedRowsMove
    <2>5. RowsNumbered'
      <3>1. ASSUME NEW i \in Feed!RowId, feedRow'[i] # None PROVE i <= lastFeedRow'
        <4>1. CASE i \in Feed!Fresh(s)
          BY <1>5, <2>1, <2>2, <4>1, FeedCardinality DEF Feed!Fresh
        <4>2. CASE i \notin Feed!Fresh(s)
          <5>1. feedRow[i] # None
            BY <2>3, <3>1, <4>2
          <5>2. i <= lastFeedRow /\ i \in Nat
            BY <5>1, BoundsAreNumbers DEF FeedInv, RowsNumbered, Feed!RowId
          <5> QED BY <1>5, <2>1, <2>2, <5>2
        <4> QED BY <4>1, <4>2
      <3> QED BY <3>1 DEF RowsNumbered
    <2>6. Within(s.cal)
      <3>1. ASSUME NEW d, d # s.cal, NEW i \in Feed!RowId,
                   (feedRow[i] # None /\ feedRow[i].cal = d)
                     \/ (feedRow'[i] # None /\ feedRow'[i].cal = d)
            PROVE  feedRow'[i] = feedRow[i]
        <4>1. i \notin Feed!Fresh(s)
          <5>1. feedRow[i] # None => i <= lastFeedRow
            BY DEF FeedInv, RowsNumbered
          <5>2. i \in Feed!Fresh(s) => feedRow'[i].cal = s.cal /\ i > lastFeedRow
            BY <2>3
          <5>3. i \in Nat
            BY BoundsAreNumbers DEF Feed!RowId
          <5> QED BY <1>5, <3>1, <5>1, <5>2, <5>3
        <4>2. feedRow[i] # None /\ feedRow[i].cal # s.cal
          BY <2>3, <3>1, <4>1
        <4> QED BY <2>3, <4>1, <4>2
      <3> QED BY <3>1 DEF Within, Quiet
    <2>7. ASSUME NEW q \in Feed!Sync, q # p PROVE Bystander(q)
      <3>1. feedRow' = feedRow \/ (q \in Feed!Touched(s.cal) => q \in feedDisturbed')
        BY <1>7, <2>1, <2>7 DEF Feed!ApplySyncChanges
      <3> QED BY <1>2, <1>4, <2>6, <2>7, <3>1, DisturbsOrQuiet
    <2> QED BY <1>3, <2>2, <2>4, <2>5, <2>7, InvStays
  <1> QED BY <1>6, <1>7

\* A synchronisation that ends for a failing statement leaves the rows alone.
LEMMA FailKeeps ==
  ASSUME FeedInv, FeedTyped', NEW p \in Feed!Sync, Feed!StatementFails(p)
  PROVE  FeedInv'
  <1>1. /\ feedSync' = [feedSync EXCEPT ![p] = Feed!Idle] /\ UNCHANGED <<feedRow, lastFeedRow>>
        /\ feedDisturbed' = feedDisturbed \ {p}
        /\ feedSync \in [Feed!Sync -> SyncState] /\ lastFeedRow \in Nat
    BY BoundsAreNumbers DEF Feed!StatementFails, FeedInv, FeedTyped, Feed!TypeOK
  <1>2. feedSync'[p].pc = "idle" /\ \A q \in Feed!Sync : q # p => feedSync'[q] = feedSync[q]
    BY <1>1, FeedIdleTyped
  <1>3. FeedRowsMove /\ Feed!Unique(feedRow') /\ RowsNumbered'
    BY <1>1 DEF FeedRowsMove, FeedInv, Feed!Unique, RowsNumbered
  <1>4. \A c : Within(c)
    BY <1>1 DEF Within, Quiet
  <1>5. \A q \in Feed!Sync : q # p => Bystander(q)
    BY <1>1, <1>2, <1>4, DisturbsOrQuiet
  <1>6. Bystander(p)
    BY <1>2 DEF Bystander
  <1> QED BY <1>3, <1>5, <1>6, InvStays

\* An import keeps it: the row it makes has a new id and a UID no row of the calendar
\* has.
LEMMA ImportKeeps ==
  ASSUME FeedInv, FeedTyped', Feed!ImportICS
  PROVE  FeedInv'
  <1>1. FeedTyped /\ lastFeedRow \in Nat /\ feedSync' = feedSync
    <2>1. FeedTyped
      BY DEF FeedInv
    <2>2. lastFeedRow \in 0 .. MaxRow
      BY <2>1 DEF FeedTyped, Feed!TypeOK
    <2>3. feedSync' = feedSync
      BY DEF Feed!ImportICS
    <2> QED BY <2>1, <2>2, <2>3, BoundsAreNumbers
  <1>2. CASE UNCHANGED <<feedRow, lastFeedRow, feedDisturbed>>
    BY <1>1, <1>2, RowsAlone
  <1>3. CASE /\ GivenRow \in Feed!RowId
             /\ GivenRows = {} => GivenRow = lastFeedRow + 1
             /\ GivenRows # {} => GivenRow \in GivenRows
             /\ lastFeedRow' = IF GivenRows = {} THEN lastFeedRow + 1 ELSE lastFeedRow
             /\ \E guests \in Version \cup {None} :
                   feedRow' = [feedRow EXCEPT ![GivenRow] =
                                 Feed!Made(feedUpload.cal, Given, guests)]
             /\ feedDisturbed' = feedDisturbed \cup Feed!Touched(feedUpload.cal)
    <2>1. PICK c, g, n : c = feedUpload.cal /\ g = Given /\ n = GivenRow
      OBVIOUS
    <2>0. PICK guests \in Version \cup {None} :
             feedRow' = [feedRow EXCEPT ![GivenRow] = Feed!Made(feedUpload.cal, Given, guests)]
      BY <1>3
    <2>2. PICK made : made = Feed!Made(c, g, guests)
      OBVIOUS
    <2>3. feedUpload # Feed!NoUpload
      BY <1>1, ImportIs
    <2>4. c \in Feed!CalendarId /\ g \in Event
      BY <1>1, <2>1, <2>3, GivenIs
    <2>5. made # None /\ made.cal = c /\ made.uid = g.uid
      BY <2>2, <2>4, MadeTyped
    <2>6. /\ n \in Feed!RowId /\ feedRow'[n] = made
          /\ \A i \in Feed!RowId : i # n => feedRow'[i] = feedRow[i]
      BY <1>1, <1>3, <2>0, <2>1, <2>2 DEF FeedTyped, Feed!TypeOK
    <2>7. GivenRows = {} =>
            /\ n = lastFeedRow + 1 /\ n > lastFeedRow
            /\ \A i \in Feed!RowId : feedRow[i] # None /\ feedRow[i].cal = c
                 => feedRow[i].uid # g.uid
      BY <1>1, <1>3, <2>1 DEF GivenRows, Feed!RowsOf
    <2>8. GivenRows # {} => feedRow[n] # None /\ feedRow[n].cal = c
          /\ feedRow[n].uid = g.uid
      BY <1>3, <2>1 DEF GivenRows, Feed!RowsOf
    <2>9. lastFeedRow' = IF GivenRows = {} THEN lastFeedRow + 1 ELSE lastFeedRow
      BY <1>3
    <2>10. Feed!Touched(c) \subseteq feedDisturbed'
           /\ feedDisturbed \subseteq feedDisturbed'
      BY <1>3, <2>1
    <2>11. FeedRowsMove
      BY <1>1, <2>5, <2>6, <2>7, <2>8, <2>9 DEF FeedRowsMove
    <2>12. Feed!Unique(feedRow')
      <3>1. ASSUME NEW i \in Feed!RowId, i # n, feedRow[i] # None, feedRow[i].cal = c
                   PROVE feedRow[i].uid # g.uid
        BY <2>6, <2>7, <2>8, <3>1 DEF FeedInv, Feed!Unique
      <3>2. ASSUME NEW i \in Feed!RowId, NEW j \in Feed!RowId, i # j, feedRow'[i] # None,
                   feedRow'[j] # None,
                   feedRow'[i].cal = feedRow'[j].cal
            PROVE  feedRow'[i].uid # feedRow'[j].uid
        <4>1. CASE i # n /\ j # n
          BY <2>6, <3>2, <4>1 DEF FeedInv, Feed!Unique
        <4>2. CASE i = n
          BY <2>5, <2>6, <3>1, <3>2, <4>2
        <4>3. CASE j = n
          BY <2>5, <2>6, <3>1, <3>2, <4>3
        <4> QED BY <4>1, <4>2, <4>3
      <3> QED BY <3>2 DEF Feed!Unique
    <2>13. RowsNumbered'
      <3>1. ASSUME NEW i \in Feed!RowId, feedRow'[i] # None PROVE i <= lastFeedRow'
        <4>1. CASE i = n /\ GivenRows = {}
          BY <1>1, <2>7, <2>9, <4>1
        <4>2. CASE ~(i = n /\ GivenRows = {})
          <5>1. feedRow[i] # None
            BY <2>6, <2>8, <3>1, <4>2
          <5>2. i <= lastFeedRow /\ i \in Nat
            BY <5>1, BoundsAreNumbers DEF FeedInv, RowsNumbered, Feed!RowId
          <5> QED BY <1>1, <2>9, <5>2
        <4> QED BY <4>1, <4>2
      <3> QED BY <3>1 DEF RowsNumbered
    <2>14. Within(c)
      <3>1. feedRow[n] # None => feedRow[n].cal = c
        <4>1. CASE GivenRows = {}
          <5>1. feedRow[n] # None => n <= lastFeedRow
            BY <2>6 DEF FeedInv, RowsNumbered
          <5> QED BY <1>1, <2>7, <4>1, <5>1
        <4> QED BY <2>8, <4>1
      <3> QED BY <2>5, <2>6, <3>1 DEF Within, Quiet
    <2>15. \A p \in Feed!Sync : Bystander(p)
      BY <1>1, <2>10, <2>14, DisturbsOrQuiet
    <2> QED BY <2>11, <2>12, <2>13, <2>15, InvStays
  <1> QED BY <1>1, <1>2, <1>3, ImportIs

\* The deletion of a calendar keeps it.
LEMMA DeleteKeeps ==
  ASSUME FeedInv, FeedTyped', NEW c \in Feed!CalendarId, Feed!HandleDeleteCalendarWeb(c)
  PROVE  FeedInv'
  <1>1. /\ lastFeedRow \in Nat /\ lastFeedRow' = lastFeedRow /\ feedSync' = feedSync
        /\ feedDisturbed' = feedDisturbed \cup Feed!Touched(c)
    BY BoundsAreNumbers DEF FeedInv, FeedTyped, Feed!TypeOK, Feed!HandleDeleteCalendarWeb
  <1>2. ASSUME NEW i \in Feed!RowId
        PROVE  IF feedRow[i] # None /\ feedRow[i].cal = c THEN feedRow'[i] = None
               ELSE feedRow'[i] = feedRow[i]
    BY DEF Feed!HandleDeleteCalendarWeb, Feed!RowsOf
  <1>3. FeedRowsMove /\ Feed!Unique(feedRow') /\ RowsNumbered'
    BY <1>1, <1>2 DEF FeedRowsMove, FeedInv, Feed!Unique, RowsNumbered
  <1>4. Within(c)
    BY <1>2 DEF Within, Quiet
  <1>5. \A p \in Feed!Sync : Bystander(p)
    BY <1>1, <1>4, DisturbsOrQuiet
  <1> QED BY <1>3, <1>5, InvStays

\* A restart keeps it: it ends every synchronisation and moves guest lists only.
LEMMA RestartKeeps ==
  ASSUME FeedInv, FeedTyped', Feed!Restart
  PROVE  FeedInv'
  <1>1. /\ lastFeedRow \in Nat /\ lastFeedRow' = lastFeedRow
        /\ \A p \in Feed!Sync : feedSync'[p].pc = "idle"
    BY BoundsAreNumbers, FeedIdleTyped DEF FeedInv, FeedTyped, Feed!TypeOK, Feed!Restart
  <1>2. ASSUME NEW i \in Feed!RowId
        PROVE  /\ feedRow'[i] = None <=> feedRow[i] = None
               /\ feedRow[i] # None => feedRow'[i].cal = feedRow[i].cal
                    /\ feedRow'[i].uid = feedRow[i].uid
    BY BackfillIs DEF Feed!Restart, FeedInv, FeedTyped, Feed!TypeOK
  <1>3. FeedRowsMove /\ RowsNumbered'
    BY <1>1, <1>2 DEF FeedRowsMove, FeedInv, RowsNumbered
  <1>4. Feed!Unique(feedRow')
    BY <1>2 DEF FeedInv, Feed!Unique
  <1>5. \A p \in Feed!Sync : Bystander(p)
    BY <1>1 DEF Bystander
  <1> QED BY <1>3, <1>4, <1>5, InvStays

\* An upload and the master switch keep it: they touch no row.
LEMMA RequestKeeps ==
  ASSUME FeedInv, FeedTyped', NEW c \in Feed!CalendarId,
         Feed!HandleImportICSWeb(c) \/ Feed!HandleToggleCalendarEnabled(c)
  PROVE  FeedInv'
  <1>1. UNCHANGED <<feedRow, lastFeedRow, feedDisturbed>> /\ feedSync' = feedSync
    BY DEF Feed!HandleImportICSWeb, Feed!HandleToggleCalendarEnabled
  <1> QED BY <1>1, RowsAlone

\* Every step keeps the invariant.
LEMMA InvInductive == FeedInv /\ [Feed!Next]_(Feed!vars) => FeedInv'
  <1> SUFFICES ASSUME FeedInv, [Feed!Next]_(Feed!vars) PROVE FeedInv'
    OBVIOUS
  <1>1. FeedTyped'
    BY TypesStay DEF FeedInv
  <1>2. CASE UNCHANGED Feed!vars
    <2>1. UNCHANGED <<feedRow, lastFeedRow, feedDisturbed>> /\ feedSync' = feedSync
      BY <1>2 DEF Feed!vars
    <2> QED BY <1>1, <2>1, RowsAlone
  <1> QED BY <1>1, <1>2, EarlyKeeps, ReadKeeps, ApplyKeeps, CompareKeeps, ManualKeeps,
             RequestKeeps, DeleteKeeps, ImportKeeps, RestartKeeps, FailKeeps
          DEF Feed!Next

\* The types of the feeds' state hold in every state.
THEOREM FeedTypes == Feed!Spec => []Feed!TypeOK
  <1>1. FeedInv => Feed!TypeOK
    BY DEF FeedInv, FeedTyped
  <1> QED BY <1>1, InvBegins, InvInductive, PTL DEF Feed!Spec

\* The feeds' invariant holds in every state: who has read rows knows each once, and
\* all of them unless noted as disturbed; what the task will write is its matching.
THEOREM FeedInvariance == Feed!Spec => []FeedInv
  BY InvBegins, InvInductive, PTL DEF Feed!Spec

-----------------------------------------------------------------------------
(* What a commit of the task leaves. *)

\* What the task's transaction is, committed.
LEMMA CommitApplies ==
  ASSUME Feed!Commits("task")
  PROVE  /\ feedSync["task"].pc = "compared"
         /\ feedRow' = Feed!Updated(feedSync["task"])
         /\ lastFeedRow + Cardinality(feedSync["task"].creates) <= MaxRow
  BY FeedCardinality DEF Feed!Commits, Feed!ApplySyncChanges

\* A row that the task's transaction deletes is one no match was found for.
LEMMA DeletedIsUnmatched ==
  ASSUME FeedInv, feedSync["task"].pc = "compared", NEW i \in Feed!RowId, feedRow[i] # None,
         Feed!Updated(feedSync["task"])[i] = None
  PROVE  /\ feedRow[i].cal = feedSync["task"].cal
         /\ \E k \in feedSync["task"].known :
              /\ k.uid = feedRow[i].uid
              /\ \A x \in Feed!matchFeedEvents(feedSync["task"].known,
                   feedSync["task"].parts).matches :
                    x.id # k.id
  <1>1. "task" \in Feed!Sync /\ FeedTyped /\ Matching
    BY DEF Feed!Sync, FeedInv
  <1>2. i \notin Feed!Fresh(feedSync["task"])
    BY <1>1, ApplyRow
  <1>3. Feed!Created(feedSync["task"])[i] = None
    <2>1. feedSync["task"].cal \in Feed!CalendarId
      BY <1>1 DEF FeedTyped
    <2> QED BY <1>1, <2>1, UpdatedIs, MadeTyped
  <1>4. i \notin Feed!Kept(feedSync["task"])
    BY <1>1, <1>2, <1>3, CreatedIs
  <1>5. feedRow[i].cal = feedSync["task"].cal /\ feedRow[i].uid \in feedSync["task"].deletes
    BY <1>4 DEF Feed!Kept
  <1>6. feedRow[i].uid \in Feed!matchFeedEvents(feedSync["task"].known,
        feedSync["task"].parts).deletes
    BY <1>1, <1>5 DEF Matching
  <1> QED BY <1>5, <1>6, MatchingGives

\* The task deletes a row only for a text from which an event was read, and in which no
\* intact component is the row's: neither by UID nor, if nobody touched the rows since
\* they were read, by content.
THEOREM OnlyTheFeedDeletesHolds == Feed!Spec => OnlyTheFeedDeletes
  <1>1. ASSUME FeedInv, Feed!Commits("task"), NEW i \in Feed!RowId,
               feedRow[i] # None, feedRow'[i] = None
        PROVE  LET s == feedSync["task"] IN
               /\ s.parts # << >>
               /\ \A j \in DOMAIN s.body.parts :
                     Feed!Intact(s.body, j) => s.body.parts[j].uid # feedRow[i].uid
               /\ "task" \in feedDisturbed \/ ~Feed!Reissued(i, s.known, s.body)
    <2>1. PICK s : s = feedSync["task"]
      OBVIOUS
    <2>2. s.pc = "compared" /\ feedRow' = Feed!Updated(s) /\ "task" \in Feed!Sync
      BY <1>1, <2>1, CommitApplies DEF Feed!Sync
    <2>3. /\ s.known \in SUBSET Identity /\ s.parts \in Texts
          /\ s.body \in Feeds /\ s.parts = Feed!ParseICS(s.body)
      BY <1>1, <2>1, <2>2 DEF FeedInv, FeedTyped, SyncState
    <2>4. PICK k \in s.known :
             /\ k.uid = feedRow[i].uid
             /\ \A x \in Feed!matchFeedEvents(s.known, s.parts).matches : x.id # k.id
      BY <1>1, <2>1, <2>2, DeletedIsUnmatched
    <2>5. feedRow[i].cal = s.cal
      BY <1>1, <2>1, <2>2, DeletedIsUnmatched
    <2>6. Reading("task")
      BY <1>1, <2>2 DEF FeedInv
    <2>7. Apart(s.known) /\ s.parts # << >>
          /\ ("task" \notin feedDisturbed => s.known = Feed!Identities(s.cal))
      BY <2>1, <2>2, <2>4, <2>6 DEF Reading
    <2>10. /\ DOMAIN s.parts \subseteq DOMAIN s.body.parts
           /\ \A j \in DOMAIN s.parts : s.parts[j] = s.body.parts[j]
           /\ \A j \in DOMAIN s.body.parts : Feed!Intact(s.body, j) => j \in DOMAIN s.parts
      BY <2>3, ParsedIsText
    <2>8. ASSUME NEW j \in DOMAIN s.body.parts, Feed!Intact(s.body, j),
                 s.body.parts[j].uid = feedRow[i].uid
          PROVE  FALSE
      <3>0. j \in DOMAIN s.parts /\ s.parts[j].uid = k.uid
        BY <2>4, <2>8, <2>10
      <3>1. \E x \in UidMatches(s.known, s.parts) : x.id = k.id
        BY <2>3, <3>0, UidIsTaken
      <3> QED BY <2>4, <3>1, MatchingGives
    <2>9. ASSUME "task" \notin feedDisturbed, Feed!Reissued(i, s.known, s.body) PROVE FALSE
      <3>0. PICK j \in DOMAIN s.body.parts :
               /\ Feed!Intact(s.body, j)
               /\ s.body.parts[j].content = feedRow[i].content
               /\ Feed!Holder(s.known, s.body.parts[j].uid) = {}
        BY <2>9 DEF Feed!Reissued
      <3>10. /\ Cardinality(Feed!Alike(s.known, feedRow[i].content)) = 1
             /\ Feed!Occurrences(s.body.parts, feedRow[i].content) = 1
        BY <2>9, FeedCardinality DEF Feed!Reissued
      <3>11. j \in DOMAIN s.parts /\ s.parts[j] = s.body.parts[j]
        BY <2>10, <3>0
      <3>12. Feed!Occurrences(s.parts, feedRow[i].content) = 1
        <4> DEFINE all == {n \in DOMAIN s.body.parts :
                             s.body.parts[n].content = feedRow[i].content}
                   read == {n \in DOMAIN s.parts : s.parts[n].content = feedRow[i].content}
        <4>1. Cardinality(all) = 1
          BY <3>10, FeedCardinality DEF Feed!Occurrences
        <4>2. IsFiniteSet(all)
          <5>1. PICK text \in Seq(Feed!Component) : text = s.body.parts
            BY <2>3, FeedAssumption DEF Feed!Body
          <5>2. DOMAIN text = 1 .. Len(text) /\ Len(text) \in Nat
            OBVIOUS
          <5>3. IsFiniteSet(DOMAIN text)
            <6>1. PICK n \in Nat : n = Len(text)
              BY <5>2
            <6>2. IsFiniteSet(1 .. n)
              BY FS_Interval
            <6> QED BY <5>2, <6>1, <6>2
          <5>4. all \in SUBSET DOMAIN text
            BY <5>1
          <5> HIDE DEF all
          <5> QED BY <5>3, <5>4, FS_Subset
        <4>3. j \in read /\ read \subseteq all
          BY <2>10, <3>0, <3>11
        <4>4. Feed!Occurrences(s.parts, feedRow[i].content) = Cardinality(read)
          BY FeedCardinality DEF Feed!Occurrences
        <4> HIDE DEF all, read
        <4>5. PICK n : all = {n}
          BY <4>1, <4>2, FS_Singleton
        <4>6. read = {j}
          BY <4>3, <4>5
        <4>7. Cardinality({j}) = 1
          BY FS_Singleton
        <4> QED BY <4>4, <4>6, <4>7
      <3>1. /\ s.parts[j].content = feedRow[i].content
            /\ Feed!Holder(s.known, s.parts[j].uid) = {}
        BY <3>0, <3>11
      <3>2. [id |-> i, uid |-> feedRow[i].uid, content |-> feedRow[i].content] \in s.known
        BY <1>1, <2>5, <2>7, <2>9 DEF Feed!Identities, Feed!RowsOf
      <3>3. k.id = i /\ k.content = feedRow[i].content
        BY <2>4, <2>7, <3>2 DEF Apart
      <3>4. k \notin Feed!ClaimedByUid(s.known, s.parts)
        BY <2>3, <2>4, <2>7, ClaimedIsTaken, MatchingGives
      <3>5. k \in Feed!Alike(s.known, feedRow[i].content)
        BY <3>3 DEF Feed!Alike
      <3>6. Feed!Alike(s.known, feedRow[i].content) = {k}
        <4>1. IsFiniteSet(Feed!Alike(s.known, feedRow[i].content))
          BY <2>3, <2>7, KnownIsFinite, FS_Subset DEF Feed!Alike
        <4>2. PICK l : Feed!Alike(s.known, feedRow[i].content) = {l}
          BY <3>10, <4>1, FS_Singleton
        <4> QED BY <3>5, <4>2
      <3>7. j \in Feed!ByContent(s.known, s.parts)
        BY <3>1, <3>4, <3>6, <3>10, <3>11, <3>12, FeedCardinality
           DEF Feed!ByContent, Feed!ByUid
      <3>8. ContentPair(j, k) \in ContentMatches(s.known, s.parts)
        BY <3>1, <3>5, <3>7, ContentMatchMade
      <3>9. ContentPair(j, k).id = k.id
        BY DEF ContentPair
      <3> QED BY <2>4, <3>8, <3>9, MatchingGives
    <2> QED BY <2>1, <2>7, <2>8, <2>9
  <1>2. FeedInv /\ [Feed!Next]_(Feed!vars) =>
          [Feed!Commits("task") =>
             \A i \in Feed!RowId : feedRow[i] # None /\ feedRow'[i] = None =>
               LET s == feedSync["task"] IN
               /\ s.parts # << >>
               /\ \A j \in DOMAIN s.body.parts :
                     Feed!Intact(s.body, j) => s.body.parts[j].uid # feedRow[i].uid
               /\ "task" \in feedDisturbed
                    \/ ~Feed!Reissued(i, s.known, s.body)]_(Feed!vars)
    BY <1>1
  <1> QED BY <1>2, InvBegins, InvInductive, PTL DEF Feed!Spec, OnlyTheFeedDeletes,
             Feed!OnlyTheFeedDeletes

\* The part of an event that its ETag covers.
Shows(r, e) == r.uid = e.uid /\ r.content = e.content /\ r.version = e.version

\* An undisturbed task knows the calendar's rows and writes what the matching says.
LEMMA UndisturbedKnows ==
  ASSUME FeedInv, feedSync["task"].pc = "compared", "task" \notin feedDisturbed,
         NEW s, s = feedSync["task"]
  PROVE  /\ "task" \in Feed!Sync /\ FeedTyped /\ s \in SyncState
              /\ s.cal \in Feed!CalendarId
         /\ s.known \in SUBSET Identity /\ s.parts \in Texts
         /\ Apart(s.known) /\ s.known = Feed!Identities(s.cal)
         /\ s.creates = Feed!matchFeedEvents(s.known, s.parts).creates
         /\ s.deletes = Feed!matchFeedEvents(s.known, s.parts).deletes
         /\ s.updates = TaskWrites(s, s.lost)
         /\ s.lost \subseteq Feed!matchFeedEvents(s.known, s.parts).matches
         /\ \A u \in s.updates : u.id <= lastFeedRow
  <1>1. "task" \in Feed!Sync /\ FeedTyped /\ Reading("task") /\ Writing("task") /\ Matching
    BY DEF FeedInv, Feed!Sync
  <1>2. s \in SyncState /\ s.cal \in Feed!CalendarId
    BY <1>1 DEF FeedTyped
  <1>3. s.known \in SUBSET Identity /\ s.parts \in Texts
    BY <1>2 DEF SyncState
  <1>4. Apart(s.known) /\ s.known = Feed!Identities(s.cal)
    BY <1>1 DEF Reading
  <1>5. /\ s.creates = Feed!matchFeedEvents(s.known, s.parts).creates
        /\ s.deletes = Feed!matchFeedEvents(s.known, s.parts).deletes
        /\ s.updates = TaskWrites(s, s.lost)
        /\ s.lost \subseteq Feed!matchFeedEvents(s.known, s.parts).matches
    BY <1>1 DEF Matching
  <1>6. \A u \in s.updates : u.id <= lastFeedRow
    BY <1>1 DEF Writing, Aims
  <1> QED BY <1>1, <1>2, <1>3, <1>4, <1>5, <1>6

\* A matched row is kept by deletes and creates.
LEMMA MatchedStays ==
  ASSUME FeedInv, feedSync["task"].pc = "compared", "task" \notin feedDisturbed,
         NEW s, s = feedSync["task"],
         NEW x \in Feed!matchFeedEvents(s.known, s.parts).matches
  PROVE  /\ x.id \in Feed!RowId /\ x.id <= lastFeedRow
         /\ feedRow[x.id] # None /\ feedRow[x.id].cal = s.cal
         /\ Feed!Created(s)[x.id] = feedRow[x.id]
         /\ x.at \in DOMAIN s.parts /\ s.parts[x.at] \in Event
  <1> DEFINE ms == Feed!matchFeedEvents(s.known, s.parts)
  <1>1. /\ "task" \in Feed!Sync /\ FeedTyped /\ s.cal \in Feed!CalendarId
        /\ s.known \in SUBSET Identity /\ s.parts \in Texts /\ Apart(s.known)
        /\ s.known = Feed!Identities(s.cal) /\ s.deletes = ms.deletes
    BY UndisturbedKnows
  <1>2. PICK k \in s.known : x.id = k.id
    BY <1>1, MatchSays
  <1>3. PICK i : i = x.id
    OBVIOUS
  <1>4. /\ i \in Feed!RowId /\ feedRow[i] # None /\ feedRow[i].cal = s.cal
             /\ k.uid = feedRow[i].uid
    BY <1>1, <1>2, <1>3 DEF Feed!Identities, Feed!RowsOf
  <1>5. i \in Feed!Kept(s)
    <2>1. ASSUME feedRow[i].uid \in s.deletes PROVE FALSE
      <3>1. PICK l \in s.known : l.uid = feedRow[i].uid /\ \A y \in ms.matches : y.id # l.id
        BY <1>1, <2>1, MatchingGives
      <3>2. l = k
        BY <1>1, <1>4, <3>1 DEF Apart
      <3> QED BY <1>2, <3>1, <3>2
    <2> QED BY <1>4, <2>1 DEF Feed!Kept
  <1>6. i \notin Feed!Fresh(s)
    <2>1. i <= lastFeedRow
      BY <1>4 DEF FeedInv, RowsNumbered
    <2>2. lastFeedRow \in Nat /\ i \in Nat
      BY <1>1, <1>4, BoundsAreNumbers DEF FeedTyped, Feed!TypeOK, Feed!RowId
    <2>3. i \in Feed!Fresh(s) => i > lastFeedRow
      BY <1>1, <1>4, ApplyRow
    <2> QED BY <2>1, <2>2, <2>3
  <1>7. Feed!Created(s)[i] = feedRow[i]
    BY <1>1, <1>4, <1>5, <1>6, CreatedIs
  <1>8. x.at \in DOMAIN s.parts /\ s.parts[x.at] \in Event
    BY <1>1, MatchSays, TextHas
  <1>12. i <= lastFeedRow
    BY <1>4 DEF FeedInv, RowsNumbered
  <1> QED BY <1>3, <1>4, <1>7, <1>8, <1>12

\* It is written for its own match, if the look-up succeeds.
LEMMA WrittenForMatch ==
  ASSUME FeedInv, feedSync["task"].pc = "compared", "task" \notin feedDisturbed,
         NEW s, s = feedSync["task"],
         NEW x \in Feed!matchFeedEvents(s.known, s.parts).matches,
         NEW u \in s.updates, u.id = x.id
  PROVE  u.at = x.at /\ Stale(s, x) /\ x \notin s.lost
  <1>1. /\ s.known \in SUBSET Identity /\ s.parts \in Texts /\ Apart(s.known)
        /\ s.updates = TaskWrites(s, s.lost)
    BY UndisturbedKnows
  <1>2. PICK y \in Feed!matchFeedEvents(s.known, s.parts).matches \ s.lost :
           u = TaskWrite(y) /\ Stale(s, y)
    BY <1>1 DEF TaskWrites
  <1>3. y.id = x.id
    BY <1>2 DEF TaskWrite
  <1>4. y = x
    BY <1>1, <1>3, MatchesAreApart
  <1> QED BY <1>2, <1>4 DEF TaskWrite

\* A row whose look-up failed is left as it was.
LEMMA LostStays ==
  ASSUME FeedInv, feedSync["task"].pc = "compared", "task" \notin feedDisturbed,
         NEW s, s = feedSync["task"], NEW x \in s.lost
  PROVE  x.id \in Feed!RowId /\ Feed!Updated(s)[x.id] = feedRow[x.id]
  <1>1. "task" \in Feed!Sync /\ FeedTyped
        /\ x \in Feed!matchFeedEvents(s.known, s.parts).matches
    BY UndisturbedKnows
  <1>2. x.id \in Feed!RowId /\ feedRow[x.id] # None /\ Feed!Created(s)[x.id] = feedRow[x.id]
    BY <1>1, MatchedStays
  <1>3. \A u \in s.updates : u.id # x.id
    BY <1>1, WrittenForMatch
  <1> QED BY <1>1, <1>2, <1>3, UpdatedIs

\* Another matched row is kept and shows its event.
LEMMA MatchedShows ==
  ASSUME FeedInv, feedSync["task"].pc = "compared", "task" \notin feedDisturbed,
         NEW s, s = feedSync["task"],
         NEW x \in Feed!matchFeedEvents(s.known, s.parts).matches, x \notin s.lost
  PROVE  /\ x.id \in Feed!RowId /\ Feed!Updated(s)[x.id] # None
              /\ Feed!Updated(s)[x.id].cal = s.cal
         /\ x.at \in DOMAIN s.parts /\ Shows(Feed!Updated(s)[x.id], s.parts[x.at])
  <1>1. /\ "task" \in Feed!Sync /\ FeedTyped /\ s.cal \in Feed!CalendarId
        /\ s.updates = TaskWrites(s, s.lost)
    BY UndisturbedKnows
  <1>3. PICK i : i = x.id
    OBVIOUS
  <1>4. i \in Feed!RowId /\ feedRow[i] # None /\ feedRow[i].cal = s.cal
    BY <1>3, MatchedStays
  <1>7. Feed!Created(s)[i] = feedRow[i]
    BY <1>3, MatchedStays
  <1>8. x.at \in DOMAIN s.parts /\ s.parts[x.at] \in Event
    BY MatchedStays
  <1>9. ASSUME NEW u \in s.updates, u.id = i
        PROVE  u.at = x.at /\ Stale(s, x)
    BY <1>3, <1>9, WrittenForMatch
  <1>10. \/ /\ \A u \in s.updates : u.id # i
            /\ Feed!Updated(s)[i] = feedRow[i]
         \/ /\ Feed!Updated(s)[i] # None /\ Feed!Updated(s)[i].cal = s.cal
            /\ Shows(Feed!Updated(s)[i], s.parts[x.at])
    <2>1. \/ /\ \A u \in s.updates : u.id # i
             /\ Feed!Updated(s)[i] = feedRow[i]
          \/ \E u \in s.updates :
                /\ u.id = i /\ u.guests \in Version \cup {None}
                /\ Feed!Updated(s)[i] = Feed!Made(s.cal, s.parts[u.at], u.guests)
      BY <1>1, <1>4, <1>7, UpdatedIs
    <2> QED BY <1>1, <1>8, <1>9, <2>1, MadeTyped DEF Shows
  <1>11. ASSUME \A u \in s.updates : u.id # i PROVE Shows(feedRow[i], s.parts[x.at])
    <2>1. Stale(s, x) => TaskWrite(x) \in s.updates
      BY <1>1 DEF TaskWrites
    <2>2. ~Stale(s, x)
      BY <1>3, <1>11, <2>1 DEF TaskWrite
    <2>3. ~Feed!Changed(feedRow[i], s.parts[x.at])
      BY <1>3, <1>4, <2>2 DEF Stale
    <2> QED BY <2>3 DEF Feed!Changed, Shows
  <1> QED BY <1>3, <1>4, <1>8, <1>10, <1>11

\* A created event has a row, a new one.
LEMMA CreatedShows ==
  ASSUME FeedInv, feedSync["task"].pc = "compared", "task" \notin feedDisturbed,
         NEW s, s = feedSync["task"], lastFeedRow + Cardinality(s.creates) <= MaxRow,
         NEW j \in s.creates
  PROVE  \E i \in Feed!RowId : /\ i > lastFeedRow /\ Feed!Updated(s)[i] # None
                               /\ Feed!Updated(s)[i].cal = s.cal
                               /\ Shows(Feed!Updated(s)[i], s.parts[j])
  <1>1. /\ "task" \in Feed!Sync /\ FeedTyped /\ s \in SyncState /\ s.cal \in Feed!CalendarId
        /\ s.parts \in Texts /\ \A u \in s.updates : u.id <= lastFeedRow
    BY UndisturbedKnows
  <1>2. s.creates \subseteq DOMAIN s.parts
    BY <1>1 DEF FeedTyped
  <1>3. PICK n \in 1 .. Cardinality(s.creates) : Feed!SetToSeq(s.creates)[n] = j
    BY <1>1, <1>2, OrderIs
  <1>4. PICK i : i = lastFeedRow + n
    OBVIOUS
  <1>5. lastFeedRow \in Nat /\ Cardinality(s.creates) \in Nat
    BY <1>1, <1>2, BoundsAreNumbers, OrderIs DEF FeedTyped, Feed!TypeOK
  <1>6. i \in Feed!RowId /\ i \in Feed!Fresh(s) /\ i - lastFeedRow = n /\ i > lastFeedRow
    BY <1>3, <1>4, <1>5, BoundsAreNumbers, FeedCardinality DEF Feed!RowId, Feed!Fresh
  <1>7. Feed!Created(s)[i] = Feed!Made(s.cal, s.parts[j], s.parts[j].version)
    BY <1>3, <1>6 DEF Feed!Created
  <1>8. s.parts[j] \in Event /\ s.parts[j].version \in Version \cup {None}
    BY <1>1, <1>2, TextHas DEF Event
  <1>9. /\ Feed!Created(s)[i] # None /\ Feed!Created(s)[i].cal = s.cal
             /\ Shows(Feed!Created(s)[i], s.parts[j])
    BY <1>1, <1>7, <1>8, MadeTyped DEF Shows
  <1>10. \A u \in s.updates : u.id # i
    <2>1. \A u \in s.updates : u.id \in Nat
      BY <1>1, BoundsAreNumbers DEF SyncState, Write, Feed!RowId
    <2> QED BY <1>1, <1>4, <1>5, <1>6, <2>1
  <1>11. Feed!Updated(s)[i] = Feed!Created(s)[i]
    BY <1>1, <1>6, <1>9, <1>10, UpdatedIs
  <1> QED BY <1>6, <1>9, <1>11

\* A row of the calendar shows an event of the feed, but for lost look-ups.
LEMMA RowShows ==
  ASSUME FeedInv, feedSync["task"].pc = "compared", "task" \notin feedDisturbed,
         NEW s, s = feedSync["task"],
         NEW i \in Feed!RowId, Feed!Updated(s)[i] # None, Feed!Updated(s)[i].cal = s.cal,
         \A x \in s.lost : x.id # i
  PROVE  \E j \in DOMAIN s.parts : /\ \A y \in s.lost : y.at # j
                                   /\ Shows(Feed!Updated(s)[i], s.parts[j])
  <1> DEFINE ms == Feed!matchFeedEvents(s.known, s.parts)
  <1>1. /\ "task" \in Feed!Sync /\ FeedTyped /\ s \in SyncState /\ s.cal \in Feed!CalendarId
        /\ s.parts \in Texts /\ s.known \in SUBSET Identity
        /\ s.known = Feed!Identities(s.cal) /\ Apart(s.known)
        /\ s.creates = ms.creates /\ s.deletes = ms.deletes /\ s.lost \subseteq ms.matches
        /\ \A u \in s.updates : u.id <= lastFeedRow
    BY UndisturbedKnows
  <1>2. CASE i \in Feed!Fresh(s)
    <2>1. PICK j \in s.creates :
             /\ j \in DOMAIN s.parts /\ s.parts[j] \in Event
             /\ Feed!Created(s)[i] = Feed!Made(s.cal, s.parts[j], s.parts[j].version)
      BY <1>1, <1>2, FreshIs
    <2>2. s.parts[j].version \in Version \cup {None}
      BY <2>1 DEF Event
    <2>3. i > lastFeedRow /\ lastFeedRow \in Nat /\ i \in Nat
      BY <1>1, <1>2, ApplyRow, BoundsAreNumbers DEF FeedTyped, Feed!TypeOK, Feed!RowId
    <2>4. \A u \in s.updates : u.id # i
      <3>1. \A u \in s.updates : u.id \in Nat
        BY <1>1, BoundsAreNumbers DEF SyncState, Write, Feed!RowId
      <3> QED BY <1>1, <2>3, <3>1
    <2>5. Feed!Updated(s)[i] = Feed!Created(s)[i]
      BY <1>1, <2>4, UpdatedIs
    <2>6. Shows(Feed!Made(s.cal, s.parts[j], s.parts[j].version), s.parts[j])
      BY <1>1, <2>1, <2>2, MadeTyped DEF Shows
    <2>7. \A y \in s.lost : y.at # j
      <3>1. \A y \in ms.matches : y.at \notin ms.creates
        BY <1>1, MatchSays
      <3> QED BY <1>1, <2>1, <3>1
    <2> QED BY <2>1, <2>5, <2>6, <2>7
  <1>3. CASE i \notin Feed!Fresh(s)
    <2>1. feedRow[i] # None /\ feedRow[i].cal = s.cal
      BY <1>1, <1>3, ApplyRow
    <2>2. i \in Feed!Kept(s)
      <3>1. Feed!Created(s)[i] # None
        BY <1>1, UpdatedIs
      <3> QED BY <1>1, <1>3, <3>1, CreatedIs
    <2>3. feedRow[i].uid \notin s.deletes
      BY <2>1, <2>2 DEF Feed!Kept
    <2>4. PICK k \in s.known : k.id = i /\ k.uid = feedRow[i].uid
      <3>1. [id |-> i, uid |-> feedRow[i].uid, content |-> feedRow[i].content] \in s.known
        BY <1>1, <2>1 DEF Feed!Identities, Feed!RowsOf
      <3> QED BY <3>1
    <2>5. PICK x \in ms.matches : x.id = k.id
      BY <1>1, <2>3, <2>4, MatchingGives
    <2>6. x \notin s.lost
      BY <2>4, <2>5
    <2>7. \A y \in s.lost : y.at # x.at
      BY <1>1, <2>6, EventsAreApart
    <2>8. x.at \in DOMAIN s.parts /\ Shows(Feed!Updated(s)[i], s.parts[x.at])
      BY <2>4, <2>5, <2>6, MatchedShows
    <2> QED BY <2>7, <2>8
  <1> QED BY <1>2, <1>3

\* An undisturbed task leaves exactly the events it read, each in its latest version,
\* and leaves alone the rows whose look-ups failed.
THEOREM TaskShowsTheFeedHolds == Feed!Spec => TaskShowsTheFeed
  <1>1. ASSUME FeedInv, Feed!Commits("task"), "task" \notin feedDisturbed
        PROVE  LET s == feedSync["task"]
                   lostRows == {x.id : x \in s.lost}
                   shown == {i \in Feed!RowId \ lostRows :
                               feedRow'[i] # None /\ feedRow'[i].cal = s.cal}
                   due == DOMAIN s.parts \ {x.at : x \in s.lost}
               IN  /\ \A i \in lostRows : feedRow'[i] = feedRow[i]
                   /\ {<<feedRow'[i].uid, feedRow'[i].content, feedRow'[i].version>> :
                          i \in shown}
                      = {<<s.parts[j].uid, s.parts[j].content, s.parts[j].version>> : j \in due}
    <2>1. PICK s : s = feedSync["task"]
      OBVIOUS
    <2>2. /\ s.pc = "compared" /\ feedRow' = Feed!Updated(s)
          /\ lastFeedRow + Cardinality(s.creates) <= MaxRow
      BY <1>1, <2>1, CommitApplies
    <2>3. /\ s.known \in SUBSET Identity /\ s.parts \in Texts /\ Apart(s.known)
          /\ s.creates = Feed!matchFeedEvents(s.known, s.parts).creates
          /\ s.lost \subseteq Feed!matchFeedEvents(s.known, s.parts).matches
      BY <1>1, <2>1, <2>2, UndisturbedKnows
    <2> DEFINE lostRows == {x.id : x \in s.lost}
               shown == {i \in Feed!RowId \ lostRows :
                           feedRow'[i] # None /\ feedRow'[i].cal = s.cal}
               due == DOMAIN s.parts \ {x.at : x \in s.lost}
    <2>4. ASSUME NEW i \in shown
          PROVE  \E j \in due : Shows(feedRow'[i], s.parts[j])
      <3>1. /\ i \in Feed!RowId /\ feedRow'[i] # None /\ feedRow'[i].cal = s.cal
            /\ \A x \in s.lost : x.id # i
        OBVIOUS
      <3>2. \E j \in DOMAIN s.parts : /\ \A y \in s.lost : y.at # j
                                      /\ Shows(feedRow'[i], s.parts[j])
        BY <1>1, <2>1, <2>2, <3>1, RowShows
      <3> QED BY <3>2
    <2>5. ASSUME NEW j \in due
          PROVE  \E i \in shown : Shows(feedRow'[i], s.parts[j])
      <3>0. j \in DOMAIN s.parts /\ \A x \in s.lost : x.at # j
        OBVIOUS
      <3>1. CASE j \in s.creates
        <4>1. PICK i \in Feed!RowId : /\ i > lastFeedRow /\ Feed!Updated(s)[i] # None
                                      /\ Feed!Updated(s)[i].cal = s.cal
                                      /\ Shows(Feed!Updated(s)[i], s.parts[j])
          BY <1>1, <2>1, <2>2, <3>1, CreatedShows
        <4>2. \A x \in s.lost : x.id <= lastFeedRow /\ x.id \in Feed!RowId
          BY <1>1, <2>1, <2>2, <2>3, MatchedStays
        <4>3. lastFeedRow \in Nat /\ \A n \in Feed!RowId : n \in Nat
          BY <1>1, BoundsAreNumbers DEF FeedInv, FeedTyped, Feed!TypeOK, Feed!RowId
        <4>4. i \notin lostRows
          BY <4>1, <4>2, <4>3
        <4> QED BY <2>2, <4>1, <4>4
      <3>2. CASE j \notin s.creates
        <4>1. PICK x \in Feed!matchFeedEvents(s.known, s.parts).matches : x.at = j
          BY <2>3, <3>0, <3>2, PlacedIsMatched
        <4>2. x \notin s.lost
          BY <3>0, <4>1
        <4>3. x.id \in Feed!RowId /\ Feed!Updated(s)[x.id] # None
              /\ Feed!Updated(s)[x.id].cal = s.cal
              /\ Shows(Feed!Updated(s)[x.id], s.parts[x.at])
          BY <1>1, <2>1, <2>2, <4>2, MatchedShows
        <4>4. \A y \in s.lost : y.id # x.id
          BY <2>3, <4>2, MatchesAreApart
        <4>5. x.id \in shown
          BY <2>2, <4>3, <4>4
        <4> QED BY <2>2, <4>1, <4>3, <4>5
      <3> QED BY <3>1, <3>2
    <2>6. \A i \in lostRows : feedRow'[i] = feedRow[i]
      BY <1>1, <2>1, <2>2, LostStays
    <2> DEFINE Left == {<<feedRow'[i].uid, feedRow'[i].content, feedRow'[i].version>> :
                          i \in shown}
               Right == {<<s.parts[j].uid, s.parts[j].content, s.parts[j].version>> :
                           j \in due}
    <2>7. Left \subseteq Right
      <3> HIDE DEF shown, due
      <3> QED BY <2>4 DEF Shows
    <2>8. Right \subseteq Left
      <3> HIDE DEF shown, due
      <3> QED BY <2>5 DEF Shows
    <2>9. Left = Right
      <3> HIDE DEF Left, Right
      <3> QED BY <2>7, <2>8
    <2> QED BY <2>1, <2>6, <2>9
  <1>2. FeedInv /\ [Feed!Next]_(Feed!vars) =>
          [Feed!Commits("task") /\ "task" \notin feedDisturbed =>
             LET s == feedSync["task"]
                 lostRows == {x.id : x \in s.lost}
                 shown == {i \in Feed!RowId \ lostRows :
                             feedRow'[i] # None /\ feedRow'[i].cal = s.cal}
                 due == DOMAIN s.parts \ {x.at : x \in s.lost}
             IN  /\ \A i \in lostRows : feedRow'[i] = feedRow[i]
                 /\ {<<feedRow'[i].uid, feedRow'[i].content, feedRow'[i].version>> :
                        i \in shown}
                    = {<<s.parts[j].uid, s.parts[j].content,
                         s.parts[j].version>> : j \in due}]_(Feed!vars)
    BY <1>1
  <1> QED BY <1>2, InvBegins, InvInductive, PTL DEF Feed!Spec, TaskShowsTheFeed,
             Feed!TaskShowsTheFeed

==============================================================================
