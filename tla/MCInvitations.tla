--------------------------- MODULE MCInvitations ---------------------------
(* The two ways events come into a calendar, side by side.  They share no     *)
(* state; `part` says which of them moves, so that the run explores the sum   *)
(* of their states and not the product.                                       *)
(*                                                                            *)
(* Invitations has three calendars: one of the account that pulls, a local    *)
(* one of a lower source, and one whose source logs in as the user.           *)
EXTENDS CalendarEvents, TLC

CONSTANTS older, newer, cancel, reply, me, h1, h2

VARIABLE part

-----------------------------------------------------------------------------
Obj(method, seq, guests) == [method |-> method, seq |-> seq, guests |-> guests]

\* An invite twice in one message; its update behind somebody's feed.
MCObjectsOf ==
    [m \in Message |->
        CASE m = older  -> <<Obj("none", 0, {me}), Obj("none", 0, {me})>>
          [] m = newer  -> <<Obj("PUBLISH", 1, {}), Obj("REQUEST", 1, {me})>>
          [] m = cancel -> <<Obj("CANCEL", 1, {me})>>
          [] m = reply  -> <<Obj("OTHER", 1, {}), Obj("REPLY", 1, {me})>>]
MCVia == [m \in Message |-> IF m = newer THEN "mx" ELSE "imap"]

\* The oldest calendar is of the second source.
MCSourceOf == [c \in Calendar |-> CASE c = 1 -> 2 [] c = 2 -> 1 [] OTHER -> c]
Symmetries == Permutations(Handler)

-----------------------------------------------------------------------------
Event(u, c, v) == [uid |-> u, content |-> c, version |-> v, todo |-> FALSE,
                   starts |-> TRUE, ends |-> TRUE]
Serves(parts) == [kind |-> "calendar", decodes |-> Len(parts), parts |-> parts]
Task(u, c, v) == [Event(u, c, v) EXCEPT !.todo = TRUE]

\* Feeds that edit, swap, reissue, drop and repeat the events of the first, that
\* have unreadable dates, that decode in part or not at all, that hold no event,
\* that are no calendar, and the URL being down.
MCFeeds ==
    {Serves(<<Event("a", "x", 1), Event("b", "y", 1)>>),
     Serves(<<Event("b", "x", 1), Event("a", "y", 1)>>),
     Serves(<<Event("c", "x", 2), Event("a", "z", 1)>>),
     Serves(<<Event("c", "x", 1), Event("a", "x", 1)>>),
     Serves(<<Event("a", "x", 1), Event("a", "y", 1)>>),
     Serves(<<Event("a", "x", 2), Task("b", "y", 1),
            [Event("c", "z", 1) EXCEPT !.starts = FALSE]>>),
     Serves(<<[Event("a", "x", 2) EXCEPT !.ends = FALSE], Event("b", "y", 1)>>),
     [Serves(<<Event("a", "x", 2), Event("b", "y", 2)>>) EXCEPT !.decodes = 1],
     [Serves(<<[Event("a", "x", 2) EXCEPT !.ends = FALSE], Task("b", "y", 1)>>)
         EXCEPT !.decodes = 0],
     Serves(<< >>),
     [Serves(<< >>) EXCEPT !.kind = "page"],
     [Serves(<< >>) EXCEPT !.kind = "down"]}

MCFiles == {<<Event("c", "z", 1), Event("c", "x", 1)>>}

-----------------------------------------------------------------------------
MCInit == part \in {"invitations", "feeds"} /\ Init /\ Feed!Init

MCNext ==
    \/ part = "invitations" /\ Next /\ UNCHANGED <<part, feedVars>>
    \/ part = "feeds" /\ Feed!Next /\ UNCHANGED <<part, vars>>

MCSpec == MCInit /\ [][MCNext]_<<part, vars, feedVars>>
=============================================================================
