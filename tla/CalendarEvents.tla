--------------------------- MODULE CalendarEvents ---------------------------
(***************************************************************************)
(* The two ways an event comes into a calendar without its user: by mail   *)
(* (Invitations) and from a URL (CalendarFeeds).  In the code both write   *)
(* to calendars and calendar_events, but each makes rows in calendars of   *)
(* its own: those of a feed are not writable, and an invitation goes to a  *)
(* writable one.  A reply or a cancellation may find an event of a feed by *)
(* its UID; the model keeps their rows apart.                              *)
(***************************************************************************)
EXTENDS Invitations, Sequences

CONSTANTS FeedUid, Content, Version, Feeds, Files, None,
          MaxRow, MaxCalendar, MaxFetches, MaxFeedRequests

VARIABLES feedCalendar, feedRow, feedSync, feedUpload, lastFeedRow, lastFeedCalendar,
          feedFetches, feedRequests, feedDisturbed

feedVars == <<feedCalendar, feedRow, feedSync, feedUpload, lastFeedRow, lastFeedCalendar,
              feedFetches, feedRequests, feedDisturbed>>

Feed == INSTANCE CalendarFeeds
           WITH Uid <- FeedUid, MaxRequests <- MaxFeedRequests,
                calendar <- feedCalendar, row <- feedRow, sync <- feedSync,
                upload <- feedUpload, lastRow <- lastFeedRow,
                lastCalendar <- lastFeedCalendar, fetches <- feedFetches,
                requests <- feedRequests, disturbed <- feedDisturbed

\* What the feeds need of their constants: texts are texts, bounds are numbers, and
\* the null value is neither a row nor the state of a calendar.
ASSUME FeedAssumption ==
    /\ Feeds \subseteq Feed!Body /\ Files \subseteq Seq(Feed!Component)
    /\ MaxRow \in Nat /\ MaxCalendar \in Nat
    /\ MaxFetches \in Nat /\ MaxFeedRequests \in Nat
    /\ None \notin BOOLEAN /\ None \notin Feed!EventRow

-----------------------------------------------------------------------------
(* Properties of the feeds, under names of their own.                        *)

\* The task deletes a row only for a text that parsed to events, and of which no
\* intact component is the row's (CalendarFeeds, of ics_match.go and
\* ics_sync_task.go).
OnlyTheFeedDeletes == Feed!OnlyTheFeedDeletes

\* An undisturbed task leaves exactly the events it read from its feed, and leaves
\* alone the rows it failed to load (CalendarFeeds, of ics_sync_task.go).
TaskShowsTheFeed == Feed!TaskShowsTheFeed
=============================================================================
