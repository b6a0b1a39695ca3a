------------------------------- MODULE PulledMail -------------------------------
(***************************************************************************)
(* The mail pull beside what else writes rows for incoming mail.  MailPull *)
(* is instantiated with constants and variables under names of its own, so *)
(* that one module can speak of the mailbox it fills and of the calendars  *)
(* that invitations and feeds fill (CalendarEvents): in the code these are *)
(* tables apart (messages, remote_folder_state; calendar_events).          *)
(***************************************************************************)
EXTENDS Naturals, Sequences, FiniteSets

CONSTANTS Msg, Synthetic, Blank, Hollow, Suspect, Synced, AllMail, Junk, GuardMin,
          MaxUid, MaxChanges, MaxPullFailures, NoMail

VARIABLES upMail, upNext, upValid, pulled, bookmark, cycle, passed, stayed, takenOut,
          pullChanges, pullFailures

Pull == INSTANCE MailPull
          WITH MaxFailures <- MaxPullFailures, None <- NoMail,
               mail <- upMail, next <- upNext, valid <- upValid,
               row <- pulled, mark <- bookmark, run <- cycle,
               skipped <- passed, stayed <- stayed, restored <- takenOut,
               changes <- pullChanges, failures <- pullFailures

\* Of the constants of MailPull: folders are named in order, numbers are numbers, and
\* NULL is neither a folder nor a bookmark nor a row.
ASSUME PullAssumption ==
    /\ Synced \in Seq(Pull!Elements(Synced)) /\ AllMail \in Seq(Pull!Elements(AllMail))
    /\ Synthetic \subseteq Msg /\ Blank \subseteq Msg /\ Hollow \subseteq Synthetic
    /\ Suspect \subseteq Msg /\ Junk \subseteq Pull!Folder
    /\ GuardMin \in Nat /\ MaxUid \in Nat /\ MaxChanges \in Nat /\ MaxPullFailures \in Nat
    /\ IsFiniteSet(Msg)
    /\ NoMail \notin Pull!Folder
    /\ NoMail \notin Pull!Bookmark /\ NoMail \notin Pull!Entry /\ NoMail \notin Pull!MessageRow

PullFairSpec == Pull!FairSpec

-----------------------------------------------------------------------------
(* Properties of the pull, under names of their own.                       *)

\* Nothing is lost below a bookmark (MailPull, of nextLastSeen).
NothingLostBelow == Pull!NothingLostBelow

\* What stays in one folder throughout a cycle is not put in the vault by it
\* (MailPull, of reconcileVanished).
StayingIsKept == Pull!StayingIsKept

\* What stays upstream, has an envelope and an identity is pulled in the end
\* (MailPull).
EventuallyPulled == Pull!EventuallyPulled

\* In the end a row points at a copy that is there, or the guard against mass deletion
\* holds its folder's losses back (MailPull, of syncAllRemoteFolders and
\* reconcileVanished).
RowsTellTheTruth == Pull!RowsTellTheTruth
=============================================================================
