------------------------------ MODULE MCMailPull ------------------------------
\* Small accounts for TLC: an inbox, beside it an archive or a spam folder, and a
\* folder that is only searched.
EXTENDS PulledMail

CONSTANTS m1, m2, m3, INBOX, Archive, Spam, All

MCInbox == <<INBOX>>
MCTwo == <<INBOX, Archive>>
MCJunk == <<INBOX, Spam>>
MCAll == <<All>>
MCNone == <<>>

\* Bound: to begin with, all mail is in the inbox.
MCInit == Pull!Init /\ \A r \in upMail : r.folder = INBOX

MCFairSpec == MCInit /\ [][Pull!Next]_(Pull!vars) /\ Pull!Fairness

-----------------------------------------------------------------------------
(* Stronger properties, which the code refutes (README, section 4).        *)

\* What the user takes out of the vault is not put back by the next cycle.
RestoredIsKept == Pull!RestoredIsKept

\* What has no Message-ID and stays in one folder is not put in the vault.
SyntheticIsKept == Pull!SyntheticIsKept

\* What stays upstream and the user has not deleted is shown in the end.
EventuallyShown == Pull!EventuallyShown

\* What stays upstream is pulled, without envelope or identity too.
EverythingIsPulled == Pull!EverythingIsPulled

\* A row points at a copy that is there, however many have lost theirs at once.
MassLossIsFollowed == Pull!MassLossIsFollowed
=============================================================================
