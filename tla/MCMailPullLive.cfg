SPECIFICATION PullFairSpec
CONSTANTS
    m1 = m1
    m2 = m2
    m3 = m3
    INBOX = INBOX
    Spam = Spam
    All = All
    Archive = Archive
    NoMail = NoMail
    Msg = {m1, m3}
    Synthetic = {m3}
    Blank = {m3}
    Hollow = {}
    Suspect = {m1}
    Synced <- MCJunk
    AllMail <- MCNone
    Junk = {Spam}
    GuardMin = 1
    MaxUid = 2
    MaxChanges = 2
    MaxPullFailures = 1
PROPERTIES
    EventuallyPulled
    RowsTellTheTruth
\* A cycle follows the other for ever; none of them need find anything to do.
CHECK_DEADLOCK FALSE
