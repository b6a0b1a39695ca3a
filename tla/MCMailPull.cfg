SPECIFICATION MCFairSpec
CONSTANTS
    m1 = m1
    m2 = m2
    m3 = m3
    INBOX = INBOX
    Spam = Spam
    All = All
    Archive = Archive
    NoMail = NoMail
    Msg = {m1, m2, m3}
    Synthetic = {m2, m3}
    Blank = {}
    Hollow = {m3}
    Suspect = {}
    Synced <- MCInbox
    AllMail <- MCAll
    Junk = {}
    GuardMin = 1
    MaxUid = 3
    MaxChanges = 2
    MaxPullFailures = 1
INVARIANTS
    NothingLostBelow
PROPERTIES
    StayingIsKept
    EventuallyPulled
    RowsTellTheTruth
