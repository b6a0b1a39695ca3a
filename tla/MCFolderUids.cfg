SPECIFICATION Spec
CONSTANTS
    m1 = m1
    m2 = m2
    s1 = s1
    s2 = s2
    Message = {m1, m2}
    Draft = {m1, m2}
    Name = {"INBOX", "Trash", "Work"}
    Default <- TwoDefaults
    Inbox = "INBOX"
    TypeOf <- Types
    Session = {s1, s2}
    MaxFolder = 3
    MaxUid = 3
    MaxClock = 2
    MaxBegun = 5
SYMMETRY Symmetries
INVARIANTS UidsNameOneMessage ExpungeAimsTrue
CHECK_DEADLOCK FALSE
