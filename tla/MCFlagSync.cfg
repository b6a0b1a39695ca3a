SPECIFICATION FairSpec
CONSTANTS
    m1 = m1
    seen = seen
    None = None
    Msg = {m1}
    Flag = {seen}
INVARIANTS
    UnpushedStaysQueued
    QueueMirrorsRow
PROPERTIES
    ChangeReachesServer
    FlagsConverge
\* At rest, with nothing queued and the messages gone, no step is enabled.
CHECK_DEADLOCK FALSE
