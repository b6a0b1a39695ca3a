SPECIFICATION MCSpec
CONSTANTS
    older = older
    newer = newer
    cancel = cancel
    reply = reply
    me = me
    h1 = h1
    h2 = h2
    None = None
    Message = {older, newer, cancel, reply}
    ObjectsOf <- MCObjectsOf
    Via <- MCVia
    Person = {me}
    Me = me
    Calendar = {1, 2, 3}
    SourceOf <- MCSourceOf
    BoundTo = {2}
    LogsInAs = {2, 3}
    Local = {1}
    Declares = {3}
    Writable = {1, 2, 3}
    Handler = {h1, h2}
    MaxId = 2
    MaxArrivals = 3
    MaxRequests = 1
    MaxFailures = 1
    FeedUid = {"a", "b", "c"}
    Content = {"x", "y", "z"}
    Version = {1, 2}
    Feeds <- MCFeeds
    Files <- MCFiles
    MaxRow = 4
    MaxCalendar = 2
    MaxFetches = 2
    MaxFeedRequests = 1
SYMMETRY Symmetries
INVARIANTS PulledInviteAppliedOnce DestinationIsStable
PROPERTIES ConsumedWasFiled SequenceNeverFalls OnlyTheFeedDeletes TaskShowsTheFeed
CHECK_DEADLOCK FALSE
