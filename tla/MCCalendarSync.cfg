SPECIFICATION FairSpec
CONSTANTS
  Event = {e1}
  Recurring = {}
  EventId <- MCEventId
  None = None
  GiveUp = 1
  PushLimit = 1
  MaxChanges = 3
  MaxFailures = 1
  MaxToggles = 1
INVARIANT ChangesAreNotLost
PROPERTIES UnsentIsNotDeleted DeletedStaysDeleted BothSidesAgree
CHECK_DEADLOCK FALSE
