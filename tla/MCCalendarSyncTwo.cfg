SPECIFICATION FairSpec
CONSTANTS
  Event = {e1, e2}
  Recurring = {e2}
  EventId <- MCEventIdTwo
  None = None
  GiveUp = 1
  PushLimit = 1
  MaxChanges = 3
  MaxFailures = 1
  MaxToggles = 0
INVARIANTS TypeOK ChangesAreNotLost
PROPERTIES UnsentIsNotDeleted DeletedStaysDeleted BothSidesAgree
CHECK_DEADLOCK FALSE
