SPECIFICATION BookFairSpec
CONSTANTS
  Contact = {c1}
  ContactId <- MCContactId
  NoCard = NoCard
  CardPushLimit = 1
  MaxCardChanges = 4
  MaxCardFailures = 1
INVARIANT CardChangesAreNotLost
PROPERTIES EditsAreSpared CardsAgree
CHECK_DEADLOCK FALSE
