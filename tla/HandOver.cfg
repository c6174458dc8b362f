CONSTANTS
  MaxSaved = 2
  MaxRetry = 1
  Credentials = {home, office}
  InboxBound = 2
  EventBound = 2
  MaxTrials = 2
SPECIFICATION Spec
PROPERTIES
  VerifiedOnly
CHECK_DEADLOCK FALSE
