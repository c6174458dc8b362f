CONSTANTS
  MaxSaved = 2
  MaxRetry = 1
  Credentials = {home}
  InboxBound = 2
  EventBound = 2
  MaxTrials = 2
SPECIFICATION FairSpec
INVARIANTS
  StationaryTypeOK
  AttemptDriven
  Supervised
  OwnerMatches
  PageHasTransport
  CloudStationaryOnly
PROPERTIES
  BringUpEnds
  KeepsTrying
CHECK_DEADLOCK FALSE
