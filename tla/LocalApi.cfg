CONSTANTS
  Changes <- MCChanges
  FifoDepth = 2
  EventDepth = 3
  MaxRequests = 3
  MaxEpoch = 2
SPECIFICATION Spec
INVARIANTS LocalTypeOK WakeMatchesQueue SettingsStayValid SnapshotCurrent AccessFollowsEndpoint OtaFindsQueueEmpty
PROPERTIES CloudAuthorityKept NoRequestStranded
