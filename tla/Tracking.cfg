CONSTANTS
  Sessions = {s1, s2}
  NoSession = NoSession
  Interval = 2
  MaxAppends = 3
  Faults = {"sync"}
  Periods = {1, 3}
SPECIFICATION Spec
INVARIANTS TrackingTypeOK RecordingHasRoute ActiveSessionStored
PROPERTY ImplementsUserLog
