CONSTANTS
  Sessions = {s1, s2}
  NoSession = NoSession
  Interval = 2
  MaxAppends = 3
  Faults = {"write"}
  Periods = {1, 3}
SPECIFICATION Spec
INVARIANT RetryKeepsFraming
