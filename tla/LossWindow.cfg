CONSTANTS
  Sessions = {s1, s2}
  NoSession = NoSession
  Interval = 2
  MaxAppends = 3
  Faults = {}
  Periods = {1, 3}
SPECIFICATION Spec
INVARIANT LossWindow
