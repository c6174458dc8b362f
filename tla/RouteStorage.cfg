CONSTANTS
  Sessions = {s1, s2}
  NoSession = NoSession
  Interval = 2
  MaxAppends = 3
  Faults = {"write", "sync"}
SPECIFICATION StoreSpec
SYMMETRY Symmetry
INVARIANTS StoreInv FramingIntact CountAgrees
PROPERTY DurableKept
