CONSTANTS
  MaxTotal = 3
  StallTicks = 2
  MaxStarts = 1
SPECIFICATION Spec
INVARIANT WriterExclusive
