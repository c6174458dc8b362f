CONSTANTS
  MaxTotal = 3
  StallTicks = 2
  MaxStarts = 2
SPECIFICATION Spec
INVARIANTS OtaTypeOK WholeImage PollFindsStart NothingLeftOpen SharedOnlyInStall
PROPERTIES StatusOrder TransferEnds
