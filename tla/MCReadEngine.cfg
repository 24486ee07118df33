SPECIFICATION LiveSpec
CONSTANTS
  Tags = 4
  Beats = 2
  TagDepth = 2
  OutHalf = 2
  OutDepth = 4
  Lengths <- ThreeLengths
  MaxTransfers = 2
  Stalls = FALSE
  None = None
INVARIANTS TypeOK TagExclusive OutFifoHasRoom TagFifoHasRoom NothingDropped
PROPERTIES InOrder AllDelivered
