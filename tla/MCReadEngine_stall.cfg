SPECIFICATION Spec
CONSTANTS
  Tags = 2
  Beats = 2
  TagDepth = 2
  OutHalf = 2
  OutDepth = 4
  Lengths <- ThreeLengths
  MaxTransfers = 1
  Stalls = TRUE
  None = None
INVARIANT TagsCountUp
