SPECIFICATION LiveSpec
CONSTANTS
  Builds <- BothBuilds
  Payloads <- TwoPayloads
  Lengths <- ThreeLengths
  Lists <- TwoTransfers
  OutHalf = 2
  OutDepth = 4
  None = None
INVARIANTS TypeOK NothingLost
PROPERTIES WritesInOrder AllWritten
