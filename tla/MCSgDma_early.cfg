SPECIFICATION Spec
CONSTANTS
  None = None
  Pages = 2
  CallBound <- OneEach
INVARIANTS DoneMeansRead
CHECK_DEADLOCK FALSE
