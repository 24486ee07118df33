SPECIFICATION LiveSpec
CONSTANTS
  None = None
  Pages = 2
  CallBound <- OneEachOrThreeAlone
INVARIANTS TypeOK NoLostWakeup StatusReported PinnedWhileInUse SuccessIsOwn
  Ownership ListWaitsForStart PinsBalance
PROPERTIES StartedCallReturns
CHECK_DEADLOCK FALSE
