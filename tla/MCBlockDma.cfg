SPECIFICATION LiveSpec
CONSTANTS
  t1 = t1
  t2 = t2
  None = None
  Thread = {t1, t2}
  Uses <- OnePerChan
  MaxCalls <- TwoCalls
INVARIANTS TypeOK NoLostWakeup CompletionReported Ownership SuccessIsOwn
PROPERTIES EveryCallReturns
CHECK_DEADLOCK FALSE
