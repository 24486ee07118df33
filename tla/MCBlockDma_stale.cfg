SPECIFICATION Spec
CONSTANTS
  t1 = t1
  t2 = t2
  None = None
  Thread = {t1, t2}
  Uses <- OnePerChan
  MaxCalls <- TwoThenOne
INVARIANT SuccessIsAlwaysOwn
CHECK_DEADLOCK FALSE
