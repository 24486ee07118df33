SPECIFICATION Spec
CONSTANTS
  d1 = d1
  d2 = d2
  Device = {d1, d2}
  NumFpgas = 2
  MaxProbes <- TwiceAndOnce
  None = None
INVARIANTS Released
CHECK_DEADLOCK FALSE
