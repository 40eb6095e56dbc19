SPECIFICATION Spec
CONSTANTS
  None = None
  e1 = e1  e2 = e2  e3 = e3
  p1 = p1  p2 = p2
  Events = {e1, e2}
  Publishers = {p1}
  BatchSize = 1
INVARIANTS
  OrderPerWallet
CHECK_DEADLOCK FALSE
