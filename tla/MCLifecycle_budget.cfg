SPECIFICATION Spec
CONSTANTS
  g1 = g1  g2 = g2  r1 = r1  r2 = r2
  Consumers = {g1}
  Requests = {r1}
  Configs <- DefaultConfig
  MaxStarts = 1
INVARIANTS
  StopCancelsWorkers
CHECK_DEADLOCK FALSE
