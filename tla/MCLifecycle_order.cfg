SPECIFICATION FairSpec
CONSTANTS
  g1 = g1  g2 = g2  r1 = r1  r2 = r2
  Consumers = {g1, g2}
  Requests = {r1, r2}
  Configs <- AllConfigs
  MaxStarts = 2
INVARIANTS
  ReadyBeforeUse
  RedriveBeforeReceive
  PoolOutlivesUsers
PROPERTIES
  StartAndStopEnd
CHECK_DEADLOCK FALSE
