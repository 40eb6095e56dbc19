SPECIFICATION FairSpec
CONSTANTS
  None = None
  q1 = q1  q2 = q2  q3 = q3
  c1 = c1  c2 = c2
  Messages = {q1, q2}
  Group <- OneWallet
  Consumers = {c1, c2}
  MaxReceives = 2
INVARIANTS
  DeletedHandled
PROPERTIES
  OrderPerWallet
  RetryDelayStands
  EveryMessageSettles
