SPECIFICATION ISpec
CONSTANTS
  None = None
  k1 = k1  k2 = k2
  x1 = x1  x2 = x2
  w1 = w1  a1 = a1  r1 = r1
  m1 = m1  m2 = m2
  q1 = q1  q2 = q2
  c1 = c1  c2 = c2
  Keys = {k1, k2}
  ExternalIds = {x1, x2}
  WalletIds = {w1}
  Accounts = {a1}
  Rounds = {r1}
  EnvelopeIds = {m1, m2}
  SqsMessages = {q1, q2}
  Consumers = {c1, c2}
  MaxReceives = 2
  MaxMinor = 3
  MaxAttempts = 1
  Envelopes <- SomeEnvelopes
  Plans <- SomePlans
  Group <- SameWallet
  HttpCommands <- SomeHttp
  Openings <- OneWallet
SYMMETRY Alike
INVARIANTS
  HandledIsDurable
  OneEffect
PROPERTIES
  ConsumerSpec
  RefusalIsFinal
  NoNeedlessWait
CHECK_DEADLOCK FALSE
