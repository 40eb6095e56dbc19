SPECIFICATION MCSpec
CONSTANTS
  None = None
  k1 = k1  k2 = k2  k3 = k3
  x1 = x1  x2 = x2  x3 = x3
  w1 = w1  a1 = a1  r1 = r1  m1 = m1
  c1 = c1  c2 = c2  v1 = v1  v2 = v2  g1 = g1
  Keys = {k1, k2, k3}
  ExternalIds = {x1, x2, x3}
  WalletIds = {w1}
  Accounts = {a1}
  Rounds = {r1}
  Messages = {m1}
  Clients = {c1, c2}
  Workers = {v1, v2}
  Readers = {g1}
  BatchSize = 1
  MaxMinor = 3
  MaxAttempts = 2
  Commands <- AllCommands
  Openings <- OneWallet
INVARIANT ExternalConflictIsNamed
