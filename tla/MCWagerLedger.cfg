SPECIFICATION MCSpec
CONSTANTS
  None = None
  k1 = k1  k2 = k2  k3 = k3  k4 = k4
  x1 = x1  x2 = x2  x3 = x3  x4 = x4
  w1 = w1  w2 = w2
  a1 = a1  a2 = a2
  r1 = r1  r2 = r2
  m1 = m1
  Keys = {k1, k2, k3, k4}
  ExternalIds = {x1, x2, x3, x4}
  WalletIds = {w1, w2}
  Accounts = {a1, a2}
  Rounds = {r1, r2}
  Messages = {m1}
  MaxMinor = 4
  MaxAttempts = 2
  Commands <- AllCommands
  Openings <- AllOpenings
INVARIANTS
  TypeOK
  LedgerChain
  EffectExactlyOnce
  EventsAgree
  OneReversal
  ReversalUndoes
  KeysUnique
  InboxBacked
  AttemptsBounded
PROPERTIES
  OutcomeIsFinal
  PendingSettles
CHECK_DEADLOCK FALSE
