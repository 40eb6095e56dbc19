SPECIFICATION HSpec
CONSTANTS
  None = None
  Malformed = Malformed
  NoCurrency = NoCurrency
  k1 = k1  k2 = k2
  x1 = x1  x2 = x2
  w1 = w1  a1 = a1  r1 = r1  brl = brl
  internal = internal  provider = provider  other = other
  Keys = {k1, k2}
  ExternalIds = {x1, x2}
  WalletIds = {w1}
  Accounts = {a1}
  Rounds = {r1}
  Currencies = {brl}
  Clients = {internal, provider, other}
  Asks <- SomeAsks
  MaxInt = 250
  MaxMinor = 250
  MaxAttempts = 1
  MaxFaults = 1
INVARIANT UnavailableIsTransient
CHECK_DEADLOCK FALSE
