SPECIFICATION Spec
CONSTANTS
  None = None
  Entries <- SomeEntries
  Times <- SomeTimes
  Readers = {r1}
  Limits <- SomeLimits
  MaxLimit = 2
INVARIANTS
  PagesDescend
  NothingSkipped
  CursorLeadsOn
CHECK_DEADLOCK FALSE
