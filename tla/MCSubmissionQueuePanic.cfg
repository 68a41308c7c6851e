CONSTANTS
  Entries = 4
  IndexLimit = 8
  Items = {a, b}
  Zeroed = Zeroed
  NoItem = NoItem
  OverflowChecks = TRUE
SPECIFICATION Spec
INVARIANTS PendingNeverPanics
