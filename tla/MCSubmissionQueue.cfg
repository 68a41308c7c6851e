CONSTANTS
  Entries = 4
  IndexLimit = 8
  Items = {a, b}
  Zeroed = Zeroed
  NoItem = NoItem
  OverflowChecks = FALSE
SPECIFICATION Spec
INVARIANT IInv
PROPERTIES PendingIntact ImplementsFifo
