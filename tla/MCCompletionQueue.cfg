CONSTANTS
  Entries = 4
  IndexLimit = 8
  Items = {a, b}
  Garbage = Garbage
  NoItem = NoItem
SPECIFICATION FairSpec
INVARIANT IInv
PROPERTIES UnreadIntact ImplementsFifo PublishedIsRead
