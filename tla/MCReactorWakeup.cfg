CONSTANTS
  Regs = {r1}
  Threads = {t1, t2}
  PipeSize = 1
  ReadSize = 1
  SQEntries = 2
  CQEntries = 2
  TickFence = TRUE
  FailingPolls = {"TIMER"}
SPECIFICATION Spec
SYMMETRY Symmetry
INVARIANTS IInv OneCompletionEach ClearEventNeverBlocks BlockedIsWakeable NoLostWakeup
