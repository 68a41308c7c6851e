CONSTANTS
  Regs = {r1}
  Threads = {t1}
  PipeSize = 1
  ReadSize = 1
  SQEntries = 2
  CQEntries = 4
  TickFence = TRUE
  FailingPolls = {}
SPECIFICATION FairSpec
PROPERTIES NotifiedThreadReturns TimedParkReturns TimerFallsSilent
