CONSTANTS
  c1 = c1
  f1 = f1
  Tasks = {s1, c1}
  Server = s1
  Transfers = {f1}
  Polls = {p1}
  Listener = p1
  Contents = {f1, p1}
  TransferOf <- OneTransfer
  Addrs = {a1, a2}
  Ops = {o1, o2}
  SQEntries = 1
  MaxBacklog = 1
  Results = {zero, some, failed}
  Failed = {failed}
  Nothing = zero
  NoTask = NoTask
  NoData = NoData
  NoResult = NoResult
  NoFut = NoFut
  NoAddr = NoAddr
  NoOp = NoOp
SPECIFICATION FairEchoSpec
CHECK_DEADLOCK FALSE
INVARIANTS
  EchoIInv
  LeftByTimeoutOnly
PROPERTIES
  NotifiedIsTaken
  WaitEnds
  ConnectionTaken
