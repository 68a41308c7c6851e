CONSTANTS
  Transfers = {f1}
  Polls = {p1}
  Contents = {f1, p1}
  Tasks = {t1, t2}
  Addrs = {a1, a2, a3}
  Ops = {o1, o2}
  SQEntries = 1
  Results = {ok, failed}
  NoTask = NoTask
  NoData = NoData
  NoResult = NoResult
  NoFut = NoFut
  NoAddr = NoAddr
  NoOp = NoOp
SPECIFICATION Spec
SYMMETRY Symmetry
INVARIANTS
  IInv
  CountIsOwners
  KernelMemoryStays
  NoPanic
  ActiveIsExact
  ResultIsOwn
  SleeperIsTracked
PROPERTY
  ImplementsDelivery
