CONSTANTS
  Runtimes = {r1, r2}
  MaxTasks = 3
  NoRuntime = NoRuntime
SPECIFICATION RuntimeSpec
INVARIANT LoopErrorIsReturned
