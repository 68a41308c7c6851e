CONSTANTS
  U32 = 16
  U16 = 4
  Fds <- MCFds
  Indices = {0, 15}
  Offsets = {0, 1}
  Pointers = {2}
  Lengths = {1, 17}
  Words = {0, 15}
  Halves = {1, 3}
  Levels = {0, 7}
  UserData = {1, 6}
SPECIFICATION Spec
INVARIANTS
  KernelReadsRequest
