CONSTANTS
  Threads = {t1, t2}
  PipeSize = 2
  ReadSize = 1
  MaxEntries = 4
  Layouts <- MCLayouts
SPECIFICATION Spec
SYMMETRY Symmetry
INVARIANTS
  IInv
  MappingsSuffice
  NothingLeaks
  UnparkWritesPipe
CHECK_DEADLOCK FALSE
