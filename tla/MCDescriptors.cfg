CONSTANTS
  Streams = {s1, s2}
  Listeners = {l1}
  Other = other
  Numbers = {n1, n2, n3}
  Ops = {o1, o2}
  NoFile = NoFile
  NoOp = NoOp
SPECIFICATION Spec
SYMMETRY Symmetry
INVARIANTS
  IInv
  FindsItsFile
  ClosedByLast
PROPERTIES
  StrayChangesNothing
