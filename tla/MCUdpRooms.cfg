SPECIFICATION Spec
CONSTANTS
  Client = {p1, p2}
  Room = {r1, r2}
  Address = {x}
  None = None
  Window = 1
  MaxSeq = 3
  MaxOutgoing = 3
  InLimit = 1
  OutLimit = 1
  Limited = FALSE
  MaxVersion = 4
SYMMETRY Symmetry
INVARIANT
  DataStaysInRoom
