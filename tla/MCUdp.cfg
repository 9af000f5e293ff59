SPECIFICATION Spec
CONSTANTS
  Client = {p1}
  Room = {r1}
  Address = {x, y}
  None = None
  Window = 3
  MaxSeq = 5
  MaxOutgoing = 2
  InLimit = 2
  OutLimit = 1
  Limited = TRUE
  MaxVersion = 2
SYMMETRY Symmetry
INVARIANTS
  WindowIsExact
  EndpointAnswered
  QuotasHold
PROPERTY
  NumbersAreFresh
