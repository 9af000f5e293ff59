SPECIFICATION Spec
SYMMETRY Symmetry
CONSTANTS
  Account = {p, q}
  Conn = {c1, c2}
  Room = {r1}
  None = None
  MaxPending = 2
  MaxVersion = 2
INVARIANTS
  FenceIsTight
  PendingExact
PROPERTY
  ImplementsMailbox
