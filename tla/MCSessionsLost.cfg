SPECIFICATION Spec
CONSTANTS
  Account = {p1, p2, p3}
  Request = {u1, u2}
  None = None
  Parts = 2
  MaxRevision = 3
  MaxGeneration = 4
  DiskFails = TRUE
  QuotaBinds = FALSE
SYMMETRY Symmetry
PROPERTY
  LostOnlyWithProcess
