SPECIFICATION FairSpec
CONSTANTS
  Account = {p1, p2, p3}
  Request = {u1, u2}
  None = None
  Parts = 2
  MaxRevision = 2
  MaxGeneration = 4
  DiskFails = TRUE
  QuotaBinds = TRUE
INVARIANT
  UploadIsCurrent
PROPERTIES
  LossHasCause
  ImplementsWorld
  RetryWorks
  StalledUploadEnds
