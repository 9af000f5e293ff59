SPECIFICATION FairSpec
CONSTANTS
  p = p
  q = q
  e = e
  Account = {p, q}
  Event = {e}
  Notice <- Sent
  Token = {k}
  None = None
  MaxTime = 1
  ReadsFail = TRUE
INVARIANTS
  SurvivesRestart
PROPERTIES
  RetriesOnlyFailed
  NothingForgotten
  AtLeastOnce
