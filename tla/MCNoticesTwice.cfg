SPECIFICATION FairSpec
CONSTANTS
  p = p
  q = q
  e = e
  Account = {p, q}
  Event = {e}
  Notice <- Sent
  Token = {k}
  None = None
  MaxTime = 1
  ReadsFail = FALSE
PROPERTY
  NobodyTwice
