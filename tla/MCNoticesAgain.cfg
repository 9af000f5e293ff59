SPECIFICATION FairSpec
CONSTANTS
  p = p
  q = q
  e = e
  Account = {p, q}
  Event = {e}
  Notice <- SentToBoth
  Token = {k}
  None = None
  MaxTime = 0
  ReadsFail = FALSE
PROPERTY
  EndsDelivered
