SPECIFICATION FairSpec
CONSTANTS
  Account = {p, q, r}
  Device = {d1, d2}
  Token = {k1, k2}
  None = None
  MaxDevices = 1
  Limit = 2
INVARIANTS
  InFlightExact
PROPERTIES
  AnswersFitTokens
  SlotsComeBack
