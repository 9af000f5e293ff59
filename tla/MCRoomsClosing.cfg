SPECIFICATION FairSpec
CONSTANTS
  Account = {a1, a2}
  Conn = {c1, c2}
  Room = {r1}
  None = None
  RoomSizes = {2}
  MaxAccounts = 2
  MaxRooms = 1
  MaxGeneration = 2
  StoreEnabled = TRUE
  AnyCase = FALSE
PROPERTY
  ClosingReleased
