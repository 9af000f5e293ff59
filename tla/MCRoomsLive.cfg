SPECIFICATION FairSpec
CONSTANTS
  Account = {a1, a2}
  Conn = {c1, c2}
  Room = {r1, r2}
  None = None
  RoomSizes = {2}
  MaxAccounts = 2
  MaxRooms = 2
  MaxGeneration = 2
  StoreEnabled = TRUE
  AnyCase = FALSE
INVARIANT
  StartersOnly
PROPERTIES
  AbandonedAccountsExpire
