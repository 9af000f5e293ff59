SPECIFICATION Spec
CONSTANTS
  Account = {a1, a2, a3}
  Conn = {c1, c2, c3}
  Room = {r1}
  None = None
  RoomSizes = {2, 3}
  MaxAccounts = 3
  MaxRooms = 1
  MaxGeneration = 4
  StoreEnabled = TRUE
  AnyCase = FALSE
SYMMETRY Symmetry
INVARIANTS
  MembershipAgrees
  HostIsSenior
  OneLiveSocket
  SeatsAreHeld
PROPERTIES
  ReplacementKeepsRoom
  SeniorityKept
  HostForLife
