\* Connection mode (-n 2 with -N 2 and with -N 3): more clients than slots, so
\* slots and descriptors are used again.
CONSTANTS
  Conns = {c1, c2, c3}
  NumConnsOptions = {2, 3}
  MaxConnections = 2
  MaxBytes = 0
  NofileLimit = 3
  NULL = NULL
SPECIFICATION Spec
INVARIANTS
  TypeOK
  SlotOwnsFd
  InputIsActive
  ConnListsExact
  SlotsSuffice
  RoomIsOffered
  CountedOnce
PROPERTIES
  SlotReclaimed
CHECK_DEADLOCK FALSE
