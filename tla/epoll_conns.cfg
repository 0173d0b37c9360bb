\* Connection mode (-n 2), two threads with room for one connection each.
CONSTANTS
  Threads = {t1, t2}
  Conns = {c1, c2}
  NumConns = 1
  MaxConnections = 2
  MaxBytes = 0
  BufferLen = 1
  ReplyLen = 1
  EpollNumEvents = 2
  MaxSends = 2
SPECIFICATION Spec
INVARIANTS
  TypeOK
  ConnListsExact
  EventsAreActive
  WithinCapacity
  RoomIsOffered
  CountedOnce
PROPERTIES
  DoneEnds
