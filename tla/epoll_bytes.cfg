\* Byte mode (-B 2), one thread with room for two of three connections.
CONSTANTS
  Threads = {t1}
  Conns = {c1, c2, c3}
  NumConns = 2
  MaxConnections = 0
  MaxBytes = 2
  BufferLen = 2
  ReplyLen = 2
  EpollNumEvents = 2
  MaxSends = 2
SPECIFICATION Spec
SYMMETRY ConnSymmetry
INVARIANTS
  ByteBudget
  EventsAreActive
  WithinCapacity
  CountedOnce
