\* Byte mode with two threads: both compute a length from the same total.
CONSTANTS
  Threads = {t1, t2}
  Conns = {c1, c2}
  NumConns = 1
  MaxConnections = 0
  MaxBytes = 2
  BufferLen = 2
  ReplyLen = 2
  EpollNumEvents = 2
  MaxSends = 2
SPECIFICATION Spec
SYMMETRY ConnSymmetry
INVARIANTS
  ByteBudget
