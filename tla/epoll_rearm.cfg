\* A socket error at capacity.
CONSTANTS
  Threads = {t1}
  Conns = {c1, c2}
  NumConns = 1
  MaxConnections = 2
  MaxBytes = 0
  BufferLen = 1
  ReplyLen = 1
  EpollNumEvents = 2
  MaxSends = 2
SPECIFICATION Spec
INVARIANTS
  KeepsHandlingClients
