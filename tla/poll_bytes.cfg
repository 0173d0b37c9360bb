\* Byte mode (-B 2): there is no slot for a client.
CONSTANTS
  Conns = {c1, c2}
  NumConnsOptions = {1}
  MaxConnections = 0
  MaxBytes = 2
  NofileLimit = 2
  NULL = NULL
SPECIFICATION Spec
INVARIANTS
  KeepsHandlingClients
CHECK_DEADLOCK FALSE
