\* Buffers of 3 bytes: a server flight that does not fit, a response that always
\* fits behind the tickets and one that need not.
CONSTANTS
  BufferSize = 3
  ClientHello = 2
  ServerFlight = 5
  ClientFinished = 1
  Tickets = 1
  Request = 2
  Responses = {2, 3}
SPECIFICATION Spec
INVARIANTS
  TypeOK
  BufferExact
  NoSendFails
PROPERTIES
  BuffersAreChannels
  ExchangeEnds
CHECK_DEADLOCK FALSE
