\* Three connections, one after the other or at a time.
CONSTANTS
  SSLs = {s1, s2, s3, s4}
  NULL = NULL
  MaxRetransmits = 1
SPECIFICATION Spec
INVARIANTS
  TypeOK
  FreedOnce
  PendingIsApart
  EventsOwned
  NoneLost
PROPERTIES
  SilentConnDropped
