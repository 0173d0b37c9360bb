\* Two connections and one connection ID more than can be in use.
CONSTANTS
  Conns = {p1, p2}
  Addrs = {a1, a2}
  Cids = {i1, i2, i3}
  NoCid = NoCid
  HsTimeouts = {1, 2}
  AppDataWait = 3
  MaxHsTime = 1
  AgeCap = 2
SPECIFICATION LiveSpec
INVARIANTS
  TypeOK
  TimerPerConn
  CidUnique
PROPERTIES
  DeadlinesKept
  SilentPeerDropped
