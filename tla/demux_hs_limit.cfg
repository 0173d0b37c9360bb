\* A peer that keeps sending during its handshake.
CONSTANTS
  Conns = {p1}
  Addrs = {a1}
  Cids = {i1, i2}
  NoCid = NoCid
  HsTimeouts = {1, 2}
  AppDataWait = 3
  MaxHsTime = 2
  AgeCap = 5
SPECIFICATION Spec
INVARIANTS
  HandshakeBounded
