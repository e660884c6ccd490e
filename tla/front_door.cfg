CONSTANTS
  Bearers = {t1}
  TTL = 1
  MaxClock = 2
  CAs = {a1, a2, a3}
  Hosts = {h1}
  Conns = {c1, c2}
  MaxFaults = 1
  None = None
SPECIFICATION FairSpec
INVARIANTS TypeOK CASurvivesRestarts LeavesVerify HonouredToItsExpiry
PROPERTY SocketsClosed
