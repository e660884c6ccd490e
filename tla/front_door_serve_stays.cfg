CONSTANTS
  Bearers = {t1}
  TTL = 1
  MaxClock = 2
  CAs = {a1}
  Hosts = {h1}
  Conns = {c1}
  MaxFaults = 0
  None = None
SPECIFICATION FairSpec
PROPERTY HandlersReturn
