SPECIFICATION FairSpec
CONSTANTS
  Components = {"move", "cleaner"}
  i1 = i1
  i2 = i2
  m1 = m1
  m2 = m2
  s = s
  d1 = d1
  d2 = d2
  x1 = x1
  x2 = x2
  a = a
  e = e
  None = None
  Movers = {m1, m2}
  Srcs = {s}
  Dests <- SameDests
  Contents = {a, e}
  Damaged = {e}
  Empty = e
  Crc <- MCCrc
  Dev <- MCDev
  Faults <- AllFaults
  Rewrites = {s}
PROPERTIES CopyVerified CleansRightly CleanerLive
CHECK_DEADLOCK FALSE
