SPECIFICATION Spec
CONSTANTS
  t1 = t1
  t2 = t2
  k1 = k1
  k2 = k2
  m1 = m1
  m2 = m2
  q1 = q1
  s = s
  u = u
  v = v
  d1 = d1
  x2 = x2
  a = a
  z = z
  r1 = r1
  r2 = r2
  None = None
  Nil = Nil
  Movers = {m1, m2}
  Srcs = {s, u, v}
  Dests <- MCDests
  Contents = {a, z}
  Damaged = {z}
  Empty = z
  Crc <- MCCrc
  Dev <- MCDev
  Faults <- CopyFaults
  Rewrites = {}
  Queries = {q1}
  OffTopic = {v}
  MaxQuery = 1
  Threads = {t1, t2}
  Keys = {k1, k2}
  Ttl = 1
  MaxTime = 2
INVARIANTS NeverStale UploadConserved RetrievedOrKept QueryExact  
SYMMETRY Symmetry
CHECK_DEADLOCK FALSE
