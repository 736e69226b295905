SPECIFICATION OneFileSpec
CONSTANTS
  m1 = m1
  m2 = m2
  r1 = r1
  s = s
  t = t
  d1 = d1
  d2 = d2
  a = a
  e = e
  None = None
  Movers = {m1, m2}
  Readers = {r1}
  Srcs = {s, t}
  Dests <- MCDests
  Contents = {a, e}
  Damaged = {e}
  Empty = e
  Crc <- MCCrc
  Dev <- MCDev
  Faults <- SomeFaults
  Rewrites = {}
  MetaFaults = {"open", "flush"}
INVARIANTS Conserved AnswersHold
PROPERTIES OffersOnce EverySendEnds
CHECK_DEADLOCK FALSE
