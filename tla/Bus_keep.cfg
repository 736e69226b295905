SPECIFICATION Spec
CONSTANTS
  Components = {"queues"}
  Ifaces = {"a"}
  MaxFrames = 4
  a = a
  b = b
  None = None
INVARIANT PeekKeepsUnexpired
CHECK_DEADLOCK FALSE
