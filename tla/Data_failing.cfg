SPECIFICATION Spec
CONSTANTS
  Components = {"table"}
  n1 = n1
  n2 = n2
  Node = {n1, n2}
  MaxTerm = 2
  Capacity = 3
  Nobody = Nobody
  None = None
  NaN = NaN
  Setups <- Failing
INVARIANT ClientsDiffer
CHECK_DEADLOCK FALSE
