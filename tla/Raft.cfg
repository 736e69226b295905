SPECIFICATION RaftSpec
CONSTANTS
  a = a
  b = b
  c = c
  x = x
  Server <- Servers
  Client <- Clients
  MaxEntries = 1
  Budgets <- SmallBudgets
INVARIANTS ElectionSafety  
SYMMETRY ServerSymmetry
CHECK_DEADLOCK FALSE
