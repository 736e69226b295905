SPECIFICATION CommitSpec
CONSTANTS
  a = a
  b = b
  c = c
  x = x
  Server <- Servers
  Client <- Clients
  MaxEntries = 1
  Budgets <- CommitBudget
INVARIANT CommitInLog
SYMMETRY ServerSymmetry
CHECK_DEADLOCK FALSE
