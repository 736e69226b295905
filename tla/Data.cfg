SPECIFICATION Spec
CONSTANTS
  Components = {"raft", "table", "containers", "buffers", "registry", "messages"}
  n1 = n1
  n2 = n2
  Node = {n1, n2}
  MaxTerm = 2
  Capacity = 2
  Nobody = Nobody
  None = None
  NaN = NaN
  Setups <- NoFailures
INVARIANTS InitSucceeds RestartFindsState UniqueNodeIDs BlocksAccounted ReadsAsStatic RegistryIsMap SurvivesTheWire
PROPERTY MapIsDictionary
SYMMETRY Symmetry
CHECK_DEADLOCK FALSE
