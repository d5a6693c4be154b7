\* The same, with the statement for every order of registrations.
CONSTANTS
  Node = {n1, n2, n3, n4}
  NULL = NULL
  Hash <- MCSlave
  Slave <- MCSlave
  Key <- MCKey
  MaxWrites = 1
  MinSurvivors = 3
  LastMayDie = FALSE
  LastWritten = FALSE
  OverlapWrites = 0
SPECIFICATION Spec
SYMMETRY MCNodeSymmetry
INVARIANTS GetFinds
CHECK_DEADLOCK FALSE
