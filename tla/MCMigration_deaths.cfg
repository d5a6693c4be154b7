\* Four slaves, registered in any order; two of them die, one after the other.
CONSTANTS
  Node = {n1, n2, n3, n4}
  NULL = NULL
  Hash <- MCSlave
  Slave <- MCSlave
  Key <- MCKey
  MaxWrites = 2
  MinSurvivors = 1
  LastMayDie = FALSE
  LastWritten = FALSE
  OverlapWrites = 0
SPECIFICATION Spec
SYMMETRY MCNodeSymmetry
INVARIANTS StepsComplete NoCircularWait CirclesTakeTwo KeysServed BackedUp
CHECK_DEADLOCK FALSE
