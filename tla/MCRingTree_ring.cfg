\* Up to four slaves on five points of the ring, joining and leaving in any order.
CONSTANTS
  Node = {n1, n2, n3, n4}
  NULL = NULL
  Hash <- MCHash
SPECIFICATION Spec
SYMMETRY MCNodeSymmetry
INVARIANTS TypeOK SearchTree RouteFindsSlave PredecessorSurvives BackupHolderFollowsOwner
PROPERTIES ImplementsRing BackupIsPromoted
CHECK_DEADLOCK FALSE
