\* One client writes, another one reads at any moment; a race may kill the process.
CONSTANTS
  Thread = {t1, t2}
  Writer = {t1}
  Key = {a, b, c}
  Value = {v1, v2}
  None = None
  Node = {n1, n2, n3}
  NoNode = NoNode
  MAX_CACHE_SIZE = 2
SPECIFICATION HSpec
SYMMETRY NodeSymmetry
INVARIANTS TypeOK ReferencesMatch NeverOverfull
PROPERTIES ImplementsCache 
CHECK_DEADLOCK FALSE
