\* Three one-shot threads, every kind of request, all served at the same time.
CONSTANTS
  Thread = {t1, t2, t3}
  k1 = k1
  v1 = v1
  v2 = v2
  Key = {k1}
  Value = {v1, v2}
  NoValue = NoValue
  Blank = Blank
  NoThread = NoThread
  Request <- MCAllRequest
  PeerMap <- MCPeerMap
SPECIFICATION Spec
SYMMETRY Symmetry
INVARIANTS TypeOK Isolation MigrationCountIsFlag AckedKeyStays
           NoBlankEntry OnePutSucceeds
CHECK_DEADLOCK FALSE
