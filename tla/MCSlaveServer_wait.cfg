\* A migration that waits for the threads at work, between a client's requests.
CONSTANTS
  Thread = {t1, t2, t3}
  k1 = k1
  v1 = v1
  v2 = v2
  Key = {k1}
  Value = {v1, v2}
  NoValue = NoValue
  Blank = Blank
  NoThread = NoThread
  Request <- MCFewRequest
  PeerMap <- MCPeerMap
SPECIFICATION FairSpec
PROPERTIES WaitEnds
CHECK_DEADLOCK FALSE
