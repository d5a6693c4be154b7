\* A slave, the same slave run again, and a slave on another host.
CONSTANTS
  p1 = p1
  p2 = p2
  p3 = p3
  host1 = host1
  host2 = host2
  Peer <- MCProcess
  Process <- MCProcess
  NoPeer = NoPeer
  BACKLOG = 1
  Address <- MCAddress
  Point <- MCPoint
  BUFFERSIZE = 2
  MaxBeats = 3
SPECIFICATION Spec
INVARIANTS AliveInRing
PROPERTIES ViewsConverge
CHECK_DEADLOCK FALSE
