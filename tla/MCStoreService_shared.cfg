\* Two clients write the same keys, one of them of the last slave; a backup is cut off.
CONSTANTS
  c1 = c1
  c2 = c2
  s1 = s1
  s2 = s2
  s3 = s3
  ka = ka
  kb = kb
  kz = kz
  v1 = v1
  v2 = v2
  Client = {c1, c2}
  Slave = {s1, s2, s3}
  Key = {ka, kz}
  Value = {v1}
  NoValue = NoValue
  Blank = Blank
  Nothing = Nothing
  Capacity = 1
  PrimaryOf <- MCPrimaryOf
  NextSlave <- MCNextSlave
  LastSlave = s3
  Wild = Wild
  Unreachable = {s2}
  OpsOf <- MCWritersOps
SPECIFICATION FairSpec
INVARIANTS AckedOnBoth
PROPERTIES Answered
CHECK_DEADLOCK FALSE
