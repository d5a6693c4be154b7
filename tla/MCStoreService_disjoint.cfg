\* Two clients, each with a key of its own; both keys share one cache with room for one.
CONSTANTS
  c1 = c1
  c2 = c2
  s1 = s1
  s2 = s2
  s3 = s3
  ka = ka
  kb = kb
  kz = kz
  v1 = v1
  v2 = v2
  Client = {c1, c2}
  Slave = {s1, s2, s3}
  Key = {ka, kb}
  Value = {v1, v2}
  NoValue = NoValue
  Blank = Blank
  Nothing = Nothing
  Capacity = 1
  PrimaryOf <- MCPrimaryOf
  NextSlave <- MCNextSlave
  LastSlave = s3
  Wild = Wild
  Unreachable = {}
  OpsOf <- MCDisjointOps
SPECIFICATION Spec
INVARIANTS TypeOK BackupAgrees CacheCoherent
PROPERTIES ImplementsStore
CHECK_DEADLOCK FALSE
