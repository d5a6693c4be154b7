\* Two clients, one of which may be killed; a backlog of one.
CONSTANTS
  Peer = {c1, c2}
  Client = {c1, c2}
  NoPeer = NoPeer
  BACKLOG = 1
  BUFFERSIZE = 2
  Shape = {"plain"}
  User = {u1}
  Password = {p1, p2}
  NoPassword = NoPassword
  Leaver = {c2}
  MaxCommands = 4
SPECIFICATION Spec
INVARIANTS NobodyDisturbed
PROPERTIES ImplementsAccounts Served
CHECK_DEADLOCK FALSE
