CONSTANTS
  Desc = {d1, d2, d3, d4}
  NoFd = NoFd
  Orphan = Orphan
  Server = Server
  Commands = {"reply", "quit", "file", "xfer", "pasv", "port"}
  MAX_NUM_TASKS = 1
  Owners <- MCOwners
SPECIFICATION Spec
SYMMETRY MCSymmetry
INVARIANTS ClientsSeparate
CHECK_DEADLOCK FALSE
