\* Three descriptors are a table that is often full; what clients send is
\* bounded to one command that opens, one that closes and one that leaves.
CONSTANTS
  Desc = {d1, d2, d3}
  NoFd = NoFd
  Orphan = Orphan
  Server = Server
  Hid = Hid
  MAX_NUM_TASKS = 1
  Commands = {"port", "xfer"}
  Owners = {0, Server, Hid}
SPECIFICATION AirSpec
SYMMETRY MCSymmetry
INVARIANTS AirTypeOK AirSlotHandoff AirLeaksNoMore
CHECK_DEADLOCK FALSE
