CONSTANTS
  Desc = {d1, d2, d3}
  NoFd = NoFd
  Orphan = Orphan
  Server = Server
  Hid = Hid
  MAX_NUM_TASKS = 1
  Commands = {"port", "xfer"}
  Owners = {0, Server, Hid}
SPECIFICATION AirSpec
SYMMETRY MCSymmetry
INVARIANTS FtpKeepsListening
CHECK_DEADLOCK FALSE
