\* The build's single connection task (ftp_server.h:53); 4 descriptors are
\* enough for the listening socket, a client, its data listener and transfer.
CONSTANTS
  Desc = {d1, d2, d3, d4}
  NoFd = NoFd
  Orphan = Orphan
  Server = Server
  Commands = {"reply", "quit", "file", "xfer", "pasv", "port"}
  MAX_NUM_TASKS = 1
  Owners <- MCOwners
SPECIFICATION Spec
SYMMETRY MCSymmetry
INVARIANTS TypeOK SlotHandoff NothingElseLeaks
CHECK_DEADLOCK FALSE
