\* The task never holds more than two descriptors; a third is always free.
CONSTANTS
  Desc = {d1, d2, d3}
  NoFd = NoFd
  Orphan = Orphan
  Hid = Hid
  Owners <- MCOwners
SPECIFICATION MouseFairSpec
INVARIANTS HidTypeOK HidNoLeak
PROPERTIES GoneMouseIsReplaced
