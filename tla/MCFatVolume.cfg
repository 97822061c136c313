SPECIFICATION Spec
CONSTANTS
  Names = {n1, n2}
  LAST = 5
  PER = 2
  ENTS = 1
  MAX_BLOCKS = 2
  MAX_CALLS = 4
  MAX_TROUBLES = 1
SYMMETRY Symmetric
INVARIANTS
  TypeOK
  CardBehindWindow
  ChainsSound
  TablesSound
  ClosedFilesStay
  OnlyDeletedIsLost
