\* Two lock entries, so that one object can stay open while others are used;
\* two opens of an object may be lost; WRITE_MODE lies above any reader count.
CONSTANTS
  Names = {n1, n2}
  Clusters = {c1, c2}
  Root = Root
  NoKey = NoKey
  FS_LOCK = 2
  WRITE_MODE = 4
  MAX_LOST = 2
  MAX_BLOCKS = 2
SPECIFICATION Spec
SYMMETRY MCSymmetry
INVARIANTS TypeOK CountsOpens
PROPERTIES OpenFileStays WholeUnlessFault
