\* Names of one character and an extension of one; a path of five has room
\* for steps through two directories, or for what Trim cuts off a name.  Of a
\* path PWD can answer six bytes: three short names, or a long one and a short.
CONSTANTS
  Letters = {"a", "A"}
  Up <- MCUp
  BODY = 1
  EXT = 1
  BUFFER = 8
  Ids = {1, 2, 3}
  MAX_PATH = 5
SPECIFICATION Spec
INVARIANTS TypeOK PwdLeadsBack NamesUnique TreeHolds TrimmedIsFound
