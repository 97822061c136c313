\* Both buttons; three bits tell a bounce, a press and a held button apart.
CONSTANTS
  Buttons = {left, right}
  WIDTH = 3
SPECIFICATION Spec
INVARIANTS TypeOK RegisterCounts NoClickTwice
PROPERTIES Debounces
