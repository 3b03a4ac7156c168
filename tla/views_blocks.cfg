SPECIFICATION Spec
CONSTANTS
  N = 2
  Hashes = {h1, h2}
  MaxTTL = 1
  Timers = {0, 1}
  MaxView = 2
  MaxHeight = 1
  MaxRestarts = 1
  Flaky = {}
CHECK_DEADLOCK FALSE
INVARIANTS ViewBacked
PROPERTIES ImplementsViews
SYMMETRY HashSymmetry
