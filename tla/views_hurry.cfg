SPECIFICATION Spec
CONSTANTS
  N = 4
  Hashes = {h1}
  MaxTTL = 2
  Timers = {0, 1}
  MaxView = 1
  MaxHeight = 0
  MaxRestarts = 0
  Flaky = {2}
CHECK_DEADLOCK FALSE
INVARIANTS HurryBacked
