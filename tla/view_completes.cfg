SPECIFICATION FairSpec
CONSTANTS
  N = 2
  Hashes = {h1}
  MaxTTL = 1
  Timers = {0, 1}
  MaxView = 3
  MaxHeight = 0
  MaxRestarts = 0
  Flaky = {}
CHECK_DEADLOCK FALSE
PROPERTIES ViewChangeCompletes
