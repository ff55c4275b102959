\* One crash while the last node is joining.
SPECIFICATION FFairSpec
CONSTANTS
  N          = 4
  FailLimit  = 2
  MaxCrashes = 1
  MaxLost    = 0
  Crashable  = {0, 1, 2, 3}
  Calm       = FALSE
  Overtaken  = {}
PROPERTY SearchEnds
CHECK_DEADLOCK FALSE
