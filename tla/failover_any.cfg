\* Crashes and lost pings at any time, also during joins and resets.
SPECIFICATION FSpec
CONSTANTS
  N          = 4
  FailLimit  = 1
  MaxCrashes = 2
  MaxLost    = 1
  Crashable  = {0, 1, 2, 3}
  Calm       = FALSE
  Overtaken  = {0, 1, 2, 3}
INVARIANTS
  FTypeOK
  OneReset
\* A joiner and the node that resets it may wait for each other (SearchEnds).
CHECK_DEADLOCK FALSE
