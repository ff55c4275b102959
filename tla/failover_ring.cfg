\* The top ring alone, the failure limit of the code, two crashes, and lost
\* pings that are too few for a reset.
SPECIFICATION FFairSpec
CONSTANTS
  N          = 3
  FailLimit  = 5
  MaxCrashes = 2
  MaxLost    = 4
  Crashable  = {0, 1, 2}
  Calm       = TRUE
  Overtaken  = {0, 1, 2}
INVARIANT ResetOnlyAfterCrash
PROPERTIES
  RefusedOnlyDuringReset
  Recovers
