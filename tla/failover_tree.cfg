\* Two nodes below the top ring; node 2, their parent, does not crash, and no worker
\* overtakes a reset handler.
SPECIFICATION FFairSpec
CONSTANTS
  N          = 5
  FailLimit  = 2
  MaxCrashes = 1
  MaxLost    = 0
  Crashable  = {0, 1, 3, 4}
  Calm       = TRUE
  Overtaken  = {}
INVARIANTS
  RejoinMutex
  ChildrenBounded
PROPERTIES
  SearchFindsAll
  LinksOwnedWhileJoining
  Recovers
