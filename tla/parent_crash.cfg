\* The only node with a child crashes, once, in a network at rest.
SPECIFICATION FFairSpec
CONSTANTS
  N          = 4
  FailLimit  = 5
  MaxCrashes = 1
  MaxLost    = 0
  Crashable  = {2}
  Calm       = TRUE
  Overtaken  = {}
PROPERTY Recovers
