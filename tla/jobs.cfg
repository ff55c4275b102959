\* A broadcast from the top ring or from the level below it, while the last
\* two nodes join that level.
SPECIFICATION JFairSpec
CONSTANTS
  N = 5
  Settled = 3
  Job = {j1, j2}
  Entry = {0, 4}
  KillEarly = FALSE
  Pool = 5
INVARIANTS JTypeOK NewReachesAll KilledIsGone
PROPERTY BroadcastsEnd
\* The model ends when all have joined and every job is killed.
CHECK_DEADLOCK FALSE
