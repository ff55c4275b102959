\* The twelfth node opens a new level while a job spreads from the top ring.
SPECIFICATION JSpec
CONSTANTS
  N = 12
  Settled = 11
  Job = {j1}
  Entry = {0}
  KillEarly = FALSE
  Pool = 5
INVARIANT NewReachesAll
\* The model ends when all have joined and every job is killed.
CHECK_DEADLOCK FALSE
