\* Two nodes, which are neighbours on both sides, and more jobs than nodes, of
\* which one comes later.  Both are asked, as often as they have threads.
SPECIFICATION BFairSpec
CONSTANTS
  N = 2
  J = 3
  Fresh = {1}
  Killed = {}
  MaxPoints = 1
  Pool = 2
  Entry = {0, 1}
INVARIANTS BTypeOK NoBackupLost
PROPERTIES  JobsShared
\* Both nodes may be jammed.
CHECK_DEADLOCK FALSE
