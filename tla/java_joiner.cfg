\* The second node joins while the first spreads a job.
SPECIFICATION JNFairSpec
CONSTANTS
  N = 2
  Job = {j1}
  Entry = {0}
  DataEntry = {}
PROPERTY JoinersFinish
\* The model ends when all have joined and the broadcasts are done.
CHECK_DEADLOCK FALSE
