\* Three nodes on each circle, with a redirect; broadcasts start at two nodes of
\* the top circle.  Node 4 may be asked for the data of a job at any time.
SPECIFICATION JNSpec
CONSTANTS
  N = 6
  Job = {j1}
  Entry = {0, 2}
  DataEntry = {4}
INVARIANTS JNTypeOK JobLockOwned OneLinks CirclesWhole MembersGetJob
\* A broadcast and a joiner may wait for each other (JoinersFinish).
CHECK_DEADLOCK FALSE
