\* Three nodes, two crashes, one of them maybe during the search of a picture.
SPECIFICATION VSpec
CONSTANTS
  N = 3
  J = 1
  Fresh = {}
  Killed = {1}
  MaxPoints = 1
  Pool = 2
  Entry = {0}
  MaxCrashes = 2
INVARIANTS VTypeOK NoBackupLost CopiesSurvive
PROPERTY PictureComplete
\* A node alone on its ring may wait for itself: its threads for job_mutex, its
\* worker, which holds it, for a thread.
CHECK_DEADLOCK FALSE
