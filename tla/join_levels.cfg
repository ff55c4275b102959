\* 25 nodes: the first number at which the level of the children of the top
\* ring splits and a third level grows.
SPECIFICATION FairSpec
CONSTANT N = 25
INVARIANTS
  TypeOK
  HelloOrder
  JoinMutex
  RingsConsistent
  TreeConsistent
  TreeBalanced
  SearchComplete
  MembersRooted
PROPERTIES
  ParentChangesToSibling
  EntersInOrder
  ImplementsQueue
\* A member has nothing to do in this model: it ends when all have joined.
CHECK_DEADLOCK FALSE
