CONSTANTS
  Jobs = {j1, j2, j3, j4}
  Numbers = {n1, n2}
  None = None
SPECIFICATION FairSpec
CHECK_DEADLOCK FALSE
INVARIANTS
  TypeOK
  MutualExclusion
  InCallOrder
PROPERTIES
  ImplementsJobQueue
  EveryJobSettles
  EntryReleased
