\* The gateway may die between any two git commands, and a rollback may fail.
SPECIFICATION FairSpec
CONSTANTS
  Sub = {s1, s2}
  NoSub = NoSub
  Slug = {a}
  RollbackFails = TRUE
  MaxAttempts = 2
  MaxRemote = 0
  MaxCrashes = 1
INVARIANTS OriginExact
PROPERTIES EventuallyDecided
\* every submission may be decided for good: the system stops
CHECK_DEADLOCK FALSE
