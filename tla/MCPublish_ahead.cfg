\* One crash after the merge leaves main ahead of origin.
SPECIFICATION Spec
CONSTANTS
  Sub = {s1, s2}
  NoSub = NoSub
  Slug = {a, b}
  RollbackFails = FALSE
  MaxAttempts = 1
  MaxRemote = 0
  MaxCrashes = 1
PROPERTIES PushesOwn
CHECK_DEADLOCK FALSE
