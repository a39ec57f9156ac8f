\* No process dies and every rollback succeeds; pushes are refused or their answer is lost.
SPECIFICATION Spec
CONSTANTS
  Sub = {s1, s2}
  NoSub = NoSub
  Slug = {a, b}
  RollbackFails = FALSE
  MaxAttempts = 2
  MaxRemote = 1
  MaxCrashes = 0
SYMMETRY Symmetry
INVARIANTS AtOrigin NotWedged OnTrack
PROPERTIES PushesOwn ReplacedOnlyConfirmed RowsMove
\* every submission may be decided for good: the system stops
CHECK_DEADLOCK FALSE
