\* Changes are published while builds read the checkout; nobody presses a button, nothing fails.
SPECIFICATION AloneSpec
CONSTANTS
  e = e
  n = n
  Change = {e, n}
  Edit = {e}
  None = None
  Keep = 1
  MaxBuilds = 3
  MaxAsked = 2
  MaxFaults = 1
  KeepSent = 1
  MaxByHand = 1
  MaxCuts = 1
  Tag = {t1, t2}
  MaxRuns = 3
  MaxStops = 1
  Spent <- Calm
INVARIANTS NoopIsCurrent
CHECK_DEADLOCK FALSE
