\* Two changes of any kind on two surveys, two requests at a time, a push answer may be lost.
SPECIFICATION Spec
CONSTANTS
  a = a
  b = b
  e1 = e1
  e2 = e2
  c1 = c1
  c2 = c2
  Change = {c1, c2}
  Slug = {a, b}
  Station = {e1, e2}
  Outside = Outside
  Gone = Gone
  Handler = {h1, h2}
  None = None
  Wanted <- MCWanted
  MaxAsked = 2
  MaxFaults = 1
SYMMETRY Symmetry
INVARIANTS TypeOK OwnAnswer NotEmptied RecordedOnce CleanAtRest
PROPERTIES Implements
CHECK_DEADLOCK FALSE
