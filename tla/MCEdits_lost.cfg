\* Two metadata edits of one survey, previewed side by side.
SPECIFICATION Spec
CONSTANTS
  a = a
  b = b
  e1 = e1
  e2 = e2
  c1 = c1
  c2 = c2
  Change = {c1, c2}
  Slug = {a, b}
  Station = {e1, e2}
  Outside = Outside
  Gone = Gone
  Handler = {h1, h2}
  None = None
  Wanted <- TwoEdits
  MaxAsked = 2
  MaxFaults = 0
SYMMETRY Symmetry
PROPERTIES NoLostEdit
CHECK_DEADLOCK FALSE
