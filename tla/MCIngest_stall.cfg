\* A job may wait in the queue longer than twice the timeout (the runner was down).
SPECIFICATION Spec
CONSTANTS
  Sub = {s1}
  NoSub = NoSub
  Content = {c1}
  MaxInflight = 1
  Stalls = TRUE
  MaxDeaths = 0
  MaxCrashes = 0
PROPERTIES LiveJobKept
