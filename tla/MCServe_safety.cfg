\* Presses of any button, deaths, failures, cut transfers and publishes by hand, shared out; fair timers.
SPECIFICATION PortalSpec
CONSTANTS
  e = e
  n = n
  Change = {e, n}
  Edit = {e}
  None = None
  Keep = 1
  MaxBuilds = 3
  MaxAsked = 2
  MaxFaults = 1
  KeepSent = 1
  MaxByHand = 1
  MaxCuts = 1
  Tag = {t1, t2}
  MaxRuns = 3
  MaxStops = 1
  Spent <- Full
INVARIANTS RelTypeOK ServedWhole PinHonoured EditsServed ReplicaWhole RecordTrue ReleaseWhole DocsAgree
PROPERTIES Converges CatchesUp
CHECK_DEADLOCK FALSE
