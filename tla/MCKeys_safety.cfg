\* Three uploads under one key against a cap of two; or three requests for a key and an upload.
SPECIFICATION KeysSpec
CONSTANTS
  Sub = {s1, s2, s3}
  NoSub = NoSub
  Content = {s1, s2, s3}
  MaxInflight = 2
  Stalls = FALSE
  MaxDeaths = 0
  MaxCrashes = 1
  k1 = k1
  Key = {k1}
  EnvKey = EnvKey
  NoKey = NoKey
  Allowance = 1
  MaxPerDay = 2
  Ask = {a1, a2, a3}
  Address = {w1, w2}
  NoAddress = NoAddress
  PerAddress = 1
  PerDay = 2
  MaxDays = 1
  MaxSlips = 1
SYMMETRY Symmetry
INVARIANTS KTypeOK AllowanceBound DailyCaps
