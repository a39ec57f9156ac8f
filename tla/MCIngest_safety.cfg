\* Three uploads against a cap of two; runners may die, files age only as the deployed timing lets them.
SPECIFICATION Spec
CONSTANTS
  Sub = {s1, s2, s3}
  NoSub = NoSub
  Content = {c1, c2, c3}
  MaxInflight = 2
  Stalls = FALSE
  MaxDeaths = 2
  MaxCrashes = 0
SYMMETRY Symmetry
INVARIANTS CapacityRespected UniqueContent OnlyCleanQueued JobNotLost HeldHasZip ReviewedIsWhole DiedTwice
PROPERTIES LiveJobKept LegalMoves
