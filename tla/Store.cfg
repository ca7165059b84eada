SPECIFICATION StoreSpec
CONSTANTS
  Tasks = {t1, t2}
  Threshold = 2
  MaxTurns = 4
  MaxFaults = 1
  Stored = 5
  MaxMemories = 2
  MaxInputTokens = 14
  MaxUserTokens = 2
  MinMemoryBudget = 2
  Lengths = {1, 3, 5, 14}
  MaxSections = 4
  Inputs = {1, 8, 10}
  Processes = {p1, p2}
  MaxOpens = 3
INVARIANTS ReflectionsRegular PackedHonestly StoredValuesSurvive
PROPERTIES ReflectionReleases
CHECK_DEADLOCK FALSE
