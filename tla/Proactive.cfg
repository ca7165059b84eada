SPECIFICATION Spec
CONSTANTS
  Requests = {r1, r2}
  Materials = {m1, m2}
  MaterialHistory = 1
  ShareHistory = 1
  DailyMax = 1
  MinGap = 2
  DayLength = 2
  MaxTime = 3
  MaxExperiences = 2
  MaxStreak = 1
  MaxFaults = 1
CONSTRAINT UntilRaced
SYMMETRY ProactiveSymmetry
INVARIANTS CountsExactUnlessRaced ExperiencesLimitedUnlessRaced NothingRepeatedUnlessRaced
CHECK_DEADLOCK FALSE
