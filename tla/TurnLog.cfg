SPECIFICATION TurnLogSpec
CONSTANTS
  Turns = {t1, t2}
  Surfaces = {"text", "stream", "voice", "rtc"}
  Inputs = {"overwhelmed", "refused", "blank"}
  MaxFaults = 1
  Summarizers = {s1, s2}
  MaxRaw = 1
  Batch = 2
  MaxId = 6
  MaxSummaries = 3
  Requests = {r1, r2}
  DailyLimit = 1
  MonthlyLimit = 2
  MaxCost = 1
  Retention = 1
  DaysPerMonth = 2
  MaxRows = 3
  MaxDays = 2
SYMMETRY TurnLogSymmetry
INVARIANTS TypesOK KernelExactUnlessRaced LogHoldsWholeTurns NoGap BatchesExact SentOnce OvershootBounded
PROPERTIES KeepsPromise
CHECK_DEADLOCK FALSE
