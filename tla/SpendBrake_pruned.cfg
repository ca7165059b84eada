SPECIFICATION BrakeSpec
CONSTANTS
  Requests = {r1, r2}
  DailyLimit = 1
  MonthlyLimit = 2
  MaxCost = 1
  Retention = 1
  DaysPerMonth = 2
  MaxRows = 3
  MaxDays = 2
SYMMETRY RequestSymmetry
INVARIANTS UsageOvershoot
CHECK_DEADLOCK FALSE
