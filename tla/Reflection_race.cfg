SPECIFICATION ReflectionSpec
CONSTANTS
  Tasks = {t1, t2}
  Threshold = 2
  MaxTurns = 4
  MaxFaults = 0
INVARIANTS SingleFlight
CHECK_DEADLOCK FALSE
