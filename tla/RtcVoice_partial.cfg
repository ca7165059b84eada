SPECIFICATION CallsSpec
CONSTANTS
  Rooms = {r1}
  Calls = {c1}
  None = None
  MaxExchanges = 2
  MaxSegments = 2
  MaxFaults = 0
SYMMETRY RtcSymmetry
INVARIANTS ReplyPostedWhole
CHECK_DEADLOCK FALSE
