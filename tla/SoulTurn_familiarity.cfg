SPECIFICATION TurnSpec
CONSTANTS
  Turns = {t1, t2}
  Surfaces = {"text", "stream", "voice", "rtc"}
  Inputs = {"overwhelmed", "refused"}
  MaxFaults = 0
PROPERTIES FamiliarityMonotone
SYMMETRY TurnSymmetry
CHECK_DEADLOCK FALSE
