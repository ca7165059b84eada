SPECIFICATION CompanionSpec
CONSTANTS
  Rooms = {r1, r2}
  Calls = {c1, c2}
  None = None
  MaxExchanges = 2
  MaxSegments = 2
  MaxFaults = 1
  Talks = {c1, c2}
  Messages <- MixedMessages
  Appraisals <- TwoAppraisals
  Starts <- StartRows
  MaxWrites = 4
  Requests = {c1, c2}
  MaxPieces = 2
SYMMETRY CompanionSymmetry
INVARIANTS NothingLeftBehindUnlessOverlapped AnalysisSingleFlightUnlessRaced StoredOnce TypesOK TonesHonest ClientsHold AnswersHonest
CHECK_DEADLOCK FALSE
