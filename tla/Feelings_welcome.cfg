SPECIFICATION FeelSpec
CONSTANTS
  Talks = {a}
  Messages <- Cries
  Appraisals <- TwoAppraisals
  Starts <- StartRows
  MaxWrites = 5
INVARIANTS WelcomeSuppresses
CHECK_DEADLOCK FALSE
