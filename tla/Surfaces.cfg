SPECIFICATION SurfacesSpec
CONSTANTS
  Ticks = {k1, k2}
  Turn = turn
  MaxTurns = 2
  MaxLoad = 4
  MaxMutes = 1
  MaxClears = 1
  OldRows = 0
  MaxHolds = 3
  MaxTyped = 2
  MaxStarts = 3
  MaxReplies = 2
  MaxSentences = 1
  MaxCuts = 1
  MaxBreaks = 1
  Word <- SixWords
  MaxText = 5
  MaxTagged = 3
  MaxTags = 2
  CharCap = 2
  Words = {"yes", "no"}
  MaxSockets = 2
  MaxSpoken = 2
  MaxResults = 4
SYMMETRY TickSymmetry
INVARIANTS TypesOK AvatarComesBackUnlessOvertaken OneVoice BubblesDistinctUnlessLate StoredOnceUnlessCut MicrophoneOff OneTurnUnlessSlipped ReplyWhole AudioIsOwnUnlessCut TagsOnlyAdd NothingListensUnlessSlipped HeardOnceInOrder
PROPERTIES InterruptedStaysSilent RepliesInOrder
CHECK_DEADLOCK FALSE
