SPECIFICATION FairSpec
CONSTANTS
  Programs = {"a", "b"}
  Numerals <- MCNumerals
  Scenarios <- MCScenarios
CHECK_DEADLOCK FALSE
INVARIANTS ReadsAsMeant AcceptedIsComplete OwnInput PrintsResult NothingLeft
PROPERTIES RunsEnd
