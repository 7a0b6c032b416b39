SPECIFICATION FairSpec
CONSTANTS
  Endpoints = {"a"}
  Configs <- MCConfigs
  MaxFd = 4
  MaxCalls = 2
  WaitConnect = 7
  WaitStep = 5
  TryTimes = {0, 30}
  LongestTry = 30
  TimeOuts = {7}
CHECK_DEADLOCK FALSE
INVARIANTS TypeOK Wired WaitBudget SlotsReleased LeakBound
PROPERTIES ConnectReturns
