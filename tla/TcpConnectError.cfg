SPECIFICATION Spec
CONSTANTS
  Endpoints = {"a"}
  Configs <- MCTwo
  MaxFd = 5
  MaxCalls = 2
  WaitConnect = 10
  WaitStep = 5
  TryTimes = {0}
  LongestTry = 0
  TimeOuts = {0}
INVARIANTS ConnectedIsUsable
