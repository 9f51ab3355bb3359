SPECIFICATION LaunchSpec
CONSTANTS
  LaunchRuns = {l1, l2}
  LaunchNobody = nobody
  LaunchKills = 1
INVARIANT LaunchClosable
CHECK_DEADLOCK FALSE
