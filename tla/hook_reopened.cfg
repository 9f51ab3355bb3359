SPECIFICATION HookSpec
CONSTANTS
  HookRuns = {p1, p2}
  HookThreshold = 2
  HookPages = 2
  HookVersions = 2
PROPERTY HookStaysOpen
CHECK_DEADLOCK FALSE
