SPECIFICATION ConnectorsSpec
CONSTANTS
  None = None
  Ids = {i1, i2, i3}
  PageSize = 1
  MaxPages = 2
  SearchCap = 3
  MaxChanges = 3
  HookRuns = {p1, p2}
  HookThreshold = 2
  HookPages = 2
  HookVersions = 2
  PageCalls = {c1, c2}
  PageKills = 2
  WebUrls <- MCWebUrls
  WebLimit = 2
  WebRuns = {r1}
  SliceCount = 3
  SlicePages = 2
  SliceMost = 2
  SlicePage = 2
  SliceLimit = 4
  SliceReasons = {"captcha", "timeout", "schema_drift", "rate_limit"}
  SignalRuns = {s1, s2}
  SignalKeywords = {"k", "l"}
  SignalDays = 3
  SignalWindow = 2
  SignalFetches = 2
  SignalLimit = 5
  VideoBrands = {b1, b2}
  VideoIds = {v, w}
  VideoChannels = {x}
  VideoTop = 2
SYMMETRY Symmetry
INVARIANTS ConnectorTypeOK RememberedIsStored OneRemovalHarmless HookOpensInTime PageKept WebPagesTrue SliceCoverageTrue SignalOneScale VideoShareHonest
PROPERTY TombstoneNeedsTwo
CHECK_DEADLOCK FALSE
