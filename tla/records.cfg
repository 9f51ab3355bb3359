SPECIFICATION RecordsSpec
CONSTANTS
  NormRecords = {"x", "y"}
  NormRaws = {"a", "b"}
  NormProfiled <- MCNormProfiled
  NormRuns = {n1}
  NormCollections = 2
  DupDocs = 3
  DupDistance = 3
  PlugDocs <- MCPlugDocs
  PlugAccepted = {"accepted", "warning"}
  PlugBatch = 2
  PlugAttempts = 2
  ProfIds = {f1, f2, f3}
  ProfLimit = 2
  ProfKills = 2
  ReadyThreads = {q1, q2}
  ReadyCache = 2
  ReadyTime = 3
  VisIds = {i1, i2, i3}
  VisImages = {"p", "q"}
  VisLimit = 2
  VisKills = 2
  LaunchRuns = {l1, l2}
  LaunchNobody = nobody
  LaunchKills = 1
  LabCalls = {g1}
  LabScopes = {e1, e2}
  LabEdits = 2
  CopyPaths = {d1, d2}
  CopyCalls = {c1, c2}
  CopyStarts = {s1, s2}
  CopyLegacy = 1
  CopyHead = 3
  CopyCommits = 1
  CopyAnswers = 1
SYMMETRY Symmetry
INVARIANTS RecordTypeOK NormTrue DupGroupsRight PlugWhole ProfKept ReadyAnswerRecent VisImageKept LaunchOneConsole LabDecisionsHold CopiesHold
CHECK_DEADLOCK FALSE
