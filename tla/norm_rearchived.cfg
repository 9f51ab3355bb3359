SPECIFICATION NormSpec
CONSTANTS
  NormRecords = {"x", "y"}
  NormRaws = {"a", "b"}
  NormProfiled <- MCNormProfiled
  NormRuns = {n1}
  NormCollections = 2
INVARIANT NormVersioned
CHECK_DEADLOCK FALSE
