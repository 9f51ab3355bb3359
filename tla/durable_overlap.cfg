SPECIFICATION Spec
CONSTANTS
  Runs = {r1, r2, r3}
  PageSize = 2
  MaxPages = 2
  MaxRecords = 5
  Overlapping = 2
  MaxFaults = 1
SYMMETRY Symmetry
INVARIANTS FeedComplete RunsAccounted
CHECK_DEADLOCK FALSE
