SPECIFICATION Spec
CONSTANTS
  None = None
  Jobs = {j1, j2}
  Commands = {c1, c2}
  SlotCommands = {}
  Tasks = {k1}
  Procs = {p1}
  Threads = {t1, t2}
  QueueLimit = 1
  Overlap = FALSE
  MaxFaults = 0
INVARIANT QueueLimitHolds
CHECK_DEADLOCK FALSE
