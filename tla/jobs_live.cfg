SPECIFICATION FairSpec
CONSTANTS
  None = None
  Jobs = {j1, j2}
  Commands = {c1, s1}
  SlotCommands = {s1}
  Tasks = {k1}
  Procs = {p1, p2, p3}
  Threads = {t1, t2}
  QueueLimit = 2
  Overlap = FALSE
  MaxFaults = 0
PROPERTIES ImplementsLifecycle JobsSettle
CHECK_DEADLOCK FALSE
