SPECIFICATION Spec
CONSTANTS
  None = None
  Jobs = {j1, j2}
  Commands = {c1, s1}
  SlotCommands = {s1}
  Tasks = {k1}
  Procs = {p1, p2}
  Threads = {t1, t2}
  QueueLimit = 1
  Overlap = TRUE
  MaxFaults = 0
PROPERTY OrphansStayClosed
CHECK_DEADLOCK FALSE
