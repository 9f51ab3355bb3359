SPECIFICATION Spec
CONSTANTS
  None = None
  Jobs = {j1, j2, j3}
  Commands = {c1, c2, s1}
  SlotCommands = {s1}
  Tasks = {k1, k2}
  Procs = {p1, p2, p3}
  Threads = {t1, t2}
  QueueLimit = 1
  Overlap = FALSE
  MaxFaults = 1
SYMMETRY Symmetry
INVARIANTS TypeOK OneJobPerCommand AnswersAgree RunAtMostOnce RowsBounded
PROPERTY FinalIsFinal
CHECK_DEADLOCK FALSE
