SPECIFICATION BackgroundSpec
CONSTANTS
  None = None
  Runs = {r1, r2}
  PageSize = 1
  MaxPages = 2
  MaxRecords = 3
  Overlapping = 2
  MaxFaults = 2
  hourly = hourly
  daily = daily
  Schedules <- MCSchedules
  Interval <- MCInterval
  Anchor <- MCAnchor
  Schedulers = {p1, p2}
  MaxTime = 3
  SlotFaults = 1
  NoCommand = NoCommand
  Sources = {a, b}
  Allowed = {a}
  KillSwitch = {a, b}
  Keys = {k1, k2}
  Handlers = {h1, h2}
  MaxVersion = 2
INVARIANTS AuditTrail AnswersTrue JobsAgree DueIsUnserved
PROPERTIES ImplementsSwitch RunFrozen CheckpointAdvances RunsSettle SlotsAdvance CurrentSlotServed
CHECK_DEADLOCK FALSE
