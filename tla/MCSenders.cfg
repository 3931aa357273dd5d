SPECIFICATION MonitorSpec
CONSTANTS
  t1 = t1
  t2 = t2
  Timer = timer
  p1 = p1
  p2 = p2
  p3 = p3
  NoPath = none
  MayDuplicate = FALSE
  Timing = "handler"
CHECK_DEADLOCK FALSE
SYMMETRY Symmetry
CONSTANTS
  Thread = {t1, t2}
  Path = {p1, p2, p3}
  BufferSize = 3
  DumpSize = 2
  MaxEvent = 6
  InitFiles = {p1}
  MayOverwrite = FALSE
INVARIANT Converged
