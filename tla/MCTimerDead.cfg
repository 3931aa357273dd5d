SPECIFICATION MonitorSpec
CONSTANTS
  t1 = t1
  t2 = t2
  Timer = timer
  p1 = p1
  p2 = p2
  p3 = p3
  NoPath = none
  MayDuplicate = FALSE
  Timing = "handler"
CHECK_DEADLOCK FALSE
SYMMETRY Symmetry
CONSTANTS
  t3 = t3
  p4 = p4
  p5 = p5
  Thread = {t1, t2, t3}
  Path = {p1, p2, p3, p4, p5}
  BufferSize = 10
  DumpSize = 2
  MaxEvent = 6
  InitFiles = {p1, p2}
  MayOverwrite = FALSE
INVARIANT Covered
