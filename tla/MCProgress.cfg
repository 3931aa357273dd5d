SPECIFICATION FairMonitorSpec
CONSTANTS
  t1 = t1
  t2 = t2
  Thread = {t1, t2}
  Timer = timer
  p1 = p1
  p2 = p2
  p3 = p3
  Path = {p1, p2, p3}
  NoPath = none
  BufferSize = 10
  DumpSize = 2
  MaxEvent = 6
  InitFiles = {p1}
  MayOverwrite = FALSE
  MayDuplicate = FALSE
  Timing = "rename"
INVARIANT Covered
PROPERTIES NothingStuck UnloadEnds
CHECK_DEADLOCK FALSE
