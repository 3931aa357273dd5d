SPECIFICATION MonitorSpec
CONSTANTS
  t1 = t1
  t2 = t2
  Thread = {t1, t2}
  Timer = timer
  p1 = p1
  p2 = p2
  p3 = p3
  Path = {p1, p2, p3}
  NoPath = none
  BufferSize = 10
  DumpSize = 2
  MaxEvent = 7
  InitFiles = {p1}
  MayOverwrite = TRUE
  MayDuplicate = TRUE
  Timing = "any"
INVARIANTS NothingMissing SourceKnown
SYMMETRY Symmetry
CHECK_DEADLOCK FALSE
