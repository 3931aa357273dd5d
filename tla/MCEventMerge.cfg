SPECIFICATION Spec
CONSTANTS
  t1 = t1
  t2 = t2
  Thread = {t1, t2}
  Timer = timer
  p1 = p1
  p2 = p2
  Path = {p1, p2}
  NoPath = none
  BufferSize = 3
  DumpSize = 2
  MaxEvent = 6
SYMMETRY Symmetry
INVARIANTS TypeOK NoLeak BufferFits PairsLive RenameFromFirst IInv
PROPERTY SendsWhatWasPicked
CHECK_DEADLOCK FALSE
