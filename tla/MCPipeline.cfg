SPECIFICATION Spec
CONSTANTS
  Thread = {t1, t2}
  Dev = {"disk", "stick"}
  Dlnfs = {"longnames"}
  Name = {"a", "d", "x", "y", "r", "m", "u"}
  Home <- MCHome
  Files <- MCFiles
  InitFiles <- MCInitFiles
  Record <- MCRecord
  InitMounted = {"disk", "longnames"}
  MaxOps = 2
  MaxMounts = 1
  MaxLost = 1
  Cap = 1
INVARIANTS TypeOK NoForgery Converged TablesCurrent
PROPERTIES OneOfTwo EventuallyIndexed ImplementsFeed
CHECK_DEADLOCK FALSE
