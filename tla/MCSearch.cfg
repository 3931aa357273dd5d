SPECIFICATION Spec
CONSTANTS
  NumThreads = 3
  Work <- MCThread
  NoWork = 0
  Buffers <- MCBuffers
  Queries = {98}
  Limits = {0, 1, 2}
  RuleSets <- MCRules
  DefaultCount = 2
  NameSpan = 12
  MaxFailures = 1
INVARIANTS TypeOK MergedAllDone InOrder ExcludedOut 
PROPERTY SearchEnds
CHECK_DEADLOCK FALSE
