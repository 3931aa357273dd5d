SPECIFICATION Spec
CONSTANTS
  Name = {"a", "b"}
  Depth = 3
  InitFs <- MCInitFs
  Skip <- MCSkip
  MaxChanges = 2
  MaxEntries = 5
  Lost = Lost
INVARIANTS TypeOK PathRoundTrip RangeIsSubtree BuiltFaithful
PROPERTIES ImplementsPathTree ChangesTrack
CHECK_DEADLOCK FALSE
