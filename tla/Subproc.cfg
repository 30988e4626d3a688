CONSTANTS
  Call = {"output", "stdin"}
  MaxOut = 2
  Chunk = 1
  PipeSize = 2
  MaxSent = 3
  None = None
SPECIFICATION Spec
INVARIANTS TypeOK WholeOutput NothingSurvives StrangerOnlyIfCollected
PROPERTY Ends
CHECK_DEADLOCK FALSE
