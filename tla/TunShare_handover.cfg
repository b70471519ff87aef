SPECIFICATION FairSpec
CONSTANTS
  Packets = 3
  MaxHandles = 2
  BatchSize = 2
  Depth = 1
INVARIANTS
  TypeOK
  NewestIsCurrent
PROPERTIES
  KeepsPromise
  HandoverEnds
CHECK_DEADLOCK FALSE
