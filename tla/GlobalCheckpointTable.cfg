CONSTANTS
  Size = 2
  FGRs = {f0, f1, f2}
  ZeroFGR = f0
  GCAs = {0, 1}
  ZeroGCA = 0
  None = None
  Payload <- Entries
SYMMETRY Symmetry
SPECIFICATION Spec
INVARIANTS
  TableTypeOK
  PushesHitFreeSlots
PROPERTIES
  TableImplementsQueue
  WalkFollows
