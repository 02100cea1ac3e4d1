CONSTANTS
  PRFSize = 3
  GCCount = 1
  ARFSize = 3
  ROBSize = 3
  Instructions <- MCInstructions
  Branches <- MCBranches
SPECIFICATION Spec
INVARIANTS
  TypeOK
  IInv
  NoLiveReallocation
  LookupFindsNewest
  BusyIsInFlight
  OperandsIntact
  ShadowIsCommitted
PROPERTIES
  ReleasedAtCommit
  ImplementsRenaming
