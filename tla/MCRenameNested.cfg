\* One renamed register, two checkpoints: branches in flight behind branches.
CONSTANTS
  PRFSize = 3
  GCCount = 2
  ARFSize = 2
  ROBSize = 3
  Instructions <- MCOneRegister
  Branches <- MCUnconditional
SPECIFICATION FairSpec
INVARIANTS
  CheckpointsCurrent
PROPERTIES
  Progress
