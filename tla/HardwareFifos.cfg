CONSTANTS
  DepthLog2 = 2
  Word = {0, 1}
  Zero = 0
  ResetState = 3
  ResetValue <- AlternatingWords
SPECIFICATION Spec
INVARIANTS
  TypeOK
  PortsAgree
PROPERTIES
  RamImplementsQueue
  ShiftImplementsQueue
