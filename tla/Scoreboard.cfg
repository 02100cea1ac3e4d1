CONSTANTS
  PRFSize = 2
  GCCount = 1
SPECIFICATION CallsSpec
PROPERTY ForwardHoldsForOneCycle
