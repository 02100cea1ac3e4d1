CONSTANTS
  Ports = {0, 1, 2, 3}
  Data <- Words
  Zero <- FirstWord
  None = None
SPECIFICATION FairSpec
INVARIANTS
  InOrder
  OneIsTaken
PROPERTIES
  Served
