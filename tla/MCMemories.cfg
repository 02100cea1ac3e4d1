CONSTANTS
  Size = 2
  Bits = {0, 1}
  None = None
  Ports = {0, 1}
  Destinations = {"d"}
  Payloads = {{0}, {1}}
  Masks = {{0}}
  MaxEntries = 2
  MaxReads = 3
  AddressWidth = 2
  WordBits = {0}
  SubjectCountLog2 = 2
  Data = {x, y, z}
  Zero = x
SPECIFICATION Spec
INVARIANTS
  ReadsAgree
  SnapshotUndoes
  QueriesAgree
  RegistersAgree
  PicksAgree
  SameOutputs
PROPERTIES
  AnswersReads
  Conserves
