CONSTANTS
  Registers = {0, 1, 2}
  MaxDecodes = 2
  Presented <- MCPresented
  StartValues <- MCStartValues
  StartCounters <- MCStartCounters
  Spaces = {s, t}
  Addresses <- MCAddresses
  Values = {0, 1}
  Zero = 0
  None = None
  Heap <- MCHeap
  Decoders <- MCDecoders
SPECIFICATION Spec
CHECK_DEADLOCK FALSE
INVARIANTS
  ImmediatesAgree
  OneOwner
PROPERTIES
  AcceptsEncodings
  ExecutesItsWord
  CsrImplementsMap
  OnlyRedefinitionLoses
  KeepsItsDecoder
