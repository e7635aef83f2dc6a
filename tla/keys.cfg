SPECIFICATION Spec
CONSTANTS
  WideFrom = 10
  TextEnd = 255
  MaxRecords = 2
  Records <- SomeRecords
INVARIANTS
  KeysNameRecords
  RangesExact
  PassesAgree
  KeysFitBuffers
