SPECIFICATION Spec
CONSTANTS
  Null = Null
  Records <- SomeRecords
INVARIANTS
  RecordsFit
  SizesAgree
  DecodedIsEncoded
  HeapOwned
