SPECIFICATION Spec
CONSTANTS
  NodeKeys = {n1}
  BlockKeys = {b1}
  CoreKeys = {k1, k2}
  HeadKey = head_key
  Stray = stray
  Values = {good, bad}
  Undecodable = {bad}
  None = None
  InitialCapacity = 1
  MaxCalls = 3
  MaxReads = 2
SYMMETRY Symmetric
INVARIANTS
  TypeOK
  OrderKept
  ReservationsHold
  FlushAnswers
  ErrorStopsResults
  BuffersOwned
  FoundMeansRecord
PROPERTIES
  ImplementsAtomicBatch
