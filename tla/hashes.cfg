SPECIFICATION HashesSpec
CONSTANTS
  Keys = {k1, k2}
  Numbers <- EdgeNumbers
  ByteBits = 1
  MaxMade = 2
INVARIANTS
  NamespacesReady
  StatementsSeparate
