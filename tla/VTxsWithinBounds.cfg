CONSTANTS
  Base = 4
  HeightBytes = 2
  IndexBytes = 1
  Chain <- MCChain
  Hashes <- MCHashes
  Bounds = {0, 2, 3, 4, 15}
  Indexes = {0, 1, 3}
  NoKey = NoKey
SPECIFICATION Spec
INVARIANTS
  TxsWithinBounds
