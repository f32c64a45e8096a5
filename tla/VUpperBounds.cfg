CONSTANTS
  Base = 4
  HeightBytes = 2
  IndexBytes = 1
  Chain <- MCChain
  Hashes <- MCHashes
  Bounds = {}
  Indexes = {}
  NoKey = NoKey
  Null = Null
  Absent = Absent
  ParseCoins <- MCParseCoins
  ZeroTime <- MCZeroTime
  Requests <- MCUpperBounds
  GasUsed <- MCGasUsed
  MaxElements = 4
  BlockRangeSize = 2
  WhereEval <- MCEval
  WhereMinMax <- MCMinMax
  Plain <- MCPlain
SPECIFICATION QSpec
INVARIANT
  UpperBoundsAreExclusive
