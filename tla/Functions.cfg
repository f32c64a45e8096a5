CONSTANTS
  MaxEnd = 7
  MaxSize = 3
  MaxSlots = 4
  Null = Null
  Undecodable = Undecodable
  ParseCoins <- MCParseCoins
  ZeroTime <- MCZeroTime
SPECIFICATION FSpec
INVARIANTS
  GapsCoverFreeHeights
  ReservesLowestFirst
  PricesAreSound
  WhereMeansWhatItSays
  ConditionsCombine
  NullsStayLocal
