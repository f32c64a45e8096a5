CONSTANTS
  fb = fb
  ft = ft
  Ids = {fb, ft}
  Callers = {c1, c2}
  Options <- MCOptions
  Feed <- MCFeed
  Interval = 2
  MaxTime = 4
  NoBound = NoBound
  NoRange = NoRange
  NoId = NoId
SPECIFICATION Spec
CHECK_DEADLOCK FALSE
SYMMETRY CallerSymmetry
INVARIANTS
  TypeOK
  EachChangeReturnedOnce
  IdleFiltersGo
PROPERTIES
  UsedFiltersStay
