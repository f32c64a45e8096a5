CONSTANTS
  MaxHeight = 4
  MaxSlots = 3
  MaxChunkSize = 2
  CollectorCap = 1
  MaxFaults = 2
  Busy = {1, 2, 4}
  BadBlocks = {2}
  BadTxs = {1}
  NoChunk = NoChunk
SPECIFICATION LiveSpec
INVARIANTS
  TypeOK
  ResponseFindsItsSlot
  EmptySlotsAreServed
  ReservationsContinueStore
  NoHeightSkipped
  FetchedResultsAreStored
  AnnouncedMatchesBatches
  EventsInOrder
PROPERTIES
  ImplementsChainIndex
  CatchesUp
  ShutdownCompletes
