CONSTANTS
  MaxHeight = 4
  MaxSlots = 2
  MaxChunkSize = 2
  CollectorCap = 2
  MaxFaults = 1
  Busy = {2, 4}
  BadBlocks = {}
  BadTxs = {}
  NoChunk = NoChunk
SPECIFICATION LiveSpec
PROPERTY
  ShutdownIsClean
