CONSTANTS
  Slots = 4
  Margin = 2
  Chunk = 2
  Flight = 2
  Word = 6
  DeepStart = 1
  PointRecords = 2
  MaxRecords = 7
  MaxRuns = 2
  Faults = {"slow"}
SPECIFICATION RingSpec
INVARIANTS
  LogTrue
