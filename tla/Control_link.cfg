CONSTANTS
  Thread = {"poll", "page"}
  Request <- MCRequest
  ResendsLate = TRUE
  NoCall = NoCall
  Absent = Absent
  MaxFaults = 2
  Mode = {"auto", "off"}
  FirstMode = "auto"
  MaxSamples = 3
  MaxSets = 1
SPECIFICATION FairSpec
INVARIANTS
  InStep
  Ordered
PROPERTIES
  KeepsPoints
  Converges
CHECK_DEADLOCK FALSE
