CONSTANTS
  Thread = {"poll", "page"}
  Request <- MCRequest
  ResendsLate = TRUE
  NoCall = NoCall
  Absent = Absent
  MaxFaults = 2
  Mode = {"auto", "off"}
  FirstMode = "auto"
  MaxSamples = 3
  MaxSets = 2
SPECIFICATION Spec
INVARIANTS
  SettingStands
CHECK_DEADLOCK FALSE
