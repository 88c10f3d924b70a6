CONSTANTS
  Core = {first, good, bad}
  Good = {first, good}
  First = first
  first = first
  Faults = {"cut", "full", "raise"}
  MaxCuts = 3
SPECIFICATION Spec
INVARIANTS
  CardLoads
  CardInstalled
PROPERTIES
  Implements
