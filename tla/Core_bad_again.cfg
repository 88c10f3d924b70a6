CONSTANTS
  Core = {first, good, bad}
  Good = {first, good}
  First = first
  first = first
  Faults = {"cut", "full", "raise", "again"}
  MaxCuts = 1
SPECIFICATION Spec
PROPERTIES
  Implements
