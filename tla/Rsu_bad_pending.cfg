CONSTANTS
  Slot = {P1, P2}
  P1 = P1
  P2 = P2
  FirstSlot = P1
  Build = {b0, good, bad}
  b0 = b0
  First = b0
  Sound = {b0, good, bad}
  Healthy = {b0, good}
  Big = {good}
  Faults = {"hang", "stale"}
  MaxCuts = 2
  MaxUpdates = 3
SPECIFICATION Spec
INVARIANTS
  RunsWhole
CHECK_DEADLOCK FALSE
