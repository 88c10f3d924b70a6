CONSTANTS
  Slot = {P1, P2}
  P1 = P1
  P2 = P2
  FirstSlot = P1
  Build = {b0, good, bad}
  b0 = b0
  First = b0
  Sound = {b0, good, bad}
  Healthy = {b0, good}
  Big = {good}
  Faults = {"flash", "slow", "hang", "handler"}
  MaxCuts = 2
  MaxUpdates = 3
SPECIFICATION FairSpec
INVARIANTS
  TypeOK
  Coherent
  FallbackKept
PROPERTIES
  Implements
  Recovers
CHECK_DEADLOCK FALSE
