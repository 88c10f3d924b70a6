CONSTANTS
  Release = {r0, r1}
  First = r0
  r0 = r0
  r1 = r1
  Handlers = {h1}
  Ops = {"install"}
  MaxFails = 1
  MaxKept = 2
  MaxCrashes = 0
  MaxCuts = 1
SPECIFICATION Spec
INVARIANTS
  NothingSticks
