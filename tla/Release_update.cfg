CONSTANTS
  Release = {r0, r1, r2}
  First = r0
  r0 = r0
  r1 = r1
  r2 = r2
  Handlers = {h1}
  Ops = {"install", "confirm"}
  MaxFails = 2
  MaxKept = 2
  MaxCrashes = 0
  MaxCuts = 0
SPECIFICATION Spec
INVARIANTS
  NothingSticks
  FallsBackToConfirmed
  TargetsThere
