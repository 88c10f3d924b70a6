CONSTANTS
  Release = {r0, r1}
  First = r0
  r0 = r0
  r1 = r1
  Handlers = {h1}
  Ops = {"install", "confirm"}
  MaxFails = 1
  MaxKept = 2
  MaxCrashes = 0
  MaxCuts = 0
SPECIFICATION Spec
PROPERTIES
  ConfirmedKept
