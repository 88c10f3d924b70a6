CONSTANTS
  Release = {r0, r1}
  First = r0
  r0 = r0
  r1 = r1
  Handlers = {h1}
  Ops = {"install", "confirm", "rollback", "reinstall", "hasty"}
  MaxFails = 1
  MaxKept = 2
  MaxCrashes = 1
  MaxCuts = 1
SPECIFICATION FairSpec
INVARIANTS
  TypeOK
  Watched
PROPERTIES
  TestEnds
