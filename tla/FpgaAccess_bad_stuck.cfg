CONSTANTS
  Clients = {c1, c2}
  Ops = {"lease", "release", "reload"}
  Speeds <- MCSpeeds
  Reset = 0
  Safe = 1
SPECIFICATION FairSpec
PROPERTIES
  LoadEnds
