CONSTANTS
  Clients = {c1, c2}
  Ops = {"read", "write", "reload", "install"}
  Speeds <- MCSpeeds
  Reset = 0
  Safe = 1
SPECIFICATION FairSpec
INVARIANTS
  NoAccessDuringLoad
PROPERTIES
  LoadEnds
