CONSTANTS
  Clients = {c1, c2}
  Ops = {"lease", "reload"}
  Speeds <- MCSpeeds
  Reset = 0
  Safe = 1
SPECIFICATION Spec
INVARIANTS
  NoAccessDuringLoad
SYMMETRY MCSymmetry
