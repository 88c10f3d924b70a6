CONSTANTS
  Clients = {c1, c2}
  Ops = {"read", "write", "lease", "pause", "resume", "release"}
  Speeds <- MCSpeeds
  Reset = 0
  Safe = 1
SPECIFICATION Spec
INVARIANTS
  NetHolds
SYMMETRY MCSymmetry
