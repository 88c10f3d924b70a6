CONSTANTS
  Clients = {c1, c2}
  Ops = {"read", "write", "lease", "adc", "pause", "resume", "release", "reload", "install"}
  Speeds <- MCSpeeds
  Reset = 0
  Safe = 1
SPECIFICATION Spec
INVARIANTS
  CheckedTraffic
  RegistersKept
  LeaseKept
SYMMETRY MCSymmetry
