CONSTANTS
  Sessions = {s1, s2}
  SlowClient = TRUE
SPECIFICATION Spec
INVARIANTS
  Exclusive
