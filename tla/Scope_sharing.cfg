CONSTANTS
  Sessions = {s1, s2, s3}
  SlowClient = FALSE
SPECIFICATION FairSpec
INVARIANTS
  Exclusive
  Undisturbed
  ArmedIsTrue
PROPERTIES
  Served
