CONSTANTS
  p1 = p1
  p2 = p2
  Page = {p1, p2}
  Stream = {s1}
  Shades = {dark, lit}
  dark = dark
  lit = lit
  Thread <- MCThread
  Request <- MCRequest
  ResendsLate = FALSE
  NoCall = NoCall
  Nothing = Nothing
  MaxFaults = 2
  MaxAsks = 2
SPECIFICATION FairSpec
INVARIANTS
  NeverTwice
  HexKept
PROPERTIES
  PagesConverge
CHECK_DEADLOCK FALSE
