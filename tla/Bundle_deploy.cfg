CONSTANTS
  gui = gui
  image = image
  Deploy = {gui, image}
  Image = {image}
  Faults = {}
  MaxCuts = 2
SPECIFICATION FairDeploySpec
INVARIANTS
  OneInstall
  VerdictTrue
PROPERTIES
  InstallEnds
CHECK_DEADLOCK FALSE
