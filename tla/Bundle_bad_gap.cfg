CONSTANTS
  gui = gui
  image = image
  Deploy = {gui, image}
  Image = {image}
  Faults = {"gap"}
  MaxCuts = 1
SPECIFICATION DeploySpec
INVARIANTS
  OneInstall
CHECK_DEADLOCK FALSE
