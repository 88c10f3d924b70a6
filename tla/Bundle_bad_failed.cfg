CONSTANTS
  gui = gui
  image = image
  Deploy = {gui, image}
  Image = {image}
  Faults = {}
  MaxCuts = 1
SPECIFICATION DeploySpec
INVARIANTS
  FailedKeeps
CHECK_DEADLOCK FALSE
