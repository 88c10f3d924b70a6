CONSTANTS
  KtachRpm = 119040
  KtachMax = 255
  Lo = 1500
  Hi = 6000
  SafeRpm = 4000
  Kp = 320
  Ki = 11
  Dts = {5}
  Errors <- MCErrors
  NoTemp = NoTemp
  Manual = {0, 6000}
  Counts = {0, 255}
  FaultSamples = 2
  MaxEnds = 3
SPECIFICATION LoopSpec
INVARIANTS
  NetAlways
