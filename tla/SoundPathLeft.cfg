SPECIFICATION Spec
CONSTANTS
  W = 3
  Voice = {v1}
  Registers <- LoudAndOff
  MasterVols = {1}
  MaxVol = 2
  Shift = 0
  Half = 4
INVARIANT LeftCarriesMix
