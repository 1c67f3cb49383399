SPECIFICATION FairSpec
CONSTANTS
  W = 3
  Voice = {v1}
  Registers <- TwoPitches
  MasterVols = {1}
  MaxVol = 2
  Shift = 0
  Half = 4
INVARIANT RightCarriesMix
PROPERTY FallsSilent
PROPERTY PitchFollows
