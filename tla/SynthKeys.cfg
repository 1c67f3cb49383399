SPECIFICATION KeysFairSpec
CONSTANTS
  NumNotes = 2
  Packets <- KeyPackets
  Garbage = {0}
  TicksPerSec = 1
  WordMod = 1
  MaxLag = 1
  Keys = {60, 61, 62}
  Velocity = {1}
  Controls <- MuteAndSustain
  MaxWire = 2
INVARIANT OneVoicePerKey
PROPERTY ImplementsPolyphony
PROPERTY ReleasedKeySilent
