SPECIFICATION KeysSpec
CONSTANTS
  NumNotes = 2
  Packets <- KeyPackets
  Garbage = {0}
  TicksPerSec = 1
  WordMod = 1
  MaxLag = 1
  Keys = {0, 60}
  Velocity = {1}
  Controls <- NoControls
  MaxWire = 2
PROPERTY NoteOffSilences
