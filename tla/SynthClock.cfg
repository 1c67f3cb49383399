SPECIFICATION FairClockSpec
CONSTANTS
  NumNotes = 2
  Packets <- SwitchPackets
  Garbage = {0, 7}
  TicksPerSec = 1
  WordMod = 8
  MaxLag = 1
  MaxSince = 4
INVARIANT TypeOK
INVARIANT FreeIsSilent
INVARIANT MutedIsSilent
PROPERTY VoiceStable
PROPERTY NotTooFast
PROPERTY VoicesSettle
