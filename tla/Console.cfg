SPECIFICATION ConsoleFairSpec
CONSTANTS
  TickMod = 4
  Period = 2
  BUF_LEN = 3
  WriteDepth = 1
  WriteThreshold = 0
  ReadDepth = 1
  Timeout = 2
  Counts = {1, 2}
  Numbers = 3
  StartTick = 1
INVARIANT ConsoleTypeOK
INVARIANT NoLostWakeup
PROPERTY AlarmOnTime
PROPERTY ConsoleIsPipe
PROPERTY WriteReturns
PROPERTY ShownInTheEnd
