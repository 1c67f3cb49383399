SPECIFICATION StartFairSpec
CONSTANTS
  Entries = 2
  Ports <- AllPorts
  Devices <- AllDevices
  BufSizes = {10, 64}
  MaxFaults = 4
  FIFO_DEPTH = 4
  RETRIES = 2
  Junk = {165}
  BusFaults <- AllBusFaults
  MaxBusFaults = 2
  MaxPolls = 2
  Levels = {0, 64, 128, 192}
  Stale = {165}
INVARIANT StartTypeOK
INVARIANT PoolMatchesDriver
INVARIANT StaleIsNoticed
INVARIANT SpeaksToItsDevice
INVARIANT DescriptorsAreRead
INVARIANT CodecFollows
INVARIANT ReadsRegister
INVARIANT HangsIfHopeless
INVARIANT CommandExact
PROPERTY UnpluggedIsReleased
PROPERTY TaskReturns
PROPERTY HostStarts
PROPERTY SynthesizerWorks
CHECK_DEADLOCK FALSE
