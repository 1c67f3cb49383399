SPECIFICATION FairSpec
CONSTANTS
  Entries = 2
  Ports <- FastPort
  Devices <- OneKeyboard
  BufSizes = {64}
  MaxFaults = 0
PROPERTY CleansUp
