SPECIFICATION FairSpec
CONSTANTS
  MaxPkt = 2
  BufSize = 6
  Totals = {0, 7, 8}
  OutSizes = {3}
  NakLimit <- NakLimits
  MayBeLate = TRUE
  MaxLost = 1
INVARIANT TypeOK
INVARIANT ParsedInOrder
INVARIANT ReadCompletes
INVARIANT OutInOrder
PROPERTY PollInOrder
PROPERTY CallsReturn
