SPECIFICATION Spec
CONSTANTS
  MaxPkt = 2
  BufSize = 4
  Totals = {0}
  OutSizes = {4}
  NakLimit <- PatientNakLimits
  MayBeLate = TRUE
  MaxLost = 0
INVARIANT OutReported
