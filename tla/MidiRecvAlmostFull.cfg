SPECIFICATION Spec
CONSTANTS
  Slots = 3
  Events <- TwoEvents
  Lengths = {2, 3}
  Garbage <- ZeroGarbage
  MaxPending = 2
  None = None
INVARIANT NoStaleEvent
