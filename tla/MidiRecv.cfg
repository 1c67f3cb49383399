SPECIFICATION FairSpec
CONSTANTS
  Slots = 3
  Events <- TwoEvents
  Lengths = {1, 3}
  Garbage <- StackGarbage
  MaxPending = 2
  None = None
INVARIANT BufferHoldsRest
PROPERTY ImplementsStream
PROPERTY EventsAreTaken
