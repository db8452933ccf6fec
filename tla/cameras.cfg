\* Two cameras that come and go and count with one static variable.
SPECIFICATION FairSpec
CONSTANTS
  Cameras = {c1, c2}
  MaxFrames = 1
  TimeoutTicks = 2
  DiscardTicks = 1
  CounterTop = 3
INVARIANTS
  TypeOK
  CounterHeld
  DiscardNeedsNeighbour
  ShortenedByNeighbour
PROPERTIES
  StarvedByNeighbour
