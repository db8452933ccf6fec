\* Sleep, wake, close, remove and add again: everything taken comes back.
SPECIFICATION FairPowerSpec
CONSTANTS
  Requests = {r1, r2}
  Urbs = {u1}
  Setters = {s1}
  Cpus = {c1}
  InitialLength = 1
  FrameLengths = {1}
  BufferLengths = {1}
  DataLen = 1
  Packets = 1
  TimeoutTicks = 1
  DiscardTicks = 0
  NULL = NULL
  Torn = Torn
VIEW DriverState
INVARIANTS
  BugcheckExplained
  CounterFresh
PROPERTIES
  FrameReturned
  UrbReturned
  StopsComplete
