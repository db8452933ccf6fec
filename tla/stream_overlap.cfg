\* Two URBs and two processors: a DPC may outlive the tick that queued it.
SPECIFICATION Spec
CONSTANTS
  Requests = {r1, r2}
  Urbs = {u1, u2}
  Setters = {s1, s2}
  Cpus = {c1, c2}
  InitialLength = 3
  FrameLengths = {3}
  BufferLengths = {3}
  DataLen = 2
  Packets = 1
  TimeoutTicks = 1
  DiscardTicks = 0
  NULL = NULL
  Torn = Torn
SYMMETRY Symmetric
VIEW DriverState
INVARIANTS
  BugcheckExplained
  CopyWithinBuffer
  NothingLost
