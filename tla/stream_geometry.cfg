\* One URB: buffers of every length, geometry changed at any moment.
SPECIFICATION Spec
CONSTANTS
  Requests = {r1, r2}
  Urbs = {u1}
  Setters = {s1, s2}
  Cpus = {c1}
  InitialLength = 2
  FrameLengths <- LengthsWithNegative
  BufferLengths = {1, 2}
  DataLen = 1
  Packets = 2
  TimeoutTicks = 1
  DiscardTicks = 0
  NULL = NULL
  Torn = Torn
SYMMETRY Symmetric
VIEW DriverState
INVARIANTS
  TypeOK
  BugcheckExplained
  CopyWithinBuffer
  DiscardUnreachable
