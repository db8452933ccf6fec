\* The use the code was written for, against the abstract FrameDelivery.
SPECIFICATION CalmSpec
CONSTANTS
  Requests = {r1, r2, r3}
  Urbs = {u1, u2}
  Setters = {s1, s2}
  Cpus = {c1}
  InitialLength = 3
  FrameLengths = {0, 2, 3}
  BufferLengths = {3}
  DataLen = 1
  Packets = 2
  TimeoutTicks = 2
  DiscardTicks = 0
  NULL = NULL
  Torn = Torn
PROPERTIES
  KeptUntilSent
  Delivers
