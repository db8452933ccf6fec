\* The comment on the interval of the timer against what WdfTimerStart gets.
SPECIFICATION Spec
CONSTANTS
  Setters = {s1}
  Props <- ThreeProps
  Initial <- Boot
  HostIndices = {1, 3}
  MaxWidth = 32
  MaxHeight = 270
  Word <- FourMillion
  Divisor = 255
PROPERTIES
  NegativeIsRelative
