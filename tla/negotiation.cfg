\* Probe and commit, two SET_VIDEO_PROPs and the timer, at any moment.
SPECIFICATION Spec
CONSTANTS
  Setters = {s1, s2}
  Props <- ThreeProps
  Initial <- Boot
  HostIndices = {1, 3}
  MaxWidth = 32
  MaxHeight = 270
  Word <- FourMillion
  Divisor = 255
SYMMETRY Symmetric
INVARIANTS
  TypeOK
  CommitIsCurrent
  ProbeIsOneMode
  SleepsOnlyWhenTorn
