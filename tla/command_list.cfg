\* One writer and two readers on the list of camera commands.
SPECIFICATION Spec
CONSTANTS
  Items = {i1, i2, i3}
  Readers = {p1, p2}
  MaxInserts = 4
  Hdr = Hdr
  NULL = NULL
SYMMETRY Symmetric
INVARIANTS
  TypeOK
  BreaksOnlyByOverlap
  HeaderNeverFreed
  ListIntact
PROPERTIES
  IsAQueue
