SPECIFICATION Spec
CONSTANTS
  Guids = {g0, g1}
  Root = g0
  Names = {n1}
  Layers = {l1, l2}
  NoGuid = NoGuid
  MaxSeq = 3
  DropFaults = TRUE
SYMMETRY Symmetry
INVARIANTS OneEntryPerLayer OrphansExact SequencesDistinct
