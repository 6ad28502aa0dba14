SPECIFICATION Spec
CONSTANTS
  Guids = {g0, g1, g2}
  Root = g0
  Names = {n1}
  Layers = {l1}
  NoGuid = NoGuid
  MaxSeq = 2
  DropFaults = FALSE
SYMMETRY Symmetry
INVARIANTS RowsHaveTheirKey NamedKeysSurvive
PROPERTY RecoveryExact
