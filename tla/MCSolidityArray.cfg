CONSTANTS
  Data = {0, 1}
  Zero = 0
  MaxRows = 2
  MaxCells = 2
  DanglingWrites = TRUE
SPECIFICATION Spec
INVARIANTS
  TypeOK
  NoHiddenCells
  ResidueOnlyByDangling
PROPERTY ImplementsRowList
