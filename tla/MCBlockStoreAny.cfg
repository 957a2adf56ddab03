SPECIFICATION Spec
CONSTANTS Files = {f1, f2}
  TotalBlocks = 7
  DataStart = 3
  BlockSize = 2
  MaxExtents = 2
  CreateSizes = {1, 5}
  ContentSizes = {1, 3}
  OverReads = {0, 1}
  SaveMayFail = TRUE
  SizeCap = 5
  FreeCap = 4
SYMMETRY FileSymmetry
CHECK_DEADLOCK FALSE
INVARIANTS TypeOK MetadataNeverCovered NoSharedBlocks FileBlocksMarked FreeCountExact
