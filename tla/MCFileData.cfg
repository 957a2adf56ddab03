SPECIFICATION DataSpec
CONSTANTS Files = {f1, f2}
  TotalBlocks = 5
  DataStart = 1
  BlockSize = 3
  MaxExtents = 2
  CreateSizes = {4, 7}
  ContentSizes = {1, 2}
  OverReads = {0}
  SaveMayFail = TRUE
  SizeCap = 7
  FreeCap = 4
  byte1 = byte1
  byte2 = byte2
  Texts <- TwoTexts
  Zero = zero
  Absent = Absent
CHECK_DEADLOCK FALSE
PROPERTIES ImplementsFileStore
CONSTRAINT Intact
SYMMETRY FileSymmetry
