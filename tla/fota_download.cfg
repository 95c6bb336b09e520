SPECIFICATION FairSpec
CONSTANTS
  HeaderSize = 2
  SectorSize = 4
  SlotSectors = 2
  OutBuf = 3
  AccSize = 4
  GzHeader = 1
  Footer = 1
  Megachunk = 4
  MaxStalls = 1
  MaxPiece = 3
  Images <- MCImages
  OldLens <- MCOldLens
  Faults <- AllFaults
INVARIANTS
  TypeOK
  CommitMeansImage
  HeaderMeansImage
PROPERTIES
  Returns
  GenuineImageCommits
  IsDownloadSlot
