SPECIFICATION FairSpec
CONSTANTS
  short = short
  long = long
  Files = {short, long}
  Length <- MCLength
  NoFile = NoFile
  Size = 3
  MaxOffset = 6
  Huge = 99
INVARIANTS
  ReturnsFileData
  ReturnsAllThereIs
  TypeOK
PROPERTIES
  ReadInFileReturns
