SPECIFICATION BothSpec
CONSTANTS
  f1 = f1
  f2 = f2
  f3 = f3
  f4 = f4
  A = A
  B = B
  C = C
  D = D
  Files = {f1, f2, f3, f4}
  NoFile = NoFile
  Base = Base
  Names = {A, B, C, D}
  Format <- MCFormat
  InArchive = {f2}
  Sections <- MCSections
  Regions <- MCRegions
  Exports <- MCExports
  Refs <- MCRefs
  BaseTable <- MCBase
  MaxBase = 2
  Tasks = {t1, t2}
  NoTask = NoTask
  Memory = {b1, b2}
  Null = Null
  MaxMaps = 2
INVARIANTS
  AllButSectionsGivenBack
  FreedOnce
  SymbolsInMemory
  StrongIsFound
  MemoryIsListed
PROPERTIES
  CallsReturn
  ImplementsObjectStore
