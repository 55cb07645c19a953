SPECIFICATION ImageSpec
CONSTANTS
  Requests <- MCRequests
  NoName = "-"
  Absolute <- MCAbsolute
  Disks <- MCDisks
  Archives <- MCArchives
  Strays <- MCStrays
  Stem <- MCStem
  Paths <- MCPaths
  NoDir = "/"
  HeaderLists <- MCHeaderLists
  Regions <- MCRegions
  Relocated <- MCRelocated
  Records <- MCRecords
INVARIANTS
  FindsWhatIsNamed
  SectionsFit
  RelocationsReach
CHECK_DEADLOCK FALSE
