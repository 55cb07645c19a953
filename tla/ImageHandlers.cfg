SPECIFICATION ImageSpec
CONSTANTS
  Requests <- MCRequests
  NoName = "-"
  Absolute <- MCAbsolute
  Disks <- MCDisks
  Archives <- MCArchives
  Strays <- MCStrays
  Stem <- MCStem
  Paths <- MCPaths
  NoDir = "/"
  HeaderLists <- MCHeaderLists
  Regions <- MCRegions
  Relocated <- MCRelocated
  Records <- MCRecords
INVARIANT
  HandlersInvoked
CHECK_DEADLOCK FALSE
