SPECIFICATION BothSpec
CONSTANTS
  Procs = {p1, p2, p3}
  Names = {n1, n2}
  Descs = {base, d1, d2}
  Base = base
  BaseName = kernel
  NoProc = NoProc
  NoDesc = NoDesc
  NoName = NoName
  ArgKey <- WholeName
  ObjKey <- ObjectName
  Archived = {n2}
  InfoArgs = {"pointer", "null"}
  MaxNest = 2
  Coordinated = FALSE
  Tasks = {t1, t2, t3}
  NoTask = NoTask
  HasTable = TRUE
  MaxPaths = 3
SYMMETRY BothSymmetry
INVARIANTS
  HeldIsListed
  RefCount
  SymsListed
  OneObjectPerName
  NoOrphan
  ReadyWhenEntered
  FailureCloses
