SPECIFICATION Spec
CONSTANTS
  Procs = {p1, p2, p3}
  Names = {n1}
  Descs = {base, d1, d2}
  Base = base
  BaseName = kernel
  NoProc = NoProc
  NoDesc = NoDesc
  NoName = NoName
  ArgKey <- WholeName
  ObjKey <- ObjectName
  Archived = {}
  InfoArgs = {"pointer"}
  MaxNest = 2
  Coordinated = FALSE
INVARIANTS
  LockedIsNotUnloaded
