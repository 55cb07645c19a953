SPECIFICATION MCSpec
CONSTANTS
  Procs = {p1, p2}
  Names = {n1, n2}
  Descs = {base, d1, d2}
  Base = base
  BaseName = kernel
  NoProc = NoProc
  NoDesc = NoDesc
  NoName = NoName
  ArgKey <- WholeName
  ObjKey <- ObjectName
  Archived = {}
  InfoArgs = {"pointer"}
  MaxNest = 2
  Coordinated = FALSE
  MaxCalls = 5
INVARIANTS
  LockDiscipline
PROPERTIES
  CallsReturn
  UnusedIsUnloaded
\* The clients stop when they have started MaxCalls calls.
CHECK_DEADLOCK FALSE
