SPECIFICATION RapSpec
CONSTANTS
  t1 = t1
  t2 = t2
  app = app
  apple = apple
  Tasks = {t1, t2}
  NoTask = NoTask
  Files = {app, apple}
  NoFile = NoFile
  Requests <- MCRequests
  StartsWith <- MCStartsWith
  Lead <- MCLead
  HasEntry = {app}
  AppIds = {1, 2}
  NoApp = NoApp
  MaxDepth = 2
  MaxCalls = 1
  MaxLoads = 2
  MaxRefused = 1
  RapFiles <- MCFiles
  BlockLens = {1, 3, 60, 80}
  Cuts = {0, 1, 7}
  WordLen = 2
  MaxName = 4
  CompSize = 60
  Fds = {3, 4}
  Byte = 20
  High = 4
  Lens = 4
  Hash <- MCHash
  Slots = {0, 1, 2, 3}
  Blocks <- MCBlocks
  Rooms <- MCRooms
INVARIANTS
  HoldsAreCalls
  RefsMatch
  ListIsReady
  InStep
  ComesBack
PROPERTIES
  LockIsGivenUp
