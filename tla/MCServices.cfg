SPECIFICATION ServicesSpec
CONSTANTS
  j1 = j1
  j2 = j2
  main = main
  helper = helper
  loop = loop
  w1 = w1
  w2 = w2
  None = none
  SlotCount = 2
  GenMod = 2
  MaxConnects = 2
  Jobs <- TwoJobs
  Tasks <- Both
  Main = main
  SocketMax = 2
  Descriptors <- ThreeFds
  Callers <- OnlyMain
  AppMain = main
  LoopTask = loop
  TaskMax = 2
  Handles = {1, 2, 3}
  NoHandle = none
  Creators <- Both
  FirstTask = main
  RxSize = 4
  MaxMessages = 3
  TxMax = 2
  OutMax = 1
  Writers <- TwoWriters
  Nobody = none
  MaxWrites = 4
  MaxSticks = 3
  QueueSize = 3
  MaxTaps = 2
  MaxRuns = 2
  MaxSaves = 4
  MaxCuts = 2
  ta = ta
  tb = tb
  ga = ga
  Titles <- TwoTitles
  Games <- OneGame
  Sizes = {1, 2, 3, 4}
  Fitting = {1, 2, 3}
  Standard = {1, 3, 4}
  MaxFields = 3
  CardFails = TRUE
  Letters = {"A", "b"}
  Names = {"a", "b"}
  lower <- LowerCase
  MaxPattern = 4
  MaxName = 3
INVARIANTS
  TypesOK
  OneOwner
  TransferOnLive
  HandleReachesItsSession
  NothingLeaks
  OnlyOwnClosed
  DeletedAsMade
  StreamWhole
  FreedIsBack
  KeysOfThisRun
  LastContentKept
  SettingsKept
  EveryChoiceComes
  SearchIsRight
PROPERTIES
  LeftOpenIsFreed
  UsbGoesOn
  EjectedStaysUnmounted
CHECK_DEADLOCK FALSE
