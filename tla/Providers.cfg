SPECIFICATION FairSpec
CONSTANTS
  c1 = c1
  c2 = c2
  a1 = a1
  a2 = a2
  gone = gone
  NoCommand = NoCommand
  NoRegistry = NoRegistry
  Command <- MCCommand
  App <- MCApp
  Sources <- MCSources
  Kinds <- MCKinds
  Batches <- MCBatches
  InitialMachines <- MCInitialMachines
  InitialManagers <- MCInitialManagers
  MaxStarts = 2
  MaxFaults = 1
INVARIANTS
  TypeOK
  ReportsAreTrue
  DetectionIsShared
PROPERTIES
  RegistryIsComplete
  FreshAfterInstall
  EveryCommandEnds
CHECK_DEADLOCK FALSE
