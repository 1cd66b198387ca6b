SPECIFICATION Spec
CONSTANTS
  c1 = c1
  c2 = c2
  a1 = a1
  a2 = a2
  gone = gone
  NoCommand = NoCommand
  NoRegistry = NoRegistry
  Command <- MCCommand
  App <- MCApp
  Sources <- MCSources
  Kinds <- MCScreens
  Batches <- MCBatches
  InitialMachines <- MCInitialMachines
  InitialManagers <- MCInitialManagers
  MaxStarts = 2
  MaxFaults = 0
INVARIANTS
  ExportIsOwn
CHECK_DEADLOCK FALSE
