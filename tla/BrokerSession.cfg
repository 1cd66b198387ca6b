SPECIFICATION FairSpec
CONSTANTS
  write = write
  install = install
  Request = {write, install}
  Streaming = {install}
  MaxUpdates = 2
  PipeSize = 1
  Hellos = {TRUE, FALSE}
  Faults = {"dies"}
INVARIANTS
  TypeOK
  ProgressIsComplete
  NobodyIsForgotten
  SinksAreReleased
PROPERTIES
  CallSpec
  EveryCallReturns
  HelperLeaves
CHECK_DEADLOCK FALSE
