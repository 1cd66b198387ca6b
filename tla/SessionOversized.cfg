SPECIFICATION FairSpec
CONSTANTS
  write = write
  install = install
  Request = {write, install}
  Streaming = {install}
  MaxUpdates = 2
  PipeSize = 1
  Hellos = {TRUE}
  Faults = {"oversized"}
PROPERTY EveryCallReturns
CHECK_DEADLOCK FALSE
