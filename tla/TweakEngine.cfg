SPECIFICATION Spec
CONSTANTS
  c1 = c1
  c2 = c2
  r1 = r1
  diagtrack = diagtrack
  bing = bing
  off = off
  on = on
  link = link
  automatic = automatic
  disabled = disabled
  RegLoc = {r1}
  Service = {diagtrack}
  Appx = {bing}
  RegValue = {off, on, link}
  Absent = Absent
  Exotic = {link}
  StartType = {automatic, disabled}
  Disabled = disabled
  Catalog <- TwoTweaks
  Command = {c1, c2}
  MaxClock = 2
  Baselines <- MachinesFound
  MaxFaults = 1
  Faults = {"denied", "service", "reply", "journal", "restore", "crash", "clock"}
SYMMETRY CommandSymmetry
CONSTRAINT OrderOrNoFault
INVARIANTS
  TypeOK
  UndoReachesBaseline
  SuccessIsJournalled
  EngineInvariant
  NoCommandIsStuck
PROPERTIES
  ImplementsUndoLog
  HistoryIsKept
  RevertRestoresFirstCapture
  EveryStepCounts
CHECK_DEADLOCK FALSE
