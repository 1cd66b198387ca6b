SPECIFICATION Spec
CONSTANTS
  Caller = {c1, c2}
  Service = {diagtrack}
  Configs <- Asked
  MaxOutside = 1
SYMMETRY CallersAlike
INVARIANTS
  TypeOK
  ServiceIsPutBack
  UndoFailsOnlyIfDisabled
CHECK_DEADLOCK FALSE
