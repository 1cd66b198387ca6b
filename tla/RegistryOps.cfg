SPECIFICATION Spec
CONSTANTS
  Unit <- Units
  Nul = Nul
  Lone = Lone
  Subst = Subst
  k = k
  n1 = n1
  n2 = n2
  Caller = {c1, c2}
  Key = {k}
  Name = {n1, n2}
  Missing = Missing
  Raw <- Contents
  Value <- Written
  Machines <- Registries
  Foreign <- Others
  MaxOutside = 1
SYMMETRY CallersAlike
INVARIANTS
  TypeOK
  RegistryIsPutBack
  OthersSettingsSurvive
CHECK_DEADLOCK FALSE
