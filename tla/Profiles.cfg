\* Two saves, a listing and an installation at the same time.
CONSTANTS
  ProfileName <- MCProfileName
  App = {firefox}
  TweakId = {telemetry}
  Imports <- MCImports
  Saver = {s1, s2}
  Lister = {l1}
  Installer = {i1}
  MaxImports = 1
  Faults = TRUE

SPECIFICATION Spec
INVARIANTS ShelfIsTrue ListingIsComplete
CHECK_DEADLOCK FALSE
