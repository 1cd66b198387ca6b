SPECIFICATION Spec
CONSTANTS
  bing = bing
  ads = ads
  Package = {bing}
  Setting = {ads}
  Catalog <- Tweaks
  Build = 22631
  Lister = {l1, l2}
  Command = {c1}
  MaxOutside = 1
SYMMETRY ListersAlike
INVARIANTS
  TypeOK
  InventoryIsFresh
  ScreenIsCurrent
CHECK_DEADLOCK FALSE
