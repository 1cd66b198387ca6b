SPECIFICATION Spec
CONSTANTS
  bing = bing
  ads = ads
  Package = {bing}
  Setting = {ads}
  Catalog <- Tweaks
  Build = 22631
  Lister = {l1, l2}
  Command = {c1}
  MaxOutside = 0
INVARIANT NeverGuessedAt
CHECK_DEADLOCK FALSE
