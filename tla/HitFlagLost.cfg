SPECIFICATION Spec
CONSTANTS
  Tiles = 3
  LateMargin = 4
  HBlank = 14
  Lines = 2
  Costs = {4, 7, 20}
  AccessCosts = {4, 7}
  Overshoots = {0, 20}
  Settings <- FewSettings
  Sprites <- EdgeSprites
  MaxWrites = 1
PROPERTIES HitKeptUntilVblankEnd
CHECK_DEADLOCK TRUE
