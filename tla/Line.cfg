SPECIFICATION Spec
CONSTANTS
  Tiles = 3
  LateMargin = 4
  HBlank = 14
  Lines = 2
  Costs = {5, 20}
  AccessCosts = {5}
  Overshoots = {0, 6, 45}
  Settings <- AllSettings
  Sprites <- EdgeSprites
  MaxWrites = 2
INVARIANTS TypeOK RowExact YOncePerLine NoHitMissed
CHECK_DEADLOCK TRUE
