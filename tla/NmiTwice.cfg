SPECIFICATION Spec
CONSTANTS
  SliceDots <- ShortSlices
  Lines = 2
  Costs = {5}
  KilCost = 9
  MaxCost = 9
  CycleMod = 1

PROPERTIES OneNmiPerWrite
CHECK_DEADLOCK TRUE
