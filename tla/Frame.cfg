SPECIFICATION FairSpec
CONSTANTS
  SliceDots <- ShortSlices
  Lines = 2
  Costs = {3}
  KilCost = 8
  MaxCost = 8
  CycleMod = 2
INVARIANTS TypeOK DebtBounded QuietAfterReset ClockExact
PROPERTIES DelayedNmiAfterOne IrqLatency FrameEnds ImplementsBeam
CHECK_DEADLOCK TRUE
