SPECIFICATION Spec
CONSTANTS
  pulse1 = pulse1
  pulse2 = pulse2
  triangle = triangle
  noise = noise
  Pulses = {pulse1, pulse2}
  Pulse2 = {pulse2}
  Triangles = {triangle}
  Noises = {noise}
  Programs <- EachGroup
  Volumes = {0, 2}
  MaxDecay = 2
  LowSize = 4
  HighSize = 4
  TimerMin = 2
  SweepPeriods = {1}
  Shifts = {0, 1, 2}
  TimerLows = {0, 3}
  TimerHighs = {0, 1}
  Lengths = {2}
  Units = 2
  StepUnits = 15
  Modes <- AllModes
  DmcBits = {FALSE, TRUE}
  SampleSizes = {1, 3}
  Periods = {2, 3}
  PowerPeriod = 3
  Bits = 2
  StallCost = 1
INVARIANTS TypeOK NoStepOverdue StatusMeansIt NotesFade
PROPERTIES HalfFramesOnTime NoUnderrun
CHECK_DEADLOCK TRUE
