SPECIFICATION Spec
CONSTANTS
  Models <- AllModels
  WindowSize = 7
  MAX_CHANNEL = 64
  ACCUM_DEPTH = 64
INVARIANTS NoShapeError FitsAccelerator ShiftedWindowsAreLocal
\* The forward pass ends.
CHECK_DEADLOCK FALSE
