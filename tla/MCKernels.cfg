CONSTANTS
  Depth = 2
  Programs <- Kernels
  MaxGap = 3
SPECIFICATION Spec
INVARIANTS ResponsesInOrder ResultsCorrect CommandsAreFinal StallWaits
PROPERTY Completes
