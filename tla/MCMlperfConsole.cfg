SPECIFICATION Spec
CONSTANTS
  kIcInputSize = 3
  MaxDbInputSize = 4
  CmdSize = 8
  Lines <- MCLines
INVARIANT InferIsOfTyped
