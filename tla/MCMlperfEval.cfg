SPECIFICATION Spec
CONSTANTS
  kIcInputSize = 4
  MaxDbInputSize = 5
  CmdSize = 8
  Samples <- MCSamples
  SendBytes = 3
  Exits = 2
  MaxRestarts = 2
CHECK_DEADLOCK FALSE
INVARIANTS TypeOK ResultsMatch InStep
PROPERTIES AllEvaluated ScriptEnds
