SPECIFICATION Spec
CONSTANTS
  Worlds = {1, 2}
  NumEpochs = 3
  Warmup = 1
  TestSize = 3
  BatchSize = 2
  Outcomes <- RightSets
  MaxCrashes = 2
INVARIANT BothScriptsLoad
CHECK_DEADLOCK FALSE
