CONSTANTS
  MultiCycle = {3}
  Programs <- MCPrograms
  MaxGap = 2
SPECIFICATION Spec
INVARIANTS ResultsCorrect ResponsesInOrder CommandsAreFinal
PROPERTY Completes
