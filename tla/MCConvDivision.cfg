CONSTANTS
  Depth = 2
  Programs <- ConvWithDivision
  MaxGap = 2
SPECIFICATION Spec
INVARIANT ResponsesInOrder
