SPECIFICATION Spec
CONSTANTS
  DenseLayers <- LayerSet
  Rows <- RowSet
  Offsets <- OffsetSet
  Bits = 3
  StackWords = {0, 6}
  Half = 4
  MaxSamples = 7
  MaxWorld = 4
  MaxSide = 4
INVARIANTS FullyConnectedIsExact ConvolutionIsExact DivisionsInFrame CopiesApart LabelsMatchPixels CyclesAreOfTheCall
