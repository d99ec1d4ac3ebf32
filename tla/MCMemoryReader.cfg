SPECIFICATION Spec
CONSTANTS
  MaxDepth = 3
  MaxVersion = 2
INVARIANTS TypeOK ReadsInOrder OneAhead
