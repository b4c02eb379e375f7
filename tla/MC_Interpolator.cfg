\* headLength 2, mainLength 1: the ring has 3 slots, so 7 samples wrap the
\* write index twice and move four samples into the tail.
CONSTANTS
  HeadLength = 2
  MainLength = 1
  MaxHistory = 7
  HeadFactor <- MCHeadFactor
  TailFactor <- MCTailFactor
  Points <- MCPoints

SPECIFICATION Spec
INVARIANT TypeOK
INVARIANT AccumulatorsMatchWindow
PROPERTY WindowedFitRefinement
