\* headLength 0 (a plain rectangular window of mainLength samples), which
\* the spec allows: historyLength >= headLength >= 0.
CONSTANTS
  HeadLength = 0
  MainLength = 2
  MaxHistory = 4
  HeadFactor <- MCHeadFactor
  TailFactor <- MCTailFactor
  Points <- MCPoints

SPECIFICATION Spec
INVARIANT AccumulatorsMatchWindow
