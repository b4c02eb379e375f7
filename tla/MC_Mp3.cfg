\* The WAV file describes itself and holds every decoded byte after its header,
\* and main() ends.  main() stops once it has returned or aborted, so the
\* final state has no successor and deadlock is not checked.
CONSTANTS
  SizeBits <- MCSizeBits
  FrameSizes <- MCFrameSizes
  MaxFrames <- MCMaxFrames
SPECIFICATION Spec
INVARIANTS
  TypeOK
  FileHoldsHeaderAndFrames
  HeaderMatchesFile
PROPERTY Terminates
CHECK_DEADLOCK FALSE
