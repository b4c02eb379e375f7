\* MPEG-4 files: frames split losslessly and main() returns.  main() stops
\* once it has returned, so the final state has no successor and deadlock
\* is not checked.
CONSTANTS
  Files <- MCMpeg4Files
  Garbage <- MCGarbage
SPECIFICATION Spec
INVARIANT FramesConcatenate
PROPERTY Terminates
CHECK_DEADLOCK FALSE
