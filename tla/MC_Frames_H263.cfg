\* H.263 files: the last frame and the file it came from.
CONSTANTS
  Files <- MCH263Files
  Garbage <- MCGarbage
SPECIFICATION Spec
INVARIANT FramesConcatenate
CHECK_DEADLOCK FALSE
