\* AudioSystem's AAC parameters after a track that is refused.
CONSTANTS
  Tracks <- MCTracks
SPECIFICATION Spec
INVARIANT AacParamsOnlyWhenAccepted
CHECK_DEADLOCK FALSE
