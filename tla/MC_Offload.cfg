\* The AAC CSD parse against the AudioSpecificConfig it was written from.
\* canOffloadStream is one decision per track: after it (and, when it says
\* yes, sendMetaDataToHal) nothing is left to do, so deadlock is not checked.
CONSTANTS
  Tracks <- MCTracks
SPECIFICATION Spec
INVARIANT AacParamsMatchConfig
CHECK_DEADLOCK FALSE
