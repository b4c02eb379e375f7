\* AVCC and ESDS round trips through convertMetaDataToMessage and
\* convertMessageToMetaData (the byte-order assumptions of ByteOrder are
\* checked at 3-bit bytes on a little-endian host).  The conversion runs
\* once per input and stops: the final stage has no successor, so
\* deadlock is not checked.
CONSTANTS
  Mimes <- MCMimes
  KeyInputs <- MCKeyInputs
  VorbisInputs <- MCVorbisInputs
  ByteBits <- MCByteBits
  HostOrder = "little"
  VideoInputs <- MCVideoInputs
  EsdsInputs <- MCEsdsInputs
  CsdCapacity <- MCCsdCapacity
SPECIFICATION Spec
INVARIANT ParameterSetsRoundTrip
INVARIANT EsdsRoundTrip
CHECK_DEADLOCK FALSE
