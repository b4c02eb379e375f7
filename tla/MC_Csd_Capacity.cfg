\* The fixed 1024-byte csd buffers, scaled to 16 bytes, against parameter
\* sets the AVCC record is allowed to carry.
CONSTANTS
  Mimes <- MCMimes
  KeyInputs <- MCKeyInputs
  VorbisInputs <- MCVorbisInputs
  ByteBits <- MCByteBits
  HostOrder = "little"
  VideoInputs <- MCVideoInputs
  EsdsInputs <- MCEsdsInputs
  CsdCapacity <- MCCsdCapacity
SPECIFICATION Spec
INVARIANT CsdWithinCapacity
CHECK_DEADLOCK FALSE
