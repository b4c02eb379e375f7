\* Every kind of codec-specific data and every scalar key, at several
\* values and under mimes of either case, through both conversions: does
\* the MetaData come back as it was?
CONSTANTS
  Mimes <- MCAnyCaseMimes
  KeyInputs <- MCAnyKeyInputs
  VorbisInputs <- MCVorbisInputs
  ByteBits <- MCByteBits
  HostOrder = "little"
  VideoInputs <- MCSmallVideoInputs
  EsdsInputs <- MCEsdsInputs
  CsdCapacity <- MCCsdCapacity
SPECIFICATION Spec
INVARIANT MetaDataRoundTrip
CHECK_DEADLOCK FALSE
