\* The SSE helpers and FIR kernels against their scalar definitions.
INIT Init
NEXT Next
INVARIANTS
  MulEpi32MatchesNative
  AdjvolRoundsQ31
  Interp32Rounds
  FirMatchesReference
\* Each call returns once and the model stops.
CHECK_DEADLOCK FALSE
