\* interp16 against the bounds of the coefficients it interpolates.
INIT Init
NEXT Next
INVARIANT Interp16WithinCoefs
\* Each call returns once and the model stops.
CHECK_DEADLOCK FALSE
