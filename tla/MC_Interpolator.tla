--------------------------- MODULE MC_Interpolator ---------------------------
(* Model values for WindowedLinearInterpolator: the default headFactor 1/2, *)
(* a tail decay of 3/4, and three samples, two on the line y = x and one  *)
(* off it, so that fits are singular, exact and approximate in turn.      *)
EXTENDS WindowedLinearInterpolator

MCHeadFactor == Q(1, 2)
MCTailFactor == Q(3, 4)
MCPoints ==
  { [x |-> QInt(0), y |-> QInt(0)],
    [x |-> QInt(1), y |-> QInt(1)],
    [x |-> QInt(2), y |-> QInt(5)] }
=============================================================================
