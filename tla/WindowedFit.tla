----------------------------- MODULE WindowedFit -----------------------------
(***************************************************************************)
(* What the windowed linear interpolator promises, stated without its     *)
(* ring buffer and its three running accumulators.                        *)
(*                                                                         *)
(* The state is the sequence of samples given to estimate() since the     *)
(* last reset(), newest first.  A sample of age a (0 = newest) has weight  *)
(* WindowWeight(a): headFactor^(headLength - a) inside the head, 1 inside  *)
(* the main window and tailFactor^(a - historyLength + 1) once it has left *)
(* the main window.  The estimate is the weighted least-squares line       *)
(* through the weighted samples, evaluated at the new x, written here as   *)
(* mean and covariance (not as the accumulator formula of the code), and  *)
(* falls back to x when the weighted variance of x is below 1e-5.          *)
(*                                                                         *)
(* With `enabled` off, estimate(x, y) returns y and records nothing.  With *)
(* `stabilize` on, once historyLength samples have been taken the result  *)
(* minus x is frozen as an offset and every later call returns offset + x *)
(* until the next reset.  Both switches are re-read at every reset.        *)
(***************************************************************************)
EXTENDS Integers, Sequences, QArith

CONSTANTS
  HeadLength,   \* samples in the tapering head
  HeadFactor,   \* per-sample taper of the head, a rational in (0, 1]
  MainLength,   \* samples of weight 1
  TailFactor,   \* per-sample decay of the tail, a rational in (0, 1]
  Points,       \* the (x, y) samples a caller may pass, x and y rationals
  MaxHistory    \* bound on the samples taken between two resets

VARIABLES window, enabled, stabilize, offset, out

vars == <<window, enabled, stabilize, offset, out>>

HistoryLength == MainLength + HeadLength

NoValue == [n |-> 0, d |-> 0]  \* no call has returned yet

WindowWeight(age) ==
  IF age < HeadLength THEN QPow(HeadFactor, HeadLength - age)
  ELSE IF age < HistoryLength THEN QOne
  ELSE QPow(TailFactor, age - HistoryLength + 1)

\* Weighted mean of f over the samples of s, f a function of a sample.
WMean(s, F(_)) ==
  LET idx == 1 .. Len(s)
      w   == [i \in idx |-> WindowWeight(i - 1)]
  IN  QDiv(QSumOver([i \in idx |-> QMul(w[i], F(s[i]))], idx),
           QSumOver(w, idx))

\* The weighted least-squares line through s, evaluated at x.
FitAt(s, x) ==
  LET mx  == WMean(s, LAMBDA p : p.x)
      my  == WMean(s, LAMBDA p : p.y)
      var == WMean(s, LAMBDA p : QMul(QSub(p.x, mx), QSub(p.x, mx)))
      cov == WMean(s, LAMBDA p : QMul(QSub(p.x, mx), QSub(p.y, my)))
  IN  IF QBelowInverse(var, 100000) THEN x
      ELSE QAdd(my, QMul(QDiv(cov, var), QSub(x, mx)))

Frozen == stabilize /\ Len(window) = HistoryLength

Init ==
  /\ window = << >>
  /\ enabled \in BOOLEAN
  /\ stabilize \in BOOLEAN
  /\ offset = QZero
  /\ out = NoValue

Reset ==
  /\ window' = << >>
  /\ enabled' \in BOOLEAN
  /\ stabilize' \in BOOLEAN
  /\ offset' = QZero
  /\ UNCHANGED out

Estimate(p) ==
  \/ /\ ~enabled
     /\ out' = p.y
     /\ UNCHANGED <<window, enabled, stabilize, offset>>
  \/ /\ enabled /\ Frozen
     /\ out' = QAdd(offset, p.x)
     /\ UNCHANGED <<window, enabled, stabilize, offset>>
  \/ /\ enabled /\ ~Frozen
     /\ Len(window) < MaxHistory
     /\ window' = <<p>> \o window
     /\ LET est == FitAt(window', p.x)
        IN  IF stabilize /\ Len(window') = HistoryLength
            THEN /\ offset' = QSub(est, p.x)
                 /\ out' = QAdd(offset', p.x)
            ELSE /\ out' = est
                 /\ UNCHANGED offset
     /\ UNCHANGED <<enabled, stabilize>>

Next == Reset \/ \E p \in Points : Estimate(p)

Spec == Init /\ [][Next]_vars
=============================================================================
