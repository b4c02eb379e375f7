--------------------- MODULE WindowedLinearInterpolator ---------------------
(***************************************************************************)
(* WindowedLinearInterpolator of media/libstagefright/Interpolator.cpp:   *)
(* the ring buffers mXHistory / mYHistory, the accumulators mHead, mMain  *)
(* and mTail, the counters mNumSamples and mSampleIx, and the switches    *)
(* mEnabled / mStabilize read from system properties at reset().         *)
(*                                                                         *)
(* Every call of interpolate(x, y) is one atomic step (the object is not  *)
(* synchronised and is used from one thread).  `out` is the value the     *)
(* last call returned.  `history` is an auxiliary variable, never read by *)
(* the actions: the samples taken since the last reset, newest first; it  *)
(* is what the refinement mapping to WindowedFit needs.                   *)
(***************************************************************************)
EXTENDS Integers, Sequences, QArith

CONSTANTS HeadLength, HeadFactor, MainLength, TailFactor, Points, MaxHistory

ASSUME HeadLength \in Nat /\ MainLength \in Nat
ASSUME MainLength + HeadLength > 0   \* historyLength 0 divides by zero
ASSUME MaxHistory \in Nat

VARIABLES
  xHistory, yHistory,   \* circular buffers, indices 0 .. mHistoryLength-1
  head, main, tail,     \* LinearFit accumulators
  numSamples,           \* mNumSamples, saturating at mHistoryLength
  sampleIx,             \* mSampleIx, the slot the next sample goes to
  enabled, stabilize,   \* mEnabled, mStabilize
  out,                  \* result of the last interpolate() call
  history               \* auxiliary: samples since reset, newest first

vars == <<xHistory, yHistory, head, main, tail, numSamples, sampleIx,
          enabled, stabilize, out, history>>

NoValue == [n |-> 0, d |-> 0]
NaN     == [n |-> 1, d |-> 0]   \* a double division by zero

(***************************************************************************)
(* Constructor-derived constants.                                          *)
(***************************************************************************)
HistoryLength == MainLength + HeadLength
HeadFactorInv == QInv(HeadFactor)
FirstWeight   == QPow(HeadFactor, HeadLength)
Slots         == 0 .. HistoryLength - 1

(***************************************************************************)
(* LinearFit: six weighted sums.                                           *)
(***************************************************************************)
FitReset == [w |-> QZero, x |-> QZero, y |-> QZero,
             xx |-> QZero, xy |-> QZero, yy |-> QZero]

FitAdd(lf, x, y, w) ==
  [w  |-> QAdd(lf.w, w),
   x  |-> QAdd(lf.x, QMul(w, x)),
   y  |-> QAdd(lf.y, QMul(w, y)),
   xx |-> QAdd(lf.xx, QMul(QMul(w, x), x)),
   xy |-> QAdd(lf.xy, QMul(QMul(w, x), y)),
   yy |-> QAdd(lf.yy, QMul(QMul(w, y), y))]

FitCombine(a, b) == [k \in DOMAIN a |-> QAdd(a[k], b[k])]

FitScale(lf, w) == [k \in DOMAIN lf |-> QMul(lf[k], w)]

\* Mutant of FitInterpolate: the near-singular guard dropped.
FitInterpolateUnguarded(lf, x) ==
  LET div  == QSub(QMul(lf.w, lf.xx), QMul(lf.x, lf.x))
      aDiv == QSub(QMul(lf.w, lf.xy), QMul(lf.x, lf.y))
      bDiv == QSub(QMul(lf.xx, lf.y), QMul(lf.x, lf.xy))
  IN  IF div = QZero THEN NaN ELSE QDiv(QAdd(QMul(aDiv, x), bDiv), div)

\* Mutant of FitInterpolate: b_div with mY where mXY belongs.
FitInterpolateBadIntercept(lf, x) ==
  LET div  == QSub(QMul(lf.w, lf.xx), QMul(lf.x, lf.x))
      aDiv == QSub(QMul(lf.w, lf.xy), QMul(lf.x, lf.y))
      bDiv == QSub(QMul(lf.xx, lf.y), QMul(lf.x, lf.y))
  IN  IF lf.w # QZero /\ QBelowInverse(QDiv(QAbs(div), QMul(lf.w, lf.w)), 100000)
      THEN x ELSE IF div = QZero THEN NaN
      ELSE QDiv(QAdd(QMul(aDiv, x), bDiv), div)

FitInterpolate(lf, x) ==
  LET div  == QSub(QMul(lf.w, lf.xx), QMul(lf.x, lf.x))
      aDiv == QSub(QMul(lf.w, lf.xy), QMul(lf.x, lf.y))
      bDiv == QSub(QMul(lf.xx, lf.y), QMul(lf.x, lf.xy))
      \* fabs(div) < 1e-5 * mW * mW, which is 0 < 0 when mW is 0
      nearSingular ==
        lf.w # QZero /\ QBelowInverse(QDiv(QAbs(div), QMul(lf.w, lf.w)), 100000)
  IN  IF nearSingular THEN x
      ELSE IF div = QZero THEN NaN
      ELSE QDiv(QAdd(QMul(aDiv, x), bDiv), div)

(***************************************************************************)
(* The steps of interpolate(x, y), each over the values it reads.          *)
(***************************************************************************)

\* Mutant of AgeWindow: the tail attenuated before the sample joins it.
AgeWindowDecayFirst ==
  LET lastHeadIx == (sampleIx + HeadLength) % HistoryLength
      main1 == FitAdd(main, xHistory[lastHeadIx], yHistory[lastHeadIx], QOne)
      old   == [x |-> xHistory[sampleIx], y |-> yHistory[sampleIx]]
  IN  IF numSamples < HeadLength THEN [main |-> main, tail |-> tail]
      ELSE IF numSamples < HistoryLength THEN [main |-> main1, tail |-> tail]
      ELSE [main |-> FitAdd(main1, old.x, old.y, QNeg(QOne)),
            tail |-> FitAdd(FitScale(tail, TailFactor), old.x, old.y, QOne)]

\* Lines 130-143: the sample leaving the head joins main; once the buffer
\* is full the slot about to be overwritten leaves main for the tail, and
\* the tail decays.  Reads the buffers before the new sample is written.
AgeWindow ==
  LET lastHeadIx == (sampleIx + HeadLength) % HistoryLength
      main1 == FitAdd(main, xHistory[lastHeadIx], yHistory[lastHeadIx], QOne)
      old   == [x |-> xHistory[sampleIx], y |-> yHistory[sampleIx]]
  IN  IF numSamples < HeadLength THEN [main |-> main, tail |-> tail]
      ELSE IF numSamples < HistoryLength THEN [main |-> main1, tail |-> tail]
      ELSE [main |-> FitAdd(main1, old.x, old.y, QNeg(QOne)),
            tail |-> FitScale(FitAdd(tail, old.x, old.y, QOne), TailFactor)]

\* Lines 151-160: the head recomputed from the newest n samples.
RECURSIVE HeadFrom(_, _, _, _, _, _)
HeadFrom(lf, xh, yh, ix, k, w) ==
  IF k = 0 THEN lf
  ELSE HeadFrom(FitAdd(lf, xh[ix], yh[ix], w), xh, yh,
                (ix + 1) % HistoryLength, k - 1, QMul(w, HeadFactorInv))

RecomputeHead(xh, yh, n) ==
  HeadFrom(FitReset, xh, yh, sampleIx,
           IF HeadLength < n THEN HeadLength ELSE n, FirstWeight)

\* Lines 162-166: the write index walks the ring backwards.
NextSampleIx == IF sampleIx > 0 THEN sampleIx - 1 ELSE HistoryLength - 1

(***************************************************************************)
(* Operations.                                                             *)
(***************************************************************************)

\* reset(): the accumulators and counters are cleared, the buffers are
\* left as they are, and both switches are re-read from system properties
\* (any value may be set, so both outcomes of each are possible).
Reset ==
  /\ head' = FitReset /\ main' = FitReset /\ tail' = FitReset
  /\ numSamples' = 0
  /\ sampleIx' = HistoryLength - 1
  /\ enabled' \in BOOLEAN
  /\ stabilize' \in BOOLEAN
  /\ history' = << >>
  /\ UNCHANGED <<xHistory, yHistory, out>>

\* interpolate(x, y) while disabled: y is returned, nothing is recorded.
InterpolateDisabled(p) ==
  /\ ~enabled
  /\ out' = p.y
  /\ UNCHANGED <<xHistory, yHistory, head, main, tail, numSamples,
                 sampleIx, enabled, stabilize, history>>

\* interpolate(x, y) once stabilized: the offset kept in mYHistory[0].
InterpolateStabilized(p) ==
  /\ enabled
  /\ stabilize /\ numSamples = HistoryLength
  /\ out' = QAdd(yHistory[0], p.x)
  /\ UNCHANGED <<xHistory, yHistory, head, main, tail, numSamples,
                 sampleIx, enabled, stabilize, history>>

\* interpolate(x, y) taking the sample: the whole of lines 101-180.
InterpolateSample(p) ==
  /\ enabled
  /\ ~(stabilize /\ numSamples = HistoryLength)
  /\ Len(history) < MaxHistory
  /\ LET aged  == AgeWindow
         xh    == [xHistory EXCEPT ![sampleIx] = p.x]
         yh    == [yHistory EXCEPT ![sampleIx] = p.y]
         n     == IF numSamples < HistoryLength THEN numSamples + 1
                  ELSE numSamples
         hd    == RecomputeHead(xh, yh, n)
         total == FitCombine(FitCombine(FitCombine(FitReset, hd),
                                        aged.main), aged.tail)
         est   == FitInterpolate(total, p.x)
     IN  /\ head' = hd /\ main' = aged.main /\ tail' = aged.tail
         /\ xHistory' = xh
         /\ numSamples' = n
         /\ sampleIx' = NextSampleIx
         /\ IF stabilize /\ n = HistoryLength
            THEN /\ yHistory' = [yh EXCEPT ![0] = QSub(est, p.x)]
                 /\ out' = QAdd(yHistory'[0], p.x)
            ELSE /\ yHistory' = yh
                 /\ out' = est
  /\ history' = <<p>> \o history
  /\ UNCHANGED <<enabled, stabilize>>

(***************************************************************************)
(* The constructor: reset() on buffers resized without initialisation, so *)
(* each slot holds some value the caller could have passed.               *)
(***************************************************************************)
Init ==
  /\ \E garbage \in [Slots -> Points] :
        /\ xHistory = [i \in Slots |-> garbage[i].x]
        /\ yHistory = [i \in Slots |-> garbage[i].y]
  /\ head = FitReset /\ main = FitReset /\ tail = FitReset
  /\ numSamples = 0
  /\ sampleIx = HistoryLength - 1
  /\ enabled \in BOOLEAN
  /\ stabilize \in BOOLEAN
  /\ out = NoValue
  /\ history = << >>

Next ==
  \/ Reset
  \/ \E p \in Points :
       \/ InterpolateDisabled(p)
       \/ InterpolateStabilized(p)
       \/ InterpolateSample(p)

Spec == Init /\ [][Next]_vars

(***************************************************************************)
(* Properties.                                                             *)
(***************************************************************************)
Rat == [n : Int, d : Int \ {0}]
FitType == [{"w", "x", "y", "xx", "xy", "yy"} -> Rat]

TypeOK ==
  /\ xHistory \in [Slots -> Rat] /\ yHistory \in [Slots -> Rat]
  /\ {head, main, tail} \subseteq FitType
  /\ numSamples \in 0 .. HistoryLength
  /\ sampleIx \in Slots
  /\ enabled \in BOOLEAN /\ stabilize \in BOOLEAN
  /\ out \in Rat \cup {NoValue}
  /\ history \in Seq(Points)

\* The interpolator with its ring buffer mapped to the samples it took.
WF == INSTANCE WindowedFit
        WITH window <- history,
             offset <- IF stabilize /\ numSamples = HistoryLength
                       THEN yHistory[0] ELSE QZero

\* The sums of the samples of `history` whose age is in lo .. hi-1, each
\* with the weight the tapering window gives that age.
WindowSums(lo, hi) ==
  LET ages == {a \in lo .. hi - 1 : a < Len(history)}
      RECURSIVE AddAges(_, _)
      AddAges(lf, A) ==
        IF A = {} THEN lf
        ELSE LET a == CHOOSE b \in A : TRUE
             IN  AddAges(FitAdd(lf, history[a + 1].x, history[a + 1].y,
                                WF!WindowWeight(a)), A \ {a})
  IN  AddAges(FitReset, ages)

\* Weight partition (spec 4.1): after every call, mHead holds exactly the
\* newest headLength samples taken since reset() with their head weights,
\* mMain the next mainLength with weight 1, and mTail every older sample
\* with its decayed weight -- no slot counted twice, none missing, nothing
\* from before the reset, however the write index has wrapped around.
AccumulatorsMatchWindow ==
  /\ head = WindowSums(0, HeadLength)
  /\ main = WindowSums(HeadLength, HistoryLength)
  /\ tail = WindowSums(HistoryLength, MaxHistory + 1)

\* Every value interpolate() returns is the weighted least-squares
\* estimate over the tapering window of the samples since reset(), the
\* raw y when disabled, and the frozen offset plus x once stabilized.
WindowedFitRefinement == WF!Spec
=============================================================================
