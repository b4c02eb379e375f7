------------------------------- MODULE MC_Sse -------------------------------
(***************************************************************************)
(* Calls for SseResampler at MCH = 4 (int16 lanes of 4 bits, int32 lanes of *)
(* 8, int64 lanes of 16).                                                  *)
(*                                                                         *)
(* Helpers: MM_MUL_EPI32 and adjvol over every 8-bit value against the    *)
(* edge values of the range in lane 0 (lane 2 holds INT_MIN against       *)
(* INT_MIN or INT_MAX), and                                                *)
(* interp16 over every pair of 4-bit coefficients and every Q3 lerp, the  *)
(* other lanes shifted copies.  interp32 over the values at and next to   *)
(* 0, +-1/2 and the ends of the range, with lerp 0, 1/128, 1/2 and 127/128.  *)
(*                                                                         *)
(* Kernels: every tap of every side holds, in turn, the only non-zero      *)
(* coefficient, at both ends of the range, so the output names the sample *)
(* the kernel paired it with; two sample patterns (the offset, and the    *)
(* offset / 4) tell any two offsets apart.  Dense coefficient arrays make *)
(* the accumulator wrap.  Counts run the loop once and twice.              *)
(*                                                                         *)
(* The calls are built with the operators of an instance at H = MCH and   *)
(* handed to the model by INSTANCE ... WITH rather than through the .cfg, *)
(* so that TLC enumerates the set instead of normalising it as a constant.*)
(***************************************************************************)
EXTENDS Integers

VARIABLES call, result

MCH == 4

\* The operators of the model at MCH = MCH, for building the calls.
Sse == INSTANCE SseResampler WITH H <- MCH, Calls <- {}

MCByte == 0 .. 2 ^ Sse!W - 1

\* A vector with lane 0 = x and lane 2 = y, lanes 1 and 3 set.
MCVec(x, y) == [i \in Sse!Lanes |-> << x, 85, y, 170 >>[i + 1]]

\* The int32 values at and next to 0, +-1/2 and the ends of the range.
MCValues32 == {-128, -127, -65, -64, -63, -2, -1, 0, 1, 2, 63, 64, 65, 126, 127}
MCEdges == {Sse!U(v, Sse!W) : v \in MCValues32}

MCMulCalls ==
  {[fn |-> "MM_MUL_EPI32", a |-> MCVec(x, 2 ^ (Sse!W - 1)), b |-> MCVec(y, z)] :
     x \in MCByte, y \in MCEdges, z \in {2 ^ (Sse!W - 1), 2 ^ (Sse!W - 1) - 1}}

MCAdjvolCalls ==
  {[fn |-> "adjvol", accum |-> MCVec(x, 2 ^ (Sse!W - 1)),
    volumeLR |-> << Sse!S(v, Sse!W), r >>, out |-> << 0, 3 >>] :
     x \in MCByte, v \in MCEdges, r \in {-(2 ^ (Sse!W - 1)), 2 ^ (Sse!W - 1) - 1}}

MCNibble == 0 .. 2 ^ MCH - 1

MCInterp16Calls ==
  {[fn |-> "interp16",
    coefs0 |-> Sse!P16([j \in 0 .. 7 |-> Sse!U(x + 5 * j, MCH)]),
    coefs1 |-> Sse!P16([j \in 0 .. 7 |-> Sse!U(y + 3 * j, MCH)]),
    lerp |-> Sse!MmSet1x16(l), lerpP |-> l] :
     x \in MCNibble, y \in MCNibble, l \in 0 .. 2 ^ (MCH - 1) - 1}

MCInterp32Calls ==
  {[fn |-> "interp32",
    coefs0 |-> [i \in Sse!Lanes |-> Sse!U(x + 37 * i, Sse!W)],
    coefs1 |-> [i \in Sse!Lanes |-> Sse!U(y - 11 * i, Sse!W)],
    lerp |-> Sse!MmSet1x32(l), lerpP |-> l] :
     x \in MCValues32, y \in MCValues32, l \in {0, 1, 64, 127}}

(***************************************************************************)
(* Kernel calls.                                                           *)
(***************************************************************************)

MCTaps == 0 .. 15

\* The samples around sP and from sN on, in pattern p.
MCSamples(p, lo, hi) ==
  [o \in lo .. hi |-> IF p = 0 THEN Sse!Wrap(o, MCH) ELSE Sse!Wrap(o \div 4, MCH)]

MCOneHot(t, v) == [i \in MCTaps |-> IF i = t THEN v ELSE 0]
MCNone == [i \in MCTaps |-> 0]
\* Coefficients growing with the tap, wrapped to the coefficient width w.
MCDense(v, w) == [i \in MCTaps |-> Sse!Wrap(v * (i + 1), w)]

\* Coefficient arrays: one non-zero tap in one of them, or all dense.
MCCoefSets(interp, vals, dense, w) ==
  LET arrays == IF interp THEN {"P", "N", "P1", "N1"} ELSE {"P", "N"}
      one(a, t, v) == [coefsP  |-> IF a = "P" THEN MCOneHot(t, v) ELSE MCNone,
                       coefsN  |-> IF a = "N" THEN MCOneHot(t, v) ELSE MCNone,
                       coefsP1 |-> IF a = "P1" THEN MCOneHot(t, v) ELSE MCNone,
                       coefsN1 |-> IF a = "N1" THEN MCOneHot(t, v) ELSE MCNone]
  IN  {one(a, t, v) : a \in arrays, t \in MCTaps, v \in vals}
      \cup {[coefsP |-> MCDense(dense, w), coefsN |-> MCDense(-dense, w),
             coefsP1 |-> MCDense(1, w), coefsN1 |-> MCDense(2, w)]}

MCIntKernels ==
  {[f |-> "ProcessL1Q15", counts |-> {8, 16}], [f |-> "ProcessL2Q15", counts |-> {8, 16}],
   [f |-> "Process1Q15", counts |-> {8, 16}], [f |-> "Process2Q15", counts |-> {8, 16}],
   [f |-> "ProcessL1Q31", counts |-> {8, 16}], [f |-> "ProcessL2Q31", counts |-> {4, 8}],
   [f |-> "Process1Q31", counts |-> {8, 16}], [f |-> "Process2Q31", counts |-> {4, 8}]}

MCIntCalls ==
  UNION {
    LET shape == Sse!KernelShape[k.f]
        \* the ends of the range; the interpolated ones differ from the
        \* zero of the other phase by a value the type holds
        bits == IF shape.kind = "q15" THEN MCH ELSE Sse!W
        vals == {IF shape.interpolates THEN 1 - 2 ^ (bits - 1) ELSE -(2 ^ (bits - 1)),
                 2 ^ (bits - 1) - 1}
        lerps == IF ~shape.interpolates THEN {0}
                 ELSE IF shape.kind = "q15" THEN {0, 3, 2 ^ (MCH - 1) - 1}
                 ELSE {0, 37, 2 ^ (Sse!W - 1) - 1}
    IN  {[fn |-> k.f, count |-> n, sP |-> MCSamples(p, -32, 1),
          sN |-> MCSamples(p, 0, 33), lerpP |-> l,
          volumeLR |-> vol, out |-> << 0, 0 >>,
          coefsP |-> cs.coefsP, coefsN |-> cs.coefsN,
          coefsP1 |-> cs.coefsP1, coefsN1 |-> cs.coefsN1] :
           n \in k.counts, p \in {0, 1}, l \in lerps,
           vol \in {<< -(2 ^ (Sse!W - 1)), 2 ^ (Sse!W - 1) - 1 >>,
                    << 2 ^ (Sse!W - 1) - 1, -(2 ^ (Sse!W - 1)) >>},
           cs \in MCCoefSets(shape.interpolates, vals, 3,
                             IF shape.kind = "q15" THEN MCH ELSE Sse!W)}
    : k \in MCIntKernels}

\* Float kernels: lanes of exact rationals.
MCQ(f) == [i \in DOMAIN f |-> Sse!QInt(f[i])]

MCFloatCalls ==
  UNION {
    LET shape == Sse!KernelShape[f]
        lerps == IF shape.interpolates THEN {Sse!QZero, Sse!Q(1, 4), Sse!Q(3, 4)} ELSE {Sse!QZero}
    IN  {[fn |-> f, count |-> n, sP |-> MCQ(MCSamples(p, -32, 1)),
          sN |-> MCQ(MCSamples(p, 0, 33)), lerpP |-> l,
          volumeLR |-> << Sse!QInt(-1), Sse!QInt(2) >>, out |-> << Sse!QZero, Sse!QZero >>,
          coefsP |-> MCQ(cs.coefsP), coefsN |-> MCQ(cs.coefsN),
          coefsP1 |-> MCQ(cs.coefsP1), coefsN1 |-> MCQ(cs.coefsN1)] :
           n \in {4, 8}, p \in {0, 1}, l \in lerps,
           cs \in MCCoefSets(shape.interpolates, {-3, 5}, 3, Sse!W)}
    : f \in {"ProcessL1F", "ProcessL2F", "Process1F", "Process2F"}}

MCCalls ==
  MCMulCalls \cup MCAdjvolCalls \cup MCInterp16Calls \cup MCInterp32Calls
  \cup MCIntCalls \cup MCFloatCalls
\* The model checked: SseResampler at MCH = MCH making the calls MCCalls.
INSTANCE SseResampler WITH H <- MCH, Calls <- MCCalls
=============================================================================
