---------------------------- MODULE SseResampler ----------------------------
(***************************************************************************)
(* The SSE specialisations of the polyphase FIR kernels,                   *)
(* services/audioflinger/AudioResamplerFirProcessSse.h.                    *)
(*                                                                         *)
(* An __m128i is four 32-bit lanes, each an unsigned bit pattern; its      *)
(* 16-bit and 64-bit views are derived from them, little-endian, as the   *)
(* hardware lays them out.  Widths are scaled: a 16-bit lane has H bits,  *)
(* a 32-bit lane W = 2H and a 64-bit lane D = 4H, and every constant of   *)
(* the code is written in terms of them (0x8000 = 2^(H-1), 0x40000000 =   *)
(* 2^(W-2), 0x80000000 = 2^(W-1), the shift by 31 is W-1).  An __m128 is *)
(* four lanes of exact numbers: the float kernels are checked for their   *)
(* lane and pointer arithmetic, not for rounding.                          *)
(***************************************************************************)
EXTENDS Integers, Sequences, SequencesExt, Bitwise, QArith

CONSTANT H   \* the width of a 16-bit lane

ASSUME H \in Nat /\ H >= 3

W == 2 * H
D == 4 * H

Lanes == 0 .. 3

\* The n-bit pattern of x, and the signed value of an n-bit pattern.
U(x, n) == x % (2 ^ n)
S(x, n) == IF x >= 2 ^ (n - 1) THEN x - 2 ^ n ELSE x
\* Two's-complement wrap-around of an n-bit signed integer.
Wrap(x, n) == S(U(x, n), n)

\* The vector of lanes f[0] .. f[3], each computed once: a register holds
\* values, not the expressions that produced them.
Vec(f) == LET t == << f[0], f[1], f[2], f[3] >> IN [i \in Lanes |-> t[i + 1]]

\* The 16-bit and 64-bit views of a vector, and back.
E16(v) ==
  LET half(j) == (v[j \div 2] \div 2 ^ (H * (j % 2))) % 2 ^ H
      t == << half(0), half(1), half(2), half(3), half(4), half(5), half(6), half(7) >>
  IN  [j \in 0 .. 7 |-> t[j + 1]]
P16(u) == Vec([i \in Lanes |-> u[2 * i] + u[2 * i + 1] * 2 ^ H])
E64(v) ==
  LET t == << v[0] + v[1] * 2 ^ W, v[2] + v[3] * 2 ^ W >> IN [k \in 0 .. 1 |-> t[k + 1]]
P64(q) == Vec([i \in Lanes |-> IF i % 2 = 0 THEN q[i \div 2] % 2 ^ W
                                  ELSE q[i \div 2] \div 2 ^ W])

(***************************************************************************)
(* The intrinsics the kernels use, on bit patterns.                        *)
(***************************************************************************)

Zero == [i \in Lanes |-> 0]
\* _mm_set_epi32(e3, e2, e1, e0) and _mm_set1_epi32 of signed values.
MmSet32(e3, e2, e1, e0) == [i \in Lanes |-> U(<< e0, e1, e2, e3 >>[i + 1], W)]
MmSet1x32(x) == [i \in Lanes |-> U(x, W)]
MmSet1x16(x) == P16([j \in 0 .. 7 |-> U(x, H)])
MmSet64x(e1, e0) == P64([k \in 0 .. 1 |-> U(<< e0, e1 >>[k + 1], D)])

Lanewise(op(_, _), a, b) == Vec([i \in Lanes |-> op(a[i], b[i])])
MmXor(a, b) == Lanewise(LAMBDA x, y : x ^^ y, a, b)
MmAnd(a, b) == Lanewise(LAMBDA x, y : x & y, a, b)
MmAndNot(a, b) == Lanewise(LAMBDA x, y : y - (x & y), a, b)
MmOr(a, b) == Lanewise(LAMBDA x, y : x + y - (x & y), a, b)

MmAdd32(a, b) == Lanewise(LAMBDA x, y : U(x + y, W), a, b)
MmSub32(a, b) == Lanewise(LAMBDA x, y : U(x - y, W), a, b)
MmAdd16(a, b) == P16([j \in 0 .. 7 |-> U(E16(a)[j] + E16(b)[j], H)])
MmSub16(a, b) == P16([j \in 0 .. 7 |-> U(E16(a)[j] - E16(b)[j], H)])
MmAdd64(a, b) == P64([k \in 0 .. 1 |-> U(E64(a)[k] + E64(b)[k], D)])
MmSub64(a, b) == P64([k \in 0 .. 1 |-> U(E64(a)[k] - E64(b)[k], D)])
MmSlli64By1(a) == P64([k \in 0 .. 1 |-> U(E64(a)[k] * 2, D)])
\* _mm_srai_epi32(a, 31): every bit a copy of the sign bit.
MmSraiSign32(a) == Vec([i \in Lanes |-> IF a[i] >= 2 ^ (W - 1) THEN 2 ^ W - 1 ELSE 0])
MmAbs32(a) == Vec([i \in Lanes |-> U(IF S(a[i], W) < 0 THEN -S(a[i], W) ELSE a[i], W)])

MmCmpeq32(a, b) == Lanewise(LAMBDA x, y : IF x = y THEN 2 ^ W - 1 ELSE 0, a, b)
MmCmpeq16(a, b) ==
  P16([j \in 0 .. 7 |-> IF E16(a)[j] = E16(b)[j] THEN 2 ^ H - 1 ELSE 0])

\* _mm_mul_epu32: lanes 0 and 2, unsigned, into 64-bit lanes.
MmMulEpu32(a, b) == P64([k \in 0 .. 1 |-> a[2 * k] * b[2 * k]])
MmMulhi16(a, b) ==
  P16([j \in 0 .. 7 |-> U((S(E16(a)[j], H) * S(E16(b)[j], H)) \div 2 ^ H, H)])
MmMullo16(a, b) ==
  P16([j \in 0 .. 7 |-> U(S(E16(a)[j], H) * S(E16(b)[j], H), H)])
\* _mm_mulhrs_epi16: ((a * b >> 14) + 1) >> 1, low 16 bits.
MmMulhrs16(a, b) ==
  P16([j \in 0 .. 7 |->
         U(((S(E16(a)[j], H) * S(E16(b)[j], H)) \div 2 ^ (H - 2) + 1) \div 2, H)])

MmUnpacklo16(a, b) ==
  P16([j \in 0 .. 7 |-> IF j % 2 = 0 THEN E16(a)[j \div 2] ELSE E16(b)[j \div 2]])
MmUnpackhi16(a, b) ==
  P16([j \in 0 .. 7 |-> IF j % 2 = 0 THEN E16(a)[4 + j \div 2]
                         ELSE E16(b)[4 + j \div 2]])
\* _mm_unpacklo/hi_epi32 and _ps: the same selections on any lane type.
MmUnpacklo32(a, b) == Vec([i \in Lanes |-> IF i % 2 = 0 THEN a[i \div 2] ELSE b[i \div 2]])
MmUnpackhi32(a, b) ==
  Vec([i \in Lanes |-> IF i % 2 = 0 THEN a[2 + i \div 2] ELSE b[2 + i \div 2]])
\* _mm_shuffle_epi32(a, _MM_SHUFFLE(z, y, x, w)).
MmShuffle32(a, z, y, x, w) == Vec([i \in Lanes |-> a[<< w, x, y, z >>[i + 1]]])
\* _mm_shuffle_ps(a, b, imm): two lanes of a, then two of b.
MmShufflePs(a, b, imm) ==
  Vec([i \in Lanes |-> (IF i < 2 THEN a ELSE b)[(imm \div 4 ^ i) % 4]])
MmHadd32(a, b) ==
  Vec([i \in Lanes |-> LET v == IF i < 2 THEN a ELSE b
                      IN  U(v[2 * (i % 2)] + v[2 * (i % 2) + 1], W)])
\* _mm_shuffle_epi8 with the mask 1,0,3,2,...,15,14 of the kernels: it
\* reverses the order of the eight 16-bit lanes.
MmReverse16(a) == P16([j \in 0 .. 7 |-> E16(a)[7 - j]])
\* _mm_loadr_ps: four 32-bit lanes loaded in reverse order.
MmReverse32(a) == Vec([i \in Lanes |-> a[3 - i]])

\* _mm_add_ps, _mm_mul_ps, _mm_hadd_ps on exact lanes.
MmAddPs(a, b) == Lanewise(QAdd, a, b)
MmMulPs(a, b) == Lanewise(QMul, a, b)
MmHaddPs(a, b) ==
  Vec([i \in Lanes |-> LET v == IF i < 2 THEN a ELSE b
                      IN  QAdd(v[2 * (i % 2)], v[2 * (i % 2) + 1])])

(***************************************************************************)
(* The helpers of lines 41-196.                                            *)
(***************************************************************************)

\* MM_EXTRACT_EPI32 and MM_EXTRACT_PS without SSE4.1, lines 41-53: lane
\* imm8 stored to memory and read back as an int32 (or the float's bits).
MM_EXTRACT_EPI32(a, imm8) == S(a[imm8], W)
MM_EXTRACT_PS(a, imm8) == a[imm8]

\* _mm_mul_epi32 of SSE4.1: the signed products of lanes 0 and 2.
MulEpi32Native(a, b) ==
  P64([k \in 0 .. 1 |-> U(S(a[2 * k], W) * S(b[2 * k], W), D)])

\* Mutant of MM_MUL_EPI32: the sign mask spread from lanes 1 and 3.
MM_MUL_EPI32OddSign(a, b) ==
  LET sign == MmShuffle32(MmSraiSign32(MmXor(a, b)), 3, 3, 1, 1)
      mul_us == MmMulEpu32(MmAbs32(a), MmAbs32(b))
  IN  MmOr(MmAndNot(sign, mul_us), MmAnd(sign, MmSub64(Zero, mul_us)))

\* MM_MUL_EPI32 without SSE4.1, lines 55-72: the unsigned product of the
\* absolute values, negated where the operands' signs differ.
MM_MUL_EPI32(a, b) ==
  LET sign == MmShuffle32(MmSraiSign32(MmXor(a, b)), 2, 2, 0, 0)
      mul_us == MmMulEpu32(MmAbs32(a), MmAbs32(b))
  IN  MmOr(MmAndNot(sign, mul_us), MmAnd(sign, MmSub64(Zero, mul_us)))

\* Mutant of rnd_dbl_sta_64_32: no saturation fix-up.
rnd_dbl_sta_64_32Unsaturated(a) ==
  MmSlli64By1(MmAdd64(a, MmSet64x(2 ^ (W - 2), 2 ^ (W - 2))))

\* rnd_dbl_sta_64_32, lines 75-85: add 0x40000000 to each 64-bit lane,
\* double it, and turn a high half of 0x80000000 into 0x7fffffff.
rnd_dbl_sta_64_32(a) ==
  LET a1 == MmSlli64By1(MmAdd64(a, MmSet64x(2 ^ (W - 2), 2 ^ (W - 2))))
  IN  MmXor(a1, MmCmpeq32(a1, MmSet1x32(2 ^ (W - 1))))

\* adjvol, lines 87-96: out gains the Q31 product of the accumulator's
\* lanes 0 and 2 with the left and right volume.  out and volumeLR are
\* signed; out wraps as the int32 it is.
adjvol(accum, volumeLR, out) ==
  LET vrl == rnd_dbl_sta_64_32(
               MM_MUL_EPI32(accum, MmSet32(0, volumeLR[2], 0, volumeLR[1])))
  IN  << Wrap(out[1] + MM_EXTRACT_EPI32(vrl, 1), W),
         Wrap(out[2] + MM_EXTRACT_EPI32(vrl, 3), W) >>

\* adjvolf, lines 98-110: lanes 1 and 3 of accum * (0, vL, 0, vR).
adjvolf(accum, volumeLR, out) ==
  LET vrl == MmMulPs(accum, [i \in Lanes |-> IF i = 1 THEN volumeLR[1]
                                              ELSE IF i = 3 THEN volumeLR[2]
                                              ELSE QZero])
  IN  << QAdd(out[1], MM_EXTRACT_PS(vrl, 1)), QAdd(out[2], MM_EXTRACT_PS(vrl, 3)) >>

\* mul_add_16, lines 112-123: the 32-bit products of eight 16-bit lanes,
\* lanes j and j + 4 added into 32-bit lane j.
mul_add_16(acc, a, b) ==
  LET hi == MmMulhi16(a, b)
      lo == MmMullo16(a, b)
  IN  MmAdd32(MmAdd32(acc, MmUnpacklo16(lo, hi)), MmUnpackhi16(lo, hi))

\* The products of a's four 32-bit lanes with the 16-bit lanes t holds in
\* its high halves, high 32 bits of each, in the lane order 0 2 1 3.
MulHigh32(a, t) ==
  MmShufflePs(MM_MUL_EPI32(a, t),
              MM_MUL_EPI32(MmShuffle32(a, 2, 3, 0, 1), MmShuffle32(t, 2, 3, 0, 1)),
              221)

\* mul_add_32, lines 125-150: a pairs with b's lanes 0-3, a1 with 4-7.
mul_add_32(acc, a, a1, b) ==
  MmAdd32(acc, MmAdd32(MulHigh32(a, MmUnpacklo16(Zero, b)),
                       MulHigh32(a1, MmUnpackhi16(Zero, b))))

\* interp16, lines 152-163.  The mask is _mm_set1_epi32(0x8000): in its
\* 16-bit view the even lanes hold 0x8000 and the odd lanes 0.
interp16(coefs0, coefs1, lerp) ==
  LET t == MmMulhrs16(MmSub16(coefs1, coefs0), lerp)
  IN  MmAdd16(MmXor(t, MmCmpeq16(t, MmSet1x32(2 ^ (H - 1)))), coefs0)

\* Mutant of interp32: the high halves left in the order 0 2 1 3.
interp32Unordered(coefs0, coefs1, lerp) ==
  LET t == MmSub32(coefs1, coefs0)
      rnd(m) == MmSlli64By1(MmAdd64(m, MmSet64x(2 ^ (W - 2), 2 ^ (W - 2))))
      hi == MmShufflePs(rnd(MM_MUL_EPI32(t, lerp)),
                        rnd(MM_MUL_EPI32(MmShuffle32(t, 2, 3, 0, 1), lerp)), 221)
  IN  MmAdd32(MmXor(hi, MmCmpeq32(hi, MmSet1x32(2 ^ (W - 1)))), coefs0)

\* interp32, lines 165-188.
interp32(coefs0, coefs1, lerp) ==
  LET t == MmSub32(coefs1, coefs0)
      rnd(m) == MmSlli64By1(MmAdd64(m, MmSet64x(2 ^ (W - 2), 2 ^ (W - 2))))
      hi == MmShuffle32(MmShufflePs(rnd(MM_MUL_EPI32(t, lerp)),
                                    rnd(MM_MUL_EPI32(MmShuffle32(t, 2, 3, 0, 1), lerp)),
                                    221), 3, 1, 2, 0)
  IN  MmAdd32(MmXor(hi, MmCmpeq32(hi, MmSet1x32(2 ^ (W - 1)))), coefs0)

\* interpf, lines 190-196.
interpf(coefs0, coefs1, lerp) ==
  [i \in Lanes |-> QAdd(QMul(QSub(coefs1[i], coefs0[i]), lerp[i]), coefs0[i])]

(***************************************************************************)
(* The kernels, lines 198-805.  A call is a record: the samples around sP *)
(* and from sN on (functions of the offset from the pointer), the         *)
(* coefficient arrays coefsP, coefsN, coefsP1, coefsN1 (functions of the  *)
(* index), count, lerpP, volumeLR and out as << left, right >>.  A loop   *)
(* iteration is a function of its number k; FoldLeft runs the loop.       *)
(***************************************************************************)

\* The loop `for (; count > 0; count -= step)`.
Iterations(count, step) == [i \in 1 .. (count + step - 1) \div step |-> i - 1]

\* _mm_loadu_si128 of eight int16, _mm_load_si128 of four int32, and the
\* four-lane float loads.
Load16(mem, p) == P16([j \in 0 .. 7 |-> U(mem[p + j], H)])
Load32(mem, p) == [i \in Lanes |-> U(mem[p + i], W)]
LoadPs(mem, p) == [i \in Lanes |-> mem[p + i]]

\* The end of the stereo kernels: R1 L1 R0 L0 -> R1 R0 L1 L0, summed.
StereoSum(acc) ==
  LET a == MmHadd32(MmShuffle32(acc, 3, 1, 2, 0), MmShuffle32(acc, 3, 1, 2, 0))
  IN  MmUnpacklo32(a, a)
MonoSum(acc) == MmHadd32(MmHadd32(acc, acc), MmHadd32(acc, acc))

\* ProcessL<1, 16>, int16 coefficients, lines 198-236.
ProcessL1Q15(c) ==
  LET body(acc, k) ==
        LET a == mul_add_16(acc, Load16(c.sP, -7 - 8 * k),
                            MmReverse16(Load16(c.coefsP, 8 * k)))
        IN  mul_add_16(a, Load16(c.sN, 8 * k), Load16(c.coefsN, 8 * k))
  IN  adjvol(MonoSum(FoldLeft(body, Zero, Iterations(c.count, 8))), c.volumeLR, c.out)

\* ProcessL<2, 16>, int16 coefficients, lines 238-286.
ProcessL2Q15(c) ==
  LET body(acc, k) ==
        LET cp == MmReverse16(Load16(c.coefsP, 8 * k))
            cn == Load16(c.coefsN, 8 * k)
            a1 == mul_add_16(acc, Load16(c.sP, -14 - 16 * k + 8), MmUnpackhi16(cp, cp))
            a2 == mul_add_16(a1, Load16(c.sP, -14 - 16 * k), MmUnpacklo16(cp, cp))
            a3 == mul_add_16(a2, Load16(c.sN, 16 * k), MmUnpacklo16(cn, cn))
        IN  mul_add_16(a3, Load16(c.sN, 16 * k + 8), MmUnpackhi16(cn, cn))
  IN  adjvol(StereoSum(FoldLeft(body, Zero, Iterations(c.count, 8))), c.volumeLR, c.out)

\* Process<1, 16>, int16 coefficients, lines 288-336.
Process1Q15(c) ==
  LET lerp16 == MmSet1x16(c.lerpP)
      body(acc, k) ==
        LET cp == interp16(MmReverse16(Load16(c.coefsP, 8 * k)),
                           MmReverse16(Load16(c.coefsP1, 8 * k)), lerp16)
            cn == interp16(Load16(c.coefsN1, 8 * k), Load16(c.coefsN, 8 * k), lerp16)
        IN  mul_add_16(mul_add_16(acc, Load16(c.sP, -7 - 8 * k), cp),
                       Load16(c.sN, 8 * k), cn)
  IN  adjvol(MonoSum(FoldLeft(body, Zero, Iterations(c.count, 8))), c.volumeLR, c.out)

\* Process<2, 16>, int16 coefficients, lines 338-396.
Process2Q15(c) ==
  LET lerp16 == MmSet1x16(c.lerpP)
      body(acc, k) ==
        LET cp == interp16(MmReverse16(Load16(c.coefsP, 8 * k)),
                           MmReverse16(Load16(c.coefsP1, 8 * k)), lerp16)
            cn == interp16(Load16(c.coefsN1, 8 * k), Load16(c.coefsN, 8 * k), lerp16)
            a1 == mul_add_16(acc, Load16(c.sP, -14 - 16 * k + 8), MmUnpackhi16(cp, cp))
            a2 == mul_add_16(a1, Load16(c.sP, -14 - 16 * k), MmUnpacklo16(cp, cp))
            a3 == mul_add_16(a2, Load16(c.sN, 16 * k), MmUnpacklo16(cn, cn))
        IN  mul_add_16(a3, Load16(c.sN, 16 * k + 8), MmUnpackhi16(cn, cn))
  IN  adjvol(StereoSum(FoldLeft(body, Zero, Iterations(c.count, 8))), c.volumeLR, c.out)

\* ProcessL<1, 16>, int32 coefficients, lines 398-438.
ProcessL1Q31(c) ==
  LET body(acc, k) ==
        LET a == mul_add_32(acc, MmReverse32(Load32(c.coefsP, 8 * k + 4)),
                            MmReverse32(Load32(c.coefsP, 8 * k)),
                            Load16(c.sP, -7 - 8 * k))
        IN  mul_add_32(a, Load32(c.coefsN, 8 * k), Load32(c.coefsN, 8 * k + 4),
                       Load16(c.sN, 8 * k))
  IN  adjvol(MonoSum(FoldLeft(body, Zero, Iterations(c.count, 8))), c.volumeLR, c.out)

\* Mutant of ProcessL2Q31: sP moved back as in the int16 kernel, without
\* the "- 8" of line 451.
ProcessL2Q31SameOffset(c) ==
  LET body(acc, k) ==
        LET cp == MmReverse32(Load32(c.coefsP, 4 * k))
            cn == Load32(c.coefsN, 4 * k)
            a == mul_add_32(acc, MmUnpacklo32(cp, cp), MmUnpackhi32(cp, cp),
                            Load16(c.sP, -14 - 8 * k))
        IN  mul_add_32(a, MmUnpacklo32(cn, cn), MmUnpackhi32(cn, cn),
                       Load16(c.sN, 8 * k))
      acc == FoldLeft(body, Zero, Iterations(c.count, 4))
  IN  adjvol(MmUnpacklo32(MmHadd32(acc, acc), MmHadd32(acc, acc)), c.volumeLR, c.out)

\* ProcessL<2, 16>, int32 coefficients, lines 440-483: four taps a turn,
\* sP starting 8 samples further on; mul_add_32 leaves the lanes in the
\* order L R L R, so no shuffle is needed before the sum.
ProcessL2Q31(c) ==
  LET body(acc, k) ==
        LET cp == MmReverse32(Load32(c.coefsP, 4 * k))
            cn == Load32(c.coefsN, 4 * k)
            a == mul_add_32(acc, MmUnpacklo32(cp, cp), MmUnpackhi32(cp, cp),
                            Load16(c.sP, -6 - 8 * k))
        IN  mul_add_32(a, MmUnpacklo32(cn, cn), MmUnpackhi32(cn, cn),
                       Load16(c.sN, 8 * k))
      acc == FoldLeft(body, Zero, Iterations(c.count, 4))
  IN  adjvol(MmUnpacklo32(MmHadd32(acc, acc), MmHadd32(acc, acc)), c.volumeLR, c.out)

\* Process<1, 16>, int32 coefficients, lines 485-540.
Process1Q31(c) ==
  LET lerp32 == MmSet1x32(c.lerpP)
      ip(m1, m2, p) == interp32(MmReverse32(Load32(m1, p)), MmReverse32(Load32(m2, p)), lerp32)
      in(m1, m2, p) == interp32(Load32(m1, p), Load32(m2, p), lerp32)
      body(acc, k) ==
        LET a == mul_add_32(acc, ip(c.coefsP, c.coefsP1, 8 * k + 4),
                            ip(c.coefsP, c.coefsP1, 8 * k), Load16(c.sP, -7 - 8 * k))
        IN  mul_add_32(a, in(c.coefsN1, c.coefsN, 8 * k),
                       in(c.coefsN1, c.coefsN, 8 * k + 4), Load16(c.sN, 8 * k))
  IN  adjvol(MonoSum(FoldLeft(body, Zero, Iterations(c.count, 8))), c.volumeLR, c.out)

\* Process<2, 16>, int32 coefficients, lines 542-597.
Process2Q31(c) ==
  LET lerp32 == MmSet1x32(c.lerpP)
      body(acc, k) ==
        LET cp == interp32(MmReverse32(Load32(c.coefsP, 4 * k)),
                           MmReverse32(Load32(c.coefsP1, 4 * k)), lerp32)
            cn == interp32(Load32(c.coefsN1, 4 * k), Load32(c.coefsN, 4 * k), lerp32)
            a == mul_add_32(acc, MmUnpacklo32(cp, cp), MmUnpackhi32(cp, cp),
                            Load16(c.sP, -6 - 8 * k))
        IN  mul_add_32(a, MmUnpacklo32(cn, cn), MmUnpackhi32(cn, cn),
                       Load16(c.sN, 8 * k))
      acc == FoldLeft(body, Zero, Iterations(c.count, 4))
  IN  adjvol(MmUnpacklo32(MmHadd32(acc, acc), MmHadd32(acc, acc)), c.volumeLR, c.out)

\* The float kernels' sums.
MonoSumPs(acc) == MmHaddPs(MmHaddPs(acc, acc), MmHaddPs(acc, acc))
StereoSumPs(acc) ==
  LET a == MmHaddPs(MmShuffle32(acc, 3, 1, 2, 0), MmShuffle32(acc, 3, 1, 2, 0))
  IN  MmUnpacklo32(a, a)

\* s * coefs added to acc, the two steps of the float loops.
MacPs(acc, s, coefs) == MmAddPs(acc, MmMulPs(s, coefs))

ZeroPs == [i \in Lanes |-> QZero]

\* ProcessL<1, 16>, float, lines 599-638.
ProcessL1F(c) ==
  LET body(acc, k) ==
        MacPs(MacPs(acc, LoadPs(c.sP, -3 - 4 * k), MmReverse32(LoadPs(c.coefsP, 4 * k))),
              LoadPs(c.sN, 4 * k), LoadPs(c.coefsN, 4 * k))
  IN  adjvolf(MonoSumPs(FoldLeft(body, ZeroPs, Iterations(c.count, 4))), c.volumeLR, c.out)

\* ProcessL<2, 16>, float, lines 640-691.
ProcessL2F(c) ==
  LET body(acc, k) ==
        LET cp == MmReverse32(LoadPs(c.coefsP, 4 * k))
            cn == LoadPs(c.coefsN, 4 * k)
            a == MacPs(MacPs(acc, LoadPs(c.sP, -6 - 8 * k + 4), MmUnpackhi32(cp, cp)),
                       LoadPs(c.sP, -6 - 8 * k), MmUnpacklo32(cp, cp))
        IN  MacPs(MacPs(a, LoadPs(c.sN, 8 * k), MmUnpacklo32(cn, cn)),
                  LoadPs(c.sN, 8 * k + 4), MmUnpackhi32(cn, cn))
  IN  adjvolf(StereoSumPs(FoldLeft(body, ZeroPs, Iterations(c.count, 4))), c.volumeLR, c.out)

\* Process<1, 16>, float, lines 693-742.
Process1F(c) ==
  LET lerpps == [i \in Lanes |-> c.lerpP]
      body(acc, k) ==
        LET cp == interpf(MmReverse32(LoadPs(c.coefsP, 4 * k)),
                          MmReverse32(LoadPs(c.coefsP1, 4 * k)), lerpps)
            cn == interpf(LoadPs(c.coefsN1, 4 * k), LoadPs(c.coefsN, 4 * k), lerpps)
        IN  MacPs(MacPs(acc, LoadPs(c.sP, -3 - 4 * k), cp), LoadPs(c.sN, 4 * k), cn)
  IN  adjvolf(MonoSumPs(FoldLeft(body, ZeroPs, Iterations(c.count, 4))), c.volumeLR, c.out)

\* Process<2, 16>, float, lines 744-805.
Process2F(c) ==
  LET lerpps == [i \in Lanes |-> c.lerpP]
      body(acc, k) ==
        LET cp == interpf(MmReverse32(LoadPs(c.coefsP, 4 * k)),
                          MmReverse32(LoadPs(c.coefsP1, 4 * k)), lerpps)
            cn == interpf(LoadPs(c.coefsN1, 4 * k), LoadPs(c.coefsN, 4 * k), lerpps)
            a == MacPs(MacPs(acc, LoadPs(c.sP, -6 - 8 * k + 4), MmUnpackhi32(cp, cp)),
                       LoadPs(c.sP, -6 - 8 * k), MmUnpacklo32(cp, cp))
        IN  MacPs(MacPs(a, LoadPs(c.sN, 8 * k), MmUnpacklo32(cn, cn)),
                  LoadPs(c.sN, 8 * k + 4), MmUnpackhi32(cn, cn))
  IN  adjvolf(StereoSumPs(FoldLeft(body, ZeroPs, Iterations(c.count, 4))), c.volumeLR, c.out)

(***************************************************************************)
(* One call of a helper or a kernel, as the resampler makes it.            *)
(***************************************************************************)

CONSTANT Calls   \* the calls a run makes: records with a `fn` field

VARIABLES
  call,     \* the call being made
  result    \* what it returned (out for a kernel), or NoResult before

vars == << call, result >>

NoResult == << >>

Init ==
  /\ call \in Calls
  /\ result = NoResult

\* The call fn runs, returning value.
Returns(fn, value) ==
  /\ call.fn = fn
  /\ result = NoResult
  /\ result' = value
  /\ UNCHANGED call

CallMulEpi32   == Returns("MM_MUL_EPI32", MM_MUL_EPI32(call.a, call.b))
CallAdjvol     == Returns("adjvol", adjvol(call.accum, call.volumeLR, call.out))
CallInterp16   == Returns("interp16", interp16(call.coefs0, call.coefs1, call.lerp))
CallInterp32   == Returns("interp32", interp32(call.coefs0, call.coefs1, call.lerp))
CallProcessL1Q15 == Returns("ProcessL1Q15", ProcessL1Q15(call))
CallProcessL2Q15 == Returns("ProcessL2Q15", ProcessL2Q15(call))
CallProcess1Q15  == Returns("Process1Q15", Process1Q15(call))
CallProcess2Q15  == Returns("Process2Q15", Process2Q15(call))
CallProcessL1Q31 == Returns("ProcessL1Q31", ProcessL1Q31(call))
CallProcessL2Q31 == Returns("ProcessL2Q31", ProcessL2Q31(call))
CallProcess1Q31  == Returns("Process1Q31", Process1Q31(call))
CallProcess2Q31  == Returns("Process2Q31", Process2Q31(call))
CallProcessL1F   == Returns("ProcessL1F", ProcessL1F(call))
CallProcessL2F   == Returns("ProcessL2F", ProcessL2F(call))
CallProcess1F    == Returns("Process1F", Process1F(call))
CallProcess2F    == Returns("Process2F", Process2F(call))

Next ==
  \/ CallMulEpi32 \/ CallAdjvol \/ CallInterp16 \/ CallInterp32
  \/ CallProcessL1Q15 \/ CallProcessL2Q15 \/ CallProcess1Q15 \/ CallProcess2Q15
  \/ CallProcessL1Q31 \/ CallProcessL2Q31 \/ CallProcess1Q31 \/ CallProcess2Q31
  \/ CallProcessL1F \/ CallProcessL2F \/ CallProcess1F \/ CallProcess2F

Spec == Init /\ [][Next]_vars

(***************************************************************************)
(* Reference: the scalar polyphase FIR the kernels vectorise.  Tap i of   *)
(* the positive side multiplies the frame i frames before sP, tap i of    *)
(* the negative side the frame i frames after sN; channel j of a frame is *)
(* its j-th sample.  A 16-bit coefficient times a sample is exact; a       *)
(* 32-bit one is a Q31 value times a Q15 sample, kept in Q15 (>> 16).  The *)
(* int32 accumulator wraps.  The volume is a Q31 multiply rounded to      *)
(* nearest (halves up) and saturated; interpolation between phases is    *)
(* c0 + (c1 - c0) * lerp, in Q15 or Q31, rounded the same way.            *)
(***************************************************************************)

RoundShift(x, n) == (x + 2 ^ (n - 1)) \div 2 ^ n
Saturate(x, n) ==
  IF x > 2 ^ (n - 1) - 1 THEN 2 ^ (n - 1) - 1
  ELSE IF x < -(2 ^ (n - 1)) THEN -(2 ^ (n - 1)) ELSE x

RefVolume(acc, vol) == Saturate(RoundShift(acc * vol, W - 1), W)
RefInterp(c0, c1, lerp, frac) == c0 + RoundShift((c1 - c0) * lerp, frac)

KernelShape ==
  [f \in {"ProcessL1Q15", "ProcessL2Q15", "Process1Q15", "Process2Q15",
          "ProcessL1Q31", "ProcessL2Q31", "Process1Q31", "Process2Q31",
          "ProcessL1F", "ProcessL2F", "Process1F", "Process2F"} |->
     [channels |-> IF f \in {"ProcessL2Q15", "Process2Q15", "ProcessL2Q31",
                               "Process2Q31", "ProcessL2F", "Process2F"}
                   THEN 2 ELSE 1,
      kind |-> IF f \in {"ProcessL1Q15", "ProcessL2Q15", "Process1Q15",
                         "Process2Q15"} THEN "q15"
               ELSE IF f \in {"ProcessL1F", "ProcessL2F", "Process1F",
                              "Process2F"} THEN "float" ELSE "q31",
      interpolates |-> f \in {"Process1Q15", "Process2Q15", "Process1Q31",
                               "Process2Q31", "Process1F", "Process2F"}]]

\* The coefficient of tap i on one side: plain[i], or between the phases
\* c0 and c1 (the positive side goes from coefsP to coefsP1, the negative
\* side from coefsN1 to coefsN).
RefCoef(c, shape, plain, c0, c1, i) ==
  IF ~shape.interpolates THEN plain[i]
  ELSE CASE shape.kind = "q15" -> RefInterp(c0[i], c1[i], c.lerpP, H - 1)
         [] shape.kind = "q31" -> RefInterp(c0[i], c1[i], c.lerpP, W - 1)
         [] OTHER -> QAdd(c0[i], QMul(QSub(c1[i], c0[i]), c.lerpP))

RefTerm(kind, coef, sample) ==
  CASE kind = "q15" -> coef * sample
    [] kind = "q31" -> (coef * sample) \div 2 ^ H
    [] OTHER -> QMul(coef, sample)

\* The filtered value of channel j before the volume.
RefAccum(c, j) ==
  LET shape == KernelShape[c.fn]
      ch == shape.channels
      term(i) ==
        << RefTerm(shape.kind, RefCoef(c, shape, c.coefsP, c.coefsP, c.coefsP1, i),
                   c.sP[-i * ch + j]),
           RefTerm(shape.kind, RefCoef(c, shape, c.coefsN, c.coefsN1, c.coefsN, i),
                   c.sN[i * ch + j]) >>
      taps == 0 .. c.count - 1
  IN  IF shape.kind = "float"
      THEN QSumOver([i \in taps |-> QAdd(term(i)[1], term(i)[2])], taps)
      ELSE Wrap(FoldLeft(LAMBDA a, i : a + term(i)[1] + term(i)[2], 0,
                         [n \in 1 .. c.count |-> n - 1]), W)

RefOut(c) ==
  LET shape == KernelShape[c.fn]
      acc(side) == RefAccum(c, IF shape.channels = 2 THEN side ELSE 0)
  IN  IF shape.kind = "float"
      THEN [s \in 1 .. 2 |-> QAdd(c.out[s], QMul(acc(s - 1), c.volumeLR[s]))]
      ELSE [s \in 1 .. 2 |-> Wrap(c.out[s] + RefVolume(acc(s - 1), c.volumeLR[s]), W)]

(***************************************************************************)
(* Properties.                                                             *)
(***************************************************************************)

Done(fn) == result # NoResult /\ call.fn = fn

\* MM_MUL_EPI32 as emulated without SSE4.1 (lines 55-72) returns what
\* _mm_mul_epi32 does: the signed 64-bit products of lanes 0 and 2, for
\* every pair of int32 values, INT_MIN (its own absolute value) included.
MulEpi32MatchesNative ==
  Done("MM_MUL_EPI32") => result = MulEpi32Native(call.a, call.b)

\* adjvol (lines 87-96) adds to out the Q31 products of accumulator lanes
\* 0 and 2 with the left and right volume, rounded to nearest and
\* saturated: the 0x80000000 fix-up of rnd_dbl_sta_64_32 catches exactly
\* the product that overflows the doubled 64-bit lane, and no other.
AdjvolRoundsQ31 ==
  Done("adjvol") =>
    result = [s \in 1 .. 2 |->
                Wrap(call.out[s] + RefVolume(S(call.accum[2 * s - 2], W),
                                             call.volumeLR[s]), W)]

\* Lane i of interp32 (lines 165-188) is coefs0[i] + (coefs1[i] -
\* coefs0[i]) * lerp in Q31, rounded to nearest: the two multiplies, the
\* shuffle of the high halves and the final lane reordering put every
\* lane back where it came from.
Interp32Rounds ==
  Done("interp32") =>
    \A i \in Lanes :
      LET c0 == S(call.coefs0[i], W)
          c1 == S(call.coefs1[i], W)
      IN  c1 - c0 = Wrap(c1 - c0, W)
          => S(result[i], W) = RefInterp(c0, c1, call.lerpP, W - 1)

\* Every 16-bit lane of interp16 (lines 152-163) lies between the two
\* coefficients it interpolates, when their difference fits an int16 as
\* neighbouring phases of a filter table do.
Interp16WithinCoefs ==
  Done("interp16") =>
    \A j \in 0 .. 7 :
      LET c0 == S(E16(call.coefs0)[j], H)
          c1 == S(E16(call.coefs1)[j], H)
          r  == S(E16(result)[j], H)
      IN  c1 - c0 = Wrap(c1 - c0, H)
          => (c0 <= r /\ r <= c1) \/ (c1 <= r /\ r <= c0)

\* Each kernel adds to out exactly what the scalar FIR does: the lane
\* shuffles, the reversed loads of the positive side, the starting
\* offsets of sP and the pointer steps pair every coefficient with its
\* own sample and channel, for tables whose neighbouring phases are close.
\* The int16 interpolating kernels are left to Interp16WithinCoefs, which
\* they inherit from interp16.
\* The difference of the two phases interpolated between fits the
\* coefficient type at every tap, as in a smooth filter table: interp32
\* forms coefs1 - coefs0 in 32 bits.
SmoothPhases(c) ==
  \A i \in 0 .. c.count - 1 :
    /\ c.coefsP1[i] - c.coefsP[i] = Wrap(c.coefsP1[i] - c.coefsP[i], W)
    /\ c.coefsN[i] - c.coefsN1[i] = Wrap(c.coefsN[i] - c.coefsN1[i], W)

FirMatchesReference ==
  (/\ result # NoResult
   /\ call.fn \in DOMAIN KernelShape \ {"Process1Q15", "Process2Q15"}
   /\ call.fn \in {"Process1Q31", "Process2Q31"} => SmoothPhases(call))
  => result = RefOut(call)
====
