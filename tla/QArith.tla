------------------------------- MODULE QArith -------------------------------
(***************************************************************************)
(* Exact rational arithmetic, the data abstraction of the C++ `double`     *)
(* values of the interpolator.  A rational is a record [n |-> num,         *)
(* d |-> den] kept normalised (d > 0, gcd(n, d) = 1), so equal values are  *)
(* equal records.  Products cancel before multiplying so that TLC's        *)
(* 32-bit integers stay small.  Rounding of the IEEE doubles is not        *)
(* modelled: every sum, product and quotient here is exact.                *)
(***************************************************************************)
LOCAL INSTANCE Integers

RECURSIVE GCD(_, _)
GCD(a, b) == IF b = 0 THEN a ELSE GCD(b, a % b)

AbsInt(a) == IF a < 0 THEN -a ELSE a

\* The normalised rational n / d, for d # 0.
Q(n, d) ==
  LET g  == GCD(AbsInt(n), AbsInt(d))
      s  == IF d < 0 THEN -1 ELSE 1
  IN  IF n = 0 THEN [n |-> 0, d |-> 1]
      ELSE [n |-> s * (n \div g), d |-> s * (d \div g)]

QInt(i) == [n |-> i, d |-> 1]
QZero   == QInt(0)
QOne    == QInt(1)

QAdd(a, b) ==
  LET g == GCD(a.d, b.d)
  IN  Q(a.n * (b.d \div g) + b.n * (a.d \div g), (a.d \div g) * b.d)

QNeg(a)    == [n |-> -a.n, d |-> a.d]
QSub(a, b) == QAdd(a, QNeg(b))

QMul(a, b) ==
  LET g1 == GCD(AbsInt(a.n), b.d)
      g2 == GCD(AbsInt(b.n), a.d)
  IN  IF a.n = 0 \/ b.n = 0 THEN QZero
      ELSE Q((a.n \div g1) * (b.n \div g2), (a.d \div g2) * (b.d \div g1))

\* The inverse of a nonzero rational.
QInv(a) == Q(a.d, a.n)
QDiv(a, b) == QMul(a, QInv(b))

RECURSIVE QPow(_, _)
QPow(a, k) == IF k = 0 THEN QOne ELSE QMul(a, QPow(a, k - 1))

QAbs(a)   == [n |-> AbsInt(a.n), d |-> a.d]
QLess(a, b) == a.n * b.d < b.n * a.d

\* a < 1/k for a >= 0 and k > 0, without forming k * a.n (which overflows
\* for k = 100000): a.n / a.d < 1 / k  <=>  k * a.n < a.d.
QBelowInverse(a, k) == a.n <= (a.d - 1) \div k

\* Sum of rationals f[i] over a finite index set S.
RECURSIVE QSumOver(_, _)
QSumOver(f, S) ==
  IF S = {} THEN QZero
  ELSE LET i == CHOOSE j \in S : TRUE
       IN  QAdd(f[i], QSumOver(f, S \ {i}))
=============================================================================
