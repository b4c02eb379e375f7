------------------------------ MODULE ByteOrder ------------------------------
(***************************************************************************)
(* The byte-order helpers of media/libstagefright/Utils.cpp, lines 43-74:  *)
(* U16_AT .. U64_AT read big-endian values, U16LE_AT .. U64LE_AT           *)
(* little-endian ones, ntoh64 / hton64 swap a 64-bit value between host   *)
(* and network order with two calls of ntohl / htonl.                     *)
(*                                                                         *)
(* A pointer is the sequence of bytes it points at (ptr[0] is p[1]).  The *)
(* byte width b is a parameter: the code has b = 8, the checks run at a   *)
(* smaller b so that a 64-bit value stays within TLC's integers; every    *)
(* shift by 8, 16, 24 or 32 is a shift by b, 2b, 3b or 4b.                *)
(***************************************************************************)
EXTENDS Integers, Sequences, SequencesExt, Bitwise

CONSTANTS
  ByteBits,     \* the byte width the checks use
  HostOrder     \* "little" or "big": the byte order of the host

ASSUME ByteBits >= 3

\* `x << n` of a non-negative value.
Shl(x, n) == x * 2 ^ n

\* Lines 43-45.
U16_AT(p, b) == (Shl(p[1], b) | p[2]) % 2 ^ (2 * b)

\* Lines 47-49.  ptr[0] << 24 is an int shift: for ptr[0] >= 0x80 it
\* overflows int, which the builds wrap; the uint32_t return keeps the
\* low 32 bits of the bit pattern either way.
U32_AT(p, b) ==
  (Shl(p[1], 3 * b) | Shl(p[2], 2 * b) | Shl(p[3], b) | p[4]) % 2 ^ (4 * b)

\* Lines 51-53: the high word is widened to uint64_t before the shift.
U64_AT(p, b) == Shl(U32_AT(p, b), 4 * b) | U32_AT(SubSeq(p, 5, 8), b)

\* Lines 55-57.
U16LE_AT(p, b) == (p[1] | Shl(p[2], b)) % 2 ^ (2 * b)

\* Lines 59-61.
U32LE_AT(p, b) ==
  (Shl(p[4], 3 * b) | Shl(p[3], 2 * b) | Shl(p[2], b) | p[1]) % 2 ^ (4 * b)

\* Lines 63-65.
U64LE_AT(p, b) == Shl(U32LE_AT(SubSeq(p, 5, 8), b), 4 * b) | U32LE_AT(p, b)

\* ntohl / htonl of <arpa/inet.h>: a byte swap on a little-endian host,
\* the identity on a big-endian one.
NetToHost32(x, b) ==
  IF HostOrder = "big" THEN x
  ELSE Shl(x % 2 ^ b, 3 * b) | Shl((x \div 2 ^ b) % 2 ^ b, 2 * b)
       | Shl((x \div 2 ^ (2 * b)) % 2 ^ b, b) | (x \div 2 ^ (3 * b))

\* Lines 68-70 ("these won't work on big-endian host").
ntoh64(x, b) ==
  Shl(NetToHost32(x % 2 ^ (4 * b), b), 4 * b)
  | NetToHost32(x \div 2 ^ (4 * b), b)

\* Lines 72-74.
hton64(x, b) ==
  Shl(NetToHost32(x % 2 ^ (4 * b), b), 4 * b)
  | NetToHost32(x \div 2 ^ (4 * b), b)

(***************************************************************************)
(* Reference: the value of a byte string, most significant byte first.   *)
(***************************************************************************)

Positional(p, b) == FoldLeft(LAMBDA acc, x : acc * 2 ^ b + x, 0, p)

\* The 64-bit value the host holds in the eight bytes p.
HostLoad(p, b) ==
  IF HostOrder = "big" THEN Positional(p, b) ELSE Positional(Reverse(p), b)

\* The bytes checked: every string of 0 and 2^b - 1, and the eight
\* rotations of 0, 1, .., 7, which give every position its own value.
Pointers ==
  [1 .. 8 -> {0, 2 ^ ByteBits - 1}]
  \cup {[i \in 1 .. 8 |-> (i + r) % 8] : r \in 0 .. 7}

(***************************************************************************)
(* Checks.  The helpers are pure functions of constants, so they are      *)
(* checked as assumptions: every run of a model that extends this module *)
(* evaluates them once, before the first state, and stops if one fails.  *)
(***************************************************************************)

\* The six readers of lines 43-65 return the value of the 2, 4 or 8 bytes
\* at ptr read most significant byte first (U*_AT) or last (U*LE_AT): no
\* shift is off by a byte, no word is placed in the wrong half, and the
\* int overflow of ptr[0] << 24 is harmless.
ReadersMatchByteOrder ==
  \A p \in Pointers :
    LET b == ByteBits
        w(n) == SubSeq(p, 1, n)
    IN  /\ U16_AT(w(2), b) = Positional(w(2), b)
        /\ U32_AT(w(4), b) = Positional(w(4), b)
        /\ U64_AT(p, b) = Positional(p, b)
        /\ U16LE_AT(w(2), b) = Positional(Reverse(w(2)), b)
        /\ U32LE_AT(w(4), b) = Positional(Reverse(w(4)), b)
        /\ U64LE_AT(p, b) = Positional(Reverse(p), b)

\* ntoh64 of the 64-bit value a host loads from eight bytes in network
\* order is the value U64_AT reads from them, and hton64 undoes ntoh64:
\* the two 32-bit swaps and the exchange of the words together make the
\* 64-bit swap (on the little-endian hosts the code is built for).
Ntoh64ReadsNetworkOrder ==
  \A p \in Pointers :
    LET b == ByteBits
        x == HostLoad(p, b)
    IN  /\ ntoh64(x, b) = U64_AT(p, b)
        /\ hton64(ntoh64(x, b), b) = x
ASSUME ReadersMatchByteOrder
ASSUME Ntoh64ReadsNetworkOrder
=============================================================================
