------------------------------ MODULE Scalars ------------------------------
(***************************************************************************)
(* Scalars modulo L, the order of the base point: native/ed25519/sc_*.c.   *)
(*                                                                         *)
(* A scalar is K limbs of one radix R; the source has K = 12 and R = 2^21, *)
(* so R^K = 2^252, and L = 2^252 + delta.  Mu spells -delta in signed      *)
(* digits (666643, 470296, 654183, -997805, 136657, -683901): limb K + i   *)
(* is worth Mu at limb i.  A byte string is the number it encodes.         *)
(***************************************************************************)
EXTENDS Integers, Sequences, SequencesExt

CONSTANTS
  K,   \* the number of limbs of a scalar, a multiple of 2
  R,   \* the radix of a limb
  Mu   \* the digits of -delta, a sequence

Power[i \in 0 .. 2 * K] == IF i = 0 THEN 1 ELSE R * Power[i-1]

L == Power[K] - FoldLeftDomain(LAMBDA sum, i : sum + Mu[i] * Power[i-1], 0, Mu)

\* The limbs of a number: the last of the `count` limbs takes all that is left.
Split(a, count) ==
  [i \in 0 .. count - 1 |->
    IF i = count - 1 THEN a \div Power[i] ELSE (a \div Power[i]) % R]

\* The numbers first, first + step, ... up to last, or down when step = -1.
Positions(first, last, step) ==
  [k \in 1 .. (last - first + step) \div step |-> first + (k - 1) * step]
---------------------------------------------------------------------------
(* s(j-12) += s(j) * 666643; ... s(j-7) -= s(j) * 683901; s(j) = 0.        *)
Fold(s, j) ==
  [i \in DOMAIN s |->
    IF i = j THEN 0
    ELSE IF i - (j - K) \in 0 .. Len(Mu) - 1
         THEN s[i] + s[j] * Mu[i - (j - K) + 1]
         ELSE s[i]]

\* carry = (s + (1<<20)) >> 21, the nearest multiple of the radix.
RoundCarry(s, i) ==
  LET carry == (s[i] + R \div 2) \div R IN
    [s EXCEPT ![i] = @ - carry * R, ![i + 1] = @ + carry]

\* carry = s >> 21, the multiple of the radix below.
FloorCarry(s, i) ==
  LET carry == s[i] \div R IN
    [s EXCEPT ![i] = @ - carry * R, ![i + 1] = @ + carry]

\* Every second limb of a range, then the ones between.
RoundCarries(s, first, last) ==
  FoldLeft(RoundCarry, s, Positions(first, last, 2) \o Positions(first + 1, last, 2))

\* Fault: the last fold is left out, what is carried into limb 12 is lost.
ReductionFoldedOnce(s) ==
  LET half == K \div 2
      high == RoundCarries(FoldLeft(Fold, s, Positions(2 * K - 1, K + half, -1)),
                           half, K + half - 2)
      low  == RoundCarries(FoldLeft(Fold, high, Positions(K + half - 1, K, -1)), 0, K - 1)
  IN  FoldLeft(FloorCarry, Fold(low, K), Positions(0, K - 1, 1))

\* Limbs 23 .. 18 fold, 6 .. 16 carry; limbs 17 .. 12 fold, 0 .. 11 carry;
\* then limb 12 folds and all limbs are made non-negative, twice.
Reduction(s) ==
  LET half == K \div 2
      high == RoundCarries(FoldLeft(Fold, s, Positions(2 * K - 1, K + half, -1)),
                           half, K + half - 2)
      low  == RoundCarries(FoldLeft(Fold, high, Positions(K + half - 1, K, -1)), 0, K - 1)
      once == FoldLeft(FloorCarry, Fold(low, K), Positions(0, K - 1, 1))
  IN  FoldLeft(FloorCarry, Fold(once, K), Positions(0, K - 2, 1))

Packed(s) ==
  LET sum[i \in 0 .. K] == IF i = 0 THEN 0 ELSE sum[i-1] + s[i-1] * Power[i-1]
  IN  sum[K]

sc_reduce(s) == Packed(Reduction(Split(s, 2 * K)))

sc_muladd(a, b, c) ==
  LET x == Split(a, K)
      y == Split(b, K)
      z == Split(c, K)
      product ==
        [k \in 0 .. 2 * K - 1 |->
          LET sum[i \in 0 .. K] ==
                IF i = 0 THEN IF k < K THEN z[k] ELSE 0
                ELSE sum[i-1] + (IF k - (i-1) \in 0 .. K - 1 THEN x[i-1] * y[k-(i-1)] ELSE 0)
          IN  sum[K]]
  IN  Packed(Reduction(RoundCarries(product, 0, 2 * K - 2)))
===========================================================================
