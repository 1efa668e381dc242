--------------------------- MODULE FieldElement ---------------------------
(***************************************************************************)
(* Arithmetic modulo P on limb vectors: native/ed25519/fe_*.c.             *)
(*                                                                         *)
(* An element is a function h from 0 .. N-1 to integers and stands for the *)
(* sum of h[i] * Weight[i].  The source has N = 10, radices that alternate *)
(* 2^26 and 2^25, C = 19 and so P = 2^255 - 19; the shifts `>> 26` and     *)
(* `>> 25` are floor divisions by the radix.  A 32-byte string is the      *)
(* number it encodes.                                                      *)
(***************************************************************************)
EXTENDS Integers, Sequences, SequencesExt

CONSTANTS
  N,      \* the number of limbs, even
  Radix,  \* Radix[i]: how much limb i+1 outweighs limb i
  C,      \* 2^255 is C modulo P
  Load    \* Load[i]: the weight of the first bit that fe_frombytes reads into limb i

Limbs == 0 .. N - 1

FieldParameters ==
  /\ N \in Nat /\ N > 1 /\ N % 2 = 0
  /\ Radix \in [Limbs -> Nat] /\ \A i \in Limbs : Radix[i] > 1
  /\ C \in Nat
  /\ Load \in [0 .. N -> Nat]

Weight[i \in 0 .. N] == IF i = 0 THEN 1 ELSE Weight[i-1] * Radix[i-1]

P == Weight[N] - C

Value(h) ==
  LET sum[i \in 0 .. N] == IF i = 0 THEN 0 ELSE sum[i-1] + h[i-1] * Weight[i-1]
  IN  sum[N]

\* A carry out of the last limb comes back into limb 0 multiplied by C.
Wrap(i) == IF i = N - 1 THEN C ELSE 1
---------------------------------------------------------------------------
fe_0 == [i \in Limbs |-> 0]
fe_1 == [i \in Limbs |-> IF i = 0 THEN 1 ELSE 0]

fe_copy(f)   == [i \in Limbs |-> f[i]]
fe_add(f, g) == [i \in Limbs |-> f[i] + g[i]]
fe_sub(f, g) == [i \in Limbs |-> f[i] - g[i]]
fe_neg(f)    == [i \in Limbs |-> -f[i]]

\* The mask -b is 0 or all ones: f, or f xor (f xor g).
fe_cmov(f, g, b) == [i \in Limbs |-> IF b = 1 THEN g[i] ELSE f[i]]
---------------------------------------------------------------------------
(* One step `carry = (h + (1<<25)) >> 26; next += carry; h -= carry << 26`. *)
Carry(h, i) ==
  LET carry == (h[i] + Radix[i] \div 2) \div Radix[i] IN
    [h EXCEPT ![i] = @ - carry * Radix[i],
              ![(i + 1) % N] = @ + carry * Wrap(i)]

CarryAll(h, order) == FoldLeft(Carry, h, order)

\* 0,4,1,5,2,6,3,7,4,8,9,0: two interleaved chains, then once around the end.
MulOrder ==
  LET half == N \div 2 - 1 IN
    FlattenSeq([k \in 1 .. half |-> <<k - 1, k - 1 + half>>])
      \o <<half, N - 2, N - 1, 0>>

\* Fault: the product of two odd limbs is not doubled.
CoefficientOddOnce(i, j) == IF i + j >= N THEN C ELSE 1

\* Two odd limbs overlap by half a limb, so their product counts twice; a
\* product past the last limb counts C times.
Coefficient(i, j) ==
  (IF i % 2 = 1 /\ j % 2 = 1 THEN 2 ELSE 1) * (IF i + j >= N THEN C ELSE 1)

\* h_k is the sum of f_i g_j over i + j = k and i + j = k + N.
Product(f, g) ==
  [k \in Limbs |->
    LET sum[i \in 0 .. N] ==
          IF i = 0 THEN 0
          ELSE LET j == (k - (i - 1)) % N
               IN  sum[i-1] + Coefficient(i-1, j) * f[i-1] * g[j]
    IN  sum[N]]

fe_mul(f, g) == CarryAll(Product(f, g), MulOrder)

\* Squaring computes each product of two different limbs once, doubled.
SquareProduct(f) ==
  [k \in Limbs |->
    LET sum[i \in 0 .. N] ==
          IF i = 0 THEN 0
          ELSE LET j == (k - (i - 1)) % N
               IN  sum[i-1] + (IF i - 1 < j THEN 2 ELSE IF i - 1 = j THEN 1 ELSE 0)
                                * Coefficient(i-1, j) * f[i-1] * f[j]
    IN  sum[N]]

fe_sq(f) == CarryAll(SquareProduct(f), MulOrder)

fe_sq2(f) ==
  LET h == SquareProduct(f) IN CarryAll([i \in Limbs |-> h[i] + h[i]], MulOrder)
---------------------------------------------------------------------------
(* Each limb is read from whole bytes at or after the limb's own weight and *)
(* shifted up to it; odd limbs carry first.  The top bit is not read.       *)
fe_frombytes(s) ==
  LET odd  == [k \in 1 .. N \div 2 |-> IF k = 1 THEN N - 1 ELSE 2 * k - 3]
      even == [k \in 1 .. N \div 2 |-> 2 * k - 2]
      loaded == [i \in Limbs |->
                  ((s % Load[i+1]) \div Load[i]) * (Load[i] \div Weight[i])]
  IN  CarryAll(loaded, odd \o even)

\* Fault: the first step of the chain does not round.
QuotientNotRounded(h) ==
  FoldLeft(LAMBDA q, i : (h[i-1] + q) \div Radix[i-1],
           (C * h[N-1]) \div Radix[N-1], [i \in 1 .. N |-> i])

\* q, the multiple of P to take away: a carry chain that keeps no remainder.
Quotient(h) ==
  FoldLeft(LAMBDA q, i : (h[i-1] + q) \div Radix[i-1],
           (C * h[N-1] + Radix[N-1] \div 2) \div Radix[N-1],
           [i \in 1 .. N |-> i])

\* h - P q, carried without rounding; the carry out of the last limb is dropped.
Reduced(h) ==
  LET carried[i \in 0 .. N] ==   \* after the carries out of limbs 0 .. i-1
        IF i = 0 THEN [h EXCEPT ![0] = @ + C * Quotient(h)]
        ELSE LET g == carried[i-1]
                 below == [g EXCEPT ![i-1] = @ % Radix[i-1]]
             IN  IF i = N THEN below
                 ELSE [below EXCEPT ![i] = @ + g[i-1] \div Radix[i-1]]
  IN  carried[N]

fe_tobytes(h) == Value(Reduced(h))

fe_isnegative(f) == fe_tobytes(f) % 2

\* crypto_verify_32 returns 0 for equal strings and -1 for different ones.
crypto_verify_32(x, y) == IF x = y THEN 0 ELSE -1
fe_isnonzero(f) == crypto_verify_32(fe_tobytes(f), 0)
===========================================================================
