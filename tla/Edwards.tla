------------------------------ MODULE Edwards ------------------------------
(***************************************************************************)
(* Points of the twisted Edwards curve -x^2 + y^2 = 1 + d x^2 y^2:         *)
(* native/ed25519/ge_*.c.                                                  *)
(*                                                                         *)
(* The field is a parameter: its elements may be residues, or bounds on    *)
(* the limbs of one.  A point has the fields of the structs of ge.h: X, Y, *)
(* Z in ge_p2, and T too in ge_p3 and ge_p1p1; ge_precomp and ge_cached    *)
(* keep the sums and products an addition needs.                           *)
(***************************************************************************)
EXTENDS Integers, Sequences, SequencesExt, FiniteSetsExt

CONSTANTS
  fe_0, fe_1, fe_add(_, _), fe_sub(_, _), fe_neg(_), fe_mul(_, _), fe_sq(_), fe_sq2(_),
  fe_invert(_), fe_pow22523(_), fe_frombytes(_), fe_tobytes(_),
  d, d2, sqrtm1,  \* the curve's constant, its double, a root of -1
  TopBit,         \* the value of the last bit of a byte string, 2^255
  Digits,         \* hexadecimal digits in a scalar, 64
  Bits,           \* bits in a scalar, 256
  Multiple(_)     \* Multiple(n): <<x, y>> of n times the base point

fe_isnegative(f) == fe_tobytes(f) % 2
fe_isnonzero(f)  == fe_tobytes(f) # 0
---------------------------------------------------------------------------
ge_p2_0      == [X |-> fe_0, Y |-> fe_1, Z |-> fe_1]
ge_p3_0      == [X |-> fe_0, Y |-> fe_1, Z |-> fe_1, T |-> fe_0]
ge_precomp_0 == [yplusx |-> fe_1, yminusx |-> fe_1, xy2d |-> fe_0]

ge_p1p1_to_p2(p) ==
  [X |-> fe_mul(p.X, p.T), Y |-> fe_mul(p.Y, p.Z), Z |-> fe_mul(p.Z, p.T)]

ge_p1p1_to_p3(p) ==
  [X |-> fe_mul(p.X, p.T), Y |-> fe_mul(p.Y, p.Z), Z |-> fe_mul(p.Z, p.T),
   T |-> fe_mul(p.X, p.Y)]

ge_p3_to_p2(p) == [X |-> p.X, Y |-> p.Y, Z |-> p.Z]

ge_p3_to_cached(p) ==
  [YplusX |-> fe_add(p.Y, p.X), YminusX |-> fe_sub(p.Y, p.X), Z |-> p.Z,
   T2d |-> fe_mul(p.T, d2)]

\* What is common to the additions: A, B, C of the four and D = 2 Z1 Z2.
Added(A, B, C, D) ==
  [X |-> fe_sub(A, B), Y |-> fe_add(A, B), Z |-> fe_add(D, C), T |-> fe_sub(D, C)]
\* Fault: Z and T are made as in an addition.
SubtractedAsAdded(A, B, C, D) ==
  [X |-> fe_sub(A, B), Y |-> fe_add(A, B), Z |-> fe_add(D, C), T |-> fe_sub(D, C)]

Subtracted(A, B, C, D) ==
  [X |-> fe_sub(A, B), Y |-> fe_add(A, B), Z |-> fe_sub(D, C), T |-> fe_add(D, C)]

ge_add(p, q) ==
  LET ZZ == fe_mul(p.Z, q.Z)
  IN  Added(fe_mul(fe_add(p.Y, p.X), q.YplusX), fe_mul(fe_sub(p.Y, p.X), q.YminusX),
            fe_mul(q.T2d, p.T), fe_add(ZZ, ZZ))

ge_sub(p, q) ==
  LET ZZ == fe_mul(p.Z, q.Z)
  IN  Subtracted(fe_mul(fe_add(p.Y, p.X), q.YminusX), fe_mul(fe_sub(p.Y, p.X), q.YplusX),
                 fe_mul(q.T2d, p.T), fe_add(ZZ, ZZ))

ge_madd(p, q) ==
  Added(fe_mul(fe_add(p.Y, p.X), q.yplusx), fe_mul(fe_sub(p.Y, p.X), q.yminusx),
        fe_mul(q.xy2d, p.T), fe_add(p.Z, p.Z))

ge_msub(p, q) ==
  Subtracted(fe_mul(fe_add(p.Y, p.X), q.yminusx), fe_mul(fe_sub(p.Y, p.X), q.yplusx),
             fe_mul(q.xy2d, p.T), fe_add(p.Z, p.Z))

\* Fault: 2 Z^2 as a sum of two squares, which is not reduced.
ge_p2_dblSum(p) ==
  LET XX == fe_sq(p.X)
      YY == fe_sq(p.Y)
      ZZ == fe_sq(p.Z)
      Y3 == fe_add(YY, XX)
      Z3 == fe_sub(YY, XX)
  IN  [X |-> fe_sub(fe_sq(fe_add(p.X, p.Y)), Y3), Y |-> Y3, Z |-> Z3,
       T |-> fe_sub(fe_add(ZZ, ZZ), Z3)]

ge_p2_dbl(p) ==
  LET XX == fe_sq(p.X)
      YY == fe_sq(p.Y)
      Y3 == fe_add(YY, XX)
      Z3 == fe_sub(YY, XX)
  IN  [X |-> fe_sub(fe_sq(fe_add(p.X, p.Y)), Y3), Y |-> Y3, Z |-> Z3,
       T |-> fe_sub(fe_sq2(p.Z), Z3)]

ge_p3_dbl(p) == ge_p2_dbl(ge_p3_to_p2(p))
---------------------------------------------------------------------------
\* Fault: the parity of X, not of X / Z.
ge_tobytesProjective(h) ==
  fe_tobytes(fe_mul(h.Y, fe_invert(h.Z))) + fe_isnegative(h.X) * TopBit

\* Encoding: y, and the parity of x in the top bit.
ge_tobytes(h) ==
  LET recip == fe_invert(h.Z)
      x == fe_mul(h.X, recip)
      y == fe_mul(h.Y, recip)
  IN  fe_tobytes(y) + fe_isnegative(x) * TopBit

ge_p3_tobytes(h) == ge_tobytes(h)

NotAPoint == <<>>

\* A root of (y^2 - 1) / (d y^2 + 1), or of its negative times sqrtm1; the
\* root whose parity is not the top bit of s, so that h is minus the point.
ge_frombytes_negate_vartime(s) ==
  LET Y == fe_frombytes(s)
      u == fe_sub(fe_sq(Y), fe_1)
      v == fe_add(fe_mul(fe_sq(Y), d), fe_1)
      v3 == fe_mul(fe_sq(v), v)
      uv7 == fe_mul(fe_mul(fe_sq(v3), v), u)
      root == fe_mul(fe_mul(fe_pow22523(uv7), v3), u)
      vxx == fe_mul(fe_sq(root), v)
      x == IF fe_isnonzero(fe_sub(vxx, u)) THEN fe_mul(root, sqrtm1) ELSE root
      X == IF fe_isnegative(x) = s \div TopBit THEN fe_neg(x) ELSE x
  IN  IF fe_isnonzero(fe_sub(vxx, u)) /\ fe_isnonzero(fe_add(vxx, u)) THEN NotAPoint
      ELSE [X |-> X, Y |-> Y, Z |-> fe_1, T |-> fe_mul(X, Y)]
---------------------------------------------------------------------------
(* Tables of multiples of the base point: base.h and base2.h.               *)
Precomputed(n) ==
  LET x == Multiple(n)[1]
      y == Multiple(n)[2]
  IN  [yplusx |-> fe_add(y, x), yminusx |-> fe_sub(y, x), xy2d |-> fe_mul(fe_mul(x, y), d2)]

base(i, j) == Precomputed((j + 1) * 256 ^ i)
Bi(j)      == Precomputed(2 * j + 1)

\* The multiple b of 256^pos B, -8 <= b <= 8, by conditional moves.
select(pos, b) ==
  LET babs == IF b < 0 THEN -b ELSE b
      t == IF babs \in 1 .. 8 THEN base(pos, babs - 1) ELSE ge_precomp_0
  IN  IF b < 0 THEN [yplusx |-> t.yminusx, yminusx |-> t.yplusx, xy2d |-> fe_neg(t.xy2d)]
      ELSE t

\* The digits of a in radix 16, from -8 to 7 but for the last.
SignedDigits(a) ==
  LET nibble(i) == (a \div 16 ^ i) % 16
      e[i \in 0 .. Digits - 1] ==   \* the digit before the carry out of it
        nibble(i) + (IF i = 0 THEN 0 ELSE (e[i-1] + 8) \div 16)
  IN  [i \in 0 .. Digits - 1 |->
        IF i = Digits - 1 THEN e[i] ELSE e[i] - 16 * ((e[i] + 8) \div 16)]

\* Odd digits, then four doublings, then even digits.
ge_scalarmult_base(a) ==
  LET e == SignedDigits(a)
      AddDigit(h, i) == ge_p1p1_to_p3(ge_madd(h, select(i \div 2, e[i])))
      half == Digits \div 2
      odd == FoldLeft(AddDigit, ge_p3_0, [k \in 1 .. half |-> 2 * k - 1])
      twice == ge_p1p1_to_p2(ge_p3_dbl(odd))
      eight == FoldLeft(LAMBDA s, k : ge_p1p1_to_p2(ge_p2_dbl(s)), twice, <<2, 3>>)
      sixteen == ge_p1p1_to_p3(ge_p2_dbl(eight))
  IN  FoldLeft(AddDigit, sixteen, [k \in 1 .. half |-> 2 * k - 2])
---------------------------------------------------------------------------
(* slide: signed odd digits up to 15, at least one of any five zero.        *)

\* Fault: the ones that the carry passes are not cleared.
PropagatedUncleared(r, k) ==
  LET end == Min({i \in k .. Bits - 1 : r[i] = 0} \cup {Bits}) IN
    [i \in 0 .. Bits - 1 |-> IF i = end THEN 1 ELSE r[i]]

\* r with the ones from place k on cleared, and the first zero set.
Propagated(r, k) ==
  LET end == Min({i \in k .. Bits - 1 : r[i] = 0} \cup {Bits}) IN
    [i \in 0 .. Bits - 1 |->
      IF i \in k .. end - 1 THEN 0 ELSE IF i = end THEN 1 ELSE r[i]]

\* Place i takes in place i + b, by adding or subtracting, or stops there.
Slide(s, i, b) ==
  LET part == IF i + b < Bits THEN s.r[i + b] * 2 ^ b ELSE 0 IN
    IF s.stop \/ part = 0 THEN s
    ELSE IF s.r[i] + part <= 15 THEN [s EXCEPT !.r[i] = @ + part, !.r[i + b] = 0]
    ELSE IF s.r[i] - part >= -15
         THEN [s EXCEPT !.r = Propagated([@ EXCEPT ![i] = @ - part], i + b)]
    ELSE [s EXCEPT !.stop = TRUE]

slide(a) ==
  LET bits == [i \in 0 .. Bits - 1 |-> (a \div 2 ^ i) % 2]
      Place(r, i) ==
        IF r[i] = 0 THEN r
        ELSE FoldLeft(LAMBDA s, b : Slide(s, i, b), [r |-> r, stop |-> FALSE],
                      <<1, 2, 3, 4, 5, 6>>).r
  IN  FoldLeft(Place, bits, [k \in 1 .. Bits |-> k - 1])

\* A, 3A, 5A, ... 15A.
OddMultiples(A) ==
  LET A2 == ge_p1p1_to_p3(ge_p3_dbl(A))
      Ai[j \in 0 .. 7] ==
        IF j = 0 THEN ge_p3_to_cached(A)
        ELSE ge_p3_to_cached(ge_p1p1_to_p3(ge_add(A2, Ai[j-1])))
  IN  Ai

\* a A + b B, from the highest place that is not zero in both.
ge_double_scalarmult_vartime(a, A, b) ==
  LET aslide == slide(a)
      bslide == slide(b)
      Ai == OddMultiples(A)
      top == Max({i \in 0 .. Bits - 1 : aslide[i] # 0 \/ bslide[i] # 0} \cup {-1})
      WithA(t, n) ==
        IF n > 0 THEN ge_add(ge_p1p1_to_p3(t), Ai[n \div 2])
        ELSE IF n < 0 THEN ge_sub(ge_p1p1_to_p3(t), Ai[(-n) \div 2])
        ELSE t
      WithB(t, n) ==
        IF n > 0 THEN ge_madd(ge_p1p1_to_p3(t), Bi(n \div 2))
        ELSE IF n < 0 THEN ge_msub(ge_p1p1_to_p3(t), Bi((-n) \div 2))
        ELSE t
      Place(r, i) ==
        ge_p1p1_to_p2(WithB(WithA(ge_p2_dbl(r), aslide[i]), bslide[i]))
  IN  FoldLeft(Place, ge_p2_0, [k \in 1 .. top + 1 |-> top + 1 - k])
=============================================================================
