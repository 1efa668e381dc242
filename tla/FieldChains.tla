--------------------------- MODULE FieldChains ---------------------------
(***************************************************************************)
(* The fixed powers of a field element: fe_invert, fe_pow22523 and crecip. *)
(* Each is a chain of runs of squarings and multiplications; these two are *)
(* parameters, so that a chain can be run on exponents as well as on       *)
(* elements.  Squared(x, n) is what the loops of n squarings compute:      *)
(* fe_sq(t, x); for (i = 1; i < n; ++i) fe_sq(t, t).                       *)
(***************************************************************************)
EXTENDS Integers

CONSTANTS Squared(_, _), Mul(_, _)

z9(z)  == Mul(z, Squared(Squared(z, 1), 2))
z11(z) == Mul(Squared(z, 1), z9(z))

\* z^(2^250 - 1): 5, 10, 20, 40, 50, 100, 200 and 250 ones.
Power250(z) ==
  LET z_5_0   == Mul(z9(z), Squared(z11(z), 1))
      z_10_0  == Mul(Squared(z_5_0, 5), z_5_0)
      z_20_0  == Mul(Squared(z_10_0, 10), z_10_0)
      z_40_0  == Mul(Squared(z_20_0, 20), z_20_0)
      z_50_0  == Mul(Squared(z_40_0, 10), z_10_0)
      z_100_0 == Mul(Squared(z_50_0, 50), z_50_0)
      z_200_0 == Mul(Squared(z_100_0, 100), z_100_0)
  IN  Mul(Squared(z_200_0, 50), z_50_0)

\* Fault: the last loop runs once too often.
fe_invertLoopTo5(z) == Mul(Squared(Power250(z), 6), z11(z))

\* z^(2^255 - 21) = z^(P - 2)
fe_invert(z) == Mul(Squared(Power250(z), 5), z11(z))

\* z^(2^252 - 3) = z^((P - 5) / 8)
fe_pow22523(z) == Mul(Squared(Power250(z), 2), z)

\* The same power as fe_invert, in curve25519-donna.c.
crecip(z) == Mul(Squared(Power250(z), 5), z11(z))
===========================================================================
