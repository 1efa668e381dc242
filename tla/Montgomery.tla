----------------------------- MODULE Montgomery -----------------------------
(***************************************************************************)
(* The Montgomery ladder on x-coordinates: native/curve25519-donna.c, from *)
(* fmonty on.  The field is a parameter, as in Edwards: fmul is fproduct   *)
(* with the two reductions after it, fscaled is fscalar_product followed   *)
(* by freduce_coefficients.                                                *)
(***************************************************************************)
EXTENDS Integers, Sequences, SequencesExt

CONSTANTS
  fe_0, fe_1, fsum(_, _), fdifference(_, _), fmul(_, _), fsquare(_), fscaled(_, _),
  crecip(_), fexpand(_), fcontract(_),
  a24,   \* (A - 2) / 4, 121665
  Bits   \* bits in a secret, 256

\* Q = <<x, z>>, Q' = <<xprime, zprime>> and Q - Q' = qmqp in, 2Q and Q + Q' out.
fmonty(q, qprime, qmqp) ==
  LET x == fsum(q[1], q[2])
      z == fdifference(q[2], q[1])             \* x - z
      xprime == fsum(qprime[1], qprime[2])
      zprime == fdifference(qprime[2], qprime[1])
      xxprime == fmul(xprime, z)
      zzprime == fmul(x, zprime)
      x3 == fsquare(fsum(xxprime, zzprime))
      z3 == fmul(fsquare(fdifference(zzprime, xxprime)), qmqp)
      xx == fsquare(x)
      zz == fsquare(z)
      difference == fdifference(zz, xx)        \* xx - zz
      zzz == fsum(fscaled(difference, a24), xx)
  IN  [double |-> <<fmul(xx, zz), fmul(difference, zzz)>>, sum |-> <<x3, z3>>]

swap_conditional(pair, iswap) == IF iswap = 1 THEN <<pair[2], pair[1]>> ELSE pair

\* Fault: the points do not change back after a step.
cmultSwapOnce(n, q) ==
  LET Step(pair, k) ==
        LET bit == (n \div 2 ^ (Bits - k)) % 2
            s == swap_conditional(pair, bit)
            t == fmonty(s[1], s[2], q)
        IN  <<t.double, t.sum>>
  IN  FoldLeft(Step, << <<fe_1, fe_0>>, <<q, fe_1>> >>, [k \in 1 .. Bits |-> k])[1]

\* From infinity and q: one step for each bit of n, the highest first.  The
\* two points change places before and after a step whose bit is one.
cmult(n, q) ==
  LET Step(pair, k) ==
        LET bit == (n \div 2 ^ (Bits - k)) % 2
            s == swap_conditional(pair, bit)
            t == fmonty(s[1], s[2], q)
        IN  swap_conditional(<<t.double, t.sum>>, bit)
  IN  FoldLeft(Step, << <<fe_1, fe_0>>, <<q, fe_1>> >>, [k \in 1 .. Bits |-> k])[1]

curve25519_donna(secret, basepoint) ==
  LET xz == cmult(secret, fexpand(basepoint))
  IN  fcontract(fmul(xz[1], crecip(xz[2])))
=============================================================================
