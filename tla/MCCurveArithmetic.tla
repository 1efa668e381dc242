------------------------- MODULE MCCurveArithmetic -------------------------
(***************************************************************************)
(* Edwards, Montgomery and Signatures over a small field, checked against  *)
(* the curve's addition law on affine points; and Edwards and Montgomery   *)
(* over bounds of limbs.                                                   *)
(*                                                                         *)
(* The curve of the source has 8 L points over 2^255 - 19, which is 5      *)
(* modulo 8; so has the curve of this instance, over p.  A state is a call *)
(* of one of the source's functions, with its arguments and its result.    *)
(***************************************************************************)
EXTENDS Integers, Sequences, SequencesExt, FiniteSetsExt

CONSTANTS
  p,       \* the field's prime
  d,       \* the Edwards curve's constant
  CoeffA,       \* the Montgomery curve's constant
  RootM1,    \* a root of -1
  L,       \* the order of the base point
  B,       \* the base point, <<x, y>>
  TopBit,  \* the least power of 2 above p: the sign bit of an encoding
  ScalarBit,   \* the least power of 2 above L
  Messages

SmallB == <<22, 21>>

VARIABLES call, result

vars == <<call, result>>
---------------------------------------------------------------------------
(* The field.                                                               *)
FAdd(x, y) == (x + y) % p
FSub(x, y) == (x - y) % p
FMul(x, y) == (x * y) % p
FNeg(x) == (-x) % p
FSq(x)  == (x * x) % p
FSq2(x) == (2 * x * x) % p
FPow(x, n) == FoldLeft(LAMBDA y, i : FMul(x, y), 1, [i \in 1 .. n |-> i])
InverseTable == [x \in 0 .. p - 1 |-> FPow(x, p - 2)]
RootTable == [x \in 0 .. p - 1 |-> FPow(x, (p - 5) \div 8)]
FInvert(x) == InverseTable[x]
FPow22523(x) == RootTable[x]
FFromBytes(s) == (s % TopBit) % p
Same(x) == x
FDifference(x, y) == FSub(y, x)

(* The addition law, and multiples.                                         *)
Infinity == <<0, 1>>
Plus(P, Q) ==
  LET k == FMul(FMul(d, FMul(P[1], Q[1])), FMul(P[2], Q[2])) IN
    <<FMul(FMul(P[1], Q[2]) + FMul(Q[1], P[2]), FInvert(FAdd(1, k))),
      FMul(FMul(P[1], Q[1]) + FMul(P[2], Q[2]), FInvert(FSub(1, k)))>>
Minus(P) == <<FNeg(P[1]), P[2]>>

Points == {P \in (0 .. p - 1) \X (0 .. p - 1) :
             FAdd(FNeg(FSq(P[1])), FSq(P[2])) = FAdd(1, FMul(d, FMul(FSq(P[1]), FSq(P[2]))))}

\* Multiples[P] is the sequence 0, P, 2P, ...; every order divides 8 L.
Multiples ==
  [P \in Points |->
    FoldLeft(LAMBDA s, i : Append(s, Plus(s[Len(s)], P)), <<Infinity>>, [i \in 1 .. 8 * L - 1 |-> i])]
Times(n, P) == Multiples[P][(n % (8 * L)) + 1]
TimesB(n) == Times(n, B)

(* The same on v^2 = u^3 + A u^2 + u and on its twist, through the points   *)
(* with a given u: <<u, v>> satisfies e v^2 = u^3 + A u^2 + u.              *)
MPlus(e, P, Q) ==   \* <<>> is the point at infinity
  IF P = <<>> THEN Q
  ELSE IF Q = <<>> THEN P
  ELSE IF P[1] = Q[1] /\ FAdd(P[2], Q[2]) = 0 THEN <<>>
  ELSE LET slope ==
             IF P[1] = Q[1]
             THEN FMul((3 * FSq(P[1]) + 2 * FMul(CoeffA, P[1]) + 1) % p,
                       FInvert(FMul(2, FMul(e, P[2]))))
             ELSE FMul(FSub(Q[2], P[2]), FInvert(FSub(Q[1], P[1])))
           u == (FMul(e, FSq(slope)) - CoeffA - P[1] - Q[1]) % p
       IN  <<u, FSub(FMul(slope, FSub(P[1], u)), P[2])>>

Cubic(u) == (FMul(u, FSq(u)) + FMul(CoeffA, FSq(u)) + u) % p
OnCurve(u) == CHOOSE eP \in (1 .. p - 1) \X (0 .. p - 1) : FMul(eP[1], FSq(eP[2])) = Cubic(u)

\* LadderTable[u][n + 1] is the u-coordinate of n times a point over u.
LadderTable ==
  [u \in 0 .. p - 1 |->
    LET e == OnCurve(u)[1]
        P == <<u, OnCurve(u)[2]>>
        points == FoldLeft(LAMBDA s, i : Append(s, MPlus(e, s[Len(s)], P)), << <<>> >>,
                           [i \in 1 .. 2 * TopBit |-> i])
    IN  [n \in DOMAIN points |-> IF points[n] = <<>> THEN 0 ELSE points[n][1]]]
---------------------------------------------------------------------------
\* Not the source's hash, but like it a function of all the parts.
Hash(parts) ==
  FoldLeft(LAMBDA h, x : ((h + x + 7) * (h + 3 * x + 29)) % 509, 1, parts)

E == INSTANCE Edwards WITH
  fe_0 <- 0, fe_1 <- 1, fe_add <- FAdd, fe_sub <- FSub, fe_neg <- FNeg, fe_mul <- FMul,
  fe_sq <- FSq, fe_sq2 <- FSq2, fe_invert <- FInvert, fe_pow22523 <- FPow22523,
  fe_frombytes <- FFromBytes, fe_tobytes <- Same, d2 <- FAdd(d, d), sqrtm1 <- RootM1,
  Digits <- 4, Bits <- 10, Multiple <- TimesB

M == INSTANCE Montgomery WITH
  fe_0 <- 0, fe_1 <- 1, fsum <- FAdd, fdifference <- FDifference, fmul <- FMul,
  fsquare <- FSq, fscaled <- FMul, crecip <- FInvert, fexpand <- FFromBytes,
  fcontract <- Same, a24 <- (CoeffA - 2) \div 4, Bits <- 7

Mod(x) == x % L
MulAdd(x, y, z) == (x * y + z) % L
ScalarmultBase(a) == E!ge_scalarmult_base(a)
P3ToBytes(h) == E!ge_p3_tobytes(h)
ToBytes(h) == E!ge_tobytes(h)
FromBytesNegate(s) == E!ge_frombytes_negate_vartime(s)
DoubleScalarmult(a, P, b) == E!ge_double_scalarmult_vartime(a, P, b)
ClampedHash(sk) == (Hash(<<sk>>) % 4) * 8 + 32
HighHash(sk) == Hash(<<sk, 1>>)

S == INSTANCE Signatures WITH
  fe_1 <- 1, fe_add <- FAdd, fe_sub <- FSub, fe_mul <- FMul, fe_invert <- FInvert,
  fe_frombytes <- FFromBytes, fe_tobytes <- Same, ge_scalarmult_base <- ScalarmultBase,
  ge_p3_tobytes <- P3ToBytes, ge_tobytes <- ToBytes, NotAPoint <- <<>>,
  ge_frombytes_negate_vartime <- FromBytesNegate,
  ge_double_scalarmult_vartime <- DoubleScalarmult, sc_reduce <- Mod, sc_muladd <- MulAdd,
  crypto_hash_sha512 <- Hash, Clamped <- ClampedHash, AzHigh <- HighHash
---------------------------------------------------------------------------
(* Bounds: an element is the largest of its limbs, in thousandths of 2^26   *)
(* for an even limb and 2^25 for an odd one.  The bounds are those the      *)
(* comments of fe_*.c state; a product of larger limbs may exceed 64 bits,  *)
(* and counts as Over from then on.                                         *)
Over == 1000000
BMul(x, y) == IF x <= 1650 /\ y <= 1650 THEN 505 ELSE Over
BSq(x) == BMul(x, x)
BAdd(x, y) == x + y
BToBytes(x) == IF x <= 1100 THEN 0 ELSE Over
BTimes(n) == <<505, 505>>

EB == INSTANCE Edwards WITH
  fe_0 <- 0, fe_1 <- 1, fe_add <- BAdd, fe_sub <- BAdd, fe_neg <- Same, fe_mul <- BMul,
  fe_sq <- BSq, fe_sq2 <- BSq, fe_invert <- BSq, fe_pow22523 <- BSq,
  fe_frombytes <- BSq, fe_tobytes <- BToBytes, d <- 505, d2 <- 505, sqrtm1 <- 505,
  Digits <- 4, Bits <- 10, Multiple <- BTimes

(* In curve25519-donna.c a reduced limb is below 2^26, and the factors of a *)
(* product below 2^27: bounds are in 2^26.                                  *)
DMul(x, y) == IF x <= 2 /\ y <= 2 THEN 1 ELSE Over
DSq(x) == DMul(x, x)

MB == INSTANCE Montgomery WITH
  fe_0 <- 0, fe_1 <- 1, fsum <- BAdd, fdifference <- BAdd, fmul <- DMul, fsquare <- DSq,
  fscaled <- DMul, crecip <- DSq, fexpand <- DSq, fcontract <- Same, a24 <- 1, Bits <- 7
---------------------------------------------------------------------------
\* P in ge_p3, with the Z given.
P3(P, z) == [X |-> FMul(P[1], z), Y |-> FMul(P[2], z), Z |-> z,
             T |-> FMul(FMul(P[1], P[2]), z)]
Affine(h) == <<FMul(h.X, FInvert(h.Z)), FMul(h.Y, FInvert(h.Z))>>
Encoded(P) == P[2] + (P[1] % 2) * TopBit
Precomp(P) == [yplusx |-> FAdd(P[2], P[1]), yminusx |-> FSub(P[2], P[1]),
               xy2d |-> FMul(2 * d, FMul(P[1], P[2]))]

Idle == call = <<"idle">>
Init == Idle /\ result = 0

Call(name, args, value) == call' = <<name>> \o args /\ result' = value

AddPoints ==
  /\ Idle
  /\ \E P, Q \in Points : \E z \in {1, 5} :
       LET h == P3(P, z)
           c == E!ge_p3_to_cached(P3(Q, (3 * z) % p))
       IN  \/ Call("ge_add", <<P, Q>>, E!ge_add(h, c))
           \/ Call("ge_sub", <<P, Q>>, E!ge_sub(h, c))
           \/ Call("ge_madd", <<P, Q>>, E!ge_madd(h, Precomp(Q)))
           \/ Call("ge_msub", <<P, Q>>, E!ge_msub(h, Precomp(Q)))
           \/ P = Q /\ Call("ge_p3_dbl", <<P, P>>, E!ge_p3_dbl(h))

Encode ==
  /\ Idle
  /\ \E P \in Points : \E z \in 1 .. p - 1 :
       Call("ge_p3_tobytes", <<P>>, E!ge_p3_tobytes(P3(P, z)))

Decode ==
  /\ Idle
  /\ \E s \in 0 .. 2 * TopBit - 1 :
       Call("ge_frombytes_negate_vartime", <<s>>, E!ge_frombytes_negate_vartime(s))

SomeScalars == 0 .. 40 \cup {113 * k : k \in 1 .. 40} \cup 32740 .. 32767

MultiplyBase ==
  /\ Idle
  /\ \E a \in SomeScalars : Call("ge_scalarmult_base", <<a>>, E!ge_scalarmult_base(a))

SlideScalar ==
  /\ Idle
  /\ \E a \in 0 .. 511 : Call("slide", <<a>>, E!slide(a))

\* The base point, its double, infinity, and points of even order.
SomePoints == {Times(k, B) : k \in 0 .. 2} \cup {<<RootM1, 0>>, Plus(B, <<RootM1, 0>>)}

MultiplyTwo ==
  /\ Idle
  /\ \E a, b \in 0 .. L \cup {31 * k : k \in 13 .. 16} : \E P \in SomePoints :
       Call("ge_double_scalarmult_vartime", <<a, P, b>>,
            E!ge_double_scalarmult_vartime(a, P3(P, 3), b))

\* All keys, and secrets with and without the clamping of the wrapper.
Ladder ==
  /\ Idle
  /\ \E n \in 0 .. 9 \cup {8 * k : k \in 2 .. 15} \cup {TopBit + 1, 2 * TopBit - 1},
        q \in 0 .. TopBit - 1 \cup {TopBit, TopBit + 5} :
       Call("curve25519_donna", <<n, q>>, M!curve25519_donna(n, q))

\* A multiple of L is not the private key of any public key.
PrivateKeys == {k \in 1 .. TopBit - 1 : k % L # 0}

Keygen ==
  /\ Idle
  /\ \E k \in 0 .. TopBit - 1 : Call("curve25519_keygen", <<k>>, S!curve25519_keygen(k))

Sign ==
  /\ Idle
  /\ \E k \in PrivateKeys, m \in Messages :
          Call("curve25519_sign", <<k, m>>, S!curve25519_sign(k, m))

SignEd ==
  /\ Idle
  /\ \E k \in PrivateKeys, m \in Messages :
       LET pk == P3ToBytes(ScalarmultBase(ClampedHash(k)))
       IN  ClampedHash(k) % L # 0 /\ Call("crypto_sign", <<k, m, pk>>, S!crypto_sign(m, k, pk))

\* Public keys of both parities, u-coordinates that are not on the curve,
\* and the two that the birational map sends nowhere.
SomeKeys == {0, 1, 3, 5, 13, p - 1}
SomeS == {0, 1, L - 1, L, ScalarBit - 1, ScalarBit}

\* The encodings R can have, and strings that are none.
SomeR == {Encoded(TimesB(k)) : k \in 0 .. L - 1} \cup {0, TopBit + 1, 2 * TopBit - 1}

Verify ==
  /\ Idle
  /\ \E R \in SomeR, s \in SomeS \cup {TopBit + k : k \in SomeS}, key \in SomeKeys :
       LET sm == [R |-> R, S |-> s, m |-> 1]
       IN  Call("curve25519_verify", <<sm, key>>, S!curve25519_verify(sm, key))

\* Any reduced point, and the functions that chain the most operations.
Bound ==
  /\ Idle
  /\ LET reduced == [X |-> 505, Y |-> 505, Z |-> 505, T |-> 505] IN
       \/ \E h \in {EB!ge_scalarmult_base(1729),
                    EB!ge_double_scalarmult_vartime(333, reduced, 217),
                    EB!ge_frombytes_negate_vartime(1),
                    [s |-> EB!ge_tobytes(reduced)]} : Call("bound of Edwards", <<>>, h)
       \/ \E n \in {0, 85, 127} : Call("bound of Montgomery", <<n>>, MB!cmult(n, 1))

Return == ~Idle /\ call' = <<"idle">> /\ result' = 0

Next ==
  \/ AddPoints \/ Encode \/ Decode \/ MultiplyBase \/ SlideScalar \/ MultiplyTwo
  \/ Ladder \/ Keygen \/ Sign \/ SignEd \/ Verify \/ Bound \/ Return

Spec == Init /\ [][Next]_vars
---------------------------------------------------------------------------
(* The formulas of ge_*.h compute the addition law for all pairs of points, *)
(* equal, opposite and of small order ones included, whatever their Z; and  *)
(* T is X Y / Z, which the next addition relies on.                         *)
AdditionLaw ==
  call[1] \in {"ge_add", "ge_sub", "ge_madd", "ge_msub", "ge_p3_dbl"} =>
    LET h == E!ge_p1p1_to_p3(result)
        Q == IF call[1] \in {"ge_sub", "ge_msub"} THEN Minus(call[3]) ELSE call[3]
    IN  /\ h.Z # 0
        /\ Affine(h) = Plus(call[2], Q)
        /\ FMul(h.T, h.Z) = FMul(h.X, h.Y)

(* A point is encoded the same whatever its Z, and the encoding decodes to  *)
(* minus the point; a string decodes exactly if its y has a point, to one   *)
(* with that y, and with the other parity unless x is 0.                    *)
EncodingRoundTrip ==
  /\ call[1] = "ge_p3_tobytes" =>
       /\ result = Encoded(call[2])
       /\ Affine(E!ge_frombytes_negate_vartime(result)) = Minus(call[2])
  /\ call[1] = "ge_frombytes_negate_vartime" =>
       LET y == FFromBytes(call[2])
       IN  IF \E P \in Points : P[2] = y
           THEN /\ Affine(result) \in Points /\ Affine(result)[2] = y
                /\ result.X = 0 \/ result.X % 2 # call[2] \div TopBit
           ELSE result = E!NotAPoint

(* Each recoding of a scalar spells the scalar, and the multiplications by  *)
(* tables of the base point and by windows return the multiples they name,  *)
(* for every kind of point.  The scalars are below the top bit, as those    *)
(* reduced modulo the group order are, so no carry runs off the last place. *)
MultiplesOfPoints ==
  /\ call[1] = "slide" =>
       /\ FoldLeftDomain(LAMBDA sum, i : sum + result[i - 1] * 2 ^ (i - 1), 0,
                         [i \in 1 .. 10 |-> 0]) = call[2]
       /\ \A i \in DOMAIN result : result[i] # 0 => result[i] % 2 = 1 /\ result[i] \in -15 .. 15
  /\ call[1] = "ge_scalarmult_base" => Affine(result) = Times(call[2], B)
  /\ call[1] = "ge_double_scalarmult_vartime" =>
       Affine(result) = Plus(Times(call[2], call[3]), Times(call[4], B))

(* The ladder returns the u-coordinate of n times a point over the given u, *)
(* on the curve or on its twist, 0 for infinity; and the two ways to make a *)
(* public key, with the ladder and with the Edwards table, agree.           *)
LadderIsMultiple ==
  /\ call[1] = "curve25519_donna" =>
       result = LadderTable[FFromBytes(call[3])][call[2] + 1]
  /\ call[1] = "curve25519_keygen" =>
       result = M!curve25519_donna(call[2], FMul(1 + B[2], FInvert(FSub(1, B[2]))))

(* A signature made with a private key verifies with its public key, which  *)
(* has lost the sign of the Edwards point: S carries it.                    *)
SignaturesVerify ==
  /\ call[1] = "curve25519_sign" =>
       S!curve25519_verify(result, S!curve25519_keygen(call[2])) = 0
  /\ call[1] = "crypto_sign" => S!crypto_sign_open(result, call[4]) = 0

(* A signature is accepted exactly when S is below 2^253, the key with the  *)
(* sign in S decodes, and R is the encoding of S B - h A.                   *)
VerifyIsEquation ==
  call[1] = "curve25519_verify" =>
    LET sm == call[2]
        u == call[3]
        y == FMul(u - 1, FInvert(FAdd(u, 1)))
        pk == y + (sm.S \div TopBit) * TopBit
        \* the points that pk names; for x = 0 both parities name the same
        K == {P \in Points : P[2] = y /\ (P[1] % 2 = sm.S \div TopBit \/ P[1] = 0)}
        h == Hash(<<sm.R, pk, sm.m>>) % L
    IN  result = IF /\ sm.S % TopBit < ScalarBit
                    /\ \E P \in K : sm.R = Encoded(Plus(Times(sm.S % TopBit, B), Minus(Times(h, P))))
                 THEN 0 ELSE -1

(* No product is given limbs larger than those the comments of fe_mul.c and *)
(* fe_sq.c ask for, however the additions between the products are chained. *)
(* That the sums of the products then fit 64 bits, and that the limbs of    *)
(* the result are as small as they say, is taken from these comments.       *)
LimbsWithinBounds ==
  /\ call[1] = "bound of Edwards" =>
       result # E!NotAPoint /\ \A f \in DOMAIN result : result[f] <= 1650
  /\ call[1] = "bound of Montgomery" => \A f \in DOMAIN result : result[f] <= 2
=============================================================================
