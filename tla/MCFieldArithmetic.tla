------------------------- MODULE MCFieldArithmetic -------------------------
(***************************************************************************)
(* The arithmetic of native/ with small limbs, checked against integers    *)
(* modulo P and modulo L, and SHA-512 with small words, against the        *)
(* padding and the compression function of the standard.                   *)
(*                                                                         *)
(* Two, Four and Ten have two, four and ten limbs.  Ten has the indices    *)
(* and the constant of the source, so that each product of two limbs lands *)
(* where it does there; the smaller ones have room in their limbs for the  *)
(* ranges the source allows, up to the limits its comments state.          *)
(***************************************************************************)
EXTENDS Integers, Sequences, SequencesExt

CONSTANTS TwoC, FourC, TenC, BlockLength   \* C in each field; bytes in a block

VARIABLES call, result

vars == <<call, result>>

Alternating(n, even, odd) == [i \in 0 .. n - 1 |-> IF i % 2 = 0 THEN even ELSE odd]

Two == INSTANCE DonnaField WITH        \* P = 2^9 - 3
  N <- 2, Radix <- Alternating(2, 32, 16), C <- TwoC,
  Load <- [i \in 0 .. 2 |-> <<1, 64, 512>>[i + 1]]

Four == INSTANCE DonnaField WITH       \* P = 2^14 - 3
  N <- 4, Radix <- Alternating(4, 16, 8), C <- FourC,
  Load <- [i \in 0 .. 4 |-> <<1, 64, 512, 4096, 16384>>[i + 1]]

Ten == INSTANCE DonnaField WITH        \* P = 2^15 - 19
  N <- 10, Radix <- Alternating(10, 4, 2), C <- TenC, Load <- [i \in 0 .. 10 |-> 1]

ShortScalar == INSTANCE Scalars WITH K <- 2, R <- 8, Mu <- <<-3>>      \* L = 67
Scalar      == INSTANCE Scalars WITH K <- 4, R <- 8, Mu <- <<1, -4>>   \* L = 4127

(* A power of x is the set of the bits of its exponent; a product that has  *)
(* to carry is not one the chains make.                                     *)
Shifted(e, n) == {k + n : k \in e}
Disjoint(e, f) == IF e \cap f = {} THEN e \cup f ELSE {-1}
Chain == INSTANCE FieldChains WITH Squared <- Shifted, Mul <- Disjoint

RoundConstant(i) == (i * i * 37 + 11) % 256
Sha == INSTANCE Sha512 WITH BLEN <- BlockLength, WLEN <- 1, Rounds <- 24, Bits <- 8, K512 <- RoundConstant
---------------------------------------------------------------------------
Idle == call = <<"idle">>
Init == Idle /\ result = 0
Call(name, args, value) == call' = <<name>> \o args /\ result' = value

\* Limbs at and between the bounds of a factor, 1.65 times the radix.
TwoElements == [0 .. 1 -> {-26, -16, -1, 0, 1, 8, 15, 26}]
FourElements ==
  [0 .. 3 -> {-13, 0, 13}] \cup {[i \in 0 .. 3 |-> a] : a \in -13 .. 13}
    \cup {[i \in 0 .. 3 |-> IF i % 2 = 0 THEN 2 * a ELSE -a] : a \in -13 .. 13}
Unit(i, a)  == [k \in 0 .. 9 |-> IF k = i THEN a ELSE 0]
TenElements == {Unit(i, a) : i \in 0 .. 9, a \in {1, -2}} \cup {[k \in 0 .. 9 |-> 3 - k]}

Multiply ==
  /\ Idle
  /\ \/ \E f, g \in TwoElements :
          \/ Call("Two fe_mul", <<f, g>>, Two!fe_mul(f, g))
          \/ Call("Two fmul", <<f, g>>, Two!fmul(f, g))
     \/ \E f \in FourElements, g \in {[i \in 0 .. 3 |-> 13], [i \in 0 .. 3 |-> 3 - 5 * i]} :
          \/ Call("Four fe_mul", <<f, g>>, Four!fe_mul(f, g))
          \/ Call("Four fmul", <<f, g>>, Four!fmul(f, g))
     \/ \E f, g \in TenElements :
          \/ Call("Ten fe_mul", <<f, g>>, Ten!fe_mul(f, g))
          \/ Call("Ten fmul", <<f, g>>, Ten!fmul(f, g))

Square ==
  /\ Idle
  /\ \/ \E f \in TwoElements :
          \/ Call("Two fe_mul", <<f, f>>, Two!fe_sq(f))
          \/ Call("Two fe_sq2", <<f, f>>, Two!fe_sq2(f))
          \/ Call("Two fmul", <<f, f>>, Two!fsquare(f))
     \/ \E f, g \in TenElements :
          LET h == Ten!fe_add(f, g) IN
            \/ Call("Ten fe_mul", <<h, h>>, Ten!fe_sq(h))
            \/ Call("Ten fe_sq2", <<h, h>>, Ten!fe_sq2(h))
            \/ Call("Ten fmul", <<h, h>>, Ten!fsquare(h))

\* A sum and a difference, not reduced, as factors; and a small multiple.
MultiplySums ==
  /\ Idle
  /\ \E f, g \in {[i \in 0 .. 1 |-> a - 17 * b * i] : a \in -13 .. 13, b \in {-1, 0, 1}} :
       \/ Call("f^2 - g^2", <<f, g>>, Two!fe_mul(Two!fe_add(Two!fe_copy(f), g), Two!fe_sub(f, g)))
       \/ Call("f^2 - g^2", <<f, g>>, Two!fmul(Two!fsum(f, g), Two!fdifference(g, f)))
       \/ Call("f^2 - g^2", <<f, g>>, Two!fe_mul(Two!fe_sub(f, g), Two!fe_sub(f, Two!fe_neg(g))))
       \/ Call("5 f", <<f, f>>, Two!freduce_coefficients(Two!fscalar_product(f, 5)))

\* All the values limbs can have before they are made bytes.
ToBytes ==
  /\ Idle
  /\ \/ \E a \in -35 .. 35, b \in -17 .. 17 :
          LET f == [i \in 0 .. 1 |-> IF i = 0 THEN a ELSE b] IN Call("Two fe_tobytes", <<f>>, Two!fe_tobytes(f))
     \/ \E a, b \in -31 .. 31 :
          LET f == [i \in 0 .. 1 |-> IF i = 0 THEN a ELSE b] IN Call("Two fe_tobytes", <<f>>, Two!fcontract(f))
     \/ \E f \in [0 .. 3 -> {-15, -8, -1, 0, 7, 15}] :
          \/ Call("Four fe_tobytes", <<f>>, Four!fe_tobytes(f))
          \/ Call("Four fe_tobytes", <<f>>, Four!fcontract(f))

\* Strings of ten bits: the last one is not part of the number.
FromBytes ==
  /\ Idle
  /\ \E s \in 0 .. 1023 :
       \/ Call("fe_frombytes", <<s>>, Two!fe_frombytes(s))
       \/ Call("fe_frombytes", <<s>>, Two!fexpand(s))

Decide ==
  /\ Idle
  /\ \E a \in -35 .. 35, b \in -17 .. 17 :
       LET f == [i \in 0 .. 1 |-> IF i = 0 THEN a ELSE b] IN
         Call("decide", <<f>>,
              <<Two!fe_isnegative(f), Two!fe_isnonzero(f), Two!fe_cmov(f, Two!fe_1, 0), Two!fe_cmov(Two!fe_0, f, 1)>>)

ReduceScalar ==
  /\ Idle
  /\ \/ \E s \in {k * 1000003 : k \in 0 .. 268} \cup 4000 .. 4300 \cup 268435400 .. 268435455 :
          Call("sc", <<s, 4127>>, Scalar!sc_reduce(s))
     \/ \E s \in 0 .. 300 \cup {k * 211 : k \in 1 .. 310} \cup 65500 .. 65535 :
          Call("sc", <<s, 67>>, ShortScalar!sc_reduce(s))
     \/ \E a, b, c \in {0, 1, 7, 4126, 4127, 4128, 8191, 9999, 16383} :
          Call("sc", <<a * b + c, 4127>>, Scalar!sc_muladd(a, b, c))

RaisePower ==
  /\ Idle
  /\ \/ Call("fe_invert", <<>>, Chain!fe_invert({0}))
     \/ Call("fe_invert", <<>>, Chain!crecip({0}))
     \/ Call("fe_pow22523", <<>>, Chain!fe_pow22523({0}))

Lengths == {0, 1, 5, 6, 7, 8, 9, 15, 16, 17, 24, 35}
Bytes(from, n) == [i \in 1 .. n |-> from + i]

\* Data given to the hash in three updates; pointers aligned or not.
HashParts ==
  /\ Idle
  /\ \E a, b \in Lengths, c \in {0, 3, 16}, aligned \in BOOLEAN :
       Call("hash", <<a + b + c>>,
            Sha!crypto_hash_sha512(<<Bytes(0, a), Bytes(a, b), Bytes(a + b, c)>>, aligned))

Compress ==
  /\ Idle
  /\ \E a \in 0 .. 60 : \E b \in {0, 97, 255} :
       LET in == [i \in 1 .. 16 |-> (a * i * i + b + i) % 256]
           r == [n \in 0 .. 7 |-> (b * n + a + 3 * n * n) % 256]
       IN  Call("compress", <<in, r>>, Sha!sha3_round(in, r))

Return == ~Idle /\ call' = <<"idle">> /\ result' = 0

Next == \/ Multiply \/ Square \/ MultiplySums \/ ToBytes \/ FromBytes \/ Decide
        \/ ReduceScalar \/ RaisePower \/ HashParts \/ Compress \/ Return

Spec == Init /\ [][Next]_vars
---------------------------------------------------------------------------
Congruent(x, y, modulus) == (x - y) % modulus = 0
Product2(x, y, modulus) == ((x % modulus) * (y % modulus)) % modulus

(* Both implementations multiply and square to the right number modulo P,   *)
(* for all limbs of Two and Four in the domains of the calls, which reach   *)
(* 1.65 times the radix, and for sums and differences, which are not        *)
(* reduced before they are multiplied.  Integers have no width here, and    *)
(* nothing is said of how large the limbs of a result are.                  *)
ProductsAgree ==
  /\ call[1] \in {"Two fe_mul", "Two fmul"} =>
       Congruent(Two!Value(result), Two!Value(call[2]) * Two!Value(call[3]), Two!P)
  /\ call[1] = "Two fe_sq2" => Congruent(Two!Value(result), 2 * Two!Value(call[2]) * Two!Value(call[3]), Two!P)
  /\ call[1] \in {"Four fe_mul", "Four fmul"} =>
       Congruent(Four!Value(result), Product2(Four!Value(call[2]), Four!Value(call[3]), Four!P), Four!P)
  /\ call[1] \in {"Ten fe_mul", "Ten fmul"} =>
       Congruent(Ten!Value(result), Product2(Ten!Value(call[2]), Ten!Value(call[3]), Ten!P), Ten!P)
  /\ call[1] = "Ten fe_sq2" =>
       Congruent(Ten!Value(result), 2 * Product2(Ten!Value(call[2]), Ten!Value(call[3]), Ten!P), Ten!P)
  /\ call[1] = "f^2 - g^2" =>
       Congruent(Two!Value(result), Two!Value(call[2]) * Two!Value(call[2]) - Two!Value(call[3]) * Two!Value(call[3]), Two!P)
  /\ call[1] = "5 f" => Congruent(Two!Value(result), 5 * Two!Value(call[2]), Two!P)

(* Bytes are the one number below P that an element stands for, whatever    *)
(* the signs and the excess of its limbs; sign and zero are read off them.  *)
BytesAreCanonical ==
  /\ call[1] = "Two fe_tobytes" => result = Two!Value(call[2]) % Two!P
  /\ call[1] = "Four fe_tobytes" => result = Four!Value(call[2]) % Four!P
  /\ call[1] = "decide" =>
       result = <<(Two!Value(call[2]) % Two!P) % 2, IF Two!Value(call[2]) % Two!P = 0 THEN 0 ELSE -1,
                  call[2], call[2]>>

(* A string is read modulo P without its top bit, also when it is not       *)
(* canonical, and written back it is.                                       *)
BytesAreRead ==
  call[1] = "fe_frombytes" =>
    /\ Congruent(Two!Value(result), call[2] % 512, Two!P)
    /\ Two!fe_tobytes(result) = (call[2] % 512) % Two!P
    /\ Two!fcontract(result) = (call[2] % 512) % Two!P

(* A scalar is reduced to the one number from 0 to L - 1.                   *)
ScalarsAreReduced == call[1] = "sc" => result = call[2] % call[3]

(* The chains raise to P - 2 = 2^255 - 21 and (P - 5) / 8 = 2^252 - 3.      *)
ChainsAreFixedPowers ==
  /\ call[1] = "fe_invert" => result = {0, 1, 3} \cup 5 .. 254
  /\ call[1] = "fe_pow22523" => result = {0} \cup 2 .. 251

(* The blocks compressed are the data, 0x80, zeros and the length in bits,  *)
(* however the data was split into updates and aligned.                     *)
HashIsOfAllData ==
  call[1] = "hash" =>
    LET n == call[2]
        zeros == (Sha!MAXPAD - (n + 1)) % 8
        padded == Bytes(0, n) \o <<128>> \o [i \in 1 .. zeros |-> 0] \o <<(8 * n) \div 256, (8 * n) % 256>>
    IN  FlattenSeq(result) = padded

(* The rounds with turned register names compute what the standard says     *)
(* with registers that move.                                                *)
CompressionIsStandard ==
  call[1] = "compress" =>
    LET W == Sha!Schedule(call[2])
        Round(u, i) ==
          LET T1 == u[7] + Sha!BSG5_1(u[4]) + Sha!CH(u[4], u[5], u[6]) + RoundConstant(i - 1) + W[i]
              T2 == Sha!BSG5_0(u[0]) + Sha!MAJ(u[0], u[1], u[2])
          IN  [n \in 0 .. 7 |-> IF n = 0 THEN (T1 + T2) % 256
                                ELSE IF n = 4 THEN (u[3] + T1) % 256 ELSE u[n - 1]]
        v == FoldLeft(Round, call[3], [i \in 1 .. 24 |-> i])
    IN  result = [n \in 0 .. 7 |-> (call[3][n] + v[n]) % 256]
============================================================================
