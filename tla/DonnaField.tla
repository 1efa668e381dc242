---------------------------- MODULE DonnaField ----------------------------
(***************************************************************************)
(* The second implementation of the same field, the one the key agreement  *)
(* uses: native/curve25519-donna.c, up to fcontract.  Its limbs have the   *)
(* weights of FieldElement; its carries round toward zero, its products are *)
(* kept in 2N-1 coefficients until freduce_degree folds them.              *)
(***************************************************************************)
EXTENDS FieldElement

fsum(output, in) == [i \in Limbs |-> output[i] + in[i]]

\* Note the order of the arguments: in - output.
fdifference(output, in) == [i \in Limbs |-> in[i] - output[i]]

fscalar_product(in, scalar) == [i \in Limbs |-> in[i] * scalar]

OddTwice(i, j) == IF i % 2 = 1 /\ j % 2 = 1 THEN 2 ELSE 1

fproduct(in2, in) ==
  [k \in 0 .. 2 * N - 2 |->
    LET sum[i \in 0 .. N] ==
          IF i = 0 THEN 0
          ELSE sum[i-1] + (IF k - (i-1) \in Limbs
                           THEN OddTwice(i-1, k - (i-1)) * in2[i-1] * in[k - (i-1)]
                           ELSE 0)
    IN  sum[N]]

fsquare_inner(in) ==
  [k \in 0 .. 2 * N - 2 |->
    LET sum[i \in 0 .. N] ==
          IF i = 0 THEN 0
          ELSE LET j == k - (i-1)
               IN  sum[i-1] + (IF j \in Limbs /\ i - 1 <= j
                               THEN (IF i - 1 = j THEN 1 ELSE 2) * OddTwice(i-1, j)
                                      * in[i-1] * in[j]
                               ELSE 0)
    IN  sum[N]]

\* Coefficient i + N weighs 2^255 times what coefficient i does, that is C times.
freduce_degree(output) ==
  [i \in Limbs |-> IF i = N - 1 THEN output[i] ELSE output[i] + C * output[i + N]]

(* div_by_2_26 and div_by_2_25: a shift that rounds toward zero. *)
DivByRadix(v, i) == (v + (IF v < 0 THEN Radix[i] - 1 ELSE 0)) \div Radix[i]

\* Carry limb i into the next, with limb N coming back to limb 0 at the end.
freduce_coefficients(output) ==
  LET Step(h, i) ==
        LET over == DivByRadix(h[i], i) IN
          [h EXCEPT ![i] = @ - over * Radix[i], ![i + 1] = @ + over]
      once == FoldLeft(Step, [i \in 0 .. N |-> IF i = N THEN 0 ELSE output[i]],
                       [i \in 1 .. N |-> i - 1])
      folded == [i \in Limbs |-> IF i = 0 THEN once[0] + C * once[N] ELSE once[i]]
  IN  Step(folded, 0)

fmul(in, in2) == freduce_coefficients(freduce_degree(fproduct(in, in2)))
fsquare(in)   == freduce_coefficients(freduce_degree(fsquare_inner(in)))

\* Fault: the top bit of the string goes into the last limb.
fexpandTopBit(input) ==
  [i \in Limbs |-> IF i = N - 1 THEN input \div Weight[i] ELSE (input \div Weight[i]) % Radix[i]]

\* The limbs are the bits between two weights; the top bit is masked off.
fexpand(input) == [i \in Limbs |-> (input \div Weight[i]) % Radix[i]]
---------------------------------------------------------------------------
(* fcontract.  A negative limb borrows from the next; the last limb borrows *)
(* C from limb 0.                                                           *)
Borrow(h, i) ==
  LET carry == IF h[i] < 0 THEN -(h[i] \div Radix[i]) ELSE 0 IN
    [h EXCEPT ![i] = @ + carry * Radix[i],
              ![(i + 1) % N] = @ - carry * Wrap(i)]

CarryDown(h, i) ==
  LET carry == h[i] \div Radix[i] IN
    [h EXCEPT ![i] = @ % Radix[i], ![(i + 1) % N] = @ + carry * Wrap(i)]

s32_eq(a, b)  == IF a = b THEN 1 ELSE 0
s32_gte(a, b) == IF a >= b THEN 1 ELSE 0

\* Two rounds of borrows and one more from limb 0, two rounds of carries.
Settled(input) ==
  LET round == [i \in 1 .. N |-> i - 1] IN
    FoldLeft(CarryDown, FoldLeft(Borrow, input, round \o round \o <<0>>), round \o round)

\* All ones, here 1, when the settled limbs spell a number from P to 2^255 - 1.
FullMask(h) ==
  FoldLeft(LAMBDA m, i : m * s32_eq(h[i-1], Radix[i-1] - 1),
           s32_gte(h[0], Radix[0] - C), [i \in 2 .. N |-> i])

fcontract(input_limbs) ==
  LET h == Settled(input_limbs)
      mask == FullMask(h)
  IN  Value([i \in Limbs |->
              h[i] - mask * (IF i = 0 THEN Radix[0] - C ELSE Radix[i] - 1)])
===========================================================================
