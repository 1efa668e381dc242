----------------------------- MODULE Signatures -----------------------------
(***************************************************************************)
(* Signatures with a key-agreement key: ed25519/additions/curve_sigs.c,    *)
(* sign_modified.c, and sign.c and open.c, to which they belong.           *)
(*                                                                         *)
(* A byte string of 32 bytes is the number it encodes; a signed message is *)
(* a record of its parts R and S and the message.  The hash, and the       *)
(* modules below, are parameters.                                          *)
(***************************************************************************)
EXTENDS Integers

CONSTANTS
  fe_1, fe_add(_, _), fe_sub(_, _), fe_mul(_, _), fe_invert(_), fe_frombytes(_), fe_tobytes(_),
  ge_scalarmult_base(_), ge_p3_tobytes(_), ge_tobytes(_), NotAPoint,
  ge_frombytes_negate_vartime(_), ge_double_scalarmult_vartime(_, _, _),
  sc_reduce(_), sc_muladd(_, _, _),
  crypto_hash_sha512(_),  \* of the sequence of the parts of the input
  TopBit,                 \* 2^255
  ScalarBit,              \* 2^253: `sm[63] & 224` is zero below it
  Clamped(_), AzHigh(_)   \* the two halves of the hash crypto_sign makes of a key

crypto_verify_32_ref(x, y) == IF x = y THEN 0 ELSE -1

\* The Montgomery x-coordinate of a B, by way of the Edwards y-coordinate.
curve25519_keygen(privkey) ==
  LET ed_pubkey == ge_p3_tobytes(ge_scalarmult_base(privkey))
      ed_y == fe_frombytes(ed_pubkey % TopBit)
  IN  fe_tobytes(fe_mul(fe_add(ed_y, fe_1), fe_invert(fe_sub(fe_1, ed_y))))

\* S = hram a + nonce; the nonce is the hash of a secret and the message.
Signed(a, secret, pk, m) ==
  LET nonce == sc_reduce(crypto_hash_sha512(<<secret, m>>))
      R == ge_p3_tobytes(ge_scalarmult_base(nonce))
      hram == sc_reduce(crypto_hash_sha512(<<R, pk, m>>))
  IN  [R |-> R, S |-> sc_muladd(hram, a, nonce), m |-> m]

\* The key is both the scalar and the secret of the nonce.
crypto_sign_modified(m, sk, pk) == Signed(sk, sk, pk, m)

\* Both come from the hash of the key.
crypto_sign(m, sk, pk) == Signed(Clamped(sk), AzHigh(sk), pk, m)

\* Fault: the sign of the Edwards point is dropped.
curve25519_signNoSign(privkey, msg) ==
  LET pk == ge_p3_tobytes(ge_scalarmult_base(privkey))
  IN  crypto_sign_modified(msg, privkey, pk)

\* The sign of the Edwards point goes into the unused bit of S.
curve25519_sign(privkey, msg) ==
  LET pk == ge_p3_tobytes(ge_scalarmult_base(privkey))
      sm == crypto_sign_modified(msg, privkey, pk)
  IN  [sm EXCEPT !.S = (@ % TopBit) + (IF @ >= TopBit \/ pk >= TopBit THEN TopBit ELSE 0)]

\* Fault: S may have any size.
crypto_sign_openAnyS(sm, pk) ==
  LET A == ge_frombytes_negate_vartime(pk)
      h == sc_reduce(crypto_hash_sha512(<<sm.R, pk, sm.m>>))
      rcheck == ge_tobytes(ge_double_scalarmult_vartime(h, A, sm.S))
  IN  IF A = NotAPoint THEN -1
      ELSE IF crypto_verify_32_ref(rcheck, sm.R) = 0 THEN 0 ELSE -1

\* 0 when R is the encoding of S B - h A.
crypto_sign_open(sm, pk) ==
  LET A == ge_frombytes_negate_vartime(pk)
      h == sc_reduce(crypto_hash_sha512(<<sm.R, pk, sm.m>>))
      rcheck == ge_tobytes(ge_double_scalarmult_vartime(h, A, sm.S))
  IN  IF sm.S >= ScalarBit \/ A = NotAPoint THEN -1
      ELSE IF crypto_verify_32_ref(rcheck, sm.R) = 0 THEN 0 ELSE -1

\* The Edwards y-coordinate of the key, with the sign that S carries.
curve25519_verify(sm, pubkey) ==
  LET mont_x == fe_frombytes(pubkey)
      ed_y == fe_mul(fe_sub(mont_x, fe_1), fe_invert(fe_add(mont_x, fe_1)))
      sign_bit == IF sm.S >= TopBit THEN TopBit ELSE 0
      ed_pubkey == fe_tobytes(ed_y) + sign_bit
  IN  crypto_sign_open([sm EXCEPT !.S = @ % TopBit], ed_pubkey)
=============================================================================
