------------------------------- MODULE Sha512 -------------------------------
(***************************************************************************)
(* SHA-512 as native/ed25519/sha512 computes it: md_helper.c buffers the   *)
(* data into blocks and pads the last one, sha2big.c compresses a block.   *)
(*                                                                         *)
(* The source has blocks of 128 bytes, words of 64 bits and 80 rounds; all *)
(* are parameters here.  A context is the words fed to the compression so  *)
(* far, the buffer, and the count of bytes.                                *)
(***************************************************************************)
EXTENDS Integers, Sequences, SequencesExt, Bitwise

CONSTANTS
  BLEN,    \* bytes in a block, a power of 2
  WLEN,    \* bytes in a word: the length takes two words of the last block
  Rounds,  \* rounds of the compression, a multiple of 8 above 16
  Bits,    \* bits in a word
  K512(_)  \* the round constants

MAXPAD == BLEN - 2 * WLEN
---------------------------------------------------------------------------
(* Buffering.  `blocks` is the sequence of blocks RFUN was called with.     *)
sph_sha512_init == [blocks |-> <<>>, buf |-> [i \in 1 .. BLEN |-> 0], count |-> 0]

Block(data, k) == SubSeq(data, (k - 1) * BLEN + 1, k * BLEN)

\* memcpy into the buffer at offset `at`, from 0.
Filled(buf, at, data) ==
  [i \in 1 .. BLEN |-> IF i - at \in 1 .. Len(data) THEN data[i - at] ELSE buf[i]]

\* sha384_short: fill the buffer, compress it each time it is full.
RECURSIVE sha512_short(_, _)
sha512_short(sc, data) ==
  IF data = <<>> THEN sc
  ELSE LET current == sc.count % BLEN
           clen == IF BLEN - current > Len(data) THEN Len(data) ELSE BLEN - current
           buf == Filled(sc.buf, current, SubSeq(data, 1, clen))
       IN  sha512_short(
             [blocks |-> IF current + clen = BLEN THEN Append(sc.blocks, buf) ELSE sc.blocks,
              buf |-> buf, count |-> sc.count + clen],
             SubSeq(data, clen + 1, Len(data)))

\* sph_sha512 where pointers can be tested for alignment: long data is
\* compressed in place, after the buffer has been filled.
sph_sha512(sc, data, aligned) ==
  IF Len(data) < 2 * BLEN THEN sha512_short(sc, data)
  ELSE LET current == sc.count % BLEN
           t == IF current > 0 THEN BLEN - current ELSE 0
           head == IF t > 0 THEN sha512_short(sc, SubSeq(data, 1, t)) ELSE sc
           rest == SubSeq(data, t + 1, Len(data))
           whole == Len(rest) \div BLEN
       IN  IF ~aligned THEN sha512_short(head, rest)
           ELSE [blocks |-> head.blocks \o [k \in 1 .. whole |-> Block(rest, k)],
                 buf |-> Filled(head.buf, 0, SubSeq(rest, whole * BLEN + 1, Len(rest))),
                 count |-> head.count + Len(rest)]

\* The count of bits in two words of the last block: count >> 61, count << 3.
\* 8 WLEN bits hold the low word; each word is one element here.
LengthWords(count) ==
  LET low == 2 ^ (8 * WLEN) IN
    <<(count * 8) \div low, (count * 8) % low>>

\* Fault: the byte 0x80 is not counted when the room for the length is tested.
sph_sha512_closeFull(sc) ==
  LET current == (sc.count % BLEN) + 1
      marked == [sc.buf EXCEPT ![current] = 128]
      Zeroed(buf, from, to) == [i \in 1 .. BLEN |-> IF i \in from .. to THEN 0 ELSE buf[i]]
      LastBlock(buf) == SubSeq(buf, 1, MAXPAD) \o LengthWords(sc.count)
  IN  IF current > MAXPAD + 1
      THEN sc.blocks \o <<Zeroed(marked, current + 1, BLEN), LastBlock(Zeroed(marked, 1, MAXPAD))>>
      ELSE Append(sc.blocks, LastBlock(Zeroed(marked, current + 1, MAXPAD)))

\* sha384_addbits_and_close with no bits to add: 0x80, zeros, the length.
sph_sha512_close(sc) ==
  LET current == (sc.count % BLEN) + 1
      marked == [sc.buf EXCEPT ![current] = 128]
      Zeroed(buf, from, to) == [i \in 1 .. BLEN |-> IF i \in from .. to THEN 0 ELSE buf[i]]
      LastBlock(buf) == SubSeq(buf, 1, MAXPAD) \o LengthWords(sc.count)
  IN  IF current > MAXPAD
      THEN sc.blocks \o <<Zeroed(marked, current + 1, BLEN), LastBlock(Zeroed(marked, 1, MAXPAD))>>
      ELSE Append(sc.blocks, LastBlock(Zeroed(marked, current + 1, MAXPAD)))

\* One init, one update and one close, over the data given in `parts`.
crypto_hash_sha512(parts, aligned) ==
  sph_sha512_close(FoldLeft(LAMBDA sc, part : sph_sha512(sc, part, aligned),
                            sph_sha512_init, parts))
---------------------------------------------------------------------------
(* The compression of one block of 16 words.                                *)
Word(x) == x % 2 ^ Bits

ROTR(x, n) == (x \div 2 ^ (n % Bits)) + Word(x * 2 ^ (Bits - (n % Bits)))

CH(x, y, z)  == ((y ^^ z) & x) ^^ z
MAJ(x, y, z) == (x & y) | ((x | y) & z)
BSG5_0(x) == (ROTR(x, 28) ^^ ROTR(x, 34)) ^^ ROTR(x, 39)
BSG5_1(x) == (ROTR(x, 14) ^^ ROTR(x, 18)) ^^ ROTR(x, 41)
SSG5_0(x) == (ROTR(x, 1) ^^ ROTR(x, 8)) ^^ (x \div 2 ^ 7)
SSG5_1(x) == (ROTR(x, 19) ^^ ROTR(x, 61)) ^^ (x \div 2 ^ 6)

Schedule(in) ==   \* W[i + 1] is the source's W[i]
  FoldLeft(LAMBDA W, i : Append(W, Word(SSG5_1(W[i-2]) + W[i-7] + SSG5_0(W[i-15]) + W[i-16])),
           in, [k \in 1 .. Rounds - 16 |-> k + 16])

\* Fault: the names are turned the other way.
SHA3_STEPTurnedBack(v, W, i) ==
  LET At(name) == (name + i) % 8
      x(name) == v[At(name)]
      T1 == Word(x(7) + BSG5_1(x(4)) + CH(x(4), x(5), x(6)) + K512(i) + W[i+1])
      T2 == Word(BSG5_0(x(0)) + MAJ(x(0), x(1), x(2)))
  IN  [v EXCEPT ![At(3)] = Word(@ + T1), ![At(7)] = Word(T1 + T2)]

\* SHA3_STEP(A, ..., H, i): register names are places 0 .. 7 of v, and the
\* macro is called with the names turned by one place more at each step.
SHA3_STEP(v, W, i) ==
  LET At(name) == (name - i) % 8   \* the place the macro's name stands for
      x(name) == v[At(name)]
      T1 == Word(x(7) + BSG5_1(x(4)) + CH(x(4), x(5), x(6)) + K512(i) + W[i+1])
      T2 == Word(BSG5_0(x(0)) + MAJ(x(0), x(1), x(2)))
  IN  [v EXCEPT ![At(3)] = Word(@ + T1), ![At(7)] = Word(T1 + T2)]

sha3_round(in, r) ==
  LET W == Schedule(in)
      v == FoldLeft(LAMBDA u, i : SHA3_STEP(u, W, i), r, [k \in 1 .. Rounds |-> k - 1])
  IN  [n \in 0 .. 7 |-> Word(r[n] + v[n])]
=============================================================================
