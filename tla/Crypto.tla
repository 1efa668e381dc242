-------------------------------- MODULE Crypto --------------------------------
(***************************************************************************)
(* The cryptography the session code calls (src/crypto.js over Curve.js),  *)
(* as terms: two values are equal exactly when the code derives the same   *)
(* bytes.  A key pair is named by its public key; the agreement of two key *)
(* pairs is the set of the two, because each end computes it from its own  *)
(* private half; a key derived by HKDF is the sequence of the secrets that *)
(* went into it.                                                           *)
(***************************************************************************)
EXTENDS Integers, Sequences, FiniteSets

CONSTANT None  \* undefined, and null where the code uses it

\* The key pairs a party makes: its identity key, the signed and one-time
\* prekeys of an installation, and the n-th pair it draws for a session.
IdentityKey(p, install) == <<"identity", p, install>>
SignedPreKey(p, install, id) == <<"signed", p, install, id>>
PreKey(p, install, id) == <<"prekey", p, install, id>>
SessionKey(p, n) == <<"session", p, n>>

ECDHE(pubKey, keyPair) == {pubKey, keyPair}

\* HKDF(sharedSecret, rootKey, "WhisperRatchet"): the first output is the next
\* root key, the second the first chain key.
HKDF(rootKey, sharedSecret) == Append(rootKey, sharedSecret)

\* The key of the message with this counter on the chain that grew from seed,
\* and the MAC it makes over the sender's and the receiver's identity.
MessageKey(seed, counter) == [seed |-> seed, counter |-> counter]
MAC(messageKey, sender, receiver) ==
  [key |-> messageKey, sender |-> sender, receiver |-> receiver]

-----------------------------------------------------------------------------
\* JavaScript objects used as maps.
EmptyMap == [x \in {} |-> None]
Put(map, key, value) ==
  [x \in DOMAIN map \cup {key} |-> IF x = key THEN value ELSE map[x]]
Delete(map, keys) == [x \in DOMAIN map \ keys |-> map[x]]
=============================================================================
