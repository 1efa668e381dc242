---------------------------- MODULE SignalKeyProofs ----------------------------
(*****************************************************************************)
(* Proofs about the keys of SignalSession, for any parties, limits and       *)
(* bounds: no message key is used twice, no one-time prekey makes two        *)
(* sessions, keys that were used cannot be derived again, no message is      *)
(* read twice, and no receiving chain is ahead of the messages sent. A       *)
(* message key is named by the secrets that lead to it, so that all of       *)
(* these say which root keys are told apart, and which are gone.             *)
(*****************************************************************************)
EXTENDS SignalTypeProofs

\* What a step does to the keys of a session: t has the keys of s; its
\* sending chain, if there, gave n keys since.
SameKeys(s, n, t) ==
  /\ t.rootKey = s.rootKey
  /\ t.ephemeralKeyPair = s.ephemeralKeyPair
  /\ t.previousCounter = s.previousCounter
  /\ IsOpen(t) => IsOpen(s)
  /\ t.ephemeralKeyPair \in DOMAIN t.chains =>
       /\ t.ephemeralKeyPair \in DOMAIN s.chains
       /\ SendingChain(t).counter = SendingChain(s).counter + n

\* t has a key pair, and so a root key, that were not there before.
NewKeys(p, t) ==
  /\ t.ephemeralKeyPair \in SessionKeys(p) \ Drawn
  /\ t.rootKey \notin Seq(SUBSET Drawn)
  /\ t.ephemeralKeyPair \in DOMAIN t.chains => SendingChain(t).counter = -1

\* The receiving chains of a session.  One of them is moved by the messages
\* read (one at most), or was made for one of them.
Receiving(s) == {i \in DOMAIN s.chains : s.chains[i].chainType = "RECEIVING"}
Moved(c, read, d) ==
  \/ d = c
  \/ \E m \in read : /\ Advanced(c, m.counter, d)
                     /\ c.seed = m.mac.key.seed
  \/ \E m \in read : /\ Advanced(c, m.previousCounter, d)
                     /\ \E x, y \in SUBSET Key : m.mac.key.seed = Append(Append(c.seed, x), y)
Made(read, i, d) ==
  \E m \in read : /\ i = m.ephemeralKey
                  /\ ReadFrom(NewChain(m.mac.key.seed, "RECEIVING"), m, d)

\* What the session at hand had for a message before it was read: its key, or
\* a root key one step of the ratchet away from it.
HadChain(s, m) == /\ m.ephemeralKey \in Receiving(s)
                  /\ s.chains[m.ephemeralKey].seed = m.mac.key.seed
                  /\ Gives(s.chains[m.ephemeralKey], m.counter)
HadRoot(s, m) == m.mac.key.seed = Append(s.rootKey, {m.ephemeralKey, s.ephemeralKeyPair})
Had(s, m) == HadChain(s, m) \/ HadRoot(s, m)

\* The key of m is not given by the chain it was read from any more.
Spent(t, m) == m.ephemeralKey \in Receiving(t) => ~Gives(t.chains[m.ephemeralKey], m.counter)

\* The two ways s becomes the session t that is stored.
InPlace(s, read, t) ==
  /\ SameKeys(s, 0, t)
  /\ \A m \in read : HadChain(s, m)
  /\ \A i \in Receiving(t) : i \in Receiving(s) /\ Moved(s.chains[i], read, t.chains[i])
AfterTurn(p, s, read, t) ==
  /\ NewKeys(p, t)
  /\ \A i \in Receiving(t) : \/ i \in Receiving(s) /\ Moved(s.chains[i], read, t.chains[i])
                             \/ Made(read, i, t.chains[i])
  /\ \A m \in read :
       /\ HadRoot(s, m)
       /\ t.rootKey = Append(m.mac.key.seed, {m.ephemeralKey, t.ephemeralKeyPair})
  /\ IsOpen(t) => /\ IsOpen(s)
                  /\ s.ephemeralKeyPair \in DOMAIN s.chains =>
                       t.previousCounter = SendingChain(s).counter

\* Pruning a session moves none of its keys.
LEMMA QuietAfter ==
  ASSUME NEW s, NEW u, NEW t, Quiet(u, t), NEW read, NEW p
  PROVE  /\ InPlace(s, read, u) => InPlace(s, read, t)
         /\ AfterTurn(p, s, read, u) => AfterTurn(p, s, read, t)
         /\ NewKeys(p, u) => NewKeys(p, t)
         /\ \A n : SameKeys(s, n, u) => SameKeys(s, n, t)
         /\ \A m : Spent(u, m) => Spent(t, m)
         /\ Receiving(t) \subseteq Receiving(u)
         /\ \A i \in Receiving(t) : t.chains[i] = u.chains[i]
<1>1. Receiving(t) \subseteq Receiving(u) /\ \A i \in Receiving(t) : t.chains[i] = u.chains[i]
  BY DEF Quiet, Receiving
<1>2. NewKeys(p, u) => NewKeys(p, t)
  BY DEF Quiet, NewKeys, SendingChain
<1>3. \A n : SameKeys(s, n, u) => SameKeys(s, n, t)
  BY DEF Quiet, SameKeys, SendingChain
<1>4. \A m : Spent(u, m) => Spent(t, m)
  BY <1>1 DEF Spent
<1>5. InPlace(s, read, u) => InPlace(s, read, t)
  BY <1>1, <1>3 DEF InPlace
<1>6. AfterTurn(p, s, read, u) => AfterTurn(p, s, read, t)
  <2>1. /\ t.rootKey = u.rootKey
        /\ t.ephemeralKeyPair = u.ephemeralKeyPair
        /\ t.previousCounter = u.previousCounter
        /\ IsOpen(t) => IsOpen(u)
    BY DEF Quiet
  <2> QED  BY <1>1, <1>2, <2>1 DEF AfterTurn
<1> QED  BY <1>1, <1>2, <1>3, <1>4, <1>5, <1>6

\* A message read in place: its key was on the chain and is gone.
LEMMA ReadInPlaceMoves ==
  ASSUME NEW K, NEW p, NEW q, p # q, NEW s, SessionOK(K, p, q, s),
         NEW m, m.ephemeralKey \in SessionKeys(q), NEW t, ReadInPlace(s, m, t)
  PROVE  Had(s, m) /\ Spent(t, m) /\ InPlace(s, {m}, t)
<1> DEFINE key == m.ephemeralKey
<1>1. /\ key \in DOMAIN s.chains
      /\ DOMAIN t.chains = DOMAIN s.chains
      /\ ReadFrom(s.chains[key], m, t.chains[key])
      /\ \A k \in DOMAIN s.chains \ {key} : t.chains[k] = s.chains[k]
      /\ t.rootKey = s.rootKey
      /\ t.ephemeralKeyPair = s.ephemeralKeyPair
      /\ t.previousCounter = s.previousCounter
      /\ t.closed = s.closed
  BY DEF ReadInPlace, SameBut, SessionFields
<1>2. key # s.ephemeralKeyPair
  BY KeysApart, SessionKeysDistinct DEF SessionOK, KeysOK
<1>3. HadChain(s, m)
  BY <1>1 DEF HadChain, Receiving, ReadFrom
<1>4. Spent(t, m)
  BY <1>1 DEF Spent, ReadFrom
<1>5. SameKeys(s, 0, t)
  <2>1. s.ephemeralKeyPair \in DOMAIN s.chains => SendingChain(s).counter \in Int
    BY DEF SessionOK, SessionOver, ChainsOver, ChainOver, Counters, SendingChain
  <2> QED  BY <1>1, <1>2, <2>1 DEF SameKeys, SendingChain, IsOpen
<1>6. ASSUME NEW i \in Receiving(t)
      PROVE  i \in Receiving(s) /\ Moved(s.chains[i], {m}, t.chains[i])
  <2>1. CASE i = key
    BY <1>1, <2>1 DEF ReadFrom, Receiving, Moved
  <2>2. CASE i # key
    <3>1. i \in DOMAIN s.chains /\ t.chains[i] = s.chains[i] /\ t.chains[i].chainType = "RECEIVING"
      BY <1>1, <2>2 DEF Receiving
    <3> QED  BY <3>1 DEF Moved, Receiving
  <2> QED  BY <2>1, <2>2
<1> QED  BY <1>3, <1>4, <1>5, <1>6 DEF InPlace, Had

\* A message read after a turn: the session had the root key that leads to its
\* chain, and has it no more.
LEMMA ReadAfterTurnMoves ==
  ASSUME TypeInv, NEW p \in Parties, NEW q \in Parties, p # q, NEW s,
         Ready(p, q, s),
         NEW m, m.ephemeralKey \in SessionKeys(q), m.ephemeralKey \in Drawn,
         NEW keyPair \in SessionKeys(p), keyPair \notin Drawn, keyPair \in Key,
         NEW t, ReadAfterTurn(s, m, keyPair, t)
  PROVE  Had(s, m) /\ Spent(t, m) /\ AfterTurn(p, s, {m}, t)
<1> DEFINE key == m.ephemeralKey
           last == s.lastRemoteEphemeralKey
           received == Append(s.rootKey, {key, s.ephemeralKeyPair})
<1>1. /\ t.rootKey = Append(received, {key, keyPair})
      /\ t.ephemeralKeyPair = keyPair
      /\ t.closed = s.closed
      /\ t.previousCounter = IF s.ephemeralKeyPair \in DOMAIN s.chains
                               THEN s.chains[s.ephemeralKeyPair].counter
                               ELSE s.previousCounter
      /\ DOMAIN t.chains = (DOMAIN s.chains \ {s.ephemeralKeyPair}) \cup {key, keyPair}
      /\ key \notin DOMAIN s.chains
      /\ t.chains[keyPair] = NewChain(t.rootKey, "SENDING")
      /\ received = m.mac.key.seed
      /\ ReadFrom(NewChain(received, "RECEIVING"), m, t.chains[key])
      /\ last \in DOMAIN s.chains =>
           Advanced(s.chains[last], m.previousCounter, t.chains[last])
      /\ \A k \in DOMAIN s.chains \ {s.ephemeralKeyPair, last} : t.chains[k] = s.chains[k]
  BY DEF ReadAfterTurn
<1>2. /\ s.rootKey \in Seq(SUBSET Drawn)
      /\ s.ephemeralKeyPair \in Drawn
      /\ last \in Drawn
      /\ Drawn \subseteq Key
      /\ DOMAIN s.chains \subseteq Drawn
  BY DEF Ready, Turnable, SessionOver, ChainsOver, Drawn, KeysMade
<1>3. received \in Seq(SUBSET Drawn)
  BY <1>2
<1>4. DOMAIN s.chains # {} => ReceivingOK(s) /\ last # s.ephemeralKeyPair
  BY KeysApart, SessionKeysDistinct DEF Ready, SessionOK, ChainsOK, KeysOK
<1> HIDE DEF received
<1>5. HadRoot(s, m)
  BY <1>1 DEF HadRoot, received
<1>6. Spent(t, m)
  BY <1>1 DEF Spent, ReadFrom
<1>7. NewKeys(p, t)
  <2>1. t.rootKey \notin Seq(SUBSET Drawn)
    <3> SUFFICES ASSUME t.rootKey \in Seq(SUBSET Drawn)  PROVE FALSE
      OBVIOUS
    <3> DEFINE secret == {key, keyPair}
    <3>1. Append(received, secret) \in Seq(SUBSET Drawn)
      BY <1>1
    <3> HIDE DEF secret
    <3>2. secret \subseteq Drawn
      BY <1>3, <3>1, NewRootKey
    <3> QED  BY <3>2 DEF secret
  <2> QED  BY <1>1, <2>1 DEF NewKeys, SendingChain, NewChain
<1>8. ASSUME NEW i \in Receiving(t)
      PROVE  \/ i \in Receiving(s) /\ Moved(s.chains[i], {m}, t.chains[i])
             \/ Made({m}, i, t.chains[i])
  <2>1. i \in DOMAIN t.chains /\ t.chains[i].chainType = "RECEIVING"
    BY DEF Receiving
  <2>2. CASE i = key
    BY <1>1, <2>2 DEF Made
  <2>3. CASE i = keyPair
    BY <1>1, <2>1, <2>3 DEF NewChain
  <2>4. CASE i \in DOMAIN s.chains \ {s.ephemeralKeyPair} /\ i = last
    <3>1. /\ s.chains[i].chainType = "RECEIVING"
          /\ s.rootKey = Append(s.chains[i].seed, {last, s.ephemeralKeyPair})
      BY <1>4, <2>4 DEF ReceivingOK
    <3>2. Advanced(s.chains[i], m.previousCounter, t.chains[i])
      BY <1>1, <2>4
    <3>3. /\ m.mac.key.seed = Append(Append(s.chains[i].seed, {last, s.ephemeralKeyPair}),
                                     {key, s.ephemeralKeyPair})
          /\ {last, s.ephemeralKeyPair} \in SUBSET Key
          /\ {key, s.ephemeralKeyPair} \in SUBSET Key
      BY <1>1, <1>2, <3>1 DEF received
    <3>4. \E x, y \in SUBSET Key : m.mac.key.seed = Append(Append(s.chains[i].seed, x), y)
      BY <3>3
    <3>5. Moved(s.chains[i], {m}, t.chains[i])
      BY <3>2, <3>4 DEF Moved
    <3> QED  BY <2>4, <3>1, <3>5 DEF Receiving
  <2>5. CASE i \in DOMAIN s.chains \ {s.ephemeralKeyPair, last}
    BY <1>1, <2>1, <2>5 DEF Receiving, Moved
  <2> QED  BY <1>1, <2>1, <2>2, <2>3, <2>4, <2>5
<1>9. IsOpen(t) => /\ IsOpen(s)
                   /\ s.ephemeralKeyPair \in DOMAIN s.chains =>
                        t.previousCounter = SendingChain(s).counter
  BY <1>1 DEF IsOpen, SendingChain
<1>10. t.rootKey = Append(m.mac.key.seed, {m.ephemeralKey, t.ephemeralKeyPair})
  BY <1>1
<1>11. \A n \in {m} :
         HadRoot(s, n) /\ t.rootKey = Append(n.mac.key.seed, {n.ephemeralKey, t.ephemeralKeyPair})
  BY <1>5, <1>10
<1> QED  BY <1>5, <1>6, <1>7, <1>8, <1>9, <1>11 DEF AfterTurn, Had

\* A message that is read.
LEMMA ReadMoves ==
  ASSUME TypeInv, NEW p \in Parties, NEW s, NEW m \in network, m.to = p,
         Ready(p, m.from, s), AllPassed(s), SessionDecrypts(p, s, m)
  PROVE  LET t == Decrypted(s, m, NextKey(p))
         IN  /\ Had(s, m)
             /\ Spent(t, m)
             /\ InPlace(s, {m}, t) \/ AfterTurn(p, s, {m}, t)
<1> DEFINE q == m.from
           key == m.ephemeralKey
           keyPair == NextKey(p)
           t == Decrypted(s, m, keyPair)
<1>1. /\ q \in Parties
      /\ q # p
      /\ key \in SessionKeys(q)
      /\ key \in Drawn
      /\ m.counter \in Nat
      /\ m.previousCounter \in Int
  BY DEF TypeInv, MessagesTyped, MessageOK, MessageOver
<1>2. Decrypts(s, m, Identity(p), keyPair)
  BY DEF SessionDecrypts
<1>3. keyPair \in SessionKeys(p) /\ keyPair \notin Drawn /\ keyPair \in Key
  <2>1. fresh[p] \in Nat /\ TablesTyped
    BY DEF TypeInv, TablesTyped
  <2>2. fresh[p] + 1 \in Nat /\ ~(fresh[p] + 1 <= fresh[p])
    BY <2>1
  <2>3. SessionKey(p, fresh[p] + 1) \notin Drawn
    BY <2>1, <2>2, InstalledKeys
  <2> QED  BY <2>2, <2>3 DEF NextKey, SessionKeys, SessionKey, Key
<1> HIDE DEF keyPair
<1>4. CASE key \in DOMAIN s.chains
  <2>1. SessionOK(Drawn, p, q, s)
    BY <1>4 DEF Ready
  <2>2. ReadInPlace(s, m, t)
    BY <1>1, <1>2, <1>4, <2>1, ReadInPlaceIs
  <2> HIDE DEF t
  <2> QED  BY <1>1, <2>1, <2>2, ReadInPlaceMoves DEF t, keyPair
<1>5. CASE key \notin DOMAIN s.chains
  <2>1. Turnable(Drawn, p, q, s)
    BY DEF Ready
  <2>2. ReadAfterTurn(s, m, keyPair, t)
    BY <1>1, <1>2, <1>3, <1>5, <2>1, ReadAfterTurnIs
  <2> HIDE DEF t
  <2> QED  BY <1>1, <1>3, <2>2, ReadAfterTurnMoves DEF t, keyPair
<1> QED  BY <1>4, <1>5

-----------------------------------------------------------------------------
\* The same of a step of the system.  All sessions but one are kept, pruned.
StaysBut(p, q, k) ==
  \A a, b \in Parties : \A j :
    Has(a, b, j)' /\ <<a, b, j>> # <<p, q, k>> => Has(a, b, j) /\ Quiet(At(a, b, j), At(a, b, j)')
AllStay ==
  \A a, b \in Parties : \A j :
    Has(a, b, j)' => Has(a, b, j) /\ Quiet(At(a, b, j), At(a, b, j)')

\* None of the one-time prekeys p holds went into these secrets, but for those
\* that were left behind.
FreeOf(p, n, held, seed) ==
  \A id \in held : \A i \in DOMAIN seed : PreKey(p, n, id) \notin seed[i]
Held(p) == {id \in preKeys[p] : PreKey(p, install[p], id) \notin leftover}
Free(p, seed) == FreeOf(p, install[p], Held(p), seed)

\* One of them is a prekey that was left behind.
Tainted(left, seed) == \E i \in DOMAIN seed : seed[i] \cap left # {}

\* One-time prekeys are used up, or all are lost with the sessions; those that
\* were left behind are remembered.
PreKeysUsed ==
  /\ leftover \subseteq leftover'
  /\ \A p \in Parties :
       \/ install'[p] = install[p] /\ preKeys'[p] \subseteq preKeys[p]
       \/ install'[p] = install[p] + 1 /\ \A q \in Parties : \A k : ~Has(p, q, k)'

\* The one session is new, sends a message m, or is stored after m was read,
\* which was in the session s: the one stored before or that of the header.
Starts(p, q, k) ==
  /\ StaysBut(p, q, k)
  /\ UNCHANGED <<network, delivered>>
  /\ Has(p, q, k)' => /\ NewKeys(p, At(p, q, k)')
                      /\ Receiving(At(p, q, k)') = {}
                      /\ Len(At(p, q, k)'.rootKey) = 5
                      /\ Free(p, At(p, q, k)'.rootKey)
SendsOn(p, q, k, m) ==
  /\ StaysBut(p, q, k)
  /\ Has(p, q, k)
  /\ IsOpen(At(p, q, k))
  /\ Carries(m, p, q, At(p, q, k))
  /\ network' = network \cup {m}
  /\ UNCHANGED delivered
  /\ Has(p, q, k)' => /\ SameKeys(At(p, q, k), 1, At(p, q, k)')
                      /\ Receiving(At(p, q, k)') \subseteq Receiving(At(p, q, k))
                      /\ \A i \in Receiving(At(p, q, k)') :
                           At(p, q, k)'.chains[i] = At(p, q, k).chains[i]
FromStore(p, q, k, s) == Has(p, q, k) /\ s = At(p, q, k) /\ UNCHANGED preKeys
FromHeader(p, s) == /\ DOMAIN s.chains = {}
                    /\ \E n, id \in Nat : s.ephemeralKeyPair = SignedPreKey(p, n, id)
                    /\ Len(s.rootKey) = 4
                    /\ Tainted(leftover, s.rootKey) \/ ~Free(p, s.rootKey)
                    /\ Free(p, s.rootKey)'
Takes(p, k, m, s) ==
  /\ StaysBut(p, m.from, k)
  /\ m.to = p
  /\ network' = network
  /\ delivered' = delivered \cup {m}
  /\ install' = install
  /\ FromStore(p, m.from, k, s) \/ FromHeader(p, s)
  /\ Turnable(Drawn, p, m.from, s)
  /\ Had(s, m)
  /\ Has(p, m.from, k)' =>
       /\ Spent(At(p, m.from, k)', m)
       /\ InPlace(s, {m}, At(p, m.from, k)') \/ AfterTurn(p, s, {m}, At(p, m.from, k)')

KeyStep ==
  /\ PreKeysUsed
  /\ \/ AllStay /\ UNCHANGED <<network, delivered>>
     \/ \E p \in Parties : \E q \in Parties \ {p} : \E k :
          Starts(p, q, k) \/ \E m : SendsOn(p, q, k, m)
     \/ \E p \in Parties : \E m \in network : \E k, s : Takes(p, k, m, s)

\* What SignalTypeProofs says of a step, of its keys.
LEMMA BecomesStays ==
  ASSUME NEW p \in Parties, NEW q \in Parties, NEW k, NEW u, Becomes(p, q, k, u)
  PROVE  /\ StaysBut(p, q, k)
         /\ Has(p, q, k)' => Quiet(u, At(p, q, k)')
<1>1. StaysBut(p, q, k)
  <2> SUFFICES ASSUME NEW a \in Parties, NEW b \in Parties, NEW j,
                      Has(a, b, j)', <<a, b, j>> # <<p, q, k>>
               PROVE  Has(a, b, j) /\ Quiet(At(a, b, j), At(a, b, j)')
    BY DEF StaysBut
  <2>1. Has(a, b, j) /\ Kept(Drawn', At(a, b, j), At(a, b, j)')
    BY DEF Becomes, KeptBut
  <2> QED  BY <2>1, KeptIsQuiet
<1>2. ASSUME Has(p, q, k)'  PROVE Quiet(u, At(p, q, k)')
  <2>1. Kept(Drawn', u, At(p, q, k)')
    BY <1>2 DEF Becomes, Kept
  <2> QED  BY <2>1, KeptIsQuiet
<1> QED  BY <1>1, <1>2

\* Each kind of step is a step of the keys.
LEMMA PrunesKeys ==
  ASSUME TypeInv, leftover \subseteq leftover', Prunes
  PROVE  KeyStep
<1>1. AllStay
  <2> SUFFICES ASSUME NEW a \in Parties, NEW b \in Parties, NEW j, Has(a, b, j)'
               PROVE  Has(a, b, j) /\ Quiet(At(a, b, j), At(a, b, j)')
    BY DEF AllStay
  <2>1. Has(a, b, j) /\ Kept(Drawn', At(a, b, j), At(a, b, j)')
    BY DEF Prunes, AllKept
  <2> QED  BY <2>1, KeptIsQuiet
<1>2. PreKeysUsed
  BY DEF Prunes, PreKeysUsed
<1> QED  BY <1>1, <1>2 DEF Prunes, KeyStep

\* processPreKey starts a session with two key pairs just drawn.
LEMMA BuildsKeys ==
  ASSUME TypeInv, leftover \subseteq leftover',
         NEW p \in Parties, NEW q \in Parties \ {p}, Builds(p, q)
  PROVE  KeyStep
<1>1. PICK id, baseKey :
        /\ id \in PreKeyIds
        /\ baseKey = SessionKey(p, fresh[p] + 1)
        /\ Becomes(p, q, baseKey,
                   PendingSession(Identity(p), baseKey, SessionKey(p, fresh[p] + 2),
                                  Device(q, id)))
  BY DEF Builds
<1> DEFINE keyPair == SessionKey(p, fresh[p] + 2)
           device == Device(q, id)
           u == PendingSession(Identity(p), baseKey, keyPair, device)
           agreed == SharedSecret(TRUE, Identity(p), baseKey, baseKey,
                       device.identityKey, device.signedPreKey, device.preKey)
           secret == {device.signedPreKey, keyPair}
<1>2. /\ Drawn \subseteq Drawn'
      /\ None \notin Drawn'
      /\ baseKey \in Drawn' \ Drawn
      /\ keyPair \in Drawn' \ Drawn
  BY <1>1, BuildsDraws
<1>3. Pending(u, Identity(p), baseKey, keyPair, device) /\ SessionOK(Drawn', p, q, u)
  BY <1>1, <1>2, BuiltSession
<1>4. StaysBut(p, q, baseKey) /\ (Has(p, q, baseKey)' => Quiet(u, At(p, q, baseKey)'))
  BY <1>1, BecomesStays
<1>5. baseKey \in SessionKeys(p) /\ keyPair \in SessionKeys(p)
  <2>1. fresh[p] + 1 \in Nat /\ fresh[p] + 2 \in Nat
    BY DEF TypeInv, TablesTyped
  <2> QED  BY <1>1, <2>1 DEF SessionKeys
<1>6. /\ device.identityKey \in KeysOf(q)
      /\ device.signedPreKey \in KeysOf(q)
      /\ device.preKey \in KeysOf(q)
      /\ device.identityKey \in Drawn
      /\ device.signedPreKey \in Drawn
      /\ device.preKey \in Drawn
      /\ Identity(p) \in Drawn
  <2>1. published[q] \in SignedPreKeyIds /\ TablesTyped /\ q \in Parties
    BY DEF TypeInv, TablesTyped
  <2> QED  BY <1>1, <2>1, InstalledKeys DEF Device
<1> HIDE DEF u, device, keyPair
<1>7. Agreed(Drawn', agreed, Identity(p), baseKey, baseKey,
             device.identityKey, device.signedPreKey, device.preKey)
  <2>1. {Identity(p), baseKey, device.identityKey, device.signedPreKey} \subseteq Drawn'
    BY <1>2, <1>6
  <2>2. {baseKey, device.preKey} \subseteq Drawn'
    BY <1>2, <1>6
  <2> QED  BY <2>1, <2>2, SharedSecretIs
<1> HIDE DEF agreed
<1>8. /\ u.rootKey = Append(agreed, secret)
      /\ u.ephemeralKeyPair = keyPair
      /\ DOMAIN u.chains = {keyPair}
      /\ u.chains[keyPair] = NewChain(u.rootKey, "SENDING")
  BY <1>3 DEF Pending, agreed
<1>9. /\ agreed \in Seq(SUBSET Drawn')
      /\ Len(agreed) = 4
      /\ \A i \in 1..4 : agreed[i] \subseteq {Identity(p), baseKey, device.identityKey,
                                              device.signedPreKey, device.preKey}
  <2>1. baseKey # None /\ device.preKey # None
    BY <1>2, <1>6
  <2> QED  BY <1>7, <2>1 DEF Agreed
<1> HIDE DEF secret
<1>10. /\ Len(u.rootKey) = 5
       /\ \A i \in 1..4 : u.rootKey[i] = agreed[i]
       /\ u.rootKey[5] = secret
       /\ DOMAIN u.rootKey = 1..5
  <2> DEFINE longer == Append(agreed, secret)
             S == SUBSET Drawn'
  <2>1. agreed \in Seq(S) /\ secret \in S
    BY <1>2, <1>6, <1>9 DEF secret
  <2> HIDE DEF S
  <2>2. /\ Len(longer) = Len(agreed) + 1
        /\ DOMAIN longer = 1..Len(longer)
        /\ \A i \in 1..Len(agreed) : longer[i] = agreed[i]
        /\ longer[Len(longer)] = secret
    BY <2>1, AppendIs
  <2> HIDE DEF longer
  <2>3. Len(longer) = 5
    BY <1>9, <2>2
  <2> QED  BY <1>8, <1>9, <2>2, <2>3 DEF longer
<1>11. NewKeys(p, u)
  <2>1. u.rootKey \notin Seq(SUBSET Drawn)
    <3> SUFFICES ASSUME u.rootKey \in Seq(SUBSET Drawn)  PROVE FALSE
      OBVIOUS
    <3>1. u.rootKey[5] \in SUBSET Drawn
      BY <1>10
    <3> QED  BY <1>2, <1>10, <3>1 DEF secret
  <2> QED  BY <1>2, <1>5, <1>8, <2>1 DEF NewKeys, SendingChain, NewChain
<1>12. Receiving(u) = {}
  BY <1>8 DEF Receiving, NewChain
<1>13. Free(p, u.rootKey)
  <2> SUFFICES ASSUME NEW id2 \in preKeys[p], NEW i \in DOMAIN u.rootKey,
                      PreKey(p, install[p], id2) \in u.rootKey[i]
               PROVE  FALSE
    BY DEF Free, FreeOf, Held
  <2>1. u.rootKey[i] \subseteq {Identity(p), baseKey, keyPair, device.identityKey,
                                device.signedPreKey, device.preKey}
    BY <1>9, <1>10 DEF secret
  <2>2. install[p] \in Nat /\ id2 \in Nat
    BY PartyAssumption DEF TypeInv, TablesTyped
  <2>3. /\ PreKey(p, install[p], id2) \in KeysOf(p)
        /\ PreKey(p, install[p], id2) \notin SessionKeys(p)
        /\ PreKey(p, install[p], id2) # Identity(p)
    BY <2>2, SessionKeysDistinct DEF KeysOf, PreKey, Identity, IdentityKey
  <2> QED  BY <1>5, <1>6, <2>1, <2>3, KeysApart
<1>14. ASSUME Has(p, q, baseKey)'
       PROVE  /\ NewKeys(p, At(p, q, baseKey)')
              /\ Receiving(At(p, q, baseKey)') = {}
              /\ Len(At(p, q, baseKey)'.rootKey) = 5
              /\ Free(p, At(p, q, baseKey)'.rootKey)
  <2> DEFINE t == At(p, q, baseKey)'
  <2>1. Quiet(u, t)
    BY <1>4, <1>14
  <2> HIDE DEF t
  <2>2. NewKeys(p, t) /\ Receiving(t) \subseteq Receiving(u)
    BY <1>11, <2>1, QuietAfter
  <2>3. t.rootKey = u.rootKey
    BY <2>1 DEF Quiet
  <2> QED  BY <1>10, <1>12, <1>13, <2>2, <2>3 DEF t
<1>15. UNCHANGED <<install, preKeys, network, delivered>>
  BY DEF Builds
<1>16. Starts(p, q, baseKey)
  BY <1>4, <1>14, <1>15 DEF Starts
<1>17. PreKeysUsed
  BY <1>15 DEF PreKeysUsed
<1> QED  BY <1>16, <1>17 DEF KeyStep

\* Encrypting moves the sending chain by one key.
LEMMA EncryptedMoves ==
  ASSUME NEW K, NEW p, NEW q, NEW s, SessionOK(K, p, q, s),
         s.ephemeralKeyPair \in DOMAIN s.chains
  PROVE  LET u == Encrypted(s)
         IN  /\ SameKeys(s, 1, u)
             /\ Receiving(u) \subseteq Receiving(s)
             /\ \A i \in Receiving(u) : u.chains[i] = s.chains[i]
<1> DEFINE u == Encrypted(s)
           key == s.ephemeralKeyPair
<1>1. /\ SessionOver(K, s)
      /\ s.chains[key].messageKeys = {}
      /\ s.chains[key].chainType = "SENDING"
  BY DEF SessionOK, ChainsOK, SendingOK, SendingChain
<1>2. /\ SameBut({"chains"}, s, u)
      /\ DOMAIN u.chains = DOMAIN s.chains
      /\ \A k \in DOMAIN s.chains \ {key} : u.chains[k] = s.chains[k]
      /\ u.chains[key].chainType = "SENDING"
      /\ u.chains[key].counter = s.chains[key].counter + 1
  BY <1>1, EncryptedIs
<1> HIDE DEF u
<1>3. /\ u.rootKey = s.rootKey
      /\ u.ephemeralKeyPair = s.ephemeralKeyPair
      /\ u.previousCounter = s.previousCounter
      /\ u.closed = s.closed
  BY <1>2 DEF SameBut, SessionFields
<1>4. SameKeys(s, 1, u)
  BY <1>2, <1>3 DEF SameKeys, IsOpen, SendingChain
<1>5. ASSUME NEW i \in Receiving(u)
      PROVE  i \in Receiving(s) /\ u.chains[i] = s.chains[i]
  BY <1>2 DEF Receiving
<1> QED  BY <1>4, <1>5 DEF u

\* encrypt sends the next message of the open session.
LEMMA SendsKeys ==
  ASSUME TypeInv, leftover \subseteq leftover',
         NEW p \in Parties, NEW q \in Parties \ {p}, NEW k, Sends(p, q, k)
  PROVE  KeyStep
<1>1. PICK m : m = MessageFrom(p, q, At(p, q, k))
  OBVIOUS
<1> DEFINE s == At(p, q, k)
           u == Encrypted(s)
           t == At(p, q, k)'
<1>2. /\ Has(p, q, k)
      /\ IsOpen(s)
      /\ Becomes(p, q, k, u)
      /\ network' = network \cup {m}
      /\ UNCHANGED <<install, preKeys, fresh, delivered>>
  BY <1>1 DEF Sends
<1>3. SessionOK(Drawn, p, q, s) /\ s.ephemeralKeyPair \in DOMAIN s.chains
  BY <1>2 DEF TypeInv, SessionsTyped, SessionOK, ChainsOK, SendingOK
<1>4. Carries(m, p, q, s)
  <2>1. Identity(p) \in Drawn /\ Identity(p) \in KeysOf(p) /\ install[p] \in Nat
    BY InstalledKeys DEF TypeInv
  <2>2. IsFiniteSet(network)
    BY DEF TypeInv, MessagesTyped
  <2> QED  BY <1>1, <1>3, <2>1, <2>2, MessageFromIs
<1>5. StaysBut(p, q, k) /\ (Has(p, q, k)' => Quiet(u, t))
  BY <1>2, BecomesStays
<1> HIDE DEF s, t
<1>6. /\ SameKeys(s, 1, u)
      /\ Receiving(u) \subseteq Receiving(s)
      /\ \A i \in Receiving(u) : u.chains[i] = s.chains[i]
  BY <1>3, EncryptedMoves
<1> HIDE DEF u
<1>7. ASSUME Has(p, q, k)'
      PROVE  /\ SameKeys(s, 1, t)
             /\ Receiving(t) \subseteq Receiving(s)
             /\ \A i \in Receiving(t) : t.chains[i] = s.chains[i]
  <2>1. Quiet(u, t)
    BY <1>5, <1>7
  <2>2. /\ \A n : SameKeys(s, n, u) => SameKeys(s, n, t)
        /\ Receiving(t) \subseteq Receiving(u)
        /\ \A i \in Receiving(t) : t.chains[i] = u.chains[i]
    BY <2>1, QuietAfter
  <2> QED  BY <1>6, <2>2
<1>8. SendsOn(p, q, k, m)
  BY <1>2, <1>4, <1>5, <1>7 DEF SendsOn, s, t
<1>9. PreKeysUsed
  BY <1>2 DEF PreKeysUsed
<1> QED  BY <1>8, <1>9 DEF KeyStep

\* The keys stored on the chains were passed by their counters.
PassedOK ==
  \A p, q \in Parties : \A k : Has(p, q, k) => AllPassed(At(p, q, k))

\* A message that was read, from a session that became t.
LEMMA TakenKeys ==
  ASSUME TypeInv, NEW p \in Parties, NEW m \in network, m.to = p, NEW k, NEW s,
         Ready(p, m.from, s), AllPassed(s), SessionDecrypts(p, s, m),
         Becomes(p, m.from, k, Decrypted(s, m, NextKey(p))),
         network' = network, delivered' = delivered \cup {m}, install' = install,
         FromStore(p, m.from, k, s) \/ FromHeader(p, s)
  PROVE  Takes(p, k, m, s)
<1> DEFINE u == Decrypted(s, m, NextKey(p))
           t == At(p, m.from, k)'
<1>1. m.from \in Parties
  BY DEF TypeInv, StorageInv, SendersOK
<1>2. StaysBut(p, m.from, k) /\ (Has(p, m.from, k)' => Quiet(u, t))
  BY <1>1, BecomesStays
<1>3. Had(s, m) /\ Spent(u, m) /\ (InPlace(s, {m}, u) \/ AfterTurn(p, s, {m}, u))
  BY ReadMoves
<1> HIDE DEF u, t
<1>4. Has(p, m.from, k)' => Spent(t, m) /\ (InPlace(s, {m}, t) \/ AfterTurn(p, s, {m}, t))
  BY <1>2, <1>3, QuietAfter
<1>5. Turnable(Drawn, p, m.from, s)
  BY DEF Ready
<1> QED  BY <1>2, <1>3, <1>4, <1>5 DEF Takes, t

\* A message is read in a stored session ...
LEMMA ReadsKeys ==
  ASSUME TypeInv, leftover \subseteq leftover', PassedOK,
         NEW p \in Parties, NEW m \in network, NEW k, Reads(p, k, m)
  PROVE  KeyStep /\ \E s : Takes(p, k, m, s)
<1>1. PICK s : s = At(p, m.from, k)
  OBVIOUS
<1>2. /\ m.to = p
      /\ Has(p, m.from, k)
      /\ SessionDecrypts(p, s, m)
      /\ Becomes(p, m.from, k, Decrypted(s, m, NextKey(p)))
      /\ delivered' = delivered \cup {m}
      /\ UNCHANGED <<install, preKeys, network>>
  BY <1>1 DEF Reads
<1>3. m.from \in Parties
  BY DEF TypeInv, StorageInv, SendersOK
<1>4. Ready(p, m.from, s) /\ AllPassed(s)
  BY <1>1, <1>2, <1>3, SessionOKIsTurnable DEF TypeInv, SessionsTyped, Ready, PassedOK
<1>5. FromStore(p, m.from, k, s)
  BY <1>1, <1>2 DEF FromStore
<1>6. Takes(p, k, m, s)
  BY <1>2, <1>4, <1>5, TakenKeys
<1>7. PreKeysUsed
  BY <1>2 DEF PreKeysUsed
<1> QED  BY <1>6, <1>7 DEF KeyStep

\* The session of a header, when the message was read in it, was made with a
\* one-time prekey, and with no other that p holds.
LEMMA HeaderFree ==
  ASSUME TypeInv, NEW p \in Parties, NEW m \in network, m.to = p, m.header # None,
         m.header.signedPreKeyId \in signedPreKeys[p],
         NEW s, s = HeaderSession(p, m.header), SessionDecrypts(p, s, m),
         UsesPreKey(p, m.header.preKeyId), install' = install
  PROVE  FromHeader(p, s)
<1> DEFINE header == m.header
           id == header.preKeyId
           preKey == PreKeyFor(p, header)
           signedPreKey == SignedPreKey(p, install[p], header.signedPreKeyId)
<1>1. /\ Answering(s, Identity(p), preKey, signedPreKey, header.identityKey, header.baseKey)
      /\ Ready(p, m.from, s)
  BY HeaderSessionReady
<1>2. /\ install[p] \in Nat
      /\ preKeys[p] \subseteq Nat
      /\ preKeys \in [Parties -> SUBSET PreKeyIds]
      /\ header.signedPreKeyId \in Nat
      /\ header.identityKey \in KeysOf(m.from)
      /\ header.baseKey \in KeysOf(m.from)
      /\ m.from # m.to
      /\ Len(m.mac.key.seed) >= 5
  BY PartyAssumption, SessionKeysDistinct
  DEF TypeInv, TablesTyped, MessagesTyped, MessageOK, MessageOver, HeaderOver
<1> HIDE DEF signedPreKey, preKey
<1>3. /\ DOMAIN s.chains = {}
      /\ s.ephemeralKeyPair = signedPreKey
      /\ Len(s.rootKey) = IF preKey = None THEN 3 ELSE 4
      /\ preKey # None => s.rootKey[4] = {header.baseKey, preKey}
      /\ \A i \in 1..Len(s.rootKey) :
           s.rootKey[i] \subseteq {Identity(p), preKey, signedPreKey,
                                   header.identityKey, header.baseKey}
      /\ s.rootKey \in Seq(SUBSET Drawn)
  BY <1>1 DEF Answering, Ready, Turnable, SessionOver
<1>4. Len(s.rootKey) = 4 /\ preKey # None
  <2>1. AllPassed(s)
    BY <1>3 DEF AllPassed
  <2>2. Had(s, m)
    BY <1>1, <2>1, ReadMoves
  <2>3. m.mac.key.seed = Append(s.rootKey, {m.ephemeralKey, s.ephemeralKeyPair})
    BY <1>3, <2>2 DEF Had, HadChain, HadRoot, Receiving
  <2> DEFINE secret == {m.ephemeralKey, s.ephemeralKeyPair}
  <2>4. Len(Append(s.rootKey, secret)) = Len(s.rootKey) + 1
    <3> HIDE DEF secret
    <3> QED  BY <1>3
  <2> QED  BY <1>2, <1>3, <2>3, <2>4
<1>5. id \in preKeys[p] /\ preKey = PreKey(p, install[p], id)
  BY <1>4 DEF preKey, PreKeyFor
<1>6. \E n, other \in Nat : s.ephemeralKeyPair = SignedPreKey(p, n, other)
  BY <1>2, <1>3 DEF signedPreKey
<1>7. Tainted(leftover, s.rootKey) \/ ~Free(p, s.rootKey)
  <2>1. 4 \in DOMAIN s.rootKey
    BY <1>3, <1>4
  <2>2. PreKey(p, install[p], id) \in s.rootKey[4]
    BY <1>3, <1>4, <1>5
  <2> QED  BY <1>5, <2>1, <2>2 DEF Free, FreeOf, Held, Tainted
<1>8. Free(p, s.rootKey)'
  <2> SUFFICES ASSUME NEW other \in preKeys'[p], PreKey(p, install[p], other) \notin leftover',
                      NEW i \in DOMAIN s.rootKey,
                      PreKey(p, install[p], other) \in s.rootKey[i]
               PROVE  FALSE
    BY DEF Free, FreeOf, Held
  <2> DEFINE used == PreKey(p, install[p], other)
  <2>1. other \in preKeys[p] /\ other # id /\ other \in Nat /\ id \in Nat
    BY <1>2, <1>5 DEF UsesPreKey
  <2>2. i \in 1..Len(s.rootKey)
    BY <1>3
  <2>3. used # preKey /\ used # signedPreKey /\ used # Identity(p) /\ used \in KeysOf(p)
    BY <1>2, <1>5, <2>1
    DEF PreKey, SignedPreKey, Identity, IdentityKey, KeysOf, signedPreKey
  <2>4. used \notin KeysOf(m.from)
    BY <1>2, <2>3, KeysApart
  <2> HIDE DEF used
  <2> QED  BY <1>2, <1>3, <2>2, <2>3, <2>4 DEF used
<1> QED  BY <1>3, <1>4, <1>6, <1>7, <1>8 DEF FromHeader

\* ... or in the session of its header.
LEMMA ReceivesKeys ==
  ASSUME TypeInv, leftover \subseteq leftover',
         NEW p \in Parties, NEW m \in network, Receives(p, m)
  PROVE  KeyStep /\ \E k, s : Takes(p, k, m, s)
<1>1. PICK s : s = HeaderSession(p, m.header)
  OBVIOUS
<1>2. PICK k : k = m.header.baseKey
  OBVIOUS
<1>3. /\ m.to = p
      /\ m.header # None
      /\ m.header.signedPreKeyId \in signedPreKeys[p]
      /\ SessionDecrypts(p, s, m)
      /\ Becomes(p, m.from, k, Decrypted(s, m, NextKey(p)))
      /\ UsesPreKey(p, m.header.preKeyId)
      /\ delivered' = delivered \cup {m}
      /\ UNCHANGED <<install, network>>
  BY <1>1, <1>2 DEF Receives
<1>4. FromHeader(p, s)
  BY <1>1, <1>3, HeaderFree
<1>5. Ready(p, m.from, s) /\ AllPassed(s)
  BY <1>1, <1>3, <1>4, HeaderSessionReady DEF FromHeader, AllPassed
<1>6. Takes(p, k, m, s)
  BY <1>3, <1>4, <1>5, TakenKeys
<1>7. PreKeysUsed
  <2>1. preKeys \in [Parties -> SUBSET PreKeyIds]
    BY DEF TypeInv, TablesTyped
  <2> QED  BY <1>3, <2>1 DEF PreKeysUsed, UsesPreKey
<1> QED  BY <1>6, <1>7 DEF KeyStep

\* So every step is one.
LEMMA StepKeys ==
  ASSUME TypeInv, PassedOK, Step
  PROVE  KeyStep
  BY PrunesKeys, BuildsKeys, SendsKeys, ReadsKeys, ReceivesKeys DEF Step

-----------------------------------------------------------------------------
\* What a step does to the keys of the session in one slot: it has the keys it
\* had, or is the one that has new ones; and each of its receiving chains was
\* there before, or was made for a message of the peer that was read.
Mail(from, to, read) == {m \in read : m.from = from /\ m.to = to}
SlotMoves(a, b, j, slot, read) ==
  /\ \/ Has(a, b, j) /\ \E n \in Nat : SameKeys(At(a, b, j), n, At(a, b, j)')
     \/ <<a, b, j>> = slot /\ NewKeys(a, At(a, b, j)')
  /\ \A i \in Receiving(At(a, b, j)') :
       \/ /\ Has(a, b, j)
          /\ i \in Receiving(At(a, b, j))
          /\ Moved(At(a, b, j).chains[i], Mail(b, a, read), At(a, b, j)'.chains[i])
       \/ /\ <<a, b, j>> = slot
          /\ NewKeys(a, At(a, b, j)')
          /\ Made(Mail(b, a, read), i, At(a, b, j)'.chains[i])
SlotsMove(slot, read) ==
  \A a, b \in Parties : \A j : Has(a, b, j)' => SlotMoves(a, b, j, slot, read)
Taking(slot, read) ==
  \E p \in Parties : \E m \in network : \E k, s :
    Takes(p, k, m, s) /\ slot = <<p, m.from, k>> /\ read = {m}
Moves(slot, read) == /\ SlotsMove(slot, read)
                     /\ delivered' = delivered \cup read
                     /\ read = {} \/ Taking(slot, read)

\* A session that is kept.
LEMMA QuietMoves ==
  ASSUME TypeInv, NEW a \in Parties, NEW b \in Parties, NEW j, NEW slot, NEW read,
         Has(a, b, j), Quiet(At(a, b, j), At(a, b, j)')
  PROVE  SlotMoves(a, b, j, slot, read)
<1> DEFINE s == At(a, b, j)
           t == At(a, b, j)'
<1>1. SessionOK(Drawn, a, b, s)
  BY DEF TypeInv, SessionsTyped
<1>2. s.ephemeralKeyPair \in DOMAIN s.chains => SendingChain(s).counter \in Int
  BY <1>1 DEF SessionOK, SessionOver, ChainsOver, ChainOver, Counters, SendingChain
<1> HIDE DEF s, t
<1>3. SameKeys(s, 0, t)
  BY <1>2 DEF s, t, Quiet, SameKeys, SendingChain
<1>4. \A i \in Receiving(t) : i \in Receiving(s) /\ t.chains[i] = s.chains[i]
  BY DEF s, t, Quiet, Receiving
<1>5. \E n \in Nat : SameKeys(s, n, t)
  BY <1>3
<1> QED  BY <1>4, <1>5 DEF s, t, SlotMoves, Moved

\* The session a message was read in was stored, or its ratchet turned.
LEMMA TakesKinds ==
  ASSUME TypeInv, TypeInv', NEW p \in Parties, NEW m \in network, NEW k, NEW s,
         Takes(p, k, m, s), Has(p, m.from, k)'
  PROVE  LET t == At(p, m.from, k)'
         IN  \/ FromStore(p, m.from, k, s) /\ InPlace(s, {m}, t)
             \/ AfterTurn(p, s, {m}, t)
<1> DEFINE t == At(p, m.from, k)'
<1>1. m.from \in Parties
  BY DEF TypeInv, StorageInv, SendersOK
<1>2. SessionOK(Drawn', p, m.from, t)
  BY <1>1 DEF TypeInv, SessionsTyped
<1>3. /\ FromStore(p, m.from, k, s) \/ FromHeader(p, s)
      /\ InPlace(s, {m}, t) \/ AfterTurn(p, s, {m}, t)
  BY DEF Takes
<1> HIDE DEF t
<1>4. ASSUME FromHeader(p, s), InPlace(s, {m}, t)
      PROVE  FALSE
  <2>1. HadChain(s, m)
    BY <1>4 DEF InPlace
  <2> QED  BY <1>4, <2>1 DEF HadChain, Receiving, FromHeader
<1> QED  BY <1>3, <1>4 DEF t

\* The session a message was read in.
LEMMA TakesMoves ==
  ASSUME TypeInv, TypeInv', NEW p \in Parties, NEW m \in network, NEW k, NEW s,
         Takes(p, k, m, s), Has(p, m.from, k)'
  PROVE  SlotMoves(p, m.from, k, <<p, m.from, k>>, {m})
<1> DEFINE q == m.from
           t == At(p, q, k)'
           old == At(p, q, k)
<1>1. /\ m.to = p
      /\ FromStore(p, q, k, s) \/ FromHeader(p, s)
      /\ \/ FromStore(p, q, k, s) /\ InPlace(s, {m}, t)
         \/ AfterTurn(p, s, {m}, t)
  BY TakesKinds DEF Takes
<1>2. Mail(q, p, {m}) = {m}
  BY <1>1 DEF Mail
<1>3. FromStore(p, q, k, s) => Has(p, q, k) /\ s = old
  BY DEF FromStore
<1>4. FromHeader(p, s) => Receiving(s) = {}
  BY DEF FromHeader, Receiving
<1> HIDE DEF t, old
<1>5. CASE FromStore(p, q, k, s) /\ InPlace(s, {m}, t)
  <2>1. SameKeys(old, 0, t)
    BY <1>3, <1>5 DEF InPlace
  <2>2. \E n \in Nat : SameKeys(old, n, t)
    BY <2>1
  <2>3. \A i \in Receiving(t) :
          i \in Receiving(old) /\ Moved(old.chains[i], {m}, t.chains[i])
    BY <1>3, <1>5 DEF InPlace
  <2> QED  BY <1>2, <1>3, <1>5, <2>2, <2>3 DEF SlotMoves, t, old
<1>6. CASE AfterTurn(p, s, {m}, t)
  <2>1. /\ NewKeys(p, t)
        /\ \A i \in Receiving(t) :
             \/ i \in Receiving(s) /\ Moved(s.chains[i], {m}, t.chains[i])
             \/ Made({m}, i, t.chains[i])
    BY <1>6 DEF AfterTurn
  <2>2. \A i \in Receiving(t) :
          \/ /\ Has(p, q, k)
             /\ i \in Receiving(old)
             /\ Moved(old.chains[i], {m}, t.chains[i])
          \/ Made({m}, i, t.chains[i])
    BY <1>1, <1>3, <1>4, <2>1
  <2> QED  BY <1>2, <2>1, <2>2 DEF SlotMoves, t, old
<1> QED  BY <1>1, <1>5, <1>6

\* A step moves the sessions so, for one slot and one message at most.
LEMMA KeyStepMoves ==
  ASSUME TypeInv, TypeInv', KeyStep
  PROVE  \E slot, read : Moves(slot, read)
<1>1. ASSUME AllStay, UNCHANGED delivered
      PROVE  \E slot, read : Moves(slot, read)
  <2>1. SlotsMove(0, {})
    BY <1>1, QuietMoves DEF AllStay, SlotsMove
  <2> QED  BY <1>1, <2>1 DEF Moves
<1>2. ASSUME NEW p \in Parties, NEW q \in Parties, NEW k, StaysBut(p, q, k),
             NEW read, Has(p, q, k)' => SlotMoves(p, q, k, <<p, q, k>>, read)
      PROVE  SlotsMove(<<p, q, k>>, read)
  <2> SUFFICES ASSUME NEW a \in Parties, NEW b \in Parties, NEW j, Has(a, b, j)'
               PROVE  SlotMoves(a, b, j, <<p, q, k>>, read)
    BY DEF SlotsMove
  <2>1. CASE <<a, b, j>> = <<p, q, k>>
    <3>1. a = p /\ b = q /\ j = k
      BY <2>1
    <3> QED  BY <1>2, <3>1
  <2>2. CASE <<a, b, j>> # <<p, q, k>>
    BY <1>2, <2>2, QuietMoves DEF StaysBut
  <2> QED  BY <2>1, <2>2
<1>3. ASSUME NEW p \in Parties, NEW q \in Parties \ {p}, NEW k, Starts(p, q, k)
      PROVE  \E slot, read : Moves(slot, read)
  <2>1. ASSUME Has(p, q, k)'
        PROVE  SlotMoves(p, q, k, <<p, q, k>>, {})
    BY <1>3, <2>1 DEF Starts, SlotMoves
  <2>2. SlotsMove(<<p, q, k>>, {})
    BY <1>2, <1>3, <2>1 DEF Starts
  <2> QED  BY <1>3, <2>2 DEF Starts, Moves
<1>4. ASSUME NEW p \in Parties, NEW q \in Parties \ {p}, NEW k, NEW m, SendsOn(p, q, k, m)
      PROVE  \E slot, read : Moves(slot, read)
  <2>1. ASSUME Has(p, q, k)'
        PROVE  SlotMoves(p, q, k, <<p, q, k>>, {})
    <3>1. /\ Has(p, q, k)
          /\ SameKeys(At(p, q, k), 1, At(p, q, k)')
          /\ \A i \in Receiving(At(p, q, k)') :
               /\ i \in Receiving(At(p, q, k))
               /\ At(p, q, k)'.chains[i] = At(p, q, k).chains[i]
      BY <1>4, <2>1 DEF SendsOn
    <3>2. \E n \in Nat : SameKeys(At(p, q, k), n, At(p, q, k)')
      BY <3>1
    <3> QED  BY <3>1, <3>2 DEF SlotMoves, Moved
  <2>2. SlotsMove(<<p, q, k>>, {})
    BY <1>2, <1>4, <2>1 DEF SendsOn
  <2> QED  BY <1>4, <2>2 DEF SendsOn, Moves
<1>5. ASSUME NEW p \in Parties, NEW m \in network, NEW k, NEW s, Takes(p, k, m, s)
      PROVE  \E slot, read : Moves(slot, read)
  <2>1. m.from \in Parties
    BY DEF TypeInv, StorageInv, SendersOK
  <2>2. SlotsMove(<<p, m.from, k>>, {m})
    BY <1>2, <1>5, <2>1, TakesMoves DEF Takes
  <2>3. Taking(<<p, m.from, k>>, {m})
    BY <1>5 DEF Taking
  <2> QED  BY <1>5, <2>2, <2>3 DEF Takes, Moves
<1> QED  BY <1>1, <1>3, <1>4, <1>5 DEF KeyStep

\* The counter of a chain stays at or above the keys it stores.
LEMMA StepKeepsPassed ==
  ASSUME TypeInv, TypeInv', PassedOK, KeyStep
  PROVE  PassedOK'
<1> SUFFICES ASSUME NEW a \in Parties, NEW b \in Parties, NEW j, Has(a, b, j)'
             PROVE  AllPassed(At(a, b, j)')
  BY DEF PassedOK
<1> DEFINE s == At(a, b, j)
           t == At(a, b, j)'
<1>1. PICK slot, read : SlotMoves(a, b, j, slot, read)
  BY KeyStepMoves DEF Moves, SlotsMove
<1>2. SessionOK(Drawn', a, b, t)
  BY DEF TypeInv, SessionsTyped
<1>3. Has(a, b, j) => AllPassed(s)
  BY DEF PassedOK
<1> HIDE DEF s, t
<1> SUFFICES ASSUME NEW i \in DOMAIN t.chains  PROVE Passed(t.chains[i])
  BY DEF AllPassed, t
<1>4. CASE i \in Receiving(t)
  <2>1. CASE Has(a, b, j) /\ i \in Receiving(s) /\ Moved(s.chains[i], Mail(b, a, read), t.chains[i])
    BY <1>3, <2>1 DEF Moved, Advanced, AllPassed, Receiving
  <2>2. CASE Made(Mail(b, a, read), i, t.chains[i])
    BY <2>2 DEF Made, ReadFrom, Advanced
  <2> QED  BY <1>1, <1>4, <2>1, <2>2 DEF SlotMoves, s, t
<1>5. CASE i \notin Receiving(t)
  <2>1. t.chains[i].messageKeys = {}
    BY <1>2, <1>5 DEF SessionOK, ChainsOK, SendingOK, ReceivingOK, Receiving, SendingChain
  <2> QED  BY <2>1 DEF Passed
<1> QED  BY <1>4, <1>5

\* What is proved of the keys holds of every step from here on.
LEMMA NextKeys ==
  ASSUME TypeInv, PassedOK, [Next]_vars
  PROVE  TypeInv' /\ KeyStep /\ PassedOK'
  BY NextSteps, StepKeys, StepKeepsPassed

-----------------------------------------------------------------------------
\* No message key is used twice.  No two sessions have a root key or a key
\* pair in common ...
SlotsApart ==
  \A a, b, c, d \in Parties : \A j, l :
    Has(a, b, j) /\ Has(c, d, l) /\ <<a, b, j>> # <<c, d, l>> =>
      /\ At(a, b, j).rootKey # At(c, d, l).rootKey
      /\ At(a, b, j).ephemeralKeyPair # At(c, d, l).ephemeralKeyPair

\* ... and the messages under a session's root key are its owner's, with
\* counters the sending chain passed.
SentOn(sent, p, s) ==
  \A m \in sent : m.mac.key.seed = s.rootKey =>
    /\ m.from = p
    /\ s.ephemeralKeyPair \in DOMAIN s.chains => m.counter <= SendingChain(s).counter
AllSent ==
  \A p, q \in Parties : \A k : Has(p, q, k) => SentOn(network, p, At(p, q, k))
OneSender ==
  \A m, n \in network : m.mac.key.seed = n.mac.key.seed => m.from = n.from
SendInv == SlotsApart /\ AllSent /\ OneSender /\ NoKeyReuse

\* What is stored and what was sent has been drawn.
LEMMA KeysThere ==
  ASSUME TypeInv
  PROVE  /\ \A p, q \in Parties : \A k : Has(p, q, k) =>
              /\ At(p, q, k).rootKey \in Seq(SUBSET Drawn)
              /\ At(p, q, k).ephemeralKeyPair \in Drawn
              /\ At(p, q, k).ephemeralKeyPair \in DOMAIN At(p, q, k).chains =>
                   SendingChain(At(p, q, k)).counter \in Int
         /\ \A m \in network :
              /\ m.mac.key.seed \in Seq(SUBSET Drawn)
              /\ m.mac.key = MessageKey(m.mac.key.seed, m.counter)
              /\ m.counter \in Nat
              /\ m.from \in Parties
              /\ m.to \in Parties
<1>1. ASSUME NEW p \in Parties, NEW q \in Parties, NEW k, Has(p, q, k)
      PROVE  /\ At(p, q, k).rootKey \in Seq(SUBSET Drawn)
             /\ At(p, q, k).ephemeralKeyPair \in Drawn
             /\ At(p, q, k).ephemeralKeyPair \in DOMAIN At(p, q, k).chains =>
                  SendingChain(At(p, q, k)).counter \in Int
  <2> DEFINE s == At(p, q, k)
  <2>1. SessionOver(Drawn, s)
    BY <1>1 DEF TypeInv, SessionsTyped, SessionOK
  <2> HIDE DEF s
  <2>2. s.rootKey \in Seq(SUBSET Drawn) /\ s.ephemeralKeyPair \in Drawn
    BY <2>1 DEF SessionOver
  <2>3. ASSUME s.ephemeralKeyPair \in DOMAIN s.chains
        PROVE  SendingChain(s).counter \in Int
    BY <2>1, <2>3 DEF SessionOver, ChainsOver, ChainOver, Counters, SendingChain
  <2> QED  BY <2>2, <2>3 DEF s
<1>2. ASSUME NEW m \in network
      PROVE  /\ m.mac.key.seed \in Seq(SUBSET Drawn)
             /\ m.mac.key = MessageKey(m.mac.key.seed, m.counter)
             /\ m.counter \in Nat
             /\ m.from \in Parties
             /\ m.to \in Parties
  <2>1. m \in MessageOver(Drawn) /\ m.mac.key.counter = m.counter
    BY DEF TypeInv, MessagesTyped, MessageOK
  <2>2. /\ m.mac \in [key : [seed : Seq(SUBSET Drawn), counter : Nat],
                      sender : Drawn, receiver : Drawn]
        /\ m.counter \in Nat
        /\ m.from \in Parties
        /\ m.to \in Parties
    BY <2>1 DEF MessageOver
  <2>3. m.mac.key \in [seed : Seq(SUBSET Drawn), counter : Nat]
    BY <2>2
  <2> QED  BY <2>1, <2>2, <2>3 DEF MessageKey
<1> QED  BY <1>1, <1>2

\* Root keys and key pairs stay apart: the new ones were never there.
LEMMA SlotsStayApart ==
  ASSUME TypeInv, SlotsApart, NEW slot, NEW read, SlotsMove(slot, read)
  PROVE  SlotsApart'
<1> SUFFICES ASSUME NEW a \in Parties, NEW b \in Parties, NEW c \in Parties,
                    NEW d \in Parties, NEW j, NEW l,
                    Has(a, b, j)', Has(c, d, l)', <<a, b, j>> # <<c, d, l>>
             PROVE  /\ At(a, b, j)'.rootKey # At(c, d, l)'.rootKey
                    /\ At(a, b, j)'.ephemeralKeyPair # At(c, d, l)'.ephemeralKeyPair
  BY DEF SlotsApart
<1> DEFINE Kept1(x, y, k) == /\ Has(x, y, k)
                             /\ At(x, y, k)'.rootKey = At(x, y, k).rootKey
                             /\ At(x, y, k)'.ephemeralKeyPair = At(x, y, k).ephemeralKeyPair
                             /\ At(x, y, k).rootKey \in Seq(SUBSET Drawn)
                             /\ At(x, y, k).ephemeralKeyPair \in Drawn
           New1(x, y, k) == /\ <<x, y, k>> = slot
                            /\ At(x, y, k)'.rootKey \notin Seq(SUBSET Drawn)
                            /\ At(x, y, k)'.ephemeralKeyPair \notin Drawn
<1>1. Kept1(a, b, j) \/ New1(a, b, j)
  BY KeysThere DEF SlotsMove, SlotMoves, SameKeys, NewKeys
<1>2. Kept1(c, d, l) \/ New1(c, d, l)
  BY KeysThere DEF SlotsMove, SlotMoves, SameKeys, NewKeys
<1>3. CASE Kept1(a, b, j) /\ Kept1(c, d, l)
  BY <1>3 DEF SlotsApart
<1>4. CASE New1(a, b, j) \/ New1(c, d, l)
  <2>1. ~(New1(a, b, j) /\ New1(c, d, l))
    OBVIOUS
  <2> QED  BY <1>1, <1>2, <1>4, <2>1
<1> QED  BY <1>1, <1>2, <1>3, <1>4

\* A session that has its keys stays ahead of what was sent.
LEMMA SentStays ==
  ASSUME NEW sent, \A m \in sent : m.counter \in Nat, NEW p, NEW s, SentOn(sent, p, s),
         NEW n \in Nat, NEW t, SameKeys(s, n, t),
         s.ephemeralKeyPair \in DOMAIN s.chains => SendingChain(s).counter \in Int
  PROVE  SentOn(sent, p, t)
<1> SUFFICES ASSUME NEW m \in sent, m.mac.key.seed = t.rootKey
             PROVE  /\ m.from = p
                    /\ t.ephemeralKeyPair \in DOMAIN t.chains =>
                         m.counter <= SendingChain(t).counter
  BY DEF SentOn
<1>1. /\ m.from = p
      /\ s.ephemeralKeyPair \in DOMAIN s.chains => m.counter <= SendingChain(s).counter
  BY DEF SentOn, SameKeys
<1>2. ASSUME t.ephemeralKeyPair \in DOMAIN t.chains
      PROVE  m.counter <= SendingChain(t).counter
  <2>1. /\ s.ephemeralKeyPair \in DOMAIN s.chains
        /\ SendingChain(t).counter = SendingChain(s).counter + n
    BY <1>2 DEF SameKeys
  <2> QED  BY <1>1, <2>1
<1> QED  BY <1>1, <1>2

\* The messages there were before a step.
LEMMA OldSent ==
  ASSUME TypeInv, AllSent, NEW slot, NEW read, SlotsMove(slot, read),
         NEW a \in Parties, NEW b \in Parties, NEW j, Has(a, b, j)'
  PROVE  SentOn(network, a, At(a, b, j)')
<1> DEFINE s == At(a, b, j)
           t == At(a, b, j)'
<1>1. \/ Has(a, b, j) /\ \E n \in Nat : SameKeys(s, n, t)
      \/ NewKeys(a, t)
  BY DEF SlotsMove, SlotMoves
<1>2. Has(a, b, j) => /\ SentOn(network, a, s)
                      /\ s.ephemeralKeyPair \in DOMAIN s.chains =>
                           SendingChain(s).counter \in Int
  BY KeysThere DEF AllSent
<1>3. \A m \in network : m.counter \in Nat /\ m.mac.key.seed \in Seq(SUBSET Drawn)
  BY KeysThere
<1> HIDE DEF s, t
<1>4. CASE NewKeys(a, t)
  BY <1>3, <1>4 DEF NewKeys, SentOn, t
<1>5. CASE Has(a, b, j) /\ \E n \in Nat : SameKeys(s, n, t)
  BY <1>2, <1>3, <1>5, SentStays DEF t
<1> QED  BY <1>1, <1>4, <1>5

\* The message that is sent has the next counter.
LEMMA SendsStay ==
  ASSUME TypeInv, TypeInv', SendInv, NEW slot, NEW read, SlotsMove(slot, read),
         NEW p \in Parties, NEW q \in Parties \ {p}, NEW k, NEW m, SendsOn(p, q, k, m)
  PROVE  AllSent' /\ OneSender' /\ NoKeyReuse'
<1> DEFINE s == At(p, q, k)
<1>1. /\ Has(p, q, k)
      /\ IsOpen(s)
      /\ network' = network \cup {m}
      /\ m.from = p
      /\ m.counter = SendingChain(s).counter + 1
      /\ m.mac.key = MessageKey(s.rootKey, SendingChain(s).counter + 1)
      /\ Has(p, q, k)' => SameKeys(s, 1, At(p, q, k)')
      /\ StaysBut(p, q, k)
  BY DEF SendsOn, Carries
<1>2. s.ephemeralKeyPair \in DOMAIN s.chains /\ SendingChain(s).counter \in Int
  <2>1. SessionOK(Drawn, p, q, s)
    BY <1>1 DEF TypeInv, SessionsTyped
  <2>2. s.ephemeralKeyPair \in DOMAIN s.chains
    BY <1>1, <2>1 DEF SessionOK, ChainsOK, SendingOK
  <2> QED  BY <1>1, <2>2, KeysThere
<1>3. SentOn(network, p, s)
  BY <1>1 DEF SendInv, AllSent
<1>4. m.mac.key.seed = s.rootKey /\ m.mac.key.counter = SendingChain(s).counter + 1
  BY <1>1 DEF MessageKey
<1>5. ASSUME NEW n \in network, n.mac.key.seed = m.mac.key.seed
      PROVE  n.from = p /\ n.mac.key # m.mac.key
  <2>1. n.from = p /\ n.counter <= SendingChain(s).counter
    BY <1>2, <1>3, <1>4, <1>5 DEF SentOn
  <2>2. n.mac.key = MessageKey(n.mac.key.seed, n.counter) /\ n.counter \in Nat
    BY KeysThere
  <2>3. n.mac.key.counter = n.counter
    BY <2>2 DEF MessageKey
  <2> QED  BY <1>2, <1>4, <2>1, <2>2, <2>3
<1>6. OneSender'
  BY <1>1, <1>5 DEF SendInv, OneSender
<1>7. NoKeyReuse'
  BY <1>1, <1>5 DEF SendInv, NoKeyReuse
<1>8. ASSUME NEW a \in Parties, NEW b \in Parties, NEW j, Has(a, b, j)'
      PROVE  SentOn(network', a, At(a, b, j)')
  <2> DEFINE t == At(a, b, j)'
  <2>1. SentOn(network, a, t)
    BY <1>8, OldSent DEF SendInv
  <2>2. CASE <<a, b, j>> = <<p, q, k>>
    <3>1. a = p /\ SameKeys(s, 1, t)
      BY <1>1, <1>8, <2>2
    <3>2. t.ephemeralKeyPair \in DOMAIN t.chains => m.counter <= SendingChain(t).counter
      BY <1>1, <1>2, <3>1 DEF SameKeys
    <3> HIDE DEF t
    <3>3. SentOn(network', a, t)
      BY <1>1, <2>1, <3>1, <3>2 DEF SentOn
    <3> QED  BY <3>3 DEF t
  <2>3. CASE <<a, b, j>> # <<p, q, k>>
    <3>1. Has(a, b, j) /\ t.rootKey = At(a, b, j).rootKey
      BY <1>1, <1>8, <2>3 DEF StaysBut, Quiet
    <3>2. t.rootKey # s.rootKey
      BY <1>1, <2>3, <3>1 DEF SendInv, SlotsApart
    <3> HIDE DEF t
    <3>3. SentOn(network', a, t)
      BY <1>1, <1>4, <2>1, <3>2 DEF SentOn
    <3> QED  BY <3>3 DEF t
  <2> QED  BY <2>2, <2>3
<1> QED  BY <1>6, <1>7, <1>8 DEF AllSent

\* Every step keeps the messages sent in sessions told apart.
LEMMA StepKeepsSent ==
  ASSUME TypeInv, TypeInv', SendInv, KeyStep
  PROVE  SendInv'
<1>1. PICK slot, read : SlotsMove(slot, read)
  BY KeyStepMoves DEF Moves
<1>2. SlotsApart'
  BY <1>1, SlotsStayApart DEF SendInv
<1>3. CASE network' = network
  <2>1. AllSent'
    BY <1>1, <1>3, OldSent DEF SendInv, AllSent
  <2> QED  BY <1>2, <1>3, <2>1 DEF SendInv, OneSender, NoKeyReuse
<1>4. ASSUME NEW p \in Parties, NEW q \in Parties \ {p}, NEW k, NEW m, SendsOn(p, q, k, m)
      PROVE  SendInv'
  BY <1>1, <1>2, <1>4, SendsStay DEF SendInv
<1> QED  BY ZenonT(40), <1>3, <1>4 DEF KeyStep, Starts, Takes

\* No two messages are encrypted under one message key, by whatever parties
\* and in whatever sessions: encrypt takes the next key of a chain that grew
\* from a root key no other session has or had (fillMessageKeys,
\* calculateRatchet).
THEOREM SignalNoKeyReuse == Spec => []NoKeyReuse
<1> DEFINE Inv == TypeInv /\ PassedOK /\ SendInv
<1>1. Init => Inv
  BY InitTyped DEF Init, PassedOK, SendInv, SlotsApart, AllSent, OneSender, NoKeyReuse, Has
<1>2. Inv /\ [Next]_vars => Inv'
  BY NextKeys, StepKeepsSent
<1>3. Inv => NoKeyReuse
  BY DEF SendInv
<1> QED  BY <1>1, <1>2, <1>3, PTL DEF Spec

-----------------------------------------------------------------------------
\* The one-time prekeys p holds went into no root key p has stored, but for
\* those that could not be removed when they were used.
RootsFree ==
  \A p, q \in Parties : \A k : Has(p, q, k) => Free(p, At(p, q, k).rootKey)

\* Prekeys that went into a longer root key.
LEMMA FreeAppend ==
  ASSUME NEW p, NEW n, NEW held, NEW S, NEW seed \in Seq(S), NEW secret \in S
  PROVE  FreeOf(p, n, held, Append(seed, secret)) <=>
           FreeOf(p, n, held, seed) /\ \A id \in held : PreKey(p, n, id) \notin secret
<1> DEFINE longer == Append(seed, secret)
<1>1. /\ Len(longer) = Len(seed) + 1
      /\ DOMAIN longer = 1..Len(longer)
      /\ \A i \in 1..Len(seed) : longer[i] = seed[i]
      /\ longer[Len(longer)] = secret
  BY AppendIs
<1>2. DOMAIN seed = 1..Len(seed) /\ Len(seed) \in Nat
  OBVIOUS
<1> HIDE DEF longer
<1>3. DOMAIN longer = DOMAIN seed \cup {Len(longer)} /\ Len(longer) \in DOMAIN longer
  BY <1>1, <1>2
<1>4. \A i \in DOMAIN seed : longer[i] = seed[i]
  BY <1>1, <1>2
<1> QED  BY <1>1, <1>3, <1>4 DEF FreeOf, longer

\* Where a session is left, the prekeys p holds are some of those it had.
LEMMA FreeStays ==
  ASSUME PreKeysUsed, NEW p \in Parties, NEW q \in Parties, NEW k, Has(p, q, k)',
         NEW seed, Free(p, seed)
  PROVE  FreeOf(p, install'[p], Held(p)', seed)
<1>1. install'[p] = install[p] /\ Held(p)' \subseteq Held(p)
  BY DEF PreKeysUsed, Held
<1> QED  BY <1>1 DEF Free, FreeOf

\* The secrets of two parties' session keys hold no one-time prekey.
LEMMA SessionSecretFree ==
  ASSUME TypeInv', NEW p \in Parties, NEW m \in network', m.from # p, NEW key,
         key \in SessionKeys(p) \/ \E n, id \in Nat : key = SignedPreKey(p, n, id)
  PROVE  \A id \in Held(p)' : PreKey(p, install'[p], id) \notin {m.ephemeralKey, key}
<1> TAKE id \in Held(p)'
<1> DEFINE used == PreKey(p, install'[p], id)
<1>1. id \in Nat /\ install'[p] \in Nat
  BY PartyAssumption DEF TypeInv, TablesTyped, Held
<1>2. m.ephemeralKey \in KeysOf(m.from)
  BY SessionKeysDistinct DEF TypeInv, MessagesTyped, MessageOK
<1>3. used \in KeysOf(p) /\ used \notin SessionKeys(p)
  BY <1>1, SessionKeysDistinct DEF KeysOf, PreKey
<1>4. used # m.ephemeralKey
  BY <1>2, <1>3, KeysApart
<1>5. \A n, i \in Nat : used # SignedPreKey(p, n, i)
  BY <1>1 DEF PreKey, SignedPreKey
<1> HIDE DEF used
<1>6. used # key
  BY <1>3, <1>5
<1> QED  BY <1>4, <1>6 DEF used

\* The session a message was read in, as it was before.
LEMMA TakenRoot ==
  ASSUME TypeInv, TypeInv', NEW p \in Parties, NEW m \in network, NEW k, NEW s,
         Takes(p, k, m, s)
  PROVE  /\ m.from \in Parties
         /\ m.from # p
         /\ s.rootKey \in Seq(SUBSET Drawn)
         /\ s.ephemeralKeyPair \in Drawn
         /\ m.ephemeralKey \in Drawn
         /\ \/ s.ephemeralKeyPair \in SessionKeys(p)
            \/ \E n, id \in Nat : s.ephemeralKeyPair = SignedPreKey(p, n, id)
<1>1. m.from \in Parties /\ m.from # m.to /\ m.ephemeralKey \in Drawn
  BY DEF TypeInv, MessagesTyped, MessageOK, MessageOver
<1>2. m.to = p /\ Turnable(Drawn, p, m.from, s)
  BY DEF Takes
<1>3. s.rootKey \in Seq(SUBSET Drawn) /\ s.ephemeralKeyPair \in Drawn
  BY <1>2 DEF Turnable, SessionOver
<1>4. CASE FromStore(p, m.from, k, s)
  <2>1. SessionOK(Drawn, p, m.from, s)
    BY <1>1, <1>4 DEF FromStore, TypeInv, SessionsTyped
  <2> QED  BY <1>1, <1>2, <1>3, <2>1 DEF SessionOK, KeysOK
<1>5. CASE FromHeader(p, s)
  BY <1>1, <1>2, <1>3, <1>5 DEF FromHeader
<1> QED  BY <1>4, <1>5 DEF Takes

\* The root key that led to the chain of a message holds none either.
LEMMA ReadRootFree ==
  ASSUME TypeInv, TypeInv', PreKeysUsed, RootsFree,
         NEW p \in Parties, NEW m \in network, NEW k, NEW s, Takes(p, k, m, s),
         HadRoot(s, m)
  PROVE  FreeOf(p, install'[p], Held(p)', m.mac.key.seed)
<1> DEFINE secret == {m.ephemeralKey, s.ephemeralKeyPair}
           n == install'[p]
           held == Held(p)'
           S == SUBSET Drawn
<1>1. /\ m.from \in Parties
      /\ m.from # p
      /\ s.rootKey \in Seq(S)
      /\ secret \in S
      /\ \/ s.ephemeralKeyPair \in SessionKeys(p)
         \/ \E i, id \in Nat : s.ephemeralKeyPair = SignedPreKey(p, i, id)
  BY TakenRoot
<1>2. \A id \in held : PreKey(p, n, id) \notin secret
  <2>1. m \in network'
    BY DEF Takes
  <2> QED  BY <1>1, <2>1, SessionSecretFree
<1>3. FreeOf(p, n, held, s.rootKey)
  <2>1. CASE FromStore(p, m.from, k, s)
    <3>1. Free(p, s.rootKey)
      BY <1>1, <2>1 DEF FromStore, RootsFree
    <3>2. install' = install /\ Held(p)' \subseteq Held(p)
      BY <2>1 DEF Takes, FromStore, PreKeysUsed, Held
    <3> QED  BY <3>1, <3>2 DEF Free, FreeOf
  <2>2. CASE FromHeader(p, s)
    BY <2>2 DEF FromHeader, Free
  <2> QED  BY <2>1, <2>2 DEF Takes
<1>4. m.mac.key.seed = Append(s.rootKey, secret)
  BY DEF HadRoot
<1> HIDE DEF secret, n, held, S
<1>5. FreeOf(p, n, held, m.mac.key.seed)
  BY <1>1, <1>2, <1>3, <1>4, FreeAppend
<1> QED  BY <1>5 DEF n, held

\* The session a message was read in.
LEMMA TakesStayFree ==
  ASSUME TypeInv, TypeInv', PreKeysUsed, RootsFree,
         NEW p \in Parties, NEW m \in network, NEW k, NEW s, Takes(p, k, m, s),
         Has(p, m.from, k)'
  PROVE  FreeOf(p, install'[p], Held(p)', At(p, m.from, k)'.rootKey)
<1> DEFINE t == At(p, m.from, k)'
           secret == {m.ephemeralKey, t.ephemeralKeyPair}
           n == install'[p]
           held == Held(p)'
           S == SUBSET Drawn'
<1>1. /\ m.from \in Parties
      /\ m.from # p
      /\ m \in network'
      /\ m.ephemeralKey \in Drawn'
      /\ m.mac.key.seed \in Seq(S)
  BY TakenRoot, KeysThere DEF Takes, TypeInv, MessagesTyped, MessageOK, MessageOver
<1>2. SessionOK(Drawn', p, m.from, t)
  BY <1>1 DEF TypeInv, SessionsTyped
<1>3. \/ FromStore(p, m.from, k, s) /\ InPlace(s, {m}, t)
      \/ AfterTurn(p, s, {m}, t)
  BY TakesKinds
<1> HIDE DEF t
<1>4. CASE FromStore(p, m.from, k, s) /\ InPlace(s, {m}, t)
  <2>1. t.rootKey = s.rootKey /\ Free(p, s.rootKey)
    BY <1>1, <1>4 DEF InPlace, SameKeys, FromStore, RootsFree
  <2> QED  BY <1>1, <2>1, FreeStays DEF t
<1>5. CASE AfterTurn(p, s, {m}, t)
  <2>1. HadRoot(s, m) /\ t.rootKey = Append(m.mac.key.seed, secret)
    BY <1>5 DEF AfterTurn
  <2>2. FreeOf(p, n, held, m.mac.key.seed)
    BY <2>1, ReadRootFree
  <2>3. t.ephemeralKeyPair \in SessionKeys(p) /\ secret \in S
    BY <1>1, <1>2 DEF SessionOK, SessionOver, KeysOK
  <2>4. \A id \in held : PreKey(p, n, id) \notin secret
    BY <1>1, <2>3, SessionSecretFree
  <2> HIDE DEF secret, n, held, S
  <2>5. FreeOf(p, n, held, t.rootKey)
    BY <1>1, <2>1, <2>2, <2>3, <2>4, FreeAppend
  <2> QED  BY <2>5 DEF n, held, t
<1> QED  BY <1>3, <1>4, <1>5

\* Every step keeps the prekeys out of the root keys.
LEMMA StepKeepsFree ==
  ASSUME TypeInv, TypeInv', RootsFree, KeyStep
  PROVE  RootsFree'
<1> SUFFICES ASSUME NEW a \in Parties, NEW b \in Parties, NEW j, Has(a, b, j)'
             PROVE  FreeOf(a, install'[a], Held(a)', At(a, b, j)'.rootKey)
  BY DEF RootsFree, Free
<1>1. PreKeysUsed
  BY DEF KeyStep
<1>2. ASSUME Has(a, b, j), At(a, b, j)'.rootKey = At(a, b, j).rootKey
      PROVE  FreeOf(a, install'[a], Held(a)', At(a, b, j)'.rootKey)
  BY <1>1, <1>2, FreeStays DEF RootsFree
<1>3. CASE AllStay
  BY <1>2, <1>3 DEF AllStay, Quiet
<1>4. ASSUME NEW p \in Parties, NEW q \in Parties \ {p}, NEW k, Starts(p, q, k)
      PROVE  FreeOf(a, install'[a], Held(a)', At(a, b, j)'.rootKey)
  <2>1. CASE <<a, b, j>> = <<p, q, k>>
    <3>1. Free(a, At(a, b, j)'.rootKey)
      BY <1>4, <2>1 DEF Starts
    <3> QED  BY <1>1, <3>1, FreeStays
  <2>2. CASE <<a, b, j>> # <<p, q, k>>
    BY <1>2, <1>4, <2>2 DEF Starts, StaysBut, Quiet
  <2> QED  BY <2>1, <2>2
<1>5. ASSUME NEW p \in Parties, NEW q \in Parties \ {p}, NEW k, NEW m, SendsOn(p, q, k, m)
      PROVE  FreeOf(a, install'[a], Held(a)', At(a, b, j)'.rootKey)
  <2>1. CASE <<a, b, j>> = <<p, q, k>>
    BY <1>2, <1>5, <2>1 DEF SendsOn, SameKeys
  <2>2. CASE <<a, b, j>> # <<p, q, k>>
    BY <1>2, <1>5, <2>2 DEF SendsOn, StaysBut, Quiet
  <2> QED  BY <2>1, <2>2
<1>6. ASSUME NEW p \in Parties, NEW m \in network, NEW k, NEW s, Takes(p, k, m, s)
      PROVE  FreeOf(a, install'[a], Held(a)', At(a, b, j)'.rootKey)
  <2>1. CASE <<a, b, j>> = <<p, m.from, k>>
    <3>1. a = p /\ b = m.from /\ j = k
      BY <2>1
    <3> QED  BY <1>1, <1>6, <3>1, TakesStayFree
  <2>2. CASE <<a, b, j>> # <<p, m.from, k>>
    BY <1>2, <1>6, <2>2 DEF Takes, StaysBut, Quiet
  <2> QED  BY <2>1, <2>2
<1> QED  BY <1>3, <1>4, <1>5, <1>6 DEF KeyStep

\* A prekey that was left behind is in every longer root key, and is not
\* forgotten.
LEMMA TaintedAppend ==
  ASSUME NEW left, NEW S, NEW seed \in Seq(S), NEW secret \in S, Tainted(left, seed)
  PROVE  Tainted(left, Append(seed, secret))
<1> DEFINE longer == Append(seed, secret)
<1>1. /\ Len(longer) = Len(seed) + 1
      /\ DOMAIN longer = 1..Len(longer)
      /\ \A i \in 1..Len(seed) : longer[i] = seed[i]
  BY AppendIs
<1>2. DOMAIN seed = 1..Len(seed) /\ Len(seed) \in Nat
  OBVIOUS
<1> HIDE DEF longer
<1>3. \A i \in DOMAIN seed : i \in DOMAIN longer /\ longer[i] = seed[i]
  BY <1>1, <1>2
<1>4. Tainted(left, longer)
  BY <1>3 DEF Tainted
<1> QED  BY <1>4 DEF longer

LEMMA TaintedMore ==
  ASSUME NEW left, NEW more, left \subseteq more, NEW seed, Tainted(left, seed)
  PROVE  Tainted(more, seed)
  BY DEF Tainted

-----------------------------------------------------------------------------
\* What p has read with: the chains of the messages delivered to it, and those
\* it has stored, but for the sessions of prekeys that were left behind.
Stands(p, q, k, i) == Has(p, q, k) /\ i \in Receiving(At(p, q, k))
SeedAt(p, q, k, i) == At(p, q, k).chains[i].seed
TakenSeed(p, seed) ==
  /\ ~Tainted(leftover, seed)
  /\ \/ \E m \in delivered : m.to = p /\ m.mac.key.seed = seed
     \/ \E q \in Parties : \E k, i : Stands(p, q, k, i) /\ SeedAt(p, q, k, i) = seed

\* The root key and the key pair of s do not lead to the chain.
Away(s, seed) ==
  \A secret \in SUBSET Key :
    s.ephemeralKeyPair \in secret => seed # Append(s.rootKey, secret)

\* What p has read with cannot be derived again: not from a root key p has
\* stored, nor by a session made with a one-time prekey p holds.
TakenAway ==
  \A p \in Parties : \A seed : TakenSeed(p, seed) =>
    /\ Free(p, seed)
    /\ \A q \in Parties : \A k : Has(p, q, k) => Away(At(p, q, k), seed)
\* The same of the messages p has sent.
SentAway ==
  \A p, q \in Parties : \A k : Has(p, q, k) =>
    \A m \in network : m.from = p => Away(At(p, q, k), m.mac.key.seed)
\* A chain is stored once, is that of a message of the peer, and gives no key
\* of a message that was delivered.
ChainsApart ==
  \A p, q, r \in Parties : \A k, i, l, j :
    /\ Stands(p, q, k, i)
    /\ Stands(p, r, l, j)
    /\ SeedAt(p, q, k, i) = SeedAt(p, r, l, j)
    /\ ~Tainted(leftover, SeedAt(p, q, k, i))
    => q = r /\ k = l /\ i = j
FromPeer ==
  \A p, q \in Parties : \A k, i : Stands(p, q, k, i) =>
    \E m \in network : m.from = q /\ m.to = p /\ m.mac.key.seed = SeedAt(p, q, k, i)
KeysSpent ==
  \A m \in delivered : \A q \in Parties : \A k, i :
    /\ Stands(m.to, q, k, i)
    /\ SeedAt(m.to, q, k, i) = m.mac.key.seed
    /\ ~Tainted(leftover, m.mac.key.seed)
    => ~Gives(At(m.to, q, k).chains[i], m.counter)
ReadInv == TakenAway /\ ChainsApart /\ FromPeer /\ KeysSpent

\* Appending is one to one.
LEMMA AppendSame ==
  ASSUME NEW S, NEW seq \in Seq(S), NEW other \in Seq(S), NEW x \in S, NEW y \in S,
         Append(seq, x) = Append(other, y)
  PROVE  seq = other /\ x = y
<1> DEFINE a == Append(seq, x)
           b == Append(other, y)
<1>1. /\ Len(a) = Len(seq) + 1
      /\ \A i \in 1..Len(seq) : a[i] = seq[i]
      /\ a[Len(a)] = x
  BY AppendIs
<1>2. /\ Len(b) = Len(other) + 1
      /\ \A i \in 1..Len(other) : b[i] = other[i]
      /\ b[Len(b)] = y
  BY AppendIs
<1>3. a = b /\ Len(seq) \in Nat /\ Len(other) \in Nat
  OBVIOUS
<1> HIDE DEF a, b
<1>4. Len(seq) = Len(other) /\ x = y
  BY <1>1, <1>2, <1>3
<1>5. \A i \in 1..Len(seq) : seq[i] = other[i]
  BY <1>1, <1>2, <1>3, <1>4
<1>6. seq = other
  BY <1>4, <1>5
<1> QED  BY <1>4, <1>6

\* New keys lead to nothing there was.
LEMMA NewIsAway ==
  ASSUME NEW p, NEW t, NewKeys(p, t), NEW S, t.rootKey \in Seq(S),
         NEW seed \in Seq(SUBSET Drawn)
  PROVE  Away(t, seed)
<1> SUFFICES ASSUME NEW secret \in SUBSET Key, t.ephemeralKeyPair \in secret,
                    seed = Append(t.rootKey, secret)
             PROVE  FALSE
  BY DEF Away
<1>1. Append(t.rootKey, secret) \in Seq(SUBSET Drawn)
  OBVIOUS
<1>2. secret \subseteq Drawn
  BY <1>1, NewRootKey
<1> QED  BY <1>2 DEF NewKeys

\* Everything there is was drawn.
LEMMA SeedsThere ==
  ASSUME TypeInv
  PROVE  /\ Drawn \subseteq Key
         /\ \A p, q \in Parties : \A k, i : Stands(p, q, k, i) =>
              SeedAt(p, q, k, i) \in Seq(SUBSET Drawn)
         /\ \A p \in Parties : \A seed : TakenSeed(p, seed) => seed \in Seq(SUBSET Drawn)
<1>1. ASSUME NEW p \in Parties, NEW q \in Parties, NEW k, NEW i, Stands(p, q, k, i)
      PROVE  SeedAt(p, q, k, i) \in Seq(SUBSET Drawn)
  <2> DEFINE s == At(p, q, k)
  <2>1. SessionOver(Drawn, s) /\ i \in DOMAIN s.chains
    BY <1>1 DEF Stands, Receiving, TypeInv, SessionsTyped, SessionOK
  <2> HIDE DEF s
  <2>2. s.chains[i] \in ChainOver(Drawn)
    BY <2>1 DEF SessionOver, ChainsOver
  <2>3. s.chains[i].seed \in Seq(SUBSET Drawn)
    BY <2>2 DEF ChainOver
  <2> QED  BY <2>3 DEF SeedAt, s
<1>2. ASSUME NEW p \in Parties, NEW seed, TakenSeed(p, seed)
      PROVE  seed \in Seq(SUBSET Drawn)
  BY <1>1, <1>2, KeysThere DEF TakenSeed, TypeInv, MessagesTyped
<1>3. Drawn \subseteq Key
  BY DEF Drawn, KeysMade
<1> QED  BY <1>1, <1>2, <1>3

\* A message that is read from a chain the session had: the chain is stored,
\* and p has read with its seed.
LEMMA HadChainTaken ==
  ASSUME TypeInv, NEW p \in Parties, NEW m \in network, NEW k, NEW s,
         Takes(p, k, m, s), HadChain(s, m)
  PROVE  /\ Stands(p, m.from, k, m.ephemeralKey)
         /\ SeedAt(p, m.from, k, m.ephemeralKey) = m.mac.key.seed
         /\ Tainted(leftover, m.mac.key.seed) \/ TakenSeed(p, m.mac.key.seed)
<1>1. m.from \in Parties
  BY KeysThere
<1>2. FromStore(p, m.from, k, s)
  BY DEF Takes, FromHeader, HadChain, Receiving
<1> QED  BY <1>1, <1>2 DEF FromStore, HadChain, Stands, SeedAt, TakenSeed

\* A message that is read after a turn comes on a chain p has not read with;
\* no other session leads to it.
LEMMA HadRootNew ==
  ASSUME TypeInv, TypeInv', SlotsApart, RootsFree, TakenAway,
         NEW p \in Parties, NEW m \in network, NEW k, NEW s,
         Takes(p, k, m, s), HadRoot(s, m)
  PROVE  /\ ~TakenSeed(p, m.mac.key.seed)
         /\ ~Tainted(leftover, m.mac.key.seed) =>
              \A q \in Parties : \A j : Has(p, q, j) /\ <<q, j>> # <<m.from, k>> =>
                Away(At(p, q, j), m.mac.key.seed)
<1> DEFINE secret == {m.ephemeralKey, s.ephemeralKeyPair}
           S == SUBSET Key
<1>1. /\ m.from \in Parties
      /\ s.rootKey \in Seq(SUBSET Drawn)
      /\ secret \in SUBSET Drawn
      /\ s.ephemeralKeyPair \in secret
  BY TakenRoot
<1>2. m.mac.key.seed = Append(s.rootKey, secret)
  BY DEF HadRoot
<1>3. FromStore(p, m.from, k, s) \/ FromHeader(p, s)
  BY DEF Takes
<1> HIDE DEF secret
<1>4. Free(p, m.mac.key.seed) => Free(p, s.rootKey)
  BY <1>1, <1>2, FreeAppend DEF Free
<1>5. secret \in S /\ s.rootKey \in Seq(S)
  <2>1. SUBSET Drawn \subseteq S
    BY SeedsThere
  <2>2. Seq(SUBSET Drawn) \subseteq Seq(S)
    BY <2>1, SeqMonotonic
  <2> QED  BY <1>1, <2>1, <2>2
<1>6. ASSUME TakenSeed(p, m.mac.key.seed)
      PROVE  FALSE
  <2>1. Free(p, m.mac.key.seed)
    BY <1>6 DEF TakenAway
  <2>2. CASE FromStore(p, m.from, k, s)
    <3>1. Away(s, m.mac.key.seed)
      BY <1>1, <1>6, <2>2 DEF TakenAway, FromStore
    <3> QED  BY <1>1, <1>2, <1>5, <3>1 DEF Away
  <2>3. CASE FromHeader(p, s)
    <3>1. ~Tainted(leftover, m.mac.key.seed)
      BY <1>6 DEF TakenSeed
    <3>2. ~Tainted(leftover, s.rootKey)
      BY <1>1, <1>2, <3>1, TaintedAppend
    <3> QED  BY <1>4, <2>1, <2>3, <3>2 DEF FromHeader
  <2> QED  BY <1>3, <2>2, <2>3
<1>7. ASSUME ~Tainted(leftover, m.mac.key.seed),
             NEW q \in Parties, NEW j, Has(p, q, j), <<q, j>> # <<m.from, k>>
      PROVE  Away(At(p, q, j), m.mac.key.seed)
  <2> DEFINE x == At(p, q, j)
  <2>1. x.rootKey \in Seq(S)
    <3>1. x.rootKey \in Seq(SUBSET Drawn)
      BY <1>7, KeysThere
    <3>2. Seq(SUBSET Drawn) \subseteq Seq(S)
      BY SeedsThere, SeqMonotonic
    <3> QED  BY <3>1, <3>2
  <2>2. x.rootKey # s.rootKey
    <3>1. CASE FromStore(p, m.from, k, s)
      BY <1>1, <1>7, <3>1 DEF FromStore, SlotsApart
    <3>2. CASE FromHeader(p, s)
      <4>1. ~Tainted(leftover, s.rootKey)
        BY <1>1, <1>2, <1>7, TaintedAppend
      <4> QED  BY <1>7, <3>2, <4>1 DEF FromHeader, RootsFree
    <3> QED  BY <1>3, <3>1, <3>2
  <2> HIDE DEF x, S
  <2>3. ASSUME NEW other \in S, m.mac.key.seed = Append(x.rootKey, other)
        PROVE  FALSE
    <3>1. Append(x.rootKey, other) = Append(s.rootKey, secret)
      BY <1>2, <2>3
    <3> QED  BY SMTT(30), <1>5, <2>1, <2>2, <3>1, AppendSame
  <2>4. Away(x, m.mac.key.seed)
    BY <2>3 DEF Away, S
  <2> QED  BY <2>4 DEF x
<1> QED  BY <1>6, <1>7

\* None of the prekeys p holds after the step is in what was read before.
LEMMA OldStaysFree ==
  ASSUME TypeInv, TypeInv', PreKeysUsed, NEW p \in Parties,
         NEW seed \in Seq(SUBSET Drawn), Free(p, seed)
  PROVE  FreeOf(p, install'[p], Held(p)', seed)
<1>1. CASE install'[p] = install[p] /\ preKeys'[p] \subseteq preKeys[p]
  <2>1. Held(p)' \subseteq Held(p)
    BY <1>1 DEF PreKeysUsed, Held
  <2> QED  BY <1>1, <2>1 DEF Free, FreeOf
<1>2. CASE install'[p] = install[p] + 1
  <2>1. /\ preKeys'[p] \subseteq Nat
        /\ install[p] \in Nat
        /\ install \in [Parties -> Nat]
        /\ fresh \in [Parties -> Nat]
    BY PartyAssumption DEF TypeInv, TablesTyped
  <2>2. install[p] + 1 \in Nat /\ ~(install[p] + 1 <= install[p])
    BY <2>1
  <2>3. \A id \in Nat : PreKey(p, install[p] + 1, id) \notin Drawn
    BY <2>1, <2>2, KeysMadeHas DEF Drawn
  <2>4. \A i \in DOMAIN seed : seed[i] \subseteq Drawn
    OBVIOUS
  <2>5. Held(p)' \subseteq Nat
    BY <2>1 DEF Held
  <2> QED  BY <1>2, <2>3, <2>4, <2>5 DEF FreeOf
<1> QED  BY <1>1, <1>2 DEF PreKeysUsed

\* The sessions and the chains after a step.
LEMMA SlotStaysAway ==
  ASSUME TypeInv, TypeInv', NEW slot, NEW read, SlotsMove(slot, read),
         NEW p \in Parties, NEW q \in Parties, NEW k, Has(p, q, k)',
         NEW seed \in Seq(SUBSET Drawn), Has(p, q, k) => Away(At(p, q, k), seed)
  PROVE  Away(At(p, q, k)', seed)
<1> DEFINE t == At(p, q, k)'
<1>1. \/ Has(p, q, k) /\ \E n \in Nat : SameKeys(At(p, q, k), n, t)
      \/ NewKeys(p, t)
  BY DEF SlotsMove, SlotMoves
<1>2. t.rootKey \in Seq(SUBSET Drawn')
  BY DEF TypeInv, SessionsTyped, SessionOK, SessionOver
<1> HIDE DEF t
<1>3. CASE Has(p, q, k) /\ \E n \in Nat : SameKeys(At(p, q, k), n, t)
  <2>1. t.rootKey = At(p, q, k).rootKey /\ t.ephemeralKeyPair = At(p, q, k).ephemeralKeyPair
    BY <1>3 DEF SameKeys
  <2>2. Away(t, seed)
    BY <1>3, <2>1 DEF Away
  <2> QED  BY <2>2 DEF t
<1>4. CASE NewKeys(p, t)
  BY <1>2, <1>4, NewIsAway DEF t
<1> QED  BY <1>1, <1>3, <1>4

\* A receiving chain was there, and gives no more than it did, or it was made
\* for the message that was read.
LEMMA ChainAfter ==
  ASSUME NEW slot, NEW read, Moves(slot, read),
         NEW p \in Parties, NEW q \in Parties, NEW k, NEW i, Stands(p, q, k, i)'
  PROVE  \/ /\ Stands(p, q, k, i)
            /\ SeedAt(p, q, k, i)' = SeedAt(p, q, k, i)
            /\ \A n \in Int : Gives(At(p, q, k)'.chains[i], n) =>
                                Gives(At(p, q, k).chains[i], n)
         \/ /\ <<p, q, k>> = slot
            /\ Has(p, q, k)'
            /\ NewKeys(p, At(p, q, k)')
            /\ \E m \in read : /\ m.from = q
                               /\ m.to = p
                               /\ i = m.ephemeralKey
                               /\ SeedAt(p, q, k, i)' = m.mac.key.seed
<1> DEFINE s == At(p, q, k)
           t == At(p, q, k)'
<1>1. Has(p, q, k)' /\ i \in Receiving(t)
  BY DEF Stands
<1>2. SlotMoves(p, q, k, slot, read)
  BY <1>1 DEF Moves, SlotsMove
<1> HIDE DEF s, t
<1>3. CASE Has(p, q, k) /\ i \in Receiving(s) /\ Moved(s.chains[i], Mail(q, p, read), t.chains[i])
  <2>1. \/ t.chains[i] = s.chains[i]
        \/ \E n : Advanced(s.chains[i], n, t.chains[i])
    BY <1>3 DEF Moved
  <2>2. /\ t.chains[i].seed = s.chains[i].seed
        /\ \A n \in Int : Gives(t.chains[i], n) => Gives(s.chains[i], n)
    BY <2>1 DEF Advanced
  <2> QED  BY <1>3, <2>2 DEF Stands, SeedAt, s, t
<1>4. CASE <<p, q, k>> = slot /\ NewKeys(p, t) /\ Made(Mail(q, p, read), i, t.chains[i])
  <2>1. PICK m \in read : /\ m.from = q
                          /\ m.to = p
                          /\ i = m.ephemeralKey
                          /\ t.chains[i].seed = m.mac.key.seed
    BY <1>4 DEF Made, Mail, ReadFrom, Advanced, NewChain
  <2> QED  BY <1>1, <1>4, <2>1 DEF SeedAt, t
<1> QED  BY <1>1, <1>2, <1>3, <1>4 DEF SlotMoves, s, t

\* What p has read with after a step.
LEMMA TakenAfter ==
  ASSUME leftover \subseteq leftover',
         NEW slot, NEW read, Moves(slot, read), NEW p \in Parties, NEW seed,
         TakenSeed(p, seed)'
  PROVE  TakenSeed(p, seed) \/ \E m \in read : m.to = p /\ m.mac.key.seed = seed
<1>1. ~Tainted(leftover, seed)
  BY TaintedMore DEF TakenSeed
<1>2. CASE \E m \in delivered' : m.to = p /\ m.mac.key.seed = seed
  BY <1>1, <1>2 DEF Moves, TakenSeed
<1>3. CASE \E q \in Parties : \E k, i : Stands(p, q, k, i)' /\ SeedAt(p, q, k, i)' = seed
  <2>1. PICK q, k, i : q \in Parties /\ Stands(p, q, k, i)' /\ SeedAt(p, q, k, i)' = seed
    BY <1>3
  <2>2. CASE Stands(p, q, k, i) /\ SeedAt(p, q, k, i)' = SeedAt(p, q, k, i)
    BY <1>1, <2>1, <2>2 DEF TakenSeed
  <2>3. CASE \E m \in read : m.to = p /\ SeedAt(p, q, k, i)' = m.mac.key.seed
    BY <2>1, <2>3
  <2> QED  BY <2>1, <2>2, <2>3, ChainAfter
<1> QED  BY <1>2, <1>3 DEF TakenSeed

\* A chain is made for a message only after a turn.
LEMMA MadeIsNew ==
  ASSUME TypeInv, TypeInv', SlotsApart, RootsFree, TakenAway,
         NEW slot, NEW read, Moves(slot, read),
         NEW p \in Parties, NEW q \in Parties, NEW k, Has(p, q, k)',
         <<p, q, k>> = slot, NewKeys(p, At(p, q, k)'), NEW m \in read
  PROVE  read = {m} /\ ~TakenSeed(p, m.mac.key.seed)
<1>1. PICK r, n, j, s :
        /\ r \in Parties /\ n \in network
        /\ Takes(r, j, n, s) /\ slot = <<r, n.from, j>> /\ read = {n}
  BY DEF Moves, Taking
<1>2. n = m /\ r = p /\ n.from = q /\ j = k
  BY <1>1
<1>3. Takes(p, k, m, s) /\ m \in network /\ m.from = q
  BY <1>1, <1>2
<1> DEFINE t == At(p, q, k)'
<1>4. \/ FromStore(p, q, k, s) /\ InPlace(s, {m}, t)
      \/ AfterTurn(p, s, {m}, t)
  BY <1>3, TakesKinds
<1>5. t.ephemeralKeyPair \notin Drawn
  BY DEF NewKeys
<1> HIDE DEF t
<1>6. AfterTurn(p, s, {m}, t)
  <2> SUFFICES ASSUME InPlace(s, {m}, t)  PROVE FALSE
    BY <1>4
  <2>1. t.ephemeralKeyPair = s.ephemeralKeyPair
    BY DEF InPlace, SameKeys
  <2>2. s.ephemeralKeyPair \in Drawn
    BY <1>3, TakenRoot
  <2> QED  BY <1>5, <2>1, <2>2
<1>7. HadRoot(s, m)
  BY <1>6 DEF AfterTurn
<1> QED  BY <1>1, <1>2, <1>3, <1>7, HadRootNew

\* No step leads back to what was read.
LEMMA TakenStaysAway ==
  ASSUME TypeInv, TypeInv', SlotsApart, RootsFree, TakenAway, PreKeysUsed,
         NEW slot, NEW read, Moves(slot, read)
  PROVE  TakenAway'
<1> SUFFICES ASSUME NEW p \in Parties, NEW seed, TakenSeed(p, seed)'
             PROVE  /\ FreeOf(p, install'[p], Held(p)', seed)
                    /\ \A q \in Parties : \A k : Has(p, q, k)' => Away(At(p, q, k)', seed)
  BY DEF TakenAway, Free
<1>1. SlotsMove(slot, read)
  BY DEF Moves
<1>2. leftover \subseteq leftover' /\ ~Tainted(leftover', seed) /\ ~Tainted(leftover, seed)
  BY TaintedMore DEF PreKeysUsed, TakenSeed
<1>3. CASE TakenSeed(p, seed)
  <2>1. seed \in Seq(SUBSET Drawn) /\ Free(p, seed)
    BY <1>3, SeedsThere DEF TakenAway
  <2>2. FreeOf(p, install'[p], Held(p)', seed)
    BY <2>1, OldStaysFree
  <2>3. ASSUME NEW q \in Parties, NEW k, Has(p, q, k)'
        PROVE  Away(At(p, q, k)', seed)
    <3>1. Has(p, q, k) => Away(At(p, q, k), seed)
      BY <1>3 DEF TakenAway
    <3> QED  BY <1>1, <2>1, <2>3, <3>1, SlotStaysAway
  <2> QED  BY <2>2, <2>3
<1>4. CASE ~TakenSeed(p, seed)
  <2>1. PICK m \in read : m.to = p /\ m.mac.key.seed = seed
    BY <1>2, <1>4, TakenAfter
  <2>2. PICK r, n, j, s : r \in Parties /\ n \in network /\ Takes(r, j, n, s) /\ read = {n}
    BY <2>1 DEF Moves, Taking
  <2>3. m = n /\ r = p
    BY <2>1, <2>2 DEF Takes
  <2>4. Takes(p, j, m, s) /\ m \in network
    BY <2>2, <2>3
  <2>5. ~HadChain(s, m) /\ HadRoot(s, m)
    <3>1. ~HadChain(s, m)
      BY <1>2, <1>4, <2>1, <2>4, HadChainTaken
    <3> QED  BY <2>4, <3>1 DEF Takes, Had
  <2>6. FreeOf(p, install'[p], Held(p)', seed)
    BY <1>2, <2>1, <2>4, <2>5, ReadRootFree
  <2>7. seed \in Seq(SUBSET Drawn) /\ m.from \in Parties
    BY <2>1, <2>4, KeysThere
  <2>8. ASSUME NEW q \in Parties, NEW k, Has(p, q, k)'
        PROVE  Away(At(p, q, k)', seed)
    <3>1. CASE <<q, k>> # <<m.from, j>>
      <4>1. Has(p, q, k) => Away(At(p, q, k), seed)
        BY <1>2, <2>1, <2>4, <2>5, <3>1, HadRootNew
      <4> QED  BY <1>1, <2>7, <2>8, <4>1, SlotStaysAway
    <3>2. CASE q = m.from /\ k = j
      <4> DEFINE t == At(p, q, k)'
      <4>1. AfterTurn(p, s, {m}, t)
        <5>1. ~InPlace(s, {m}, t)
          BY <2>5 DEF InPlace
        <5> QED  BY <2>4, <2>8, <3>2, <5>1, TakesKinds
      <4>2. NewKeys(p, t)
        BY <4>1 DEF AfterTurn
      <4>3. t.rootKey \in Seq(SUBSET Drawn')
        BY <2>8 DEF TypeInv, SessionsTyped, SessionOK, SessionOver
      <4> HIDE DEF t
      <4>4. Away(t, seed)
        BY <2>7, <4>2, <4>3, NewIsAway
      <4> QED  BY <4>4 DEF t
    <3> QED  BY <3>1, <3>2
  <2> QED  BY <2>6, <2>8
<1> QED  BY <1>3, <1>4

\* No step stores a chain twice.
LEMMA ChainsStayApart ==
  ASSUME TypeInv, TypeInv', SlotsApart, RootsFree, TakenAway, ChainsApart,
         leftover \subseteq leftover', NEW slot, NEW read, Moves(slot, read)
  PROVE  ChainsApart'
<1> SUFFICES ASSUME NEW p \in Parties, NEW q \in Parties, NEW r \in Parties,
                    NEW k, NEW i, NEW l, NEW j,
                    Stands(p, q, k, i)', Stands(p, r, l, j)',
                    SeedAt(p, q, k, i)' = SeedAt(p, r, l, j)',
                    ~Tainted(leftover, SeedAt(p, q, k, i))'
             PROVE  q = r /\ k = l /\ i = j
  BY DEF ChainsApart
<1> DEFINE Old(b, x, y) == Stands(p, b, x, y) /\ SeedAt(p, b, x, y)' = SeedAt(p, b, x, y)
           New(b, x, y) == /\ <<p, b, x>> = slot
                           /\ ~TakenSeed(p, SeedAt(p, b, x, y)')
                           /\ \E m : read = {m} /\ y = m.ephemeralKey
<1>1. ASSUME NEW b \in Parties, NEW x, NEW y, Stands(p, b, x, y)'
      PROVE  Old(b, x, y) \/ New(b, x, y)
  <2>1. CASE Stands(p, b, x, y) /\ SeedAt(p, b, x, y)' = SeedAt(p, b, x, y)
    BY <2>1
  <2>2. CASE /\ <<p, b, x>> = slot
             /\ Has(p, b, x)'
             /\ NewKeys(p, At(p, b, x)')
             /\ \E m \in read : /\ m.from = b
                                /\ m.to = p
                                /\ y = m.ephemeralKey
                                /\ SeedAt(p, b, x, y)' = m.mac.key.seed
    <3>1. PICK m \in read : y = m.ephemeralKey /\ SeedAt(p, b, x, y)' = m.mac.key.seed
      BY <2>2
    <3>2. read = {m} /\ ~TakenSeed(p, m.mac.key.seed)
      BY <2>2, MadeIsNew
    <3> QED  BY <2>2, <3>1, <3>2
  <2> QED  BY <1>1, <2>1, <2>2, ChainAfter
<1>2. \A b \in Parties : \A x, y :
        Old(b, x, y) /\ ~Tainted(leftover, SeedAt(p, b, x, y)')
          => TakenSeed(p, SeedAt(p, b, x, y)')
  BY DEF TakenSeed
<1>3. ~Tainted(leftover, SeedAt(p, q, k, i)')
  <2>1. PICK seed : seed = SeedAt(p, q, k, i)'
    OBVIOUS
  <2>2. ~Tainted(leftover', seed)
    BY <2>1
  <2> QED  BY <2>1, <2>2, TaintedMore
<1>4. Old(q, k, i) \/ New(q, k, i)
  BY <1>1
<1>5. Old(r, l, j) \/ New(r, l, j)
  BY <1>1
<1>6. CASE Old(q, k, i) /\ Old(r, l, j)
  <2>1. /\ Stands(p, q, k, i)
        /\ Stands(p, r, l, j)
        /\ SeedAt(p, q, k, i) = SeedAt(p, r, l, j)
        /\ ~Tainted(leftover, SeedAt(p, q, k, i))
    BY <1>6, <1>3
  <2> HIDE DEF Old, New
  <2> QED  BY <2>1 DEF ChainsApart
<1>7. CASE New(q, k, i) /\ New(r, l, j)
  BY <1>7
<1>8. CASE Old(q, k, i) /\ New(r, l, j)
  BY <1>2, <1>8, <1>3
<1>9. CASE New(q, k, i) /\ Old(r, l, j)
  BY <1>2, <1>9, <1>3
<1> QED  BY <1>4, <1>5, <1>6, <1>7, <1>8, <1>9

\* Every chain stays one of the peer.
LEMMA PeerStays ==
  ASSUME FromPeer, network \subseteq network', NEW slot, NEW read, Moves(slot, read)
  PROVE  FromPeer'
<1> SUFFICES ASSUME NEW p \in Parties, NEW q \in Parties, NEW k, NEW i, Stands(p, q, k, i)'
             PROVE  \E m \in network' :
                      m.from = q /\ m.to = p /\ m.mac.key.seed = SeedAt(p, q, k, i)'
  BY DEF FromPeer
<1>1. read \subseteq network
  BY DEF Moves, Taking
<1>2. CASE Stands(p, q, k, i) /\ SeedAt(p, q, k, i)' = SeedAt(p, q, k, i)
  BY <1>2 DEF FromPeer
<1>3. CASE \E m \in read : m.from = q /\ m.to = p /\ SeedAt(p, q, k, i)' = m.mac.key.seed
  BY <1>1, <1>3
<1> QED  BY <1>2, <1>3, ChainAfter

\* The message that is read takes its key with it.
LEMMA ReadIsSpent ==
  ASSUME TypeInv, TypeInv', SlotsApart, RootsFree, ReadInv,
         NEW p \in Parties, NEW m \in network, NEW j, NEW s, Takes(p, j, m, s),
         NEW q \in Parties, NEW k, NEW i, Stands(p, q, k, i),
         SeedAt(p, q, k, i) = m.mac.key.seed, ~Tainted(leftover, m.mac.key.seed)
  PROVE  q = m.from /\ k = j /\ i = m.ephemeralKey
<1>1. HadChain(s, m)
  <2>1. TakenSeed(p, m.mac.key.seed)
    BY DEF TakenSeed
  <2>2. ~HadRoot(s, m)
    BY <2>1, HadRootNew DEF ReadInv
  <2> QED  BY <2>2 DEF Takes, Had
<1>2. /\ Stands(p, m.from, j, m.ephemeralKey)
      /\ SeedAt(p, m.from, j, m.ephemeralKey) = m.mac.key.seed
  BY <1>1, HadChainTaken
<1>3. m.from \in Parties
  BY KeysThere
<1> QED  BY <1>2, <1>3 DEF ReadInv, ChainsApart

\* No step gives the key of a delivered message back.
LEMMA SpentStays ==
  ASSUME TypeInv, TypeInv', SlotsApart, RootsFree, ReadInv, network \subseteq network',
         leftover \subseteq leftover', NEW slot, NEW read, Moves(slot, read)
  PROVE  KeysSpent'
<1> SUFFICES ASSUME NEW m \in delivered', NEW q \in Parties, NEW k, NEW i,
                    Stands(m.to, q, k, i)', SeedAt(m.to, q, k, i)' = m.mac.key.seed,
                    ~Tainted(leftover', m.mac.key.seed),
                    Gives(At(m.to, q, k)'.chains[i], m.counter)
             PROVE  FALSE
  BY DEF KeysSpent
<1>1. PICK p : p = m.to
  OBVIOUS
<1>2. m \in network' /\ p \in Parties /\ m.counter \in Int
  BY <1>1, KeysThere DEF TypeInv, MessagesTyped, MessageOK, MessageOver
<1>3. /\ Stands(p, q, k, i)'
      /\ SeedAt(p, q, k, i)' = m.mac.key.seed
      /\ Gives(At(p, q, k)'.chains[i], m.counter)
  BY <1>1
<1>4. ~Tainted(leftover, m.mac.key.seed)
  BY TaintedMore
<1>5. CASE m \in delivered
  <2>1. TakenSeed(p, m.mac.key.seed)
    BY <1>1, <1>5, <1>4 DEF TakenSeed
  <2>2. CASE /\ Stands(p, q, k, i)
             /\ SeedAt(p, q, k, i)' = SeedAt(p, q, k, i)
             /\ \A n \in Int : Gives(At(p, q, k)'.chains[i], n) =>
                                 Gives(At(p, q, k).chains[i], n)
    <3>1. Gives(At(p, q, k).chains[i], m.counter)
      BY <1>2, <1>3, <2>2
    <3> QED  BY <1>1, <1>3, <1>5, <1>4, <2>2, <3>1 DEF ReadInv, KeysSpent
  <2>3. CASE /\ <<p, q, k>> = slot
             /\ Has(p, q, k)'
             /\ NewKeys(p, At(p, q, k)')
             /\ \E n \in read : SeedAt(p, q, k, i)' = n.mac.key.seed
    <3>1. PICK n \in read : SeedAt(p, q, k, i)' = n.mac.key.seed
      BY <2>3
    <3>2. ~TakenSeed(p, n.mac.key.seed)
      BY <1>2, <2>3, MadeIsNew DEF ReadInv
    <3> QED  BY <1>3, <2>1, <3>1, <3>2
  <2> QED  BY <1>2, <1>3, <2>2, <2>3, ChainAfter
<1>6. CASE m \notin delivered
  <2>1. PICK r, n, j, s :
          /\ r \in Parties /\ n \in network
          /\ Takes(r, j, n, s) /\ slot = <<r, n.from, j>> /\ read = {n}
    BY <1>6 DEF Moves, Taking
  <2>2. m \in read
    BY <1>6 DEF Moves
  <2>3. m = n /\ r = p
    BY <1>1, <2>1, <2>2 DEF Takes
  <2>4. m \in network /\ Takes(p, j, m, s) /\ slot = <<p, m.from, j>> /\ read = {m}
    BY <2>1, <2>3
  <2>5. q = m.from /\ k = j /\ i = m.ephemeralKey
    <3>1. CASE Stands(p, q, k, i) /\ SeedAt(p, q, k, i)' = SeedAt(p, q, k, i)
      BY <1>2, <1>3, <1>4, <2>4, <3>1, ReadIsSpent
    <3>2. CASE <<p, q, k>> = slot /\ \E n2 \in read : i = n2.ephemeralKey
      BY <2>4, <3>2
    <3> QED  BY <1>2, <1>3, <3>1, <3>2, ChainAfter
  <2> DEFINE t == At(p, q, k)'
  <2>6. Has(p, q, k)' /\ i \in Receiving(t)
    BY <1>3 DEF Stands
  <2>7. Spent(t, m)
    BY <2>4, <2>5, <2>6 DEF Takes
  <2> HIDE DEF t
  <2>8. ~Gives(t.chains[i], m.counter)
    BY <2>5, <2>6, <2>7 DEF Spent
  <2> QED  BY <1>3, <2>8 DEF t
<1> QED  BY <1>5, <1>6

\* Messages are only added, by encrypt.
LEMMA NetworkGrows ==
  ASSUME KeyStep
  PROVE  \/ network' = network
         \/ \E p \in Parties : \E q \in Parties \ {p} : \E k, m :
              SendsOn(p, q, k, m) /\ network' = network \cup {m}
<1>1. CASE UNCHANGED <<network, delivered>>
  BY <1>1
<1>2. ASSUME NEW p \in Parties, NEW q \in Parties \ {p}, NEW k, Starts(p, q, k)
      PROVE  network' = network
  BY <1>2 DEF Starts
<1>3. ASSUME NEW p \in Parties, NEW q \in Parties \ {p}, NEW k, NEW m, SendsOn(p, q, k, m)
      PROVE  network' = network \cup {m}
  BY <1>3 DEF SendsOn
<1>4. ASSUME NEW p \in Parties, NEW m \in network, NEW k, NEW s, Takes(p, k, m, s)
      PROVE  network' = network
  BY <1>4 DEF Takes
<1> QED  BY <1>1, <1>2, <1>3, <1>4 DEF KeyStep

\* Every step keeps what was read out of reach.
LEMMA StepKeepsRead ==
  ASSUME TypeInv, TypeInv', SlotsApart, RootsFree, ReadInv, KeyStep
  PROVE  ReadInv'
<1>1. PICK slot, read : Moves(slot, read)
  BY KeyStepMoves
<1>2. network \subseteq network' /\ leftover \subseteq leftover' /\ PreKeysUsed
  BY NetworkGrows DEF KeyStep, PreKeysUsed
<1>3. TakenAway'
  BY <1>1, <1>2, TakenStaysAway DEF ReadInv
<1>4. ChainsApart'
  BY <1>1, <1>2, ChainsStayApart DEF ReadInv
<1>5. FromPeer'
  BY <1>1, <1>2, PeerStays DEF ReadInv
<1>6. KeysSpent'
  BY <1>1, <1>2, SpentStays DEF ReadInv
<1> QED  BY <1>3, <1>4, <1>5, <1>6 DEF ReadInv

\* No session of p leads to the root key of another, or back to its own.
LEMMA OwnRootAway ==
  ASSUME TypeInv, SlotsApart, NEW p \in Parties, NEW q \in Parties, NEW k, Has(p, q, k),
         NEW r \in Parties, NEW j, Has(p, r, j)
  PROVE  Away(At(p, r, j), At(p, q, k).rootKey)
<1> DEFINE s == At(p, q, k)
           t == At(p, r, j)
           S == SUBSET Key
<1>1. /\ s.rootKey[Len(s.rootKey)] = {s.lastRemoteEphemeralKey, s.ephemeralKeyPair}
      /\ s.lastRemoteEphemeralKey \in KeysOf(q)
      /\ t.ephemeralKeyPair \in SessionKeys(p)
      /\ p # q
  BY DEF TypeInv, RecordsTyped, SessionsTyped, SessionOK, ChainsOK, KeysOK, Has
<1>2. s.rootKey \in Seq(S) /\ t.rootKey \in Seq(S)
  <2>1. Seq(SUBSET Drawn) \subseteq Seq(S)
    BY SeedsThere, SeqMonotonic
  <2>2. s.rootKey \in Seq(SUBSET Drawn) /\ t.rootKey \in Seq(SUBSET Drawn)
    BY KeysThere
  <2> QED  BY <2>1, <2>2
<1>3. t.ephemeralKeyPair = s.ephemeralKeyPair => s.rootKey = t.rootKey
  <2>1. t.ephemeralKeyPair = s.ephemeralKeyPair => <<p, q, k>> = <<p, r, j>>
    BY DEF SlotsApart
  <2>2. <<p, q, k>> = <<p, r, j>> => q = r /\ k = j
    OBVIOUS
  <2> QED  BY <2>1, <2>2
<1>4. t.ephemeralKeyPair \notin KeysOf(q)
  BY <1>1, KeysApart, SessionKeysDistinct
<1> HIDE DEF s, t, S
<1>5. ASSUME NEW secret \in S, t.ephemeralKeyPair \in secret,
             s.rootKey = Append(t.rootKey, secret)
      PROVE  FALSE
  <2> DEFINE longer == Append(t.rootKey, secret)
  <2>1. Len(longer) = Len(t.rootKey) + 1 /\ longer[Len(longer)] = secret
    BY <1>2, <1>5, AppendIs
  <2>2. longer = s.rootKey
    BY <1>5
  <2> HIDE DEF longer
  <2>3. secret = {s.lastRemoteEphemeralKey, s.ephemeralKeyPair}
    BY <1>1, <2>1, <2>2
  <2>4. t.ephemeralKeyPair = s.ephemeralKeyPair
    BY <1>1, <1>4, <1>5, <2>3
  <2>5. Len(t.rootKey) = Len(t.rootKey) + 1 /\ Len(t.rootKey) \in Nat
    BY <1>2, <1>3, <2>1, <2>2, <2>4
  <2> QED  BY <2>5
<1>6. Away(t, s.rootKey)
  BY <1>5 DEF Away, S
<1> QED  BY <1>6 DEF s, t

\* No step leads a sender back to a chain it has sent on.
LEMMA StepKeepsSentAway ==
  ASSUME TypeInv, TypeInv', SlotsApart, SentAway, KeyStep
  PROVE  SentAway'
<1> SUFFICES ASSUME NEW p \in Parties, NEW q \in Parties, NEW k, Has(p, q, k)',
                    NEW m \in network', m.from = p
             PROVE  Away(At(p, q, k)', m.mac.key.seed)
  BY DEF SentAway
<1>1. PICK slot, read : SlotsMove(slot, read)
  BY KeyStepMoves DEF Moves
<1>2. CASE m \in network
  <2>1. Has(p, q, k) => Away(At(p, q, k), m.mac.key.seed)
    BY <1>2 DEF SentAway
  <2>2. m.mac.key.seed \in Seq(SUBSET Drawn)
    BY <1>2, KeysThere
  <2> QED  BY <1>1, <2>1, <2>2, SlotStaysAway
<1>3. ASSUME NEW a \in Parties, NEW b \in Parties \ {a}, NEW j, SendsOn(a, b, j, m)
      PROVE  Away(At(p, q, k)', m.mac.key.seed)
  <2>1. a = p /\ m.mac.key.seed = At(p, b, j).rootKey /\ Has(p, b, j)
    BY <1>3 DEF SendsOn, Carries, MessageKey
  <2>2. Has(p, q, k) => Away(At(p, q, k), m.mac.key.seed)
    BY <1>3, <2>1, OwnRootAway
  <2>3. m.mac.key.seed \in Seq(SUBSET Drawn)
    BY <1>3, <2>1, KeysThere
  <2> QED  BY <1>1, <2>2, <2>3, SlotStaysAway
<1>4. ASSUME m \notin network
      PROVE  \E a \in Parties : \E b \in Parties \ {a} : \E j : SendsOn(a, b, j, m)
  BY <1>4, NetworkGrows
<1> QED  BY <1>2, <1>3, <1>4

\* What keeps a key out of reach of a session.
LEMMA DerivesNot ==
  ASSUME TypeInv, NEW p \in Parties, NEW q \in Parties, NEW k, Has(p, q, k),
         NEW m \in network, Away(At(p, q, k), m.mac.key.seed),
         \A i \in DOMAIN At(p, q, k).chains :
           At(p, q, k).chains[i].seed = m.mac.key.seed =>
             ~Gives(At(p, q, k).chains[i], m.counter)
  PROVE  ~Derives(At(p, q, k), m.mac.key)
<1> DEFINE s == At(p, q, k)
           seed == m.mac.key.seed
<1>1. m.mac.key.counter = m.counter /\ seed \in Seq(SUBSET Drawn) /\ Drawn \subseteq Key
  BY KeysThere, SeedsThere DEF TypeInv, MessagesTyped, MessageOK
<1>2. /\ Away(s, seed)
      /\ \A i \in DOMAIN s.chains : s.chains[i].seed = seed => ~Gives(s.chains[i], m.counter)
  OBVIOUS
<1> HIDE DEF s
<1>3. ASSUME NEW chain \in ChainsOf(s), chain.seed = seed
      PROVE  ~Gives(chain, m.counter)
  BY <1>2, <1>3 DEF ChainsOf
<1>4. ASSUME NEW i \in DOMAIN seed, s.ephemeralKeyPair \in seed[i]
      PROVE  seed # HKDF(s.rootKey, seed[i])
  <2>1. seed[i] \in SUBSET Key
    BY <1>1
  <2> HIDE DEF seed
  <2> QED  BY <1>2, <1>4, <2>1 DEF Away, HKDF
<1>5. ~Derives(s, m.mac.key)
  BY <1>1, <1>3, <1>4 DEF Derives, Gives
<1> QED  BY <1>5 DEF s

\* The sender has erased the keys of its messages ...
LEMMA SenderErased ==
  ASSUME TypeInv, SendInv, ReadInv, SentAway,
         NEW m \in network, NEW q \in Parties, NEW k, Has(m.from, q, k)
  PROVE  ~Derives(At(m.from, q, k), m.mac.key)
<1>1. PICK p : p = m.from
  OBVIOUS
<1> DEFINE s == At(p, q, k)
<1>2. p \in Parties /\ Has(p, q, k) /\ m.counter \in Nat
  BY <1>1, KeysThere
<1>3. Away(s, m.mac.key.seed)
  BY <1>1, <1>2 DEF SentAway
<1>4. SessionOK(Drawn, p, q, s) /\ p # q /\ SentOn(network, p, s)
  BY <1>2 DEF TypeInv, SessionsTyped, RecordsTyped, Has, SendInv, AllSent
<1>5. s.ephemeralKeyPair \in DOMAIN s.chains => SendingChain(s).counter \in Int
  BY <1>2, KeysThere
<1>6. ASSUME NEW i \in DOMAIN s.chains, s.chains[i].seed = m.mac.key.seed
      PROVE  ~Gives(s.chains[i], m.counter)
  <2>1. CASE i = s.ephemeralKeyPair
    <3>1. /\ s.chains[i].seed = s.rootKey
          /\ s.chains[i].messageKeys = {}
          /\ s.chains[i].counter \in Int
      BY <1>4, <1>5, <2>1 DEF SessionOK, ChainsOK, SendingOK, SendingChain
    <3>2. m.counter <= s.chains[i].counter
      BY <1>4, <1>6, <2>1, <3>1 DEF SentOn, SendingChain
    <3> QED  BY <1>2, <3>1, <3>2 DEF Gives
  <2>2. CASE i # s.ephemeralKeyPair
    <3>1. s.chains[i].chainType = "RECEIVING"
      BY <1>4, <2>2 DEF SessionOK, ChainsOK, ReceivingOK
    <3>2. Stands(p, q, k, i) /\ SeedAt(p, q, k, i) = m.mac.key.seed
      BY <1>2, <1>6, <3>1 DEF Stands, SeedAt, Receiving
    <3>3. PICK n \in network : n.from = q /\ n.mac.key.seed = m.mac.key.seed
      BY <1>2, <3>2 DEF ReadInv, FromPeer
    <3>4. m.from = q
      BY <3>3 DEF SendInv, OneSender
    <3> QED  BY <1>1, <1>4, <3>4
  <2> QED  BY <2>1, <2>2
<1>7. ~Derives(s, m.mac.key)
  BY <1>2, <1>3, <1>6, DerivesNot
<1> QED  BY <1>1, <1>7

\* ... and the receiver those of the messages it has read.
LEMMA ReaderErased ==
  ASSUME TypeInv, SendInv, ReadInv,
         NEW m \in delivered, ~Tainted(leftover, m.mac.key.seed),
         NEW q \in Parties, NEW k, Has(m.to, q, k)
  PROVE  ~Derives(At(m.to, q, k), m.mac.key)
<1>1. PICK p : p = m.to
  OBVIOUS
<1> DEFINE s == At(p, q, k)
<1>2. /\ p \in Parties
      /\ Has(p, q, k)
      /\ m \in network
      /\ m.from # p
  BY <1>1, KeysThere DEF TypeInv, MessagesTyped, MessageOK
<1>3. Away(s, m.mac.key.seed)
  BY <1>1, <1>2 DEF ReadInv, TakenAway, TakenSeed
<1>4. SessionOK(Drawn, p, q, s) /\ SentOn(network, p, s)
  BY <1>2 DEF TypeInv, SessionsTyped, SendInv, AllSent
<1>5. ASSUME NEW i \in DOMAIN s.chains, s.chains[i].seed = m.mac.key.seed
      PROVE  ~Gives(s.chains[i], m.counter)
  <2>1. CASE i = s.ephemeralKeyPair
    <3>1. s.chains[i].seed = s.rootKey
      BY <1>4, <2>1 DEF SessionOK, ChainsOK, SendingOK, SendingChain
    <3> QED  BY <1>2, <1>4, <1>5, <3>1 DEF SentOn
  <2>2. CASE i # s.ephemeralKeyPair
    <3>1. s.chains[i].chainType = "RECEIVING"
      BY <1>4, <2>2 DEF SessionOK, ChainsOK, ReceivingOK
    <3>2. Stands(p, q, k, i) /\ SeedAt(p, q, k, i) = m.mac.key.seed
      BY <1>2, <1>5, <3>1 DEF Stands, SeedAt, Receiving
    <3> QED  BY <1>1, <1>2, <3>2 DEF ReadInv, KeysSpent
  <2> QED  BY <2>1, <2>2
<1>6. ~Derives(s, m.mac.key)
  BY <1>2, <1>3, <1>5, DerivesNot
<1> QED  BY <1>1, <1>6

\* The inductive invariant of the keys.
KeyInv == TypeInv /\ PassedOK /\ SendInv /\ RootsFree /\ ReadInv /\ SentAway

\* Every step keeps it.
LEMMA KeyInvStays ==
  ASSUME KeyInv, [Next]_vars
  PROVE  KeyInv' /\ KeyStep
<1>1. TypeInv' /\ KeyStep /\ PassedOK'
  BY NextKeys DEF KeyInv
<1>2. SendInv' /\ RootsFree'
  BY <1>1, StepKeepsSent, StepKeepsFree DEF KeyInv
<1>3. ReadInv' /\ SentAway'
  BY <1>1, StepKeepsRead, StepKeepsSentAway DEF KeyInv, SendInv
<1> QED  BY <1>1, <1>2, <1>3 DEF KeyInv

\* It holds at first.
LEMMA KeyInvStarts ==
  ASSUME Init
  PROVE  KeyInv
<1>1. /\ \A p, q \in Parties : \A k : ~Has(p, q, k)
      /\ network = {}
      /\ delivered = {}
  BY DEF Init, Has
<1>2. TypeInv
  BY InitTyped
<1>3. SendInv /\ PassedOK /\ RootsFree
  BY <1>1 DEF SendInv, SlotsApart, AllSent, OneSender, NoKeyReuse, PassedOK, RootsFree
<1>4. ReadInv /\ SentAway
  BY <1>1 DEF ReadInv, TakenAway, TakenSeed, ChainsApart, FromPeer, KeysSpent, Stands, SentAway
<1> QED  BY <1>2, <1>3, <1>4 DEF KeyInv

\* So it is an invariant: root keys and key pairs of stored sessions are apart,
\* and none of them leads back to a key that was sent with or read with.
THEOREM KeyInvariant == Spec => []KeyInv
<1>1. Init => KeyInv
  BY KeyInvStarts
<1>2. KeyInv /\ [Next]_vars => KeyInv'
  BY KeyInvStays
<1> QED  BY <1>1, <1>2, PTL DEF Spec

\* Forward secrecy, in every state: from what a sender stores, and what a
\* receiver stores that has read the message, its key cannot be derived.  The
\* chains gave their keys away (fillMessageKeys, the deletes of encrypt and
\* doDecryptWhisperMessage), the root keys moved past them (maybeStepRatchet),
\* and the sessions they could be made from again needed a one-time prekey,
\* which is gone unless its removal failed.
THEOREM SignalKeysErased == Spec => []KeysErased
<1>1. KeyInv => KeysErased
  <2> SUFFICES ASSUME KeyInv  PROVE KeysErased
    OBVIOUS
  <2>1. ASSUME NEW p \in Parties, NEW session \in SessionsAt(p)
        PROVE  \E q \in Parties : \E k : Has(p, q, k) /\ session = At(p, q, k)
    BY DEF SessionsAt, SessionsOf, Stored, Has, At
  <2>2. ASSUME NEW m \in network, NEW session \in SessionsAt(m.from)
        PROVE  ~Derives(session, m.mac.key)
    <3>1. m.from \in Parties
      BY KeysThere DEF KeyInv
    <3>2. PICK q, k : q \in Parties /\ Has(m.from, q, k) /\ session = At(m.from, q, k)
      BY <2>1, <3>1
    <3> QED  BY <3>2, SenderErased DEF KeyInv
  <2>3. ASSUME NEW m \in network, m \in delivered, ~OfLeftoverPreKey(m), NEW session \in SessionsAt(m.to)
        PROVE  ~Derives(session, m.mac.key)
    <3>1. m.to \in Parties
      BY KeysThere DEF KeyInv
    <3>2. PICK q, k : q \in Parties /\ Has(m.to, q, k) /\ session = At(m.to, q, k)
      BY <2>1, <3>1
    <3> QED  BY <2>3, <3>2, ReaderErased DEF KeyInv, OfLeftoverPreKey, Tainted
  <2> QED  BY <2>2, <2>3 DEF KeysErased
<1> QED  BY <1>1, KeyInvariant, PTL

\* No message that was read is taken again.
LEMMA TakenOnce ==
  ASSUME TypeInv, TypeInv', SlotsApart, RootsFree, ReadInv,
         NEW p \in Parties, NEW m \in network, NEW k, NEW s, Takes(p, k, m, s),
         ~Tainted(leftover, m.mac.key.seed)
  PROVE  m \notin delivered
<1> SUFFICES ASSUME m \in delivered  PROVE FALSE
  OBVIOUS
<1>1. m.to = p /\ m.from \in Parties
  BY KeysThere DEF Takes
<1>2. TakenSeed(p, m.mac.key.seed)
  BY <1>1 DEF TakenSeed
<1>3. HadChain(s, m)
  <2>1. ~HadRoot(s, m)
    BY <1>2, HadRootNew DEF ReadInv
  <2> QED  BY <2>1 DEF Takes, Had
<1>4. /\ Stands(p, m.from, k, m.ephemeralKey)
      /\ SeedAt(p, m.from, k, m.ephemeralKey) = m.mac.key.seed
  BY <1>3, HadChainTaken
<1>5. s = At(p, m.from, k)
  BY <1>3 DEF Takes, FromStore, FromHeader, HadChain, Receiving
<1>6. ~Gives(At(m.to, m.from, k).chains[m.ephemeralKey], m.counter)
  BY <1>1, <1>4 DEF ReadInv, KeysSpent
<1> QED  BY <1>1, <1>3, <1>5, <1>6 DEF HadChain

\* Every decryption takes the message.
LEMMA DecryptTakes ==
  ASSUME KeyInv, NEW p \in Parties, NEW m \in network, Decrypt(p, m)
  PROVE  \E k, s : Takes(p, k, m, s)
<1>1. TypeInv /\ PassedOK /\ leftover \subseteq leftover'
  BY LeftoverGrows DEF KeyInv, Next
<1>2. CASE DecryptWhisperMessage(p, m)
  BY <1>1, <1>2, DecryptWhisperMessageSteps, ReadsKeys
<1>3. CASE DecryptInKnownSession(p, m)
  BY <1>1, <1>3, DecryptInKnownSessionSteps, ReadsKeys
<1>4. CASE DecryptInNewSession(p, m) \/ DecryptLeavingPreKey(p, m)
  BY <1>1, <1>4, NewSessionSteps, ReceivesKeys
<1> QED  BY <1>2, <1>3, <1>4 DEF Decrypt

\* A message is decrypted once.  Its key is gone from the chain it was read
\* from; when that chain is gone, the root key that led to it is gone from its
\* session, no other session has it, and to make the session from a header
\* again would take the one-time prekey it was made with, which is gone unless
\* its removal failed.
THEOREM SignalReadOnce == Spec => ReadOnce
<1> DEFINE NotAgain == \A message \in delivered :
                        Decrypt(message.to, message) => OfLeftoverPreKey(message)
<1>1. ASSUME KeyInv  PROVE NotAgain
  <2> SUFFICES ASSUME NEW m \in delivered, Decrypt(m.to, m), ~OfLeftoverPreKey(m)
               PROVE  FALSE
    OBVIOUS
  <2>1. PICK p : p = m.to
    OBVIOUS
  <2>2. p \in Parties /\ m \in network /\ Decrypt(p, m)
    BY <1>1, <2>1, KeysThere DEF KeyInv, TypeInv, MessagesTyped
  <2>3. Next
    BY <2>2 DEF Next
  <2>4. TypeInv'
    BY <1>1, <2>3, KeyInvStays DEF KeyInv
  <2>5. \E k, s : Takes(p, k, m, s)
    BY <1>1, <2>2, DecryptTakes
  <2>6. ~Tainted(leftover, m.mac.key.seed)
    BY DEF OfLeftoverPreKey, Tainted
  <2> QED  BY <1>1, <2>2, <2>4, <2>5, <2>6, TakenOnce DEF KeyInv, SendInv
<1>2. KeyInv => [NotAgain]_vars
  BY <1>1
<1>3. Spec => [][NotAgain]_vars
  BY <1>2, KeyInvariant, PTL
<1> QED  BY <1>3 DEF ReadOnce

-----------------------------------------------------------------------------
\* A receiver is never ahead of the messages sent.  The keys up to those of a
\* sending chain's counter, up to that of a message and up to previousCounter
\* on the chain two agreements before are keys of messages that were sent ...
SentTo(sent, q, seed, n) == \E m \in sent : m.to = q /\ m.mac.key = MessageKey(seed, n)
AllTo(sent, q, seed, last) == \A n \in 0..last : SentTo(sent, q, seed, n)
Before(seed, root) ==
  Len(seed) >= 5 /\ \E x, y \in SUBSET Key : root = Append(Append(seed, x), y)
Covered(sent, q, seed, last, previous) ==
  /\ AllTo(sent, q, seed, last)
  /\ \A earlier \in Secrets : Before(earlier, seed) => AllTo(sent, q, earlier, previous)
SessionCovered(sent, q, s) ==
  /\ s.ephemeralKeyPair \in DOMAIN s.chains =>
       AllTo(sent, q, s.rootKey, SendingChain(s).counter)
  /\ IsOpen(s) =>
       \A earlier \in Secrets :
         Before(earlier, s.rootKey) => AllTo(sent, q, earlier, s.previousCounter)
\* ... and so are those stored on a receiving chain.
ChainCovered(sent, p, c) == \A n \in c.messageKeys \cup {c.counter} : SentTo(sent, p, c.seed, n)

SessionsCovered ==
  \A p, q \in Parties : \A k : Has(p, q, k) => SessionCovered(network, q, At(p, q, k))
MessagesCovered ==
  \A m \in network : Covered(network, m.to, m.mac.key.seed, m.counter, m.previousCounter)
ChainsCovered ==
  \A p, q \in Parties : \A k, i :
    Stands(p, q, k, i) => ChainCovered(network, p, At(p, q, k).chains[i])
AheadInv == SessionsCovered /\ MessagesCovered /\ ChainsCovered

\* What was sent stays sent.
LEMMA StillSent ==
  ASSUME NEW sent, NEW more, sent \subseteq more, NEW q
  PROVE  /\ \A seed, n : SentTo(sent, q, seed, n) => SentTo(more, q, seed, n)
         /\ \A seed, n : AllTo(sent, q, seed, n) => AllTo(more, q, seed, n)
         /\ \A s : SessionCovered(sent, q, s) => SessionCovered(more, q, s)
         /\ \A seed, n, previous :
              Covered(sent, q, seed, n, previous) => Covered(more, q, seed, n, previous)
<1>1. \A seed, n : SentTo(sent, q, seed, n) => SentTo(more, q, seed, n)
  BY DEF SentTo
<1>2. \A seed, n : AllTo(sent, q, seed, n) => AllTo(more, q, seed, n)
  BY <1>1 DEF AllTo
<1>3. \A s : SessionCovered(sent, q, s) => SessionCovered(more, q, s)
  BY <1>2 DEF SessionCovered
<1> QED  BY <1>1, <1>2, <1>3 DEF Covered

\* The chain two agreements before, and that there is none early on.
LEMMA BeforeIs ==
  ASSUME NEW root \in Secrets, NEW x \in SUBSET Key, NEW y \in SUBSET Key,
         NEW seed \in Secrets, Before(seed, Append(Append(root, x), y))
  PROVE  seed = root
<1> DEFINE S == SUBSET Key
<1>1. PICK v, w \in S : Append(Append(root, x), y) = Append(Append(seed, v), w)
  BY DEF Before
<1>2. root \in Seq(S) /\ seed \in Seq(S) /\ x \in S /\ y \in S
  BY DEF Secrets
<1> HIDE DEF S
<1> DEFINE longer == Append(root, x)
           other == Append(seed, v)
<1>3. longer \in Seq(S) /\ other \in Seq(S)
  BY <1>1, <1>2
<1>4. longer = other
  <2>1. Append(longer, y) = Append(other, w)
    BY <1>1
  <2> HIDE DEF longer, other
  <2> QED  BY <1>1, <1>2, <1>3, <2>1, AppendSame
<1>5. Append(root, x) = Append(seed, v)
  BY <1>4
<1> QED  BY <1>1, <1>2, <1>5, AppendSame

\* A root key two agreements after another is a long one.
LEMMA BeforeIsLong ==
  ASSUME NEW seed \in Secrets, NEW root, Before(seed, root)
  PROVE  Len(root) >= 7
<1> DEFINE S == SUBSET Key
<1>1. PICK x, y \in S : root = Append(Append(seed, x), y)
  BY DEF Before
<1>2. seed \in Seq(S) /\ Len(seed) >= 5 /\ Len(seed) \in Nat
  BY DEF Secrets, Before
<1> HIDE DEF S
<1>3. Append(seed, x) \in Seq(S) /\ Len(Append(seed, x)) = Len(seed) + 1
  BY <1>1, <1>2, AppendIs
<1>4. Len(root) = Len(Append(seed, x)) + 1
  BY <1>1, <1>3, AppendIs
<1> QED  BY <1>2, <1>3, <1>4

\* A session that has the keys it had.
LEMMA SameCovered ==
  ASSUME NEW sent, NEW more, sent \subseteq more, NEW q, NEW s, SessionCovered(sent, q, s),
         s.ephemeralKeyPair \in DOMAIN s.chains => SendingChain(s).counter \in Int,
         NEW n \in {0, 1}, NEW t, SameKeys(s, n, t),
         n = 1 => SentTo(more, q, s.rootKey, SendingChain(s).counter + 1)
  PROVE  SessionCovered(more, q, t)
<1>1. SessionCovered(more, q, s)
  BY StillSent
<1>2. ASSUME t.ephemeralKeyPair \in DOMAIN t.chains,
             NEW i \in 0..SendingChain(t).counter
      PROVE  SentTo(more, q, t.rootKey, i)
  <2>1. /\ SendingChain(s).counter \in Int
        /\ SendingChain(t).counter = SendingChain(s).counter + n
        /\ AllTo(more, q, s.rootKey, SendingChain(s).counter)
        /\ t.rootKey = s.rootKey
    BY <1>1, <1>2 DEF SameKeys, SessionCovered
  <2>2. CASE i \in 0..SendingChain(s).counter
    BY <2>1, <2>2 DEF AllTo
  <2>3. CASE i \notin 0..SendingChain(s).counter
    <3>1. n = 1 /\ i = SendingChain(s).counter + 1
      BY <1>2, <2>1, <2>3
    <3> QED  BY <2>1, <3>1
  <2> QED  BY <2>2, <2>3
<1>3. IsOpen(t) => \A earlier \in Secrets :
        Before(earlier, t.rootKey) => AllTo(more, q, earlier, t.previousCounter)
  BY <1>1 DEF SameKeys, SessionCovered
<1> QED  BY <1>2, <1>3 DEF SessionCovered, AllTo

\* A session that has new keys has sent nothing on them.
LEMMA NewCovered ==
  ASSUME NEW sent, NEW p, NEW q, NEW t, NewKeys(p, t),
         IsOpen(t) => \A earlier \in Secrets :
           Before(earlier, t.rootKey) => AllTo(sent, q, earlier, t.previousCounter)
  PROVE  SessionCovered(sent, q, t)
<1>1. ASSUME t.ephemeralKeyPair \in DOMAIN t.chains
      PROVE  AllTo(sent, q, t.rootKey, SendingChain(t).counter)
  <2>1. SendingChain(t).counter = -1
    BY <1>1 DEF NewKeys
  <2>2. 0..SendingChain(t).counter = {}
    BY <2>1
  <2> QED  BY <2>2 DEF AllTo
<1> QED  BY <1>1 DEF SessionCovered

\* A session that is kept.
LEMMA QuietCovered ==
  ASSUME TypeInv, SessionsCovered, network \subseteq network',
         NEW p \in Parties, NEW q \in Parties, NEW k, Has(p, q, k),
         Quiet(At(p, q, k), At(p, q, k)')
  PROVE  SessionCovered(network', q, At(p, q, k)')
<1> DEFINE s == At(p, q, k)
           t == At(p, q, k)'
<1>1. s.ephemeralKeyPair \in DOMAIN s.chains => SendingChain(s).counter \in Int
  BY KeysThere
<1>2. SessionCovered(network, q, s)
  BY DEF SessionsCovered
<1>3. Quiet(s, t)
  OBVIOUS
<1> HIDE DEF s, t
<1>4. SameKeys(s, 0, t)
  BY <1>1, <1>3 DEF Quiet, SameKeys, SendingChain
<1>5. SessionCovered(network', q, t)
  BY <1>1, <1>2, <1>4, SameCovered
<1> QED  BY <1>5 DEF t

\* A turn of the ratchet: previousCounter is that of the last sending chain.
LEMMA TurnCovered ==
  ASSUME TypeInv, TypeInv', SessionsCovered, NEW p \in Parties, NEW m \in network,
         NEW k, NEW s, Takes(p, k, m, s), Has(p, m.from, k)',
         AfterTurn(p, s, {m}, At(p, m.from, k)')
  PROVE  SessionCovered(network, m.from, At(p, m.from, k)')
<1> DEFINE q == m.from
           t == At(p, q, k)'
           x == {m.ephemeralKey, s.ephemeralKeyPair}
           y == {m.ephemeralKey, t.ephemeralKeyPair}
<1>1. /\ q \in Parties
      /\ s.rootKey \in Seq(SUBSET Drawn)
      /\ x \in SUBSET Drawn
      /\ m.ephemeralKey \in Drawn
  BY TakenRoot
<1>2. t.ephemeralKeyPair \in Drawn'
  BY <1>1 DEF TypeInv, SessionsTyped, SessionOK, SessionOver
<1>3. Drawn \subseteq Key /\ Drawn' \subseteq Key
  BY DEF Drawn, KeysMade
<1>4. s.rootKey \in Secrets /\ x \in SUBSET Key /\ y \in SUBSET Key
  <2>1. SUBSET Drawn \subseteq SUBSET Key
    BY <1>3
  <2>2. Seq(SUBSET Drawn) \subseteq Seq(SUBSET Key)
    BY <2>1, SeqMonotonic
  <2> QED  BY <1>1, <1>2, <1>3, <2>2 DEF Secrets
<1> HIDE DEF t
<1>5. /\ NewKeys(p, t)
      /\ t.rootKey = Append(Append(s.rootKey, x), y)
      /\ IsOpen(t) => /\ IsOpen(s)
                      /\ s.ephemeralKeyPair \in DOMAIN s.chains =>
                           t.previousCounter = SendingChain(s).counter
  BY DEF AfterTurn, HadRoot, t
<1> HIDE DEF x, y
<1>6. ASSUME IsOpen(t), NEW earlier \in Secrets, Before(earlier, t.rootKey)
      PROVE  AllTo(network, q, earlier, t.previousCounter)
  <2>1. earlier = s.rootKey
    BY <1>4, <1>5, <1>6, BeforeIs
  <2>2. FromStore(p, q, k, s)
    <3>1. FromStore(p, q, k, s) \/ FromHeader(p, s)
      BY DEF Takes
    <3>2. Len(earlier) \in Nat /\ Len(earlier) >= 5
      BY <1>6 DEF Before, Secrets
    <3>3. FromHeader(p, s) => Len(s.rootKey) = 4
      BY DEF FromHeader
    <3>4. \A n \in Nat : n >= 5 => n # 4
      OBVIOUS
    <3>5. Len(earlier) # 4
      BY <3>2, <3>4
    <3> QED  BY <2>1, <3>1, <3>3, <3>5
  <2>3. SessionOK(Drawn, p, q, s) /\ SessionCovered(network, q, s)
    BY <1>1, <2>2 DEF FromStore, TypeInv, SessionsTyped, SessionsCovered
  <2>4. s.ephemeralKeyPair \in DOMAIN s.chains
    BY <1>5, <1>6, <2>3 DEF SessionOK, ChainsOK, SendingOK
  <2> QED  BY <1>5, <1>6, <2>1, <2>3, <2>4 DEF SessionCovered
<1>7. SessionCovered(network, q, t)
  BY <1>5, <1>6, NewCovered
<1> QED  BY <1>7 DEF t

\* The sessions.
LEMMA SessionsStayCovered ==
  ASSUME TypeInv, TypeInv', SessionsCovered, KeyStep, network \subseteq network'
  PROVE  SessionsCovered'
<1> SUFFICES ASSUME NEW a \in Parties, NEW b \in Parties, NEW j, Has(a, b, j)'
             PROVE  SessionCovered(network', b, At(a, b, j)')
  BY DEF SessionsCovered
<1>1. ASSUME Has(a, b, j), Quiet(At(a, b, j), At(a, b, j)')
      PROVE  SessionCovered(network', b, At(a, b, j)')
  BY <1>1, QuietCovered
<1>2. CASE AllStay
  BY <1>1, <1>2 DEF AllStay
<1>3. ASSUME NEW p \in Parties, NEW q \in Parties \ {p}, NEW k, Starts(p, q, k)
      PROVE  SessionCovered(network', b, At(a, b, j)')
  <2>1. CASE <<a, b, j>> = <<p, q, k>>
    <3> DEFINE t == At(a, b, j)'
    <3>1. NewKeys(a, t) /\ Len(t.rootKey) = 5
      BY <1>3, <2>1 DEF Starts
    <3> HIDE DEF t
    <3>2. \A earlier \in Secrets : ~Before(earlier, t.rootKey)
      <4>1. ~(Len(t.rootKey) >= 7)
        BY <3>1
      <4> QED  BY <4>1, BeforeIsLong
    <3>3. SessionCovered(network', b, t)
      BY <3>1, <3>2, NewCovered
    <3> QED  BY <3>3 DEF t
  <2>2. CASE <<a, b, j>> # <<p, q, k>>
    BY <1>1, <1>3, <2>2 DEF Starts, StaysBut
  <2> QED  BY <2>1, <2>2
<1>4. ASSUME NEW p \in Parties, NEW m \in network, NEW k, NEW s, Takes(p, k, m, s)
      PROVE  SessionCovered(network', b, At(a, b, j)')
  <2>1. CASE <<a, b, j>> = <<p, m.from, k>>
    <3> DEFINE t == At(a, b, j)'
    <3>1. a = p /\ b = m.from /\ j = k
      BY <2>1
    <3>2. CASE AfterTurn(p, s, {m}, t)
      BY <1>4, <3>1, <3>2, TurnCovered DEF Takes
    <3>3. CASE FromStore(a, b, j, s) /\ InPlace(s, {m}, t)
      <4>1. SessionCovered(network, b, s) /\ Has(a, b, j) /\ s = At(a, b, j)
        BY <3>3 DEF FromStore, SessionsCovered
      <4>2. s.ephemeralKeyPair \in DOMAIN s.chains => SendingChain(s).counter \in Int
        BY <4>1, KeysThere
      <4> HIDE DEF t
      <4>3. SameKeys(s, 0, t)
        BY <3>3 DEF InPlace
      <4>4. SessionCovered(network', b, t)
        BY <4>1, <4>2, <4>3, SameCovered
      <4> QED  BY <4>4 DEF t
    <3> QED  BY <1>4, <3>1, <3>2, <3>3, TakesKinds
  <2>2. CASE <<a, b, j>> # <<p, m.from, k>>
    BY <1>1, <1>4, <2>2 DEF Takes, StaysBut
  <2> QED  BY <2>1, <2>2
<1>5. ASSUME NEW p \in Parties, NEW q \in Parties \ {p}, NEW k, NEW m, SendsOn(p, q, k, m)
      PROVE  SessionCovered(network', b, At(a, b, j)')
  <2>1. CASE <<a, b, j>> = <<p, q, k>>
    <3> DEFINE s == At(a, b, j)
               t == At(a, b, j)'
    <3>1. /\ Has(a, b, j)
          /\ SameKeys(s, 1, t)
          /\ m \in network'
          /\ m.to = b
          /\ m.mac.key = MessageKey(s.rootKey, SendingChain(s).counter + 1)
      BY <1>5, <2>1 DEF SendsOn, Carries
    <3>2. s.ephemeralKeyPair \in DOMAIN s.chains => SendingChain(s).counter \in Int
      BY <3>1, KeysThere
    <3>3. SessionCovered(network, b, s)
      BY <3>1 DEF SessionsCovered
    <3>4. SentTo(network', b, s.rootKey, SendingChain(s).counter + 1)
      BY <3>1 DEF SentTo
    <3> HIDE DEF s, t
    <3>5. SessionCovered(network', b, t)
      BY <3>1, <3>2, <3>3, <3>4, SameCovered
    <3> QED  BY <3>5 DEF t
  <2>2. CASE <<a, b, j>> # <<p, q, k>>
    BY <1>1, <1>5, <2>2 DEF SendsOn, StaysBut
  <2> QED  BY <2>1, <2>2
<1> QED  BY <1>2, <1>3, <1>4, <1>5 DEF KeyStep

\* The messages: what a new one says is what its session could say.
LEMMA MessagesStayCovered ==
  ASSUME TypeInv, SessionsCovered, MessagesCovered, KeyStep
  PROVE  MessagesCovered'
<1> SUFFICES ASSUME NEW m \in network'
             PROVE  Covered(network', m.to, m.mac.key.seed, m.counter, m.previousCounter)
  BY DEF MessagesCovered
<1>1. network \subseteq network'
  BY NetworkGrows
<1>2. CASE m \in network
  BY <1>1, <1>2, StillSent DEF MessagesCovered
<1>3. ASSUME NEW p \in Parties, NEW q \in Parties \ {p}, NEW k, SendsOn(p, q, k, m)
      PROVE  Covered(network', m.to, m.mac.key.seed, m.counter, m.previousCounter)
  <2> DEFINE s == At(p, q, k)
             last == SendingChain(s).counter
  <2>1. /\ Has(p, q, k)
        /\ IsOpen(s)
        /\ m.to = q
        /\ m.counter = last + 1
        /\ m.previousCounter = s.previousCounter
        /\ m.mac.key = MessageKey(s.rootKey, last + 1)
    BY <1>3 DEF SendsOn, Carries
  <2>2. s.ephemeralKeyPair \in DOMAIN s.chains
    BY <2>1 DEF TypeInv, SessionsTyped, SessionOK, ChainsOK, SendingOK
  <2>3. last \in Int
    BY <2>1, <2>2, KeysThere
  <2>4. SessionCovered(network', q, s)
    BY <1>1, <2>1, StillSent DEF SessionsCovered
  <2>5. m.mac.key.seed = s.rootKey
    BY <2>1 DEF MessageKey
  <2>6. \A earlier \in Secrets :
          Before(earlier, s.rootKey) => AllTo(network', q, earlier, s.previousCounter)
    BY <2>1, <2>4 DEF SessionCovered
  <2>7. AllTo(network', q, s.rootKey, last)
    BY <2>2, <2>4 DEF SessionCovered
  <2> HIDE DEF s, last
  <2>8. ASSUME NEW n \in 0..(last + 1)
        PROVE  SentTo(network', q, s.rootKey, n)
    <3>1. CASE n \in 0..last
      BY <2>7, <3>1 DEF AllTo
    <3>2. CASE n = last + 1
      BY <2>1, <3>2 DEF SentTo
    <3> QED  BY <2>3, <3>1, <3>2
  <2> QED  BY <2>1, <2>5, <2>6, <2>8 DEF Covered, AllTo
<1>4. ASSUME m \notin network
      PROVE  \E p \in Parties : \E q \in Parties \ {p} : \E k : SendsOn(p, q, k, m)
  BY <1>4, NetworkGrows
<1> QED  BY <1>2, <1>3, <1>4

\* The receiving chains: a message moves its own chain no further than to its
\* counter, and the one of the agreement before no further than previousCounter.
LEMMA MovedCovered ==
  ASSUME TypeInv, MessagesCovered, NEW p \in Parties, NEW q \in Parties, NEW k, NEW i,
         Stands(p, q, k, i), NEW read \in SUBSET network, NEW d,
         ChainCovered(network, p, At(p, q, k).chains[i]),
         Moved(At(p, q, k).chains[i], Mail(q, p, read), d),
         d.counter \in Int, d.messageKeys \subseteq Nat
  PROVE  ChainCovered(network, p, d)
<1> DEFINE c == At(p, q, k).chains[i]
<1>1. c.seed \in Seq(SUBSET Drawn) /\ c.counter \in Int
  <2>1. SessionOver(Drawn, At(p, q, k)) /\ i \in DOMAIN At(p, q, k).chains
    BY DEF Stands, Receiving, TypeInv, SessionsTyped, SessionOK
  <2>2. c \in ChainOver(Drawn)
    BY <2>1 DEF SessionOver, ChainsOver
  <2> HIDE DEF c
  <2> QED  BY <2>2 DEF ChainOver, Counters
<1>2. c.seed \in Secrets
  <2>1. Seq(SUBSET Drawn) \subseteq Seq(SUBSET Key)
    BY SeedsThere, SeqMonotonic
  <2> QED  BY <1>1, <2>1 DEF Secrets
<1>3. ChainCovered(network, p, c) /\ Moved(c, Mail(q, p, read), d)
  OBVIOUS
<1> HIDE DEF c
<1>4. PICK n \in network : n.mac.key = MessageKey(c.seed, c.counter)
  BY <1>3 DEF ChainCovered, SentTo
<1>5. n.mac.key.seed = c.seed /\ n.mac.key.counter = c.counter
  BY <1>4 DEF MessageKey
<1>6. Len(c.seed) >= 5 /\ c.counter \in Nat
  <2>1. Len(n.mac.key.seed) >= 5 /\ n.mac.key.counter = n.counter /\ n.counter \in Nat
    BY KeysThere DEF TypeInv, MessagesTyped, MessageOK
  <2> QED  BY <1>5, <2>1
<1>7. ASSUME NEW counter \in Int, Advanced(c, counter, d), AllTo(network, p, c.seed, counter)
      PROVE  ChainCovered(network, p, d)
  <2> SUFFICES ASSUME NEW x \in d.messageKeys \cup {d.counter}
               PROVE  SentTo(network, p, d.seed, x)
    BY DEF ChainCovered
  <2>1. d.seed = c.seed /\ x \in Nat
    BY <1>6, <1>7 DEF Advanced
  <2>2. CASE x \in c.messageKeys \cup {c.counter}
    BY <1>3, <2>1, <2>2 DEF ChainCovered
  <2>3. CASE x <= counter
    <3>1. x \in 0..counter
      BY <2>1, <2>3
    <3> QED  BY <1>7, <2>1, <3>1 DEF AllTo
  <2> QED  BY <1>7, <2>2, <2>3 DEF Advanced
<1>8. CASE d = c
  BY <1>3, <1>8
<1>9. ASSUME NEW m \in Mail(q, p, read), Advanced(c, m.counter, d), c.seed = m.mac.key.seed
      PROVE  ChainCovered(network, p, d)
  <2>1. m \in network /\ m.to = p
    BY DEF Mail
  <2>2. m.counter \in Int
    BY <2>1, KeysThere
  <2>3. AllTo(network, p, c.seed, m.counter)
    BY <1>9, <2>1 DEF MessagesCovered, Covered
  <2> QED  BY <1>7, <1>9, <2>2, <2>3
<1>10. ASSUME NEW m \in Mail(q, p, read), Advanced(c, m.previousCounter, d),
              NEW x \in SUBSET Key, NEW y \in SUBSET Key,
              m.mac.key.seed = Append(Append(c.seed, x), y)
       PROVE  ChainCovered(network, p, d)
  <2>1. m \in network /\ m.to = p
    BY DEF Mail
  <2>2. m.previousCounter \in Int
    BY <2>1 DEF TypeInv, MessagesTyped, MessageOK, MessageOver
  <2>3. Before(c.seed, m.mac.key.seed)
    BY <1>6, <1>10 DEF Before
  <2>4. AllTo(network, p, c.seed, m.previousCounter)
    BY <1>2, <2>1, <2>3 DEF MessagesCovered, Covered
  <2> QED  BY <1>7, <1>10, <2>2, <2>4
<1> QED  BY <1>3, <1>8, <1>9, <1>10 DEF Moved

\* A new chain is filled up to the counter of its message.
LEMMA MadeCovered ==
  ASSUME TypeInv, MessagesCovered, NEW p \in Parties, NEW q, NEW i,
         NEW read \in SUBSET network, NEW d, Made(Mail(q, p, read), i, d),
         d.counter \in Int, d.messageKeys \subseteq Nat
  PROVE  ChainCovered(network, p, d)
<1>1. PICK m \in Mail(q, p, read) : ReadFrom(NewChain(m.mac.key.seed, "RECEIVING"), m, d)
  BY DEF Made
<1>2. m \in network /\ m.to = p
  BY DEF Mail
<1>3. m.counter \in Nat
  BY <1>2, KeysThere
<1>4. /\ d.seed = m.mac.key.seed
      /\ m.counter <= d.counter
      /\ \A n \in d.messageKeys \cup {d.counter} : n = -1 \/ n <= m.counter
  BY <1>1 DEF ReadFrom, Advanced, NewChain
<1>5. ASSUME NEW n \in d.messageKeys \cup {d.counter}
      PROVE  n \in 0..m.counter
  BY <1>3, <1>4
<1>6. AllTo(network, p, m.mac.key.seed, m.counter)
  BY <1>2 DEF MessagesCovered, Covered
<1> QED  BY <1>4, <1>5, <1>6 DEF ChainCovered, AllTo

\* Every receiving chain after a step is one of these two.
LEMMA ChainsStayCovered ==
  ASSUME TypeInv, TypeInv', AheadInv, KeyStep
  PROVE  ChainsCovered'
<1> SUFFICES ASSUME NEW p \in Parties, NEW q \in Parties, NEW k, NEW i, Stands(p, q, k, i)'
             PROVE  ChainCovered(network', p, At(p, q, k)'.chains[i])
  BY DEF ChainsCovered
<1> DEFINE d == At(p, q, k)'.chains[i]
<1>1. PICK slot, read : Moves(slot, read)
  BY KeyStepMoves
<1>2. read \in SUBSET network
  BY <1>1 DEF Moves, Taking
<1>3. Has(p, q, k)' /\ i \in Receiving(At(p, q, k)')
  BY DEF Stands
<1>4. SlotMoves(p, q, k, slot, read)
  BY <1>1, <1>3 DEF Moves, SlotsMove
<1>5. d.counter \in Int /\ d.messageKeys \subseteq Nat
  <2>1. SessionOver(Drawn', At(p, q, k)') /\ i \in DOMAIN At(p, q, k)'.chains
    BY <1>3 DEF Receiving, TypeInv, SessionsTyped, SessionOK
  <2>2. d \in ChainOver(Drawn')
    BY <2>1 DEF SessionOver, ChainsOver
  <2> HIDE DEF d
  <2> QED  BY <2>2 DEF ChainOver, Counters, KeySets
<1>6. \/ Stands(p, q, k, i) /\ Moved(At(p, q, k).chains[i], Mail(q, p, read), d)
      \/ Made(Mail(q, p, read), i, d)
  BY <1>3, <1>4 DEF SlotMoves, Stands
<1> HIDE DEF d
<1>7. ASSUME Stands(p, q, k, i), Moved(At(p, q, k).chains[i], Mail(q, p, read), d)
      PROVE  ChainCovered(network, p, d)
  <2>1. ChainCovered(network, p, At(p, q, k).chains[i])
    BY <1>7 DEF AheadInv, ChainsCovered
  <2> QED  BY <1>2, <1>5, <1>7, <2>1, MovedCovered DEF AheadInv
<1>8. ASSUME Made(Mail(q, p, read), i, d)
      PROVE  ChainCovered(network, p, d)
  BY <1>2, <1>5, <1>8, MadeCovered DEF AheadInv
<1>9. ChainCovered(network, p, d)
  BY <1>6, <1>7, <1>8
<1>10. ChainCovered(network', p, d)
  <2>1. network \subseteq network'
    BY NetworkGrows
  <2> QED  BY <1>9, <2>1, StillSent DEF ChainCovered
<1> QED  BY <1>10 DEF d

\* Every step keeps the receivers behind.
LEMMA StepKeepsAhead ==
  ASSUME TypeInv, TypeInv', AheadInv, KeyStep
  PROVE  AheadInv'
<1>1. MessagesCovered' /\ ChainsCovered'
  BY MessagesStayCovered, ChainsStayCovered DEF AheadInv
<1>2. SessionsCovered'
  BY SessionsStayCovered, NetworkGrows DEF AheadInv
<1> QED  BY <1>1, <1>2 DEF AheadInv

\* A receiver derives no key of a message that was not sent: neither counter
\* nor previousCounter of a message, however late it is read, is beyond the
\* sending chain it is about (fillMessageKeys, maybeStepRatchet), so a chain is
\* never filled up to the limit with keys that nobody uses.
THEOREM SignalReceiverNotAhead == Spec => []ReceiverNotAhead
<1> DEFINE Inv == TypeInv /\ PassedOK /\ AheadInv
<1>1. Init => Inv
  BY InitTyped
  DEF Init, PassedOK, AheadInv, SessionsCovered, MessagesCovered, ChainsCovered, Stands, Has
<1>2. Inv /\ [Next]_vars => Inv'
  BY NextKeys, StepKeepsAhead
<1>3. Inv => ReceiverNotAhead
  <2> SUFFICES ASSUME Inv, NEW p \in Parties, NEW session \in SessionsAt(p),
                      NEW chain \in ChainsOf(session), chain.chainType = "RECEIVING",
                      NEW counter \in chain.messageKeys \cup {chain.counter}
               PROVE  \E m \in network :
                        m.to = p /\ m.mac.key = MessageKey(chain.seed, counter)
    BY DEF ReceiverNotAhead
  <2>1. PICK q, k : q \in Parties /\ Has(p, q, k) /\ session = At(p, q, k)
    BY DEF SessionsAt, SessionsOf, Stored, Has, At
  <2>2. PICK i \in DOMAIN session.chains : chain = session.chains[i]
    BY DEF ChainsOf
  <2>3. Stands(p, q, k, i)
    BY <2>1, <2>2 DEF Stands, Receiving
  <2>4. ChainCovered(network, p, chain)
    BY <2>1, <2>2, <2>3 DEF AheadInv, ChainsCovered
  <2> QED  BY <2>4 DEF ChainCovered, SentTo
<1> QED  BY <1>1, <1>2, <1>3, PTL DEF Spec
=============================================================================
