--------------------------- MODULE SignalReadProofs ---------------------------
(*****************************************************************************)
(* Proofs about both ends of a session in SignalSession, for any parties and *)
(* bounds: as long as no limit binds and the used one-time prekeys are       *)
(* removed, a message that was sent and not read can be read. The two ends   *)
(* are followed by their root keys: one of them is always one agreement      *)
(* ahead of the other, and each message of the peer is under a chain that is *)
(* stored, or one agreement ahead of the root key.                           *)
(*****************************************************************************)
EXTENDS SignalKeyProofs

\* No limit binds: of no session all the retired chains there may be are kept,
\* and of no chain as many messages were sent as it may store keys.
LimitsNotReached ==
  /\ \A p, q \in Parties : \A k : Has(p, q, k) => Len(At(p, q, k).oldRatchetList) < MaxOldChains
  /\ MessageKeysLimit # 0 => \A m \in network : m.counter < MessageKeysLimit

\* No one-time prekey was left behind when its session was stored.
NothingLeft == leftover = {}

\* Two root keys, or chains, that come from the same agreement, and one that
\* the other begins with.
Agree(seed, other) == \A i \in 1..4 : seed[i] = other[i]
Begins(seed, root) == Len(seed) <= Len(root) /\ \A i \in 1..Len(seed) : seed[i] = root[i]

\* The agreement of a base key of p with a one-time prekey of q, or the other
\* way round.
Agreement(p, q, base, seed) ==
  /\ base \in SessionKeys(p)
  /\ \E n, id \in Nat : seed[4] = {base, PreKey(q, n, id)}
Between(p, q, base, seed) == Agreement(p, q, base, seed) \/ Agreement(q, p, base, seed)

\* A session comes from an agreement of the two parties, and is stored under
\* its base key.
SessionAgreed(p, q, k, s) ==
  \/ s.baseKeyType = "OURS" /\ Agreement(p, q, k, s.rootKey)
  \/ s.baseKeyType = "THEIRS" /\ Agreement(q, p, k, s.rootKey)

\* The chain a session with q starts with: what q was asked for in its header.
Offered(q, ours, theirs, preKeyId, signedPreKeyId, base, keyPair, seed) ==
  \E n \in Nat :
    /\ theirs = IdentityKey(q, n)
    /\ seed = Append(SharedSecret(TRUE, ours, base, base, theirs,
                                  SignedPreKey(q, n, signedPreKeyId), PreKey(q, n, preKeyId)),
                     {SignedPreKey(q, n, signedPreKeyId), keyPair})
SessionOffers(p, q, s) ==
  s.pendingPreKey # None =>
    Offered(q, Identity(p), s.remoteIdentityKey, s.pendingPreKey.preKeyId,
            s.pendingPreKey.signedKeyId, s.pendingPreKey.baseKey, s.ephemeralKeyPair, s.rootKey)

\* The chain of the last remote key is there once a message was read, and live.
LastLive(s) ==
  /\ s.lastRemoteEphemeralKey \in DOMAIN s.chains => s.chains[s.lastRemoteEphemeralKey].live
  /\ Len(s.rootKey) >= 6 => s.lastRemoteEphemeralKey \in DOMAIN s.chains

\* What a party sent, its session has behind it.
OwnSent(sent, p, s) ==
  \A m \in sent : m.from = p /\ Agree(s.rootKey, m.mac.key.seed) => Begins(m.mac.key.seed, s.rootKey)

\* The counters on the chain an open session left last are up to its
\* previousCounter.
PreviousOK(sent, p, s) ==
  IsOpen(s) =>
    \A n \in sent : n.from = p /\ Before(n.mac.key.seed, s.rootKey) => n.counter <= s.previousCounter

\* A message of the peer that was not read has its key on a stored chain, or
\* is on the chain the next turn of the ratchet makes.
Reached(s, m) == HadChain(s, m) \/ (HadRoot(s, m) /\ m.ephemeralKey \notin DOMAIN s.chains)
ReachedFrom(unread, p, s) ==
  \A m \in unread : m.to = p /\ Agree(s.rootKey, m.mac.key.seed) => Reached(s, m)

\* All of this of every stored session.
End(sent, unread, p, q, k, s) == /\ SessionAgreed(p, q, k, s)
                                 /\ LastLive(s)
                                 /\ OwnSent(sent, p, s)
                                 /\ PreviousOK(sent, p, s)
                                 /\ ReachedFrom(unread, p, s)
Ends ==
  \A p, q \in Parties : \A k :
    Has(p, q, k) => /\ End(network, network \ delivered, p, q, k, At(p, q, k))
                    /\ SessionOffers(p, q, At(p, q, k))

\* Of the two ends of a session one is one agreement ahead, and the other one
\* has not seen its key.
Ahead(s, t) == /\ s.rootKey = Append(t.rootKey, {s.ephemeralKeyPair, t.ephemeralKeyPair})
               /\ s.ephemeralKeyPair \notin DOMAIN t.chains
Either(s, t) == Agree(s.rootKey, t.rootKey) => Ahead(s, t) \/ Ahead(t, s)
Ladder ==
  \A p, q \in Parties : \A k, j :
    Has(p, q, k) /\ Has(q, p, j) => Either(At(p, q, k), At(q, p, j))

\* A message comes from an agreement of the two parties, is on a chain of its
\* key pair, and its header asks for what its chain starts with.
MessageEnd(m) ==
  /\ \E base : Between(m.from, m.to, base, m.mac.key.seed)
  /\ m.ephemeralKey \in m.mac.key.seed[Len(m.mac.key.seed)]
  /\ m.header # None =>
       /\ m.header.identityKey = m.mac.sender
       /\ Offered(m.to, m.header.identityKey, m.mac.receiver, m.header.preKeyId,
                  m.header.signedPreKeyId, m.header.baseKey, m.ephemeralKey, m.mac.key.seed)

\* A party sent on one chain for every length of the root key, and the counters
\* on a chain are up to previousCounter of the messages on the chain after it.
MessagesApart(m, n) ==
  m.from = n.from =>
    /\ /\ Agree(m.mac.key.seed, n.mac.key.seed)
       /\ Len(m.mac.key.seed) = Len(n.mac.key.seed)
       => m.mac.key.seed = n.mac.key.seed
    /\ Before(n.mac.key.seed, m.mac.key.seed) => n.counter <= m.previousCounter
MessageEnds == /\ \A m \in network : MessageEnd(m)
               /\ \A m, n \in network : MessagesApart(m, n)

\* With a one-time prekey that is still held nobody got further than the first
\* chain of the side that starts.
StartsWith(key, seed) == key \in seed[4] => Len(seed) = 5
Unanswered(r, key) ==
  /\ \A p, q \in Parties : \A k : Has(p, q, k) => StartsWith(key, At(p, q, k).rootKey)
  /\ \A m \in network : /\ StartsWith(key, m.mac.key.seed)
                        /\ m.from = r => key \notin m.mac.key.seed[4]
HeldUnanswered ==
  \A r \in Parties : \A id \in preKeys[r] : Unanswered(r, PreKey(r, install[r], id))

\* A base key is agreed on once.
Seed(x) == \/ \E p, q \in Parties : \E k : Has(p, q, k) /\ x = At(p, q, k).rootKey
           \/ \E m \in network : x = m.mac.key.seed
SharesBase(x, y) == \E p \in Parties : \E n \in Nat : SessionKey(p, n) \in x[4] \cap y[4]
OneAgreement == \A x, y : Seed(x) /\ Seed(y) /\ SharesBase(x, y) => Agree(x, y)

\* The inductive invariant of the two ends.
EndsInv == Ends /\ Ladder /\ MessageEnds /\ HeldUnanswered /\ OneAgreement

-----------------------------------------------------------------------------
\* As long as fewer keys are asked for than a chain may store, it is filled up
\* to the counter asked for.
LEMMA FillReaches ==
  ASSUME NEW K, NEW c \in ChainOver(K), Passed(c), NEW n \in Int, c.counter < n,
         MessageKeysLimit # 0 => n < MessageKeysLimit
  PROVE  LET d == FillMessageKeys(c, n)
         IN  /\ ~TooManyKeys(c)
             /\ d.counter = n
             /\ d.messageKeys = c.messageKeys \cup (c.counter + 1)..n
<1> DEFINE few == Cardinality(c.messageKeys)
           moved == [c EXCEPT !.counter = n]
           keys == c.messageKeys \cup (c.counter + 1)..n
<1>1. /\ c.counter \in Int
      /\ c.counter >= -1
      /\ c.messageKeys \subseteq 0..c.counter
      /\ IsFiniteSet(c.messageKeys)
  BY DEF ChainOver, Counters, KeySets, Passed
<1>2. few \in Nat /\ few <= c.counter + 1
  <2>1. PICK last : last = c.counter
    OBVIOUS
  <2>2. last \in Int /\ last >= -1
    BY <1>1, <2>1
  <2>3. /\ IsFiniteSet(0..last)
        /\ Cardinality(0..last) = IF 0 > last THEN 0 ELSE last - 0 + 1
    BY <2>2, FS_Interval
  <2>4. Cardinality(c.messageKeys) <= Cardinality(0..last)
    BY <1>1, <2>1, <2>3, FS_Subset
  <2>5. few \in Nat
    BY <1>1, FS_CardinalityType
  <2> QED  BY <2>1, <2>2, <2>3, <2>4, <2>5
<1> HIDE DEF few
<1>3. ~TooManyKeys(c) /\ FillEnd(c, n) = n
  BY <1>1, <1>2, LimitAssumption DEF TooManyKeys, FillEnd, few
<1>4. ~(c.counter >= n)
  BY <1>1
<1>5. FillMessageKeys(c, n) = [moved EXCEPT !.messageKeys = keys]
  BY <1>3, <1>4 DEF FillMessageKeys
<1>6. moved \in ChainOver(K) /\ moved.counter = n
  BY <1>1 DEF ChainOver, Counters
<1> HIDE DEF moved, keys
<1>7. /\ [moved EXCEPT !.messageKeys = keys].counter = n
      /\ [moved EXCEPT !.messageKeys = keys].messageKeys = keys
  BY <1>6 DEF ChainOver
<1> QED  BY <1>3, <1>5, <1>7 DEF keys

\* Filling a chain takes no key away.
LEMMA FillGives ==
  ASSUME NEW K, NEW c \in ChainOver(K), Passed(c), NEW n \in Int,
         MessageKeysLimit # 0 => n < MessageKeysLimit
  PROVE  LET d == FillMessageKeys(c, n)
         IN  /\ c.messageKeys \subseteq d.messageKeys
             /\ c.live => d.live
             /\ \A i \in Int : Gives(c, i) /\ i <= n => i \in d.messageKeys
             /\ \A i \in Int : Gives(c, i) => Gives(d, i)
<1> DEFINE d == FillMessageKeys(c, n)
<1>1. /\ d.live = c.live
      /\ c.counter \in Int
      /\ c.messageKeys \subseteq Nat
  <2>1. d.live = c.live
    BY FillMessageKeysIs
  <2> QED  BY <2>1 DEF ChainOver, Counters, KeySets
<1>2. CASE c.counter >= n
  <2>1. d = c
    BY <1>2 DEF FillMessageKeys
  <2> HIDE DEF d
  <2> QED  BY <1>1, <1>2, <2>1 DEF Gives, d
<1>3. CASE c.counter < n
  <2>1. d.counter = n /\ d.messageKeys = c.messageKeys \cup (c.counter + 1)..n
    BY <1>3, FillReaches
  <2> HIDE DEF d
  <2> QED  BY <1>1, <1>3, <2>1 DEF Gives, d
<1> QED  BY <1>1, <1>2, <1>3

\* Reading a message takes its key from the chain, and no other.
LEMMA UsedGives ==
  ASSUME NEW K, NEW c \in ChainOver(K), Passed(c), NEW n \in Int,
         MessageKeysLimit # 0 => n < MessageKeysLimit
  PROVE  LET d == Used(c, n)
         IN  /\ d.chainType = c.chainType
             /\ d.seed = c.seed
             /\ d.live = c.live
             /\ \A i \in Int : Gives(c, i) /\ i # n => Gives(d, i)
<1> DEFINE d == Used(c, n)
           filled == FillMessageKeys(c, n)
<1>1. /\ d.chainType = c.chainType
      /\ d.seed = c.seed
      /\ d.live = c.live
      /\ d.counter = filled.counter
      /\ d.messageKeys = filled.messageKeys \ {n}
      /\ filled.live = c.live
  <2>1. filled.live = c.live
    BY FillMessageKeysIs
  <2> QED  BY <2>1, UsedIs
<1>2. \A i \in Int : Gives(c, i) => Gives(filled, i)
  BY FillGives
<1> HIDE DEF d, filled
<1> QED  BY <1>1, <1>2 DEF Gives, d

\* A chain that is left keeps the keys up to the counter it is filled to.
LEMMA RetiredGives ==
  ASSUME NEW K, NEW c \in ChainOver(K), Passed(c), NEW n \in Int,
         MessageKeysLimit # 0 => n < MessageKeysLimit
  PROVE  LET d == Retired(c, n)
         IN  /\ d.chainType = c.chainType
             /\ d.seed = c.seed
             /\ \A i \in Int : Gives(c, i) /\ i <= n => Gives(d, i)
<1> DEFINE d == Retired(c, n)
           filled == FillMessageKeys(c, n)
<1>1. /\ d.chainType = c.chainType
      /\ d.seed = c.seed
      /\ d.messageKeys = filled.messageKeys
  BY RetiredIs
<1>2. \A i \in Int : Gives(c, i) /\ i <= n => i \in filled.messageKeys
  BY FillGives
<1> HIDE DEF d, filled
<1> QED  BY <1>1, <1>2 DEF Gives, d

-----------------------------------------------------------------------------
\* t is s, perhaps closed, with all the receiving chains it had.
SameEnd(s, t) == /\ t.rootKey = s.rootKey
                 /\ t.ephemeralKeyPair = s.ephemeralKeyPair
                 /\ t.lastRemoteEphemeralKey = s.lastRemoteEphemeralKey
                 /\ t.previousCounter = s.previousCounter
                 /\ t.remoteIdentityKey = s.remoteIdentityKey
                 /\ t.baseKeyType = s.baseKeyType
                 /\ IsOpen(t) => IsOpen(s)
                 /\ DOMAIN t.chains \subseteq DOMAIN s.chains
                 /\ DOMAIN s.chains \ {s.ephemeralKeyPair} \subseteq DOMAIN t.chains
Holds(s, t) ==
  /\ SameEnd(s, t)
  /\ t.pendingPreKey = s.pendingPreKey
  /\ \A i \in DOMAIN t.chains \ {s.ephemeralKeyPair} : t.chains[i] = s.chains[i]

\* t is s after m was read from a chain it has ...
ReadsIn(s, m, t) ==
  /\ SameEnd(s, t)
  /\ HadChain(s, m)
  /\ m.ephemeralKey # s.ephemeralKeyPair
  /\ t.pendingPreKey = None
  /\ t.chains[m.ephemeralKey] = Used(s.chains[m.ephemeralKey], m.counter)
  /\ \A i \in DOMAIN t.chains \ {s.ephemeralKeyPair, m.ephemeralKey} :
       t.chains[i] = s.chains[i]

\* ... or after a turn of the ratchet of p.
TurnsOn(p, s, m, t) ==
  LET key == m.ephemeralKey
      last == s.lastRemoteEphemeralKey
      left == DOMAIN s.chains \ {s.ephemeralKeyPair}
  IN  /\ HadRoot(s, m)
      /\ key \notin DOMAIN s.chains
      /\ last # s.ephemeralKeyPair
      /\ t.rootKey = Append(m.mac.key.seed, {key, t.ephemeralKeyPair})
      /\ t.ephemeralKeyPair \in SessionKeys(p) \ Drawn
      /\ t.lastRemoteEphemeralKey = key
      /\ t.baseKeyType = s.baseKeyType
      /\ t.pendingPreKey = None
      /\ IsOpen(t) => /\ IsOpen(s)
                      /\ s.ephemeralKeyPair \in DOMAIN s.chains =>
                           t.previousCounter = SendingChain(s).counter
      /\ left \cup {key} \subseteq DOMAIN t.chains
      /\ t.chains[key] = Used(NewChain(m.mac.key.seed, "RECEIVING"), m.counter)
      /\ last \in left => t.chains[last] = Retired(s.chains[last], m.previousCounter)
      /\ \A i \in left \ {last} : t.chains[i] = s.chains[i]

\* While no limit binds, a record keeps its sessions so.
LEMMA KeptHolds ==
  ASSUME NEW K, NEW s, NEW t, Kept(K, s, t), Len(t.oldRatchetList) < MaxOldChains
  PROVE  Holds(s, t)
<1>1. CASE t = s
  BY <1>1 DEF Holds, SameEnd
<1>2. CASE Thinned(s, t)
  <2>1. DOMAIN s.chains \ {s.ephemeralKeyPair} \subseteq DOMAIN t.chains
    BY <1>2 DEF Thinned, Whole
  <2>2. /\ SameBut({"chains", "oldRatchetList", "closed"}, s, t)
        /\ DOMAIN t.chains \subseteq DOMAIN s.chains
        /\ \A k \in DOMAIN t.chains : t.chains[k] = s.chains[k]
        /\ IsOpen(t) => IsOpen(s)
    BY <1>2 DEF Thinned, IsOpen
  <2> QED  BY <2>1, <2>2 DEF Holds, SameEnd, SameBut, SessionFields
<1> QED  BY <1>1, <1>2 DEF Kept, Slimmed

\* What is kept so of a session that did something has done the same.
LEMMA HoldsAfter ==
  ASSUME NEW s, NEW u, NEW t, Holds(u, t)
  PROVE  /\ Holds(s, u) => Holds(s, t)
         /\ \A m : ReadsIn(s, m, u) => ReadsIn(s, m, t)
         /\ \A p, m : TurnsOn(p, s, m, u) /\ m.ephemeralKey # u.ephemeralKeyPair
                        /\ u.ephemeralKeyPair \notin DOMAIN s.chains
              => TurnsOn(p, s, m, t)
<1>1. Holds(s, u) => Holds(s, t)
  BY DEF Holds, SameEnd
<1>2. \A m : ReadsIn(s, m, u) => ReadsIn(s, m, t)
  <2> TAKE m
  <2> HAVE ReadsIn(s, m, u)
  <2>1. SameEnd(s, t) /\ t.pendingPreKey = None
    BY DEF Holds, ReadsIn, SameEnd
  <2>2. m.ephemeralKey \in DOMAIN s.chains \ {s.ephemeralKeyPair}
    BY DEF ReadsIn, HadChain, Receiving
  <2>3. m.ephemeralKey \in DOMAIN t.chains /\ u.ephemeralKeyPair = s.ephemeralKeyPair
    BY <2>1, <2>2 DEF ReadsIn, SameEnd
  <2>4. \A i \in DOMAIN t.chains \ {s.ephemeralKeyPair} :
          i \in DOMAIN u.chains /\ t.chains[i] = u.chains[i]
    BY <2>3 DEF Holds, SameEnd
  <2> QED  BY <2>1, <2>2, <2>3, <2>4 DEF ReadsIn
<1>3. ASSUME NEW p, NEW m, TurnsOn(p, s, m, u), m.ephemeralKey # u.ephemeralKeyPair,
             u.ephemeralKeyPair \notin DOMAIN s.chains
      PROVE  TurnsOn(p, s, m, t)
  <2> DEFINE left == DOMAIN s.chains \ {s.ephemeralKeyPair}
             all == left \cup {m.ephemeralKey}
  <2>1. all \subseteq DOMAIN u.chains \ {u.ephemeralKeyPair}
    BY <1>3 DEF TurnsOn
  <2>2. all \subseteq DOMAIN t.chains /\ \A i \in all : t.chains[i] = u.chains[i]
    <3> HIDE DEF all
    <3> QED  BY <2>1 DEF Holds, SameEnd
  <2>3. /\ t.rootKey = u.rootKey
        /\ t.ephemeralKeyPair = u.ephemeralKeyPair
        /\ t.lastRemoteEphemeralKey = u.lastRemoteEphemeralKey
        /\ t.previousCounter = u.previousCounter
        /\ t.baseKeyType = u.baseKeyType
        /\ t.pendingPreKey = u.pendingPreKey
        /\ IsOpen(t) => IsOpen(u)
    BY DEF Holds, SameEnd
  <2> QED  BY <1>3, <2>2, <2>3 DEF TurnsOn
<1> QED  BY <1>1, <1>2, <1>3

\* encrypt moves the sending chain alone.
LEMMA EncryptedHolds ==
  ASSUME NEW K, NEW p, NEW q, NEW s, SessionOK(K, p, q, s),
         s.ephemeralKeyPair \in DOMAIN s.chains
  PROVE  Holds(s, Encrypted(s))
<1>1. SessionOver(K, s) /\ s.chains[s.ephemeralKeyPair].messageKeys = {}
  BY DEF SessionOK, ChainsOK, SendingOK, SendingChain
<1> DEFINE t == Encrypted(s)
<1>2. /\ SameBut({"chains"}, s, t)
      /\ DOMAIN t.chains = DOMAIN s.chains
      /\ \A k \in DOMAIN s.chains \ {s.ephemeralKeyPair} : t.chains[k] = s.chains[k]
  BY <1>1, EncryptedIs
<1> HIDE DEF t
<1>3. SameEnd(s, t) /\ t.pendingPreKey = s.pendingPreKey
  BY <1>2 DEF SameEnd, SameBut, SessionFields, IsOpen
<1> QED  BY <1>2, <1>3 DEF Holds, t

\* doDecryptWhisperMessage on a chain the session has.
LEMMA ReadsInIs ==
  ASSUME NEW K, NEW p, NEW q, p # q, NEW s, SessionOK(K, p, q, s),
         NEW m, m.ephemeralKey \in SessionKeys(q), m.counter \in Nat,
         m.ephemeralKey \in DOMAIN s.chains, NEW keyPair, NEW ourIdentity, AllPassed(s),
         Decrypts(s, m, ourIdentity, keyPair)
  PROVE  ReadsIn(s, m, Decrypted(s, m, keyPair))
<1> DEFINE key == m.ephemeralKey
           t == Decrypted(s, m, keyPair)
<1>1. ReadInPlace(s, m, t)
  BY ReadInPlaceIs
<1>2. HadChain(s, m)
  BY <1>1 DEF ReadInPlace, ReadFrom, HadChain, Receiving
<1>3. key # s.ephemeralKeyPair
  BY KeysApart, SessionKeysDistinct DEF SessionOK, KeysOK
<1>4. Stepped(s, m, keyPair) = s
  BY DEF Stepped, MaybeStepRatchet
<1>5. SessionOver(K, s) /\ m.counter \in Int
  BY DEF SessionOK
<1>6. /\ SameBut({"chains", "pendingPreKey"}, s, t)
      /\ t.pendingPreKey = None
      /\ DOMAIN t.chains = DOMAIN s.chains
      /\ t.chains[key] = Used(s.chains[key], m.counter)
      /\ \A k \in DOMAIN s.chains \ {key} : t.chains[k] = s.chains[k]
  BY <1>4, <1>5, DecryptedIs
<1> HIDE DEF t
<1>7. SameEnd(s, t)
  BY <1>6 DEF SameEnd, SameBut, SessionFields, IsOpen
<1> QED  BY <1>2, <1>3, <1>6, <1>7 DEF ReadsIn, t

\* doDecryptWhisperMessage with a turn of the ratchet.
LEMMA TurnsOnIs ==
  ASSUME NEW p, NEW q, p # q, NEW s, Turnable(Drawn, p, q, s),
         NEW m, m.ephemeralKey \in SessionKeys(q), m.ephemeralKey \in Drawn,
         m.counter \in Nat, m.previousCounter \in Int, m.ephemeralKey \notin DOMAIN s.chains,
         NEW keyPair \in SessionKeys(p) \ Drawn, NEW ourIdentity, AllPassed(s),
         Decrypts(s, m, ourIdentity, keyPair)
  PROVE  TurnsOn(p, s, m, Decrypted(s, m, keyPair))
<1> DEFINE key == m.ephemeralKey
           last == s.lastRemoteEphemeralKey
           received == Append(s.rootKey, {key, s.ephemeralKeyPair})
           new == NewChain(received, "RECEIVING")
           u == Stepped(s, m, keyPair)
           t == Decrypted(s, m, keyPair)
<1>1. /\ SessionOver(Drawn, s)
      /\ key # s.ephemeralKeyPair
      /\ last # s.ephemeralKeyPair
      /\ m.counter \in Int
      /\ key # keyPair
      /\ DOMAIN s.chains \subseteq Drawn
  BY KeysApart, SessionKeysDistinct DEF Turnable, SessionOver, ChainsOver
<1>2. ReadAfterTurn(s, m, keyPair, t)
  BY ReadAfterTurnIs
<1>3. /\ t.rootKey = Append(received, {key, keyPair})
      /\ t.ephemeralKeyPair = keyPair
      /\ t.closed = s.closed
      /\ t.previousCounter = IF s.ephemeralKeyPair \in DOMAIN s.chains
                               THEN s.chains[s.ephemeralKeyPair].counter
                               ELSE s.previousCounter
      /\ received = m.mac.key.seed
  BY <1>2 DEF ReadAfterTurn
<1>4. SessionOver(Drawn \cup {keyPair}, u) /\ Turned(s, key, m.previousCounter, keyPair, u)
  BY <1>1, MaybeStepRatchetIs DEF Stepped
<1> HIDE DEF u
<1>5. /\ SameBut({"rootKey", "ephemeralKeyPair", "lastRemoteEphemeralKey",
                  "previousCounter", "oldRatchetList", "chains"}, s, u)
      /\ u.lastRemoteEphemeralKey = key
      /\ DOMAIN u.chains = (DOMAIN s.chains \ {s.ephemeralKeyPair}) \cup {key, keyPair}
      /\ u.chains[key] = new
      /\ last \in DOMAIN s.chains =>
           u.chains[last] = Retired(s.chains[last], m.previousCounter)
      /\ \A k \in DOMAIN s.chains \ {s.ephemeralKeyPair, last} :
           u.chains[k] = s.chains[k]
  BY <1>4 DEF Turned
<1>6. /\ SameBut({"chains", "pendingPreKey"}, u, t)
      /\ t.pendingPreKey = None
      /\ DOMAIN t.chains = DOMAIN u.chains
      /\ t.chains[key] = Used(u.chains[key], m.counter)
      /\ \A k \in DOMAIN u.chains \ {key} : t.chains[k] = u.chains[k]
  <2>1. key \in DOMAIN u.chains
    BY <1>5
  <2> QED  BY <1>1, <1>4, <2>1, DecryptedIs DEF u
<1> HIDE DEF t, received
<1>7. t.lastRemoteEphemeralKey = key /\ t.baseKeyType = s.baseKeyType
  BY <1>5, <1>6 DEF SameBut, SessionFields
<1>8. HadRoot(s, m)
  BY <1>3 DEF HadRoot, received
<1>9. IsOpen(t) => IsOpen(s)
  BY <1>3 DEF IsOpen
<1>10. t.chains[key] = Used(NewChain(m.mac.key.seed, "RECEIVING"), m.counter)
  BY <1>3, <1>5, <1>6
<1> DEFINE left == DOMAIN s.chains \ {s.ephemeralKeyPair}
<1>11. left \cup {key} \subseteq DOMAIN t.chains
  BY <1>5, <1>6
<1>12. \A i \in left : i \in DOMAIN u.chains \ {key}
  BY <1>5
<1>13. \A i \in left \ {last} : t.chains[i] = s.chains[i]
  BY <1>5, <1>6, <1>12
<1>14. last \in left => t.chains[last] = Retired(s.chains[last], m.previousCounter)
  BY <1>5, <1>6, <1>12
<1> HIDE DEF new
<1>15. t.rootKey = Append(m.mac.key.seed, {key, t.ephemeralKeyPair})
  BY <1>3
<1>16. s.ephemeralKeyPair \in DOMAIN s.chains => t.previousCounter = SendingChain(s).counter
  BY <1>3 DEF SendingChain
<1> QED  BY <1>1, <1>3, <1>6, <1>7, <1>8, <1>9, <1>10, <1>11, <1>13, <1>14, <1>15, <1>16
         DEF TurnsOn, t

-----------------------------------------------------------------------------
\* What a step does to the ends of sessions while no limit binds. All sessions
\* but one, or all, are there before and hold.
HoldBut(p, q, k) ==
  \A a, b \in Parties : \A j :
    Has(a, b, j)' /\ <<a, b, j>> # <<p, q, k>> =>
      Has(a, b, j) /\ Holds(At(a, b, j), At(a, b, j)')
AllHold ==
  \A a, b \in Parties : \A j :
    Has(a, b, j)' => Has(a, b, j) /\ Holds(At(a, b, j), At(a, b, j)')

\* The one session is started ...
StartsEnd(p, q, k) ==
  /\ HoldBut(p, q, k)
  /\ k \notin Drawn
  /\ UNCHANGED <<install, network, delivered>>
  /\ Has(p, q, k)' => /\ Len(At(p, q, k)'.rootKey) = 5
                      /\ k \in At(p, q, k)'.rootKey[4]
                      /\ SessionAgreed(p, q, k, At(p, q, k)')
                      /\ SessionOffers(p, q, At(p, q, k)')
                      /\ LastLive(At(p, q, k)')

\* ... or sends m ...
SendsFrom(p, q, k, m) ==
  /\ AllHold
  /\ Has(p, q, k)
  /\ IsOpen(At(p, q, k))
  /\ Carries(m, p, q, At(p, q, k))
  /\ m.header = Header(p, At(p, q, k))
  /\ m.mac.sender = Identity(p)
  /\ m.mac.receiver = At(p, q, k).remoteIdentityKey
  /\ network' = network \cup {m}
  /\ UNCHANGED <<install, delivered>>

\* ... or reads m, from a stored session or from that of the header.
Answers(p, k, m, s) ==
  LET id == m.header.preKeyId
  IN  /\ ~Has(p, m.from, k)
      /\ k \in SessionKeys(m.from)
      /\ id \in preKeys[p]
      /\ id \notin preKeys'[p]
      /\ s.baseKeyType = "THEIRS"
      /\ s.rootKey \in Seq(SUBSET Drawn)
      /\ Len(s.rootKey) = 4
      /\ s.rootKey[4] = {k, PreKey(p, install[p], id)}
      /\ s.ephemeralKeyPair \in KeysOf(p)
      /\ DOMAIN s.chains = {}
ReadsFrom(p, k, m, s) ==
  /\ HoldBut(p, m.from, k)
  /\ m.to = p
  /\ UNCHANGED <<install, network>>
  /\ delivered' = delivered \cup {m}
  /\ \/ /\ Has(p, m.from, k)
        /\ s = At(p, m.from, k)
        /\ Has(p, m.from, k)' => \/ ReadsIn(s, m, At(p, m.from, k)')
                                 \/ TurnsOn(p, s, m, At(p, m.from, k)')
     \/ /\ Answers(p, k, m, s)
        /\ Has(p, m.from, k)' => TurnsOn(p, s, m, At(p, m.from, k)')

EndStep ==
  \/ AllHold /\ UNCHANGED <<network, delivered>>
  \/ \E p \in Parties : \E q \in Parties \ {p} : \E k :
       StartsEnd(p, q, k) \/ \E m : SendsFrom(p, q, k, m)
  \/ \E p \in Parties : \E m \in network : \E k, s : ReadsFrom(p, k, m, s)

\* Below the limit of retired chains the sessions a step keeps hold.
LEMMA BecomesHolds ==
  ASSUME LimitsNotReached', NEW p \in Parties, NEW q \in Parties, NEW k, NEW u,
         Becomes(p, q, k, u)
  PROVE  /\ HoldBut(p, q, k)
         /\ Has(p, q, k)' => Holds(u, At(p, q, k)')
<1>1. \A a, b \in Parties : \A j :
        Has(a, b, j)' => Len(At(a, b, j)'.oldRatchetList) < MaxOldChains
  BY DEF LimitsNotReached
<1>2. HoldBut(p, q, k)
  <2> SUFFICES ASSUME NEW a \in Parties, NEW b \in Parties, NEW j, Has(a, b, j)',
                      <<a, b, j>> # <<p, q, k>>
               PROVE  Has(a, b, j) /\ Holds(At(a, b, j), At(a, b, j)')
    BY DEF HoldBut
  <2>1. Has(a, b, j) /\ Kept(Drawn', At(a, b, j), At(a, b, j)')
    BY DEF Becomes, KeptBut
  <2> QED  BY <1>1, <2>1, KeptHolds
<1>3. ASSUME Has(p, q, k)'
      PROVE  Holds(u, At(p, q, k)')
  <2>1. Kept(Drawn', u, At(p, q, k)')
    BY <1>3 DEF Becomes, Kept
  <2> QED  BY <1>1, <1>3, <2>1, KeptHolds
<1> QED  BY <1>2, <1>3

\* The steps that make no session and send nothing.
LEMMA PrunesEnds ==
  ASSUME LimitsNotReached', Prunes
  PROVE  EndStep
<1>1. AllHold
  <2> SUFFICES ASSUME NEW a \in Parties, NEW b \in Parties, NEW j, Has(a, b, j)'
               PROVE  Has(a, b, j) /\ Holds(At(a, b, j), At(a, b, j)')
    BY DEF AllHold
  <2>1. Has(a, b, j) /\ Kept(Drawn', At(a, b, j), At(a, b, j)')
    BY DEF Prunes, AllKept
  <2>2. Len(At(a, b, j)'.oldRatchetList) < MaxOldChains
    BY DEF LimitsNotReached
  <2> QED  BY <2>1, <2>2, KeptHolds
<1> QED  BY <1>1 DEF EndStep, Prunes

\* processPreKey
LEMMA PendingEnds ==
  ASSUME NEW p \in Parties, NEW q \in Parties, NEW k \in SessionKeys(p), NEW id \in Nat,
         NEW keyPair \in SessionKeys(p), install[q] \in Nat, published[q] \in Nat, p # q,
         NEW K, {k, keyPair, Identity(p)} \subseteq K,
         {Identity(q), SignedPreKey(q, install[q], published[q]),
          PreKey(q, install[q], id)} \subseteq K, None \notin K,
         NEW s, s = PendingSession(Identity(p), k, keyPair, Device(q, id))
  PROVE  /\ s.remoteIdentityKey = Identity(q)
         /\ s.baseKeyType = "OURS"
         /\ Len(s.rootKey) = 5
         /\ s.rootKey[4] = {k, PreKey(q, install[q], id)}
         /\ SessionOffers(p, q, s)
         /\ LastLive(s)
<1> DEFINE device == Device(q, id)
           agreed == SharedSecret(TRUE, Identity(p), k, k, device.identityKey,
                                  device.signedPreKey, device.preKey)
           secret == {device.signedPreKey, keyPair}
<1>1. /\ device.identityKey = Identity(q)
      /\ device.signedPreKey = SignedPreKey(q, install[q], published[q])
      /\ device.preKey = PreKey(q, install[q], id)
      /\ device.preKeyId = id
      /\ device.signedKeyId = published[q]
  BY DEF Device
<1>2. Pending(s, Identity(p), k, keyPair, device) /\ SessionOver(K, s)
  <2>1. {device.identityKey, device.signedPreKey, device.preKey} \subseteq K
    BY <1>1
  <2>2. device.preKeyId \in Nat /\ device.signedKeyId \in Nat
    BY <1>1
  <2> HIDE DEF device
  <2>3. k \in K /\ keyPair \in K /\ Identity(p) \in K
    OBVIOUS
  <2> QED  BY <2>1, <2>2, <2>3, PendingSessionIs DEF device
<1>3. s.remoteIdentityKey = Identity(q)
  BY <1>1, PendingSessionMadeFor DEF MadeFor
<1> HIDE DEF device
<1>4. /\ Len(agreed) = 4
      /\ agreed[4] = {k, PreKey(q, install[q], id)}
      /\ agreed \in Seq(SUBSET K)
  <2>1. k # None /\ device.preKey # None
    BY <1>1
  <2>2. Agreed(K, agreed, Identity(p), k, k, device.identityKey, device.signedPreKey,
               device.preKey)
    BY <1>1, SharedSecretIs
  <2> HIDE DEF agreed
  <2> QED  BY <1>1, <2>1, <2>2 DEF Agreed
<1>5. /\ s.rootKey = Append(agreed, secret)
      /\ s.ephemeralKeyPair = keyPair
      /\ s.lastRemoteEphemeralKey = device.signedPreKey
      /\ s.baseKeyType = "OURS"
      /\ s.pendingPreKey = [preKeyId |-> id, signedKeyId |-> published[q], baseKey |-> k]
      /\ DOMAIN s.chains = {keyPair}
  BY <1>1, <1>2 DEF Pending
<1>6. Offered(q, Identity(p), Identity(q), id, published[q], k, keyPair, s.rootKey)
  <2>1. /\ Identity(q) = IdentityKey(q, install[q])
        /\ s.rootKey = Append(SharedSecret(TRUE, Identity(p), k, k, Identity(q),
                                           SignedPreKey(q, install[q], published[q]),
                                           PreKey(q, install[q], id)),
                              {SignedPreKey(q, install[q], published[q]), keyPair})
    BY <1>1, <1>5 DEF Identity
  <2> QED  BY <2>1 DEF Offered
<1> HIDE DEF agreed
<1>7. secret \in SUBSET K
  BY <1>1
<1>8. Len(s.rootKey) = 5 /\ s.rootKey[4] = {k, PreKey(q, install[q], id)}
  <2> HIDE DEF secret
  <2> DEFINE S == SUBSET K
  <2>1. agreed \in Seq(S) /\ secret \in S
    BY <1>4, <1>7
  <2> HIDE DEF S
  <2>2. Len(Append(agreed, secret)) = Len(agreed) + 1
        /\ \A i \in 1..Len(agreed) : Append(agreed, secret)[i] = agreed[i]
    BY <2>1, AppendIs
  <2> QED  BY <1>4, <1>5, <2>2
<1>9. LastLive(s)
  <2>1. device.signedPreKey # keyPair
    <3>1. device.signedPreKey \in KeysOf(q)
      BY <1>1 DEF KeysOf
    <3> QED  BY <3>1, KeysApart, SessionKeysDistinct
  <2> QED  BY <1>5, <1>8, <2>1 DEF LastLive
<1>10. SessionOffers(p, q, s)
  BY <1>3, <1>5, <1>6 DEF SessionOffers
<1> QED  BY <1>3, <1>5, <1>8, <1>9, <1>10

-----------------------------------------------------------------------------
\* What is kept of a session that was started.
LEMMA OffersHold ==
  ASSUME NEW p, NEW q, NEW s, NEW t, Holds(s, t)
  PROVE  /\ SessionOffers(p, q, s) => SessionOffers(p, q, t)
         /\ s.lastRemoteEphemeralKey # s.ephemeralKeyPair /\ LastLive(s) => LastLive(t)
         /\ \A k : SessionAgreed(p, q, k, s) => SessionAgreed(p, q, k, t)
<1>1. SessionOffers(p, q, s) => SessionOffers(p, q, t)
  BY DEF SessionOffers, Holds, SameEnd
<1>2. s.lastRemoteEphemeralKey # s.ephemeralKeyPair /\ LastLive(s) => LastLive(t)
  BY DEF LastLive, Holds, SameEnd
<1>3. \A k : SessionAgreed(p, q, k, s) => SessionAgreed(p, q, k, t)
  BY DEF SessionAgreed, Holds, SameEnd
<1> QED  BY <1>1, <1>2, <1>3

\* processPreKey, as a step of the system.
LEMMA BuildsEnds ==
  ASSUME TypeInv, LimitsNotReached', NEW p \in Parties, NEW q \in Parties \ {p}, Builds(p, q)
  PROVE  EndStep
<1>1. PICK k : k = SessionKey(p, fresh[p] + 1)
  OBVIOUS
<1>2. PICK keyPair : keyPair = SessionKey(p, fresh[p] + 2)
  OBVIOUS
<1>3. PICK id \in PreKeyIds :
        /\ Becomes(p, q, k, PendingSession(Identity(p), k, keyPair, Device(q, id)))
        /\ UNCHANGED <<install, network, delivered>>
  BY <1>1, <1>2 DEF Builds
<1>4. PICK s : s = PendingSession(Identity(p), k, keyPair, Device(q, id))
  OBVIOUS
<1>5. /\ Drawn \subseteq Drawn'
      /\ None \notin Drawn'
      /\ k \in Drawn' \ Drawn
      /\ keyPair \in Drawn' \ Drawn
  BY <1>1, <1>2, BuildsDraws
<1>6. /\ k \in SessionKeys(p)
      /\ keyPair \in SessionKeys(p)
      /\ id \in Nat
      /\ install[q] \in Nat
      /\ published[q] \in Nat
      /\ {Identity(p), Identity(q), SignedPreKey(q, install[q], published[q]),
          PreKey(q, install[q], id)} \subseteq Drawn
  BY <1>1, <1>2, InstalledKeys, PartyAssumption DEF TypeInv, SessionKeys
<1>7. /\ s.baseKeyType = "OURS"
      /\ Len(s.rootKey) = 5
      /\ s.rootKey[4] = {k, PreKey(q, install[q], id)}
      /\ SessionOffers(p, q, s)
      /\ LastLive(s)
  BY <1>4, <1>5, <1>6, PendingEnds
<1>8. SessionAgreed(p, q, k, s)
  BY <1>6, <1>7 DEF SessionAgreed, Agreement
<1>9. s.lastRemoteEphemeralKey # s.ephemeralKeyPair
  <2>1. Pending(s, Identity(p), k, keyPair, Device(q, id))
    BY <1>1, <1>2, <1>4, <1>5, BuiltSession
  <2>2. s.lastRemoteEphemeralKey = SignedPreKey(q, install[q], published[q])
    BY <2>1 DEF Pending, Device
  <2> QED  BY <1>6, <2>1, <2>2 DEF Pending, SessionKeys, SessionKey, SignedPreKey
<1>10. HoldBut(p, q, k) /\ (Has(p, q, k)' => Holds(s, At(p, q, k)'))
  BY <1>3, <1>4, BecomesHolds
<1>11. ASSUME Has(p, q, k)'
       PROVE  /\ Len(At(p, q, k)'.rootKey) = 5
              /\ k \in At(p, q, k)'.rootKey[4]
              /\ SessionAgreed(p, q, k, At(p, q, k)')
              /\ SessionOffers(p, q, At(p, q, k)')
              /\ LastLive(At(p, q, k)')
  <2>1. PICK t : t = At(p, q, k)'
    OBVIOUS
  <2>2. Holds(s, t)
    BY <1>10, <1>11, <2>1
  <2>3. t.rootKey = s.rootKey
    BY <2>2 DEF Holds, SameEnd
  <2>4. SessionAgreed(p, q, k, t) /\ SessionOffers(p, q, t) /\ LastLive(t)
    BY <1>7, <1>8, <1>9, <2>2, OffersHold
  <2> QED  BY <1>7, <2>1, <2>3, <2>4
<1>12. StartsEnd(p, q, k)
  BY <1>3, <1>5, <1>10, <1>11 DEF StartsEnd
<1> QED  BY <1>12 DEF EndStep

\* encrypt
LEMMA SendsEnds ==
  ASSUME TypeInv, LimitsNotReached', NEW p \in Parties, NEW q \in Parties \ {p}, NEW k,
         Sends(p, q, k)
  PROVE  EndStep
<1>1. PICK m : m = MessageFrom(p, q, At(p, q, k))
  OBVIOUS
<1>2. PICK s : s = At(p, q, k)
  OBVIOUS
<1>3. /\ Has(p, q, k)
      /\ IsOpen(s)
      /\ Becomes(p, q, k, Encrypted(s))
      /\ network' = network \cup {m}
      /\ UNCHANGED <<install, delivered>>
  BY <1>1, <1>2 DEF Sends
<1>4. SessionOK(Drawn, p, q, s) /\ s.ephemeralKeyPair \in DOMAIN s.chains
  BY <1>2, <1>3 DEF TypeInv, SessionsTyped, SessionOK, ChainsOK, SendingOK
<1>5. Carries(m, p, q, s)
  <2>1. Identity(p) \in Drawn /\ Identity(p) \in KeysOf(p) /\ install[p] \in Nat
    BY InstalledKeys DEF TypeInv
  <2>2. IsFiniteSet(network)
    BY DEF TypeInv, MessagesTyped
  <2> QED  BY <1>1, <1>2, <1>4, <2>1, <2>2, MessageFromIs
<1>6. /\ m.header = Header(p, s)
      /\ m.mac.sender = Identity(p)
      /\ m.mac.receiver = s.remoteIdentityKey
  BY <1>1, <1>2 DEF MessageFrom, WhisperMessage, MAC
<1>7. Holds(s, Encrypted(s))
  BY <1>4, EncryptedHolds
<1>8. HoldBut(p, q, k) /\ (Has(p, q, k)' => Holds(Encrypted(s), At(p, q, k)'))
  BY <1>3, BecomesHolds
<1>9. AllHold
  <2> SUFFICES ASSUME NEW a \in Parties, NEW b \in Parties, NEW j, Has(a, b, j)'
               PROVE  Has(a, b, j) /\ Holds(At(a, b, j), At(a, b, j)')
    BY DEF AllHold
  <2>1. CASE <<a, b, j>> # <<p, q, k>>
    BY <1>8, <2>1 DEF HoldBut
  <2>2. CASE <<a, b, j>> = <<p, q, k>>
    <3>1. Has(p, q, k)' => Holds(s, At(p, q, k)')
      BY <1>7, <1>8, HoldsAfter
    <3> QED  BY <1>2, <1>3, <2>2, <3>1
  <2> QED  BY <2>1, <2>2
<1>10. SendsFrom(p, q, k, m)
  BY <1>2, <1>3, <1>5, <1>6, <1>9 DEF SendsFrom
<1> QED  BY <1>10 DEF EndStep

\* A message is read from a session that was stored or made for it.
LEMMA ReadEnds ==
  ASSUME TypeInv, NEW p \in Parties, NEW m \in network, m.to = p, NEW s,
         Ready(p, m.from, s), AllPassed(s), SessionDecrypts(p, s, m),
         NEW t, Holds(Decrypted(s, m, NextKey(p)), t)
  PROVE  \/ ReadsIn(s, m, t) /\ m.ephemeralKey \in DOMAIN s.chains
         \/ TurnsOn(p, s, m, t)
<1>1. PICK q : q = m.from
  OBVIOUS
<1>2. PICK keyPair : keyPair = NextKey(p)
  OBVIOUS
<1>3. PICK u : u = Decrypted(s, m, keyPair)
  OBVIOUS
<1>4. /\ q \in Parties
      /\ q # p
      /\ m.ephemeralKey \in SessionKeys(q)
      /\ m.ephemeralKey \in Drawn
      /\ m.counter \in Nat
      /\ m.previousCounter \in Int
  BY <1>1 DEF TypeInv, MessagesTyped, MessageOK, MessageOver
<1>5. Decrypts(s, m, Identity(p), keyPair)
  BY <1>2 DEF SessionDecrypts
<1>6. keyPair \in SessionKeys(p) \ Drawn
  <2>1. fresh[p] \in Nat /\ TablesTyped
    BY DEF TypeInv, TablesTyped
  <2>2. fresh[p] + 1 \in Nat /\ ~(fresh[p] + 1 <= fresh[p])
    BY <2>1
  <2>3. SessionKey(p, fresh[p] + 1) \notin Drawn
    BY <2>1, <2>2, InstalledKeys
  <2> QED  BY <1>2, <2>2, <2>3 DEF NextKey, SessionKeys
<1>7. CASE m.ephemeralKey \in DOMAIN s.chains
  <2>1. SessionOK(Drawn, p, q, s)
    BY <1>1, <1>7 DEF Ready
  <2>2. ReadsIn(s, m, u)
    BY <1>3, <1>4, <1>5, <1>7, <2>1, ReadsInIs
  <2> QED  BY <1>2, <1>3, <1>7, <2>2, HoldsAfter
<1>8. CASE m.ephemeralKey \notin DOMAIN s.chains
  <2>1. Turnable(Drawn, p, q, s)
    BY <1>1 DEF Ready
  <2>2. TurnsOn(p, s, m, u)
    BY <1>3, <1>4, <1>5, <1>6, <1>8, <2>1, TurnsOnIs
  <2>3. u.ephemeralKeyPair \notin DOMAIN s.chains
    BY <2>1, <2>2 DEF TurnsOn, Turnable, SessionOver, ChainsOver
  <2>4. m.ephemeralKey # u.ephemeralKeyPair
    BY <1>4, <2>2 DEF TurnsOn
  <2> QED  BY <1>2, <1>3, <2>2, <2>3, <2>4, HoldsAfter
<1> QED  BY <1>7, <1>8

\* doDecryptWhisperMessage in a stored session ...
LEMMA ReadsEnds ==
  ASSUME TypeInv, PassedOK, LimitsNotReached', NEW p \in Parties, NEW m \in network, NEW k,
         Reads(p, k, m)
  PROVE  EndStep
<1>1. PICK s : s = At(p, m.from, k)
  OBVIOUS
<1>2. /\ m.to = p
      /\ Has(p, m.from, k)
      /\ SessionDecrypts(p, s, m)
      /\ Becomes(p, m.from, k, Decrypted(s, m, NextKey(p)))
      /\ delivered' = delivered \cup {m}
      /\ UNCHANGED <<install, network>>
  BY <1>1 DEF Reads
<1>3. m.from \in Parties
  BY DEF TypeInv, StorageInv, SendersOK
<1>4. Ready(p, m.from, s) /\ AllPassed(s)
  BY <1>1, <1>2, <1>3, SessionOKIsTurnable DEF TypeInv, SessionsTyped, Ready, PassedOK
<1>5. /\ HoldBut(p, m.from, k)
      /\ Has(p, m.from, k)' => Holds(Decrypted(s, m, NextKey(p)), At(p, m.from, k)')
  BY <1>2, <1>3, BecomesHolds
<1>6. Has(p, m.from, k)' => ReadsIn(s, m, At(p, m.from, k)') \/ TurnsOn(p, s, m, At(p, m.from, k)')
  BY <1>2, <1>4, <1>5, ReadEnds
<1>7. ReadsFrom(p, k, m, s)
  BY <1>1, <1>2, <1>5, <1>6 DEF ReadsFrom
<1> QED  BY <1>7 DEF EndStep

\* ... or in the one of its header.
LEMMA ReceivesEnds ==
  ASSUME TypeInv, LimitsNotReached', NothingLeft', NEW p \in Parties, NEW m \in network,
         Receives(p, m)
  PROVE  EndStep
<1>1. PICK s : s = HeaderSession(p, m.header)
  OBVIOUS
<1>2. PICK k : k = m.header.baseKey
  OBVIOUS
<1>3. PICK id : id = m.header.preKeyId
  OBVIOUS
<1>4. /\ m.to = p
      /\ m.header # None
      /\ m.header.signedPreKeyId \in signedPreKeys[p]
      /\ SessionDecrypts(p, s, m)
      /\ Becomes(p, m.from, k, Decrypted(s, m, NextKey(p)))
      /\ preKeys' = [preKeys EXCEPT ![p] = @ \ {id}]
      /\ delivered' = delivered \cup {m}
      /\ UNCHANGED <<install, network>>
  BY <1>1, <1>2, <1>3 DEF Receives, UsesPreKey, NothingLeft
<1>5. /\ SessionOver(Drawn, s)
      /\ Answering(s, Identity(p), PreKeyFor(p, m.header),
                   SignedPreKey(p, install[p], m.header.signedPreKeyId),
                   m.header.identityKey, k)
      /\ Ready(p, m.from, s)
      /\ PreKeyFor(p, m.header) \in Drawn \cup {None}
      /\ None \notin Drawn
  BY <1>1, <1>2, <1>4, HeaderSessionReady
<1>6. FromHeader(p, s)
  <2>1. UsesPreKey(p, m.header.preKeyId)
    BY DEF Receives
  <2> QED  BY <1>1, <1>4, <2>1, HeaderFree
<1>7. /\ s.baseKeyType = "THEIRS"
      /\ DOMAIN s.chains = {}
      /\ Len(s.rootKey) = 4
      /\ PreKeyFor(p, m.header) # None
      /\ s.rootKey[4] = {k, PreKeyFor(p, m.header)}
  <2>1. PICK preKey : preKey = PreKeyFor(p, m.header)
    OBVIOUS
  <2>2. /\ DOMAIN s.chains = {}
        /\ Len(s.rootKey) = 4
    BY <1>6 DEF FromHeader
  <2>3. /\ s.baseKeyType = "THEIRS"
        /\ preKey = None => Len(s.rootKey) = 3
        /\ preKey # None => s.rootKey[4] = {k, preKey}
    <3>1. PICK ours : ours = Identity(p)
      OBVIOUS
    <3>2. PICK signed : signed = SignedPreKey(p, install[p], m.header.signedPreKeyId)
      OBVIOUS
    <3>3. Answering(s, ours, preKey, signed, m.header.identityKey, k)
      BY <1>5, <2>1, <3>1, <3>2
    <3>4. s.baseKeyType = "THEIRS"
      BY <3>3 DEF Answering
    <3>5. preKey = None => Len(s.rootKey) = 3
      BY <3>3 DEF Answering
    <3>6. preKey # None => s.rootKey[4] = {k, preKey}
      BY <3>3 DEF Answering
    <3> QED  BY <3>4, <3>5, <3>6
  <2> QED  BY <2>1, <2>2, <2>3
<1>8. id \in preKeys[p] /\ PreKeyFor(p, m.header) = PreKey(p, install[p], id)
  BY <1>3, <1>7 DEF PreKeyFor
<1>9. preKeys \in [Parties -> SUBSET PreKeyIds]
  BY DEF TypeInv, TablesTyped
<1>10. k \in SessionKeys(m.from) /\ m.from \in Parties
  BY <1>2, <1>4 DEF TypeInv, MessagesTyped, MessageOK, StorageInv, SendersOK
<1>11. s.ephemeralKeyPair \in KeysOf(p)
  BY <1>5 DEF Ready, Turnable
<1>12. s.rootKey \in Seq(SUBSET Drawn)
  BY <1>5 DEF SessionOver
<1>13. Answers(p, k, m, s)
  <2>1. ~Has(p, m.from, k)
    BY <1>2, HeaderKeyIsFree
  <2>2. id \notin preKeys'[p]
    BY <1>4, <1>9
  <2> QED  BY <1>3, <1>7, <1>8, <1>10, <1>11, <1>12, <2>1, <2>2 DEF Answers
<1>14. /\ HoldBut(p, m.from, k)
       /\ Has(p, m.from, k)' => Holds(Decrypted(s, m, NextKey(p)), At(p, m.from, k)')
  BY <1>4, <1>10, BecomesHolds
<1>15. AllPassed(s)
  BY <1>7 DEF AllPassed
<1>16. Has(p, m.from, k)' => TurnsOn(p, s, m, At(p, m.from, k)')
  BY <1>4, <1>5, <1>7, <1>14, <1>15, ReadEnds
<1>17. ReadsFrom(p, k, m, s)
  BY <1>4, <1>13, <1>14, <1>16 DEF ReadsFrom
<1> QED  BY <1>17 DEF EndStep

\* So every step is one of these, while no limit binds.
LEMMA StepEnds ==
  ASSUME TypeInv, PassedOK, LimitsNotReached', NothingLeft', Step
  PROVE  EndStep
<1>1. CASE Prunes
  BY <1>1, PrunesEnds
<1>2. ASSUME NEW p \in Parties, NEW q \in Parties \ {p}, Builds(p, q)
      PROVE  EndStep
  BY <1>2, BuildsEnds
<1>3. ASSUME NEW p \in Parties, NEW q \in Parties \ {p}, NEW k, Sends(p, q, k)
      PROVE  EndStep
  BY <1>3, SendsEnds
<1>4. ASSUME NEW p \in Parties, NEW m \in network, Receives(p, m)
      PROVE  EndStep
  BY <1>4, ReceivesEnds
<1>5. ASSUME NEW p \in Parties, NEW m \in network, NEW k, Reads(p, k, m)
      PROVE  EndStep
  BY <1>5, ReadsEnds
<1> QED  BY <1>1, <1>2, <1>3, <1>4, <1>5 DEF Step

-----------------------------------------------------------------------------
\* An agreement names its two parties and its base key.
LEMMA AgreementSame ==
  ASSUME NEW p, NEW q, NEW base, NEW x, Agreement(p, q, base, x),
         NEW r, NEW o, NEW other, NEW y, Agreement(r, o, other, y), Agree(x, y)
  PROVE  p = r /\ q = o /\ base = other
<1>1. PICK n \in Nat, id \in Nat : x[4] = {base, PreKey(q, n, id)}
  BY DEF Agreement
<1>2. PICK n2 \in Nat, id2 \in Nat : y[4] = {other, PreKey(o, n2, id2)}
  BY DEF Agreement
<1>3. x[4] = y[4]
  BY DEF Agree
<1>4. PICK i \in Nat : base = SessionKey(p, i)
  BY DEF Agreement, SessionKeys
<1>5. PICK j \in Nat : other = SessionKey(r, j)
  BY DEF Agreement, SessionKeys
<1>6. /\ base # PreKey(o, n2, id2)
      /\ other # PreKey(q, n, id)
  BY <1>4, <1>5 DEF SessionKey, PreKey
<1>7. base = other /\ PreKey(q, n, id) = PreKey(o, n2, id2)
  BY <1>1, <1>2, <1>3, <1>6
<1>8. p = r
  BY <1>4, <1>5, <1>7 DEF SessionKey
<1>9. q = o
  BY <1>7 DEF PreKey
<1> QED  BY <1>7, <1>8, <1>9

\* Agreeing is the same both ways, and carries over.
LEMMA AgreeLaws ==
  ASSUME NEW x, NEW y, Agree(x, y)
  PROVE  /\ Agree(y, x)
         /\ \A z : Agree(y, z) => Agree(x, z)
         /\ \A p, q, base : Agreement(p, q, base, x) => Agreement(p, q, base, y)
         /\ \A p, q, base : Between(p, q, base, x) => Between(p, q, base, y)
         /\ \A p, q, k, s : SessionAgreed(p, q, k, s) /\ s.rootKey = x =>
                              Between(p, q, k, x)
<1>1. x[4] = y[4]
  BY DEF Agree
<1> QED  BY <1>1 DEF Agree, Between, Agreement, SessionAgreed

\* A longer root key comes from the same agreement.
LEMMA AgreeLonger ==
  ASSUME NEW S, NEW seed \in Seq(S), NEW x \in S, Len(seed) >= 4
  PROVE  Agree(seed, Append(seed, x)) /\ Begins(seed, Append(seed, x))
<1>1. PICK longer : longer = Append(seed, x)
  OBVIOUS
<1>2. /\ Len(longer) = Len(seed) + 1
      /\ \A i \in 1..Len(seed) : longer[i] = seed[i]
  BY <1>1, AppendIs
<1>3. Len(seed) \in Nat
  OBVIOUS
<1>4. Agree(seed, longer)
  BY <1>2, <1>3 DEF Agree
<1>5. Begins(seed, longer)
  BY <1>2, <1>3 DEF Begins
<1> QED  BY <1>1, <1>4, <1>5

\* What a root key begins with, a longer one begins with; and of the same
\* length there is one only.
LEMMA BeginsLaws ==
  ASSUME NEW S, NEW seed \in Seq(S), NEW root \in Seq(S), Begins(seed, root)
  PROVE  /\ \A x \in S : Begins(seed, Append(root, x))
         /\ Len(seed) = Len(root) => seed = root
<1>1. ASSUME NEW x \in S
      PROVE  Begins(seed, Append(root, x))
  <2>1. PICK longer : longer = Append(root, x)
    OBVIOUS
  <2>2. /\ Len(longer) = Len(root) + 1
        /\ \A i \in 1..Len(root) : longer[i] = root[i]
    BY <2>1, AppendIs
  <2>3. Len(seed) \in Nat /\ Len(root) \in Nat
    OBVIOUS
  <2>4. Begins(seed, longer)
    BY <2>2, <2>3 DEF Begins
  <2> QED  BY <2>1, <2>4
<1>2. Len(seed) = Len(root) => seed = root
  BY DEF Begins
<1> QED  BY <1>1, <1>2

\* A sequence is not one that it begins.
LEMMA NotBefore ==
  ASSUME NEW seed \in Secrets, NEW root \in Secrets, Before(seed, root)
  PROVE  Agree(seed, root) /\ Len(root) = Len(seed) + 2
<1>1. PICK x \in SUBSET Key, y \in SUBSET Key : root = Append(Append(seed, x), y)
  BY DEF Before
<1>2. PICK S : S = SUBSET Key
  OBVIOUS
<1>3. /\ seed \in Seq(S)
      /\ x \in S
      /\ y \in S
      /\ Len(seed) >= 5
  BY <1>1, <1>2 DEF Secrets, Before
<1>4. PICK mid : mid = Append(seed, x)
  OBVIOUS
<1>5. /\ mid \in Seq(S)
      /\ Len(mid) = Len(seed) + 1
  BY <1>3, <1>4, AppendIs
<1>6. root = Append(mid, y)
  BY <1>1, <1>4
<1>7. Len(root) = Len(mid) + 1
  BY <1>3, <1>5, <1>6, AppendIs
<1>8. Len(seed) \in Nat
  BY <1>3
<1>9. Agree(seed, mid)
  BY <1>3, <1>4, <1>8, AgreeLonger
<1>10. Agree(mid, root)
  BY <1>3, <1>5, <1>6, <1>8, AgreeLonger
<1> QED  BY <1>5, <1>7, <1>8, <1>9, <1>10, AgreeLaws

\* The two parties and the base key of what comes from one agreement.
LEMMA BetweenSame ==
  ASSUME NEW p, NEW q, NEW base, NEW x, Between(p, q, base, x),
         NEW r, NEW o, NEW other, NEW y, Between(r, o, other, y), Agree(x, y)
  PROVE  base = other /\ ((p = r /\ q = o) \/ (p = o /\ q = r))
<1>1. CASE Agreement(p, q, base, x) /\ Agreement(r, o, other, y)
  BY <1>1, AgreementSame
<1>2. CASE Agreement(p, q, base, x) /\ Agreement(o, r, other, y)
  BY <1>2, AgreementSame
<1>3. CASE Agreement(q, p, base, x) /\ Agreement(r, o, other, y)
  BY <1>3, AgreementSame
<1>4. CASE Agreement(q, p, base, x) /\ Agreement(o, r, other, y)
  BY <1>4, AgreementSame
<1> QED  BY <1>1, <1>2, <1>3, <1>4 DEF Between

\* A session comes from an agreement of its two parties.
LEMMA AgreedBetween ==
  ASSUME NEW p, NEW q, NEW k, NEW s, SessionAgreed(p, q, k, s)
  PROVE  Between(p, q, k, s.rootKey)
BY DEF SessionAgreed, Between

\* What is stored and sent is made of keys that were drawn.
SessionThere(p, q, s) ==
  /\ SessionOK(Drawn, p, q, s)
  /\ p # q
  /\ s.rootKey \in Seq(SUBSET Drawn)
  /\ s.rootKey \in Secrets
  /\ Len(s.rootKey) >= 5
  /\ Len(s.rootKey) \in Nat
  /\ s.rootKey[Len(s.rootKey)] = {s.lastRemoteEphemeralKey, s.ephemeralKeyPair}
  /\ s.ephemeralKeyPair \in SessionKeys(p)
  /\ s.ephemeralKeyPair \in Drawn
  /\ s.lastRemoteEphemeralKey \in KeysOf(q)
  /\ s.lastRemoteEphemeralKey # s.ephemeralKeyPair
  /\ DOMAIN s.chains \subseteq Drawn
  /\ \A i \in DOMAIN s.chains : s.chains[i] \in ChainOver(Drawn)
MessageThere(m) ==
  /\ m.from \in Parties
  /\ m.to \in Parties
  /\ m.from # m.to
  /\ m.mac.key.seed \in Seq(SUBSET Drawn)
  /\ m.mac.key.seed \in Secrets
  /\ Len(m.mac.key.seed) >= 5
  /\ Len(m.mac.key.seed) \in Nat
  /\ m.ephemeralKey \in SessionKeys(m.from)
  /\ m.ephemeralKey \in Drawn
  /\ m.counter \in Nat
  /\ m.previousCounter \in Int
  /\ m.mac.key = MessageKey(m.mac.key.seed, m.counter)

\* The last secret of a session is the agreement of two keys.
LEMMA SessionIsThere ==
  ASSUME TypeInv, NEW p \in Parties, NEW q \in Parties, NEW k, Has(p, q, k)
  PROVE  SessionThere(p, q, At(p, q, k))
<1>1. PICK s : s = At(p, q, k)
  OBVIOUS
<1>2. SessionOK(Drawn, p, q, s)
  BY <1>1 DEF TypeInv, SessionsTyped
<1>3. p # q
  BY DEF TypeInv, RecordsTyped, Has
<1>4. /\ SessionOver(Drawn, s)
      /\ KeysOK(p, q, s)
      /\ ChainsOK(s)
  BY <1>2 DEF SessionOK
<1>5. /\ s.rootKey \in Seq(SUBSET Drawn)
      /\ s.ephemeralKeyPair \in Drawn
      /\ DOMAIN s.chains \subseteq Drawn
      /\ \A i \in DOMAIN s.chains : s.chains[i] \in ChainOver(Drawn)
  BY <1>4 DEF SessionOver, ChainsOver
<1>6. /\ s.ephemeralKeyPair \in SessionKeys(p)
      /\ s.lastRemoteEphemeralKey \in KeysOf(q)
  BY <1>4 DEF KeysOK
<1>7. s.lastRemoteEphemeralKey # s.ephemeralKeyPair
  BY <1>3, <1>6, KeysApart, SessionKeysDistinct
<1>8. /\ Len(s.rootKey) >= 5
      /\ s.rootKey[Len(s.rootKey)] = {s.lastRemoteEphemeralKey, s.ephemeralKeyPair}
  BY <1>4 DEF ChainsOK
<1>9. Len(s.rootKey) \in Nat
  BY <1>5
<1>10. s.rootKey \in Secrets
  BY <1>5, SeedsThere DEF Secrets
<1> QED  BY <1>1, <1>2, <1>3, <1>5, <1>6, <1>7, <1>8, <1>9, <1>10 DEF SessionThere

\* A message is under a chain of keys that were drawn.
LEMMA MessageIsThere ==
  ASSUME TypeInv, NEW m \in network
  PROVE  MessageThere(m)
<1>1. MessageOK(Drawn, m)
  BY DEF TypeInv, MessagesTyped
<1>2. /\ m.from \in Parties
      /\ m.to \in Parties
      /\ m.from # m.to
      /\ m.mac.key.seed \in Seq(SUBSET Drawn)
      /\ m.ephemeralKey \in SessionKeys(m.from)
      /\ m.ephemeralKey \in Drawn
      /\ m.counter \in Nat
      /\ m.previousCounter \in Int
      /\ Len(m.mac.key.seed) >= 5
  BY <1>1 DEF MessageOK, MessageOver
<1>3. m.mac.key = MessageKey(m.mac.key.seed, m.counter)
  BY KeysThere
<1>4. m.mac.key.seed \in Secrets
  BY <1>2, SeedsThere DEF Secrets
<1>5. Len(m.mac.key.seed) \in Nat
  BY <1>2
<1> QED  BY <1>2, <1>3, <1>4, <1>5 DEF MessageThere

\* A key that was not drawn is in no agreement, so that a root key with such a
\* key agrees with none there is.
LEMMA NewNotIn ==
  ASSUME NEW k, k \notin Drawn, NEW seed \in Seq(SUBSET Drawn), Len(seed) >= 4
  PROVE  k \notin seed[4]
<1>1. PICK S : S = SUBSET Drawn
  OBVIOUS
<1>2. seed \in Seq(S)
  BY <1>1
<1>3. 4 \in 1..Len(seed)
  BY <1>2
<1> QED  BY <1>1, <1>2, <1>3

\* The same, of a root key with it.
LEMMA NewAgreesNot ==
  ASSUME NEW k, k \notin Drawn, NEW root, k \in root[4],
         NEW seed \in Seq(SUBSET Drawn), Len(seed) >= 4
  PROVE  ~Agree(root, seed)
BY NewNotIn DEF Agree

-----------------------------------------------------------------------------
\* What a session that has its root key and its keys keeps.
LEMMA SameEndKeeps ==
  ASSUME NEW s, NEW t, SameEnd(s, t)
  PROVE  /\ \A sent, p : OwnSent(sent, p, s) => OwnSent(sent, p, t)
         /\ \A sent, p : PreviousOK(sent, p, s) => PreviousOK(sent, p, t)
         /\ \A p, q, k : SessionAgreed(p, q, k, s) => SessionAgreed(p, q, k, t)
<1>1. \A sent, p : OwnSent(sent, p, s) => OwnSent(sent, p, t)
  BY DEF OwnSent, SameEnd
<1>2. \A sent, p : PreviousOK(sent, p, s) => PreviousOK(sent, p, t)
  BY DEF PreviousOK, SameEnd
<1>3. \A p, q, k : SessionAgreed(p, q, k, s) => SessionAgreed(p, q, k, t)
  BY DEF SessionAgreed, SameEnd
<1> QED  BY <1>1, <1>2, <1>3

\* The two ends stay one agreement apart.
LEMMA EitherSame ==
  ASSUME NEW s, NEW t, SameEnd(s, t), NEW u, NEW v, SameEnd(u, v), Either(s, u)
  PROVE  Either(t, v)
<1>1. Ahead(s, u) => Ahead(t, v)
  BY DEF Ahead, SameEnd
<1>2. Ahead(u, s) => Ahead(v, t)
  BY DEF Ahead, SameEnd
<1>3. Agree(t.rootKey, v.rootKey) => Agree(s.rootKey, u.rootKey)
  BY DEF SameEnd
<1> QED  BY <1>1, <1>2, <1>3 DEF Either

\* The receiving chains are other chains than the sending one.
LEMMA ReceivingIsOther ==
  ASSUME NEW p, NEW q, NEW s, SessionThere(p, q, s)
  PROVE  s.ephemeralKeyPair \notin Receiving(s)
<1>1. SendingOK(s)
  BY DEF SessionThere, SessionOK, ChainsOK
<1>2. s.ephemeralKeyPair \in DOMAIN s.chains =>
        s.chains[s.ephemeralKeyPair].chainType = "SENDING"
  BY <1>1 DEF SendingOK, SendingChain
<1> QED  BY <1>2 DEF Receiving

\* A session that is kept reaches the messages it reached ...
LEMMA HoldsReaches ==
  ASSUME NEW p, NEW q, NEW s, SessionThere(p, q, s), NEW t, Holds(s, t),
         NEW n, Reached(s, n)
  PROVE  Reached(t, n)
<1>1. CASE HadChain(s, n)
  <2>1. n.ephemeralKey \in Receiving(s) /\ n.ephemeralKey # s.ephemeralKeyPair
    BY <1>1, ReceivingIsOther DEF HadChain
  <2>2. /\ n.ephemeralKey \in DOMAIN t.chains
        /\ t.chains[n.ephemeralKey] = s.chains[n.ephemeralKey]
    BY <2>1 DEF Receiving, Holds, SameEnd
  <2>3. HadChain(t, n)
    BY <1>1, <2>1, <2>2 DEF HadChain, Receiving
  <2> QED  BY <2>3 DEF Reached
<1>2. CASE HadRoot(s, n) /\ n.ephemeralKey \notin DOMAIN s.chains
  <2>1. HadRoot(t, n) /\ n.ephemeralKey \notin DOMAIN t.chains
    BY <1>2 DEF HadRoot, Holds, SameEnd
  <2> QED  BY <2>1 DEF Reached
<1> QED  BY <1>1, <1>2 DEF Reached

\* ... as does one that read another message from a chain it had ...
LEMMA ReadsInReaches ==
  ASSUME NEW p, NEW q, NEW s, SessionThere(p, q, s), AllPassed(s),
         NEW m, m.counter \in Nat, MessageKeysLimit # 0 => m.counter < MessageKeysLimit,
         NEW t, ReadsIn(s, m, t),
         NEW n, n.counter \in Nat, n.mac.key.seed = m.mac.key.seed => n.counter # m.counter,
         Reached(s, n)
  PROVE  Reached(t, n)
<1>1. CASE HadChain(s, n)
  <2>1. n.ephemeralKey \in Receiving(s) /\ n.ephemeralKey # s.ephemeralKeyPair
    BY <1>1, ReceivingIsOther DEF HadChain
  <2>2. n.ephemeralKey \in DOMAIN s.chains /\ n.ephemeralKey \in DOMAIN t.chains
    BY <2>1 DEF Receiving, ReadsIn, SameEnd
  <2>3. CASE n.ephemeralKey = m.ephemeralKey
    <3>1. PICK c : c = s.chains[m.ephemeralKey]
      OBVIOUS
    <3>2. c \in ChainOver(Drawn) /\ Passed(c)
      BY <2>2, <2>3, <3>1 DEF SessionThere, AllPassed
    <3>3. t.chains[m.ephemeralKey] = Used(c, m.counter)
      BY <3>1 DEF ReadsIn
    <3>4. /\ c.seed = n.mac.key.seed
          /\ c.seed = m.mac.key.seed
          /\ c.chainType = "RECEIVING"
          /\ Gives(c, n.counter)
      BY <1>1, <2>3, <3>1 DEF HadChain, ReadsIn, Receiving
    <3>5. n.counter # m.counter /\ n.counter \in Int /\ m.counter \in Int
      BY <3>4
    <3>6. PICK d : d = Used(c, m.counter)
      OBVIOUS
    <3>7. /\ d.chainType = c.chainType
          /\ d.seed = c.seed
          /\ Gives(d, n.counter)
      BY <3>2, <3>4, <3>5, <3>6, UsedGives
    <3>8. HadChain(t, n)
      BY <2>2, <2>3, <3>3, <3>4, <3>6, <3>7 DEF HadChain, Receiving
    <3> QED  BY <3>8 DEF Reached
  <2>4. CASE n.ephemeralKey # m.ephemeralKey
    <3>1. t.chains[n.ephemeralKey] = s.chains[n.ephemeralKey]
      BY <2>1, <2>2, <2>4 DEF ReadsIn
    <3>2. HadChain(t, n)
      BY <1>1, <2>2, <3>1 DEF HadChain, Receiving
    <3> QED  BY <3>2 DEF Reached
  <2> QED  BY <2>3, <2>4
<1>2. CASE HadRoot(s, n) /\ n.ephemeralKey \notin DOMAIN s.chains
  <2>1. HadRoot(t, n) /\ n.ephemeralKey \notin DOMAIN t.chains
    BY <1>2 DEF HadRoot, ReadsIn, SameEnd
  <2> QED  BY <2>1 DEF Reached
<1> QED  BY <1>1, <1>2 DEF Reached

\* ... and one that turned: on a chain it had, except that the last one it
\* had keeps the keys up to previousCounter only ...
LEMMA TurnsKeepsChain ==
  ASSUME NEW p, NEW q, NEW s, SessionThere(p, q, s), AllPassed(s),
         NEW m, m.previousCounter \in Int, NEW t, TurnsOn(p, s, m, t),
         NEW n, n.counter \in Nat, HadChain(s, n),
         n.ephemeralKey = s.lastRemoteEphemeralKey =>
           /\ n.counter <= m.previousCounter
           /\ MessageKeysLimit # 0 => m.previousCounter < MessageKeysLimit
  PROVE  Reached(t, n)
<1>1. n.ephemeralKey \in Receiving(s) /\ n.ephemeralKey # s.ephemeralKeyPair
  BY ReceivingIsOther DEF HadChain
<1>2. n.ephemeralKey \in DOMAIN s.chains /\ n.ephemeralKey \in DOMAIN t.chains
  BY <1>1 DEF Receiving, TurnsOn
<1>3. CASE n.ephemeralKey = s.lastRemoteEphemeralKey
  <2>1. PICK c : c = s.chains[n.ephemeralKey]
    OBVIOUS
  <2>2. c \in ChainOver(Drawn) /\ Passed(c)
    BY <1>2, <2>1 DEF SessionThere, AllPassed
  <2>3. t.chains[n.ephemeralKey] = Retired(c, m.previousCounter)
    BY <1>1, <1>2, <1>3, <2>1 DEF TurnsOn
  <2>4. c.seed = n.mac.key.seed /\ c.chainType = "RECEIVING" /\ Gives(c, n.counter)
    BY <2>1 DEF HadChain, Receiving
  <2>5. PICK d : d = Retired(c, m.previousCounter)
    OBVIOUS
  <2>6. n.counter \in Int
    OBVIOUS
  <2>7. /\ d.chainType = c.chainType
        /\ d.seed = c.seed
        /\ Gives(d, n.counter)
    BY <1>3, <2>2, <2>4, <2>5, <2>6, RetiredGives
  <2>8. HadChain(t, n)
    BY <1>2, <2>3, <2>4, <2>5, <2>7 DEF HadChain, Receiving
  <2> QED  BY <2>8 DEF Reached
<1>4. CASE n.ephemeralKey # s.lastRemoteEphemeralKey
  <2>1. t.chains[n.ephemeralKey] = s.chains[n.ephemeralKey]
    BY <1>1, <1>2, <1>4 DEF TurnsOn
  <2>2. HadChain(t, n)
    BY <1>2, <2>1 DEF HadChain, Receiving
  <2> QED  BY <2>2 DEF Reached
<1> QED  BY <1>3, <1>4

\* ... and on the chain it made.
LEMMA TurnsMakesChain ==
  ASSUME NEW p, NEW s, NEW m, m.counter \in Nat, m.mac.key.seed \in Seq(SUBSET Drawn),
         MessageKeysLimit # 0 => m.counter < MessageKeysLimit,
         NEW t, TurnsOn(p, s, m, t),
         NEW n, n.counter \in Nat, n.mac.key.seed = m.mac.key.seed,
         n.ephemeralKey = m.ephemeralKey, n.counter # m.counter
  PROVE  Reached(t, n)
<1>1. PICK c : c = NewChain(m.mac.key.seed, "RECEIVING")
  OBVIOUS
<1>2. /\ c \in ChainOver(Drawn)
  BY <1>1, NewChainOver
<1>3. Passed(c) /\ c.chainType = "RECEIVING" /\ c.seed = m.mac.key.seed
  BY <1>1 DEF NewChain, Passed
<1>4. Gives(c, n.counter) /\ n.counter \in Int /\ m.counter \in Int
  BY <1>1 DEF NewChain, Gives
<1>5. PICK d : d = Used(c, m.counter)
  OBVIOUS
<1>6. /\ d.chainType = c.chainType
      /\ d.seed = c.seed
      /\ Gives(d, n.counter)
  BY <1>2, <1>3, <1>4, <1>5, UsedGives
<1>7. /\ m.ephemeralKey \in DOMAIN t.chains
      /\ t.chains[m.ephemeralKey] = d
  BY <1>1, <1>5 DEF TurnsOn
<1>8. HadChain(t, n)
  BY <1>3, <1>6, <1>7 DEF HadChain, Receiving
<1> QED  BY <1>8 DEF Reached

-----------------------------------------------------------------------------
\* Whose a message is that comes from the agreement of two parties.
LEMMA MessageParties ==
  ASSUME TypeInv, MessageEnds, NEW n \in network,
         NEW a, NEW b, NEW k, NEW x, Between(a, b, k, x), Agree(x, n.mac.key.seed)
  PROVE  /\ n.to = a => n.from = b
         /\ n.from = a => n.to = b
<1>1. PICK base : Between(n.from, n.to, base, n.mac.key.seed)
  BY DEF MessageEnds, MessageEnd
<1>2. (a = n.from /\ b = n.to) \/ (a = n.to /\ b = n.from)
  BY <1>1, BetweenSame
<1>3. n.from # n.to
  BY MessageIsThere DEF MessageThere
<1> QED  BY <1>2, <1>3

\* Which of its own messages, and of the other sessions, are of the agreement
\* of a session that is stored.
LEMMA SlotAlone ==
  ASSUME TypeInv, Ends, NEW p \in Parties, NEW q \in Parties, NEW k, Has(p, q, k),
         NEW a \in Parties, NEW b \in Parties, NEW j, Has(a, b, j),
         Agree(At(p, q, k).rootKey, At(a, b, j).rootKey)
  PROVE  j = k /\ ((a = p /\ b = q) \/ (a = q /\ b = p))
<1>1. SessionAgreed(p, q, k, At(p, q, k)) /\ SessionAgreed(a, b, j, At(a, b, j))
  BY DEF Ends, End
<1>2. Between(p, q, k, At(p, q, k).rootKey) /\ Between(a, b, j, At(a, b, j).rootKey)
  BY <1>1, AgreedBetween
<1> QED  BY <1>2, BetweenSame

\* With the one-time prekey of a header nobody got further.
LEMMA AnswersAlone ==
  ASSUME HeldUnanswered, NEW p \in Parties, NEW k, NEW m, NEW s, Answers(p, k, m, s)
  PROVE  /\ \A a, b \in Parties : \A j :
              Has(a, b, j) /\ Agree(s.rootKey, At(a, b, j).rootKey) =>
                Len(At(a, b, j).rootKey) = 5
         /\ \A n \in network : Agree(s.rootKey, n.mac.key.seed) =>
              Len(n.mac.key.seed) = 5 /\ n.from # p
<1>1. PICK key : key = PreKey(p, install[p], m.header.preKeyId)
  OBVIOUS
<1>2. Unanswered(p, key)
  BY <1>1 DEF HeldUnanswered, Answers
<1>3. key \in s.rootKey[4]
  BY <1>1 DEF Answers
<1>4. ASSUME NEW a \in Parties, NEW b \in Parties, NEW j, Has(a, b, j),
             Agree(s.rootKey, At(a, b, j).rootKey)
      PROVE  Len(At(a, b, j).rootKey) = 5
  BY <1>2, <1>3, <1>4 DEF Unanswered, StartsWith, Agree
<1>5. ASSUME NEW n \in network, Agree(s.rootKey, n.mac.key.seed)
      PROVE  Len(n.mac.key.seed) = 5 /\ n.from # p
  BY <1>2, <1>3, <1>5 DEF Unanswered, StartsWith, Agree
<1> QED  BY <1>4, <1>5

\* A message is read on a new chain, in a stored session or that of its header.
Opens(p, k, m, s) == /\ m.to = p
                     /\ HadRoot(s, m)
                     /\ \/ Has(p, m.from, k) /\ s = At(p, m.from, k)
                        \/ Answers(p, k, m, s)

\* The root key of that session.
OpensIs(p, k, m, s) ==
  /\ s.rootKey \in Seq(SUBSET Drawn)
  /\ s.rootKey \in Secrets
  /\ Len(s.rootKey) >= 4
  /\ Len(s.rootKey) \in Nat
  /\ s.ephemeralKeyPair \in KeysOf(p)
  /\ {m.ephemeralKey, s.ephemeralKeyPair} \subseteq Drawn
  /\ Agree(s.rootKey, m.mac.key.seed)
  /\ Len(m.mac.key.seed) = Len(s.rootKey) + 1
  /\ Between(p, m.from, k, s.rootKey)
  /\ m.mac.key.seed[Len(m.mac.key.seed)] = {m.ephemeralKey, s.ephemeralKeyPair}
LEMMA OpensHolds ==
  ASSUME TypeInv, Ends, NEW p \in Parties, NEW k, NEW m \in network, NEW s,
         Opens(p, k, m, s)
  PROVE  OpensIs(p, k, m, s)
<1>1. /\ MessageThere(m)
      /\ Drawn \subseteq Key
      /\ TablesTyped
  BY MessageIsThere, SeedsThere DEF TypeInv
<1>2. /\ s.rootKey \in Seq(SUBSET Drawn)
      /\ Len(s.rootKey) >= 4
      /\ s.ephemeralKeyPair \in KeysOf(p)
      /\ s.ephemeralKeyPair \in Drawn
      /\ Between(p, m.from, k, s.rootKey)
  <2>1. CASE Has(p, m.from, k) /\ s = At(p, m.from, k)
    <3>1. SessionThere(p, m.from, s)
      BY <1>1, <2>1, SessionIsThere DEF MessageThere
    <3>2. SessionAgreed(p, m.from, k, s)
      BY <1>1, <2>1 DEF Ends, End, MessageThere
    <3>3. Between(p, m.from, k, s.rootKey)
      BY <3>2, AgreedBetween
    <3>4. Len(s.rootKey) >= 4
      BY <3>1 DEF SessionThere
    <3>5. s.ephemeralKeyPair \in KeysOf(p)
      BY <3>1, SessionKeysDistinct DEF SessionThere
    <3> QED  BY <3>1, <3>3, <3>4, <3>5 DEF SessionThere
  <2>2. ASSUME Answers(p, k, m, s)
        PROVE  /\ s.rootKey \in Seq(SUBSET Drawn)
               /\ Len(s.rootKey) >= 4
               /\ s.ephemeralKeyPair \in KeysOf(p)
               /\ s.ephemeralKeyPair \in Drawn
               /\ Between(p, m.from, k, s.rootKey)
    <3>1. /\ install[p] \in Nat
          /\ m.header.preKeyId \in Nat
      BY <1>1, <2>2, PartyAssumption DEF TablesTyped, Answers
    <3>2. PICK n, id : n = install[p] /\ id = m.header.preKeyId
      OBVIOUS
    <3>3. s.rootKey[4] = {k, PreKey(p, n, id)} /\ k \in SessionKeys(m.from)
      BY <2>2, <3>2 DEF Answers
    <3>4. Between(p, m.from, k, s.rootKey)
      BY <3>1, <3>2, <3>3 DEF Between, Agreement
    <3>5. s.ephemeralKeyPair \in Drawn
      <4>1. PICK S : S = SUBSET Drawn
        OBVIOUS
      <4>2. s.rootKey \in Seq(S)
        BY <2>2, <4>1 DEF Answers
      <4>3. PICK secret : secret = {m.ephemeralKey, s.ephemeralKeyPair}
        OBVIOUS
      <4>4. Append(s.rootKey, secret) \in Seq(SUBSET Drawn)
        BY <1>1, <4>3 DEF Opens, HadRoot, MessageThere
      <4>5. secret \subseteq Drawn
        BY <4>2, <4>4, NewRootKey
      <4> QED  BY <4>3, <4>5
    <3> QED  BY <2>2, <3>4, <3>5 DEF Answers
  <2> QED  BY <2>1, <2>2 DEF Opens
<1>3. PICK secret : secret = {m.ephemeralKey, s.ephemeralKeyPair}
  OBVIOUS
<1>4. PICK S : S = SUBSET Drawn
  OBVIOUS
<1>5. secret \in S /\ s.rootKey \in Seq(S)
  BY <1>1, <1>2, <1>3, <1>4 DEF MessageThere
<1>6. PICK seed : seed = m.mac.key.seed
  OBVIOUS
<1>7. seed = Append(s.rootKey, secret)
  BY <1>3, <1>6 DEF Opens, HadRoot
<1>8. /\ Len(seed) = Len(s.rootKey) + 1
      /\ seed[Len(seed)] = secret
  BY <1>5, <1>7, AppendIs
<1>9. Agree(s.rootKey, seed)
  BY <1>2, <1>5, <1>7, AgreeLonger
<1>10. s.rootKey \in Secrets
  BY <1>1, <1>2 DEF Secrets
<1>11. Len(s.rootKey) \in Nat
  BY <1>2
<1> QED  BY <1>1, <1>2, <1>3, <1>6, <1>8, <1>9, <1>10, <1>11 DEF OpensIs, MessageThere

\* A key that ends the chain of the message, and is the peer's, is that of the
\* message.
LEMMA PeerKeyIs ==
  ASSUME NEW p, NEW q, p # q, NEW key \in SessionKeys(q), NEW ours \in KeysOf(p),
         NEW other \in SessionKeys(q), other \in {key, ours}
  PROVE  other = key
BY KeysApart, SessionKeysDistinct

\* The other end of that session is at the chain of the message.
LEMMA PeerIsThere ==
  ASSUME TypeInv, Ends, Ladder, HeldUnanswered,
         NEW p \in Parties, NEW k, NEW m \in network, NEW s, Opens(p, k, m, s),
         NEW j, Has(m.from, p, j), Agree(s.rootKey, At(m.from, p, j).rootKey)
  PROVE  /\ At(m.from, p, j).rootKey = m.mac.key.seed
         /\ At(m.from, p, j).ephemeralKeyPair = m.ephemeralKey
<1>1. MessageThere(m) /\ OpensIs(p, k, m, s)
  BY MessageIsThere, OpensHolds
<1>2. PICK u : u = At(m.from, p, j)
  OBVIOUS
<1>3. m.from \in Parties /\ m.from # p
  BY <1>1 DEF MessageThere, Opens
<1>4. SessionThere(m.from, p, u)
  BY <1>2, <1>3, SessionIsThere
<1>5. OwnSent(network, m.from, u)
  BY <1>2, <1>3 DEF Ends, End
<1>6. Agree(s.rootKey, u.rootKey)
  BY <1>2
<1>7. Agree(u.rootKey, m.mac.key.seed)
  BY <1>1, <1>6 DEF OpensIs, Agree
<1>8. Begins(m.mac.key.seed, u.rootKey)
  BY <1>5, <1>7 DEF OwnSent
<1>9. Len(u.rootKey) = Len(m.mac.key.seed)
  <2>1. CASE Has(p, m.from, k) /\ s = At(p, m.from, k)
    <3>1. Ahead(s, u) \/ Ahead(u, s)
      BY <1>2, <1>3, <1>6, <2>1 DEF Ladder, Either
    <3>2. {s.ephemeralKeyPair, u.ephemeralKeyPair} \in SUBSET Drawn
      BY <1>1, <1>4 DEF OpensIs, SessionThere
    <3>3. PICK S : S = SUBSET Drawn
      OBVIOUS
    <3>4. PICK x : x = {s.ephemeralKeyPair, u.ephemeralKeyPair}
      OBVIOUS
    <3>5. x \in S /\ s.rootKey \in Seq(S) /\ u.rootKey \in Seq(S)
      BY <1>1, <1>4, <3>2, <3>3, <3>4 DEF OpensIs, SessionThere
    <3>6. Ahead(s, u) => Len(s.rootKey) = Len(u.rootKey) + 1
      <4>1. Ahead(s, u) => s.rootKey = Append(u.rootKey, x)
        BY <3>4 DEF Ahead
      <4> QED  BY <3>5, <4>1, AppendIs
    <3>7. Ahead(u, s) => Len(u.rootKey) = Len(s.rootKey) + 1
      <4>1. {u.ephemeralKeyPair, s.ephemeralKeyPair} = x
        BY <3>4
      <4>2. Ahead(u, s) => u.rootKey = Append(s.rootKey, x)
        BY <4>1 DEF Ahead
      <4> QED  BY <3>5, <4>2, AppendIs
    <3>8. /\ Len(m.mac.key.seed) <= Len(u.rootKey)
          /\ Len(m.mac.key.seed) = Len(s.rootKey) + 1
          /\ Len(s.rootKey) \in Nat
          /\ Len(u.rootKey) \in Nat
      BY <1>1, <1>4, <1>8 DEF Begins, OpensIs, SessionThere
    <3> QED  BY <3>1, <3>6, <3>7, <3>8
  <2>2. ASSUME Answers(p, k, m, s)
        PROVE  Len(u.rootKey) = Len(m.mac.key.seed)
    <3>1. Len(u.rootKey) = 5
      BY <1>2, <1>3, <1>6, <2>2, AnswersAlone
    <3>2. Len(m.mac.key.seed) = 5
      BY <1>1, <2>2, AnswersAlone DEF OpensIs
    <3> QED  BY <3>1, <3>2
  <2> QED  BY <2>1, <2>2 DEF Opens
<1>10. u.rootKey = m.mac.key.seed
  <2>1. PICK S : S = SUBSET Drawn
    OBVIOUS
  <2>2. u.rootKey \in Seq(S) /\ m.mac.key.seed \in Seq(S)
    BY <1>1, <1>4, <2>1 DEF SessionThere, MessageThere
  <2> QED  BY <1>8, <1>9, <2>2, BeginsLaws
<1>11. u.ephemeralKeyPair \in {m.ephemeralKey, s.ephemeralKeyPair}
  BY <1>1, <1>4, <1>10 DEF OpensIs, SessionThere
<1>12. u.ephemeralKeyPair = m.ephemeralKey
  BY <1>1, <1>3, <1>4, <1>11, PeerKeyIs DEF OpensIs, SessionThere, MessageThere
<1> QED  BY <1>2, <1>10, <1>12

\* Another message that comes on that chain is on the chain of its key.
LEMMA ChainIsThat ==
  ASSUME TypeInv, Ends, MessageEnds, HeldUnanswered,
         NEW p \in Parties, NEW k, NEW m \in network, NEW s, Opens(p, k, m, s),
         NEW n \in network, n.to = p, Agree(s.rootKey, n.mac.key.seed),
         HadRoot(s, n) \/ Answers(p, k, m, s)
  PROVE  /\ n.from = m.from
         /\ n.mac.key.seed = m.mac.key.seed
         /\ n.ephemeralKey = m.ephemeralKey
<1>1. /\ MessageThere(m)
      /\ MessageThere(n)
      /\ OpensIs(p, k, m, s)
  BY MessageIsThere, OpensHolds
<1>2. n.from = m.from
  BY <1>1, MessageParties DEF OpensIs
<1>3. Len(n.mac.key.seed) = Len(m.mac.key.seed)
  <2>1. CASE HadRoot(s, n)
    <3>1. PICK S : S = SUBSET Drawn
      OBVIOUS
    <3>2. PICK x : x = {n.ephemeralKey, s.ephemeralKeyPair}
      OBVIOUS
    <3>3. x \in S /\ s.rootKey \in Seq(S)
      BY <1>1, <3>1, <3>2 DEF OpensIs, MessageThere
    <3>4. n.mac.key.seed = Append(s.rootKey, x)
      BY <2>1, <3>2 DEF HadRoot
    <3>5. Len(n.mac.key.seed) = Len(s.rootKey) + 1
      BY <3>3, <3>4, AppendIs
    <3> QED  BY <1>1, <3>5 DEF OpensIs
  <2>2. ASSUME Answers(p, k, m, s)
        PROVE  Len(n.mac.key.seed) = Len(m.mac.key.seed)
    BY <1>1, <2>2, AnswersAlone DEF OpensIs
  <2> QED  BY <2>1, <2>2
<1>4. Agree(n.mac.key.seed, m.mac.key.seed)
  BY <1>1 DEF OpensIs, Agree
<1>5. n.mac.key.seed = m.mac.key.seed
  BY <1>2, <1>3, <1>4 DEF MessageEnds, MessagesApart
<1>6. n.ephemeralKey \in {m.ephemeralKey, s.ephemeralKeyPair}
  BY <1>1, <1>5 DEF OpensIs, MessageEnds, MessageEnd
<1>7. n.ephemeralKey = m.ephemeralKey
  BY <1>1, <1>2, <1>6, PeerKeyIs DEF OpensIs, MessageThere, Opens
<1> QED  BY <1>2, <1>5, <1>7

-----------------------------------------------------------------------------
\* What a step does to the root keys: all sessions have theirs, or all but one
\* that is started, or that reads a message on a new chain.
SameEndsBut(p, q, k) ==
  \A a, b \in Parties : \A j :
    Has(a, b, j)' /\ <<a, b, j>> # <<p, q, k>> =>
      Has(a, b, j) /\ SameEnd(At(a, b, j), At(a, b, j)')
SameEnds ==
  \A a, b \in Parties : \A j :
    Has(a, b, j)' => Has(a, b, j) /\ SameEnd(At(a, b, j), At(a, b, j)')
TurnsFrom(p, k, m, s) == /\ ReadsFrom(p, k, m, s)
                         /\ Opens(p, k, m, s)
                         /\ Has(p, m.from, k)'
                         /\ TurnsOn(p, s, m, At(p, m.from, k)')

\* What holds has its root key.
LEMMA HoldsIsSame ==
  /\ AllHold => SameEnds
  /\ \A p, q, k : HoldBut(p, q, k) => SameEndsBut(p, q, k)
  /\ \A p, q, k : HoldBut(p, q, k) /\ ~Has(p, q, k)' => AllHold
<1>1. AllHold => SameEnds
  BY DEF AllHold, SameEnds, Holds
<1>2. \A p, q, k : HoldBut(p, q, k) => SameEndsBut(p, q, k)
  BY DEF HoldBut, SameEndsBut, Holds
<1>3. ASSUME NEW p, NEW q, NEW k, HoldBut(p, q, k), ~Has(p, q, k)'
      PROVE  AllHold
  <2>1. ASSUME NEW a \in Parties, NEW b \in Parties, NEW j, Has(a, b, j)'
        PROVE  Has(a, b, j) /\ Holds(At(a, b, j), At(a, b, j)')
    <3>1. <<a, b, j>> # <<p, q, k>>
      BY <1>3, <2>1
    <3> QED  BY <1>3, <2>1, <3>1 DEF HoldBut
  <2> QED  BY <2>1 DEF AllHold
<1> QED  BY <1>1, <1>2, <1>3

\* A message that is read is read in place, or opens a chain.
LEMMA ReadKinds ==
  ASSUME NEW p \in Parties, NEW m \in network, NEW k, NEW s, ReadsFrom(p, k, m, s)
  PROVE  \/ AllHold
         \/ /\ Has(p, m.from, k)
            /\ Has(p, m.from, k)'
            /\ ReadsIn(At(p, m.from, k), m, At(p, m.from, k)')
         \/ TurnsFrom(p, k, m, s)
<1>1. CASE ~Has(p, m.from, k)'
  BY <1>1, HoldsIsSame DEF ReadsFrom
<1>2. CASE Has(p, m.from, k)'
  <2>1. \/ /\ Has(p, m.from, k)
           /\ s = At(p, m.from, k)
           /\ \/ ReadsIn(s, m, At(p, m.from, k)')
              \/ TurnsOn(p, s, m, At(p, m.from, k)')
        \/ /\ Answers(p, k, m, s)
           /\ TurnsOn(p, s, m, At(p, m.from, k)')
    BY <1>2 DEF ReadsFrom
  <2>2. ASSUME TurnsOn(p, s, m, At(p, m.from, k)')
        PROVE  TurnsFrom(p, k, m, s)
    <3>1. HadRoot(s, m)
      BY <2>2 DEF TurnsOn
    <3>2. m.to = p
      BY DEF ReadsFrom
    <3>3. Opens(p, k, m, s)
      BY <2>1, <3>1, <3>2 DEF Opens
    <3> QED  BY <1>2, <2>2, <3>3 DEF TurnsFrom
  <2> QED  BY <1>2, <2>1, <2>2
<1> QED  BY <1>1, <1>2

\* So the root keys move in one of three ways.
LEMMA StepKinds ==
  ASSUME EndStep
  PROVE  \/ SameEnds
         \/ \E p \in Parties : \E q \in Parties \ {p} : \E k :
              StartsEnd(p, q, k) /\ Has(p, q, k)'
         \/ \E p \in Parties : \E m \in network : \E k, s : TurnsFrom(p, k, m, s)
<1>1. CASE AllHold
  BY <1>1, HoldsIsSame
<1>2. ASSUME NEW p \in Parties, NEW q \in Parties \ {p}, NEW k, StartsEnd(p, q, k)
      PROVE  SameEnds \/ Has(p, q, k)'
  BY <1>2, HoldsIsSame DEF StartsEnd
<1>3. ASSUME NEW p, NEW q, NEW k, NEW m, SendsFrom(p, q, k, m)
      PROVE  SameEnds
  BY <1>3, HoldsIsSame DEF SendsFrom
<1>4. ASSUME NEW p \in Parties, NEW m \in network, NEW k, NEW s, ReadsFrom(p, k, m, s)
      PROVE  SameEnds \/ TurnsFrom(p, k, m, s)
  <2>1. CASE AllHold
    BY <2>1, HoldsIsSame
  <2>2. CASE /\ Has(p, m.from, k)
             /\ Has(p, m.from, k)'
             /\ ReadsIn(At(p, m.from, k), m, At(p, m.from, k)')
    <3>1. HoldBut(p, m.from, k)
      BY <1>4 DEF ReadsFrom
    <3>2. ASSUME NEW a \in Parties, NEW b \in Parties, NEW j, Has(a, b, j)'
          PROVE  Has(a, b, j) /\ SameEnd(At(a, b, j), At(a, b, j)')
      <4>1. CASE <<a, b, j>> = <<p, m.from, k>>
        BY <2>2, <4>1 DEF ReadsIn
      <4>2. CASE <<a, b, j>> # <<p, m.from, k>>
        BY <3>1, <3>2, <4>2 DEF HoldBut, Holds
      <4> QED  BY <4>1, <4>2
    <3> QED  BY <3>2 DEF SameEnds
  <2>3. CASE TurnsFrom(p, k, m, s)
    BY <2>3
  <2> QED  BY <1>4, <2>1, <2>2, <2>3, ReadKinds
<1> QED  BY <1>1, <1>2, <1>3, <1>4 DEF EndStep

-----------------------------------------------------------------------------
\* The ladder, when one session at most has another root key.
LEMMA LadderBut ==
  ASSUME TypeInv, Ladder, NEW p \in Parties, NEW q \in Parties, p # q, NEW k,
         SameEndsBut(p, q, k), NEW t, t = At(p, q, k)',
         \A j : Has(q, p, j) => /\ Agree(t.rootKey, At(q, p, j).rootKey) =>
                                     Ahead(t, At(q, p, j))
  PROVE  Ladder'
<1>1. ASSUME NEW a \in Parties, NEW b \in Parties, NEW i, NEW j, Has(a, b, i)', Has(b, a, j)'
      PROVE  Either(At(a, b, i)', At(b, a, j)')
  <2>1. PICK s, u : s = At(a, b, i) /\ u = At(b, a, j)
    OBVIOUS
  <2>2. PICK v, w : v = At(a, b, i)' /\ w = At(b, a, j)'
    OBVIOUS
  <2>3. CASE <<a, b, i>> = <<p, q, k>>
    <3>1. <<b, a, j>> # <<p, q, k>>
      BY <2>3
    <3>2. Has(b, a, j) /\ SameEnd(u, w)
      BY <1>1, <2>1, <2>2, <3>1 DEF SameEndsBut
    <3>3. v = t
      BY <2>2, <2>3
    <3>4. Agree(t.rootKey, u.rootKey) => Ahead(t, u)
      BY <2>1, <2>3, <3>2
    <3>5. Ahead(t, u) => Ahead(t, w)
      BY <3>2 DEF Ahead, SameEnd
    <3>6. Either(v, w)
      BY <3>2, <3>3, <3>4, <3>5 DEF Either, SameEnd
    <3> QED  BY <2>2, <3>6
  <2>4. CASE <<b, a, j>> = <<p, q, k>>
    <3>1. <<a, b, i>> # <<p, q, k>>
      BY <2>4
    <3>2. Has(a, b, i) /\ SameEnd(s, v)
      BY <1>1, <2>1, <2>2, <3>1 DEF SameEndsBut
    <3>3. w = t
      BY <2>2, <2>4
    <3>4. Agree(t.rootKey, s.rootKey) => Ahead(t, s)
      BY <2>1, <2>4, <3>2
    <3>5. Ahead(t, s) => Ahead(t, v)
      BY <3>2 DEF Ahead, SameEnd
    <3>6. Agree(v.rootKey, w.rootKey) => Agree(w.rootKey, v.rootKey)
      BY AgreeLaws
    <3>7. Either(v, w)
      BY <3>2, <3>3, <3>4, <3>5, <3>6 DEF Either, SameEnd
    <3> QED  BY <2>2, <3>7
  <2>5. CASE <<a, b, i>> # <<p, q, k>> /\ <<b, a, j>> # <<p, q, k>>
    <3>1. Has(a, b, i) /\ SameEnd(s, v) /\ Has(b, a, j) /\ SameEnd(u, w)
      BY <1>1, <2>1, <2>2, <2>5 DEF SameEndsBut
    <3>2. Either(s, u)
      BY <2>1, <3>1 DEF Ladder
    <3>3. Either(v, w)
      BY <3>1, <3>2, EitherSame
    <3> QED  BY <2>2, <3>3
  <2> QED  BY <2>3, <2>4, <2>5
<1> QED  BY <1>1 DEF Ladder

\* The root key after a turn.
LEMMA TurnedRoot ==
  ASSUME NEW p, NEW k, NEW m, MessageThere(m), NEW s, OpensIs(p, k, m, s), HadRoot(s, m),
         NEW t, TurnsOn(p, s, m, t)
  PROVE  /\ Agree(s.rootKey, t.rootKey)
         /\ Agree(m.mac.key.seed, t.rootKey)
         /\ Len(t.rootKey) = Len(s.rootKey) + 2
         /\ \A seed \in Seq(SUBSET Drawn) : Begins(seed, s.rootKey) => Begins(seed, t.rootKey)
<1>1. PICK x : x = {m.ephemeralKey, t.ephemeralKeyPair}
  OBVIOUS
<1>2. PICK y : y = {m.ephemeralKey, s.ephemeralKeyPair}
  OBVIOUS
<1>3. PICK S : S = (SUBSET Drawn) \cup {x}
  OBVIOUS
<1>4. PICK root, mid : root = s.rootKey /\ mid = m.mac.key.seed
  OBVIOUS
<1>5. /\ mid \in Seq(S)
      /\ root \in Seq(S)
      /\ x \in S
      /\ y \in S
      /\ \A seed \in Seq(SUBSET Drawn) : seed \in Seq(S)
      /\ Len(mid) \in Nat
      /\ Len(mid) >= 4
      /\ Len(mid) = Len(root) + 1
      /\ Len(root) \in Nat
      /\ Agree(root, mid)
  BY <1>2, <1>3, <1>4 DEF MessageThere, OpensIs
<1>6. t.rootKey = Append(mid, x) /\ mid = Append(root, y)
  BY <1>1, <1>2, <1>4 DEF TurnsOn, HadRoot
<1>7. Agree(mid, t.rootKey)
  BY <1>5, <1>6, AgreeLonger
<1>8. Agree(root, t.rootKey)
  BY <1>5, <1>7, AgreeLaws
<1>9. Len(t.rootKey) = Len(root) + 2
  <2>1. Len(t.rootKey) = Len(mid) + 1
    BY <1>5, <1>6, AppendIs
  <2> QED  BY <1>5, <2>1
<1>10. ASSUME NEW seed \in Seq(SUBSET Drawn), Begins(seed, root)
       PROVE  Begins(seed, t.rootKey)
  <2>1. seed \in Seq(S)
    BY <1>5
  <2>2. Begins(seed, mid)
    <3>1. \A z \in S : Begins(seed, Append(root, z))
      BY <1>5, <1>10, <2>1, BeginsLaws
    <3> QED  BY <1>5, <1>6, <3>1
  <2>3. \A z \in S : Begins(seed, Append(mid, z))
    BY <1>5, <2>1, <2>2, BeginsLaws
  <2> QED  BY <1>5, <1>6, <2>3
<1> QED  BY <1>4, <1>7, <1>8, <1>9, <1>10

\* The session that is started agrees with none; the one that turned is ahead
\* of the end it read from.
LEMMA LadderStays ==
  ASSUME TypeInv, Ends, Ladder, HeldUnanswered, EndStep
  PROVE  Ladder'
<1>1. CASE SameEnds
  <2>1. ASSUME NEW a \in Parties, NEW b \in Parties, NEW i, NEW j, Has(a, b, i)', Has(b, a, j)'
        PROVE  Either(At(a, b, i)', At(b, a, j)')
    <3>1. PICK s, u : s = At(a, b, i) /\ u = At(b, a, j)
      OBVIOUS
    <3>2. PICK v, w : v = At(a, b, i)' /\ w = At(b, a, j)'
      OBVIOUS
    <3>3. Has(a, b, i) /\ SameEnd(s, v) /\ Has(b, a, j) /\ SameEnd(u, w)
      BY <1>1, <2>1, <3>1, <3>2 DEF SameEnds
    <3>4. Either(s, u)
      BY <3>1, <3>3 DEF Ladder
    <3>5. Either(v, w)
      BY <3>3, <3>4, EitherSame
    <3> QED  BY <3>2, <3>5
  <2> QED  BY <2>1 DEF Ladder
<1>2. ASSUME NEW p \in Parties, NEW q \in Parties \ {p}, NEW k, StartsEnd(p, q, k),
             Has(p, q, k)'
      PROVE  Ladder'
  <2>1. PICK t : t = At(p, q, k)'
    OBVIOUS
  <2>2. SameEndsBut(p, q, k) /\ k \notin Drawn /\ k \in t.rootKey[4]
    BY <1>2, <2>1, HoldsIsSame DEF StartsEnd
  <2>3. ASSUME NEW j, Has(q, p, j)
        PROVE  ~Agree(t.rootKey, At(q, p, j).rootKey)
    <3>1. SessionThere(q, p, At(q, p, j))
      BY <2>3, SessionIsThere
    <3>2. PICK seed : seed = At(q, p, j).rootKey
      OBVIOUS
    <3>3. seed \in Seq(SUBSET Drawn) /\ Len(seed) >= 4
      BY <3>1, <3>2 DEF SessionThere
    <3>4. ~Agree(t.rootKey, seed)
      BY <2>2, <3>3, NewAgreesNot
    <3> QED  BY <3>2, <3>4
  <2> QED  BY <2>1, <2>2, <2>3, LadderBut
<1>3. ASSUME NEW p \in Parties, NEW m \in network, NEW k, NEW s, TurnsFrom(p, k, m, s)
      PROVE  Ladder'
  <2>1. PICK t : t = At(p, m.from, k)'
    OBVIOUS
  <2>2. /\ Opens(p, k, m, s)
        /\ SameEndsBut(p, m.from, k)
        /\ TurnsOn(p, s, m, t)
    BY <1>3, <2>1, HoldsIsSame DEF TurnsFrom, ReadsFrom
  <2>3. MessageThere(m) /\ OpensIs(p, k, m, s)
    BY <2>2, MessageIsThere, OpensHolds
  <2>4. /\ t.rootKey = Append(m.mac.key.seed, {m.ephemeralKey, t.ephemeralKeyPair})
        /\ t.ephemeralKeyPair \notin Drawn
        /\ Agree(s.rootKey, t.rootKey)
    BY <2>2, <2>3, TurnedRoot DEF TurnsOn
  <2>5. ASSUME NEW j, Has(m.from, p, j), Agree(t.rootKey, At(m.from, p, j).rootKey)
        PROVE  Ahead(t, At(m.from, p, j))
    <3>1. PICK u : u = At(m.from, p, j)
      OBVIOUS
    <3>2. SessionThere(m.from, p, u)
      BY <2>3, <2>5, <3>1, SessionIsThere DEF MessageThere
    <3>3. Agree(s.rootKey, u.rootKey)
      BY <2>4, <2>5, <3>1, AgreeLaws
    <3>4. u.rootKey = m.mac.key.seed /\ u.ephemeralKeyPair = m.ephemeralKey
      BY <2>2, <2>5, <3>1, <3>3, PeerIsThere
    <3>5. t.ephemeralKeyPair \notin DOMAIN u.chains
      BY <2>4, <3>2 DEF SessionThere
    <3>6. {m.ephemeralKey, t.ephemeralKeyPair} = {t.ephemeralKeyPair, m.ephemeralKey}
      OBVIOUS
    <3>7. Ahead(t, u)
      BY <2>4, <3>4, <3>5, <3>6 DEF Ahead
    <3> QED  BY <3>1, <3>7
  <2>6. m.from \in Parties /\ p # m.from
    BY <2>2, <2>3 DEF MessageThere, Opens
  <2> QED  BY <2>1, <2>2, <2>5, <2>6, LadderBut
<1> QED  BY <1>1, <1>2, <1>3, StepKinds

-----------------------------------------------------------------------------
\* Nothing is sent, or one message of an open session.
LEMMA NetworkKinds ==
  ASSUME EndStep
  PROVE  \/ network' = network
         \/ \E p \in Parties : \E q \in Parties \ {p} : \E k, m : SendsFrom(p, q, k, m)
<1>1. ASSUME NEW p \in Parties, NEW q \in Parties \ {p}, NEW k, StartsEnd(p, q, k)
      PROVE  network' = network
  BY <1>1 DEF StartsEnd
<1>2. ASSUME NEW p \in Parties, NEW m \in network, NEW k, NEW s, ReadsFrom(p, k, m, s)
      PROVE  network' = network
  BY <1>2 DEF ReadsFrom
<1> QED  BY <1>1, <1>2 DEF EndStep

\* A one-time prekey that is held after a step was held before, or was not
\* there; in either case nobody got far with it.
LEMMA HeldBefore ==
  ASSUME TypeInv, RootsFree, HeldUnanswered, PreKeysUsed, NothingLeft, TypeInv',
         NEW r \in Parties, NEW id \in preKeys'[r], NEW key, key = PreKey(r, install'[r], id)
  PROVE  /\ Unanswered(r, key)
         /\ \A q \in Parties : \A k : Has(r, q, k) => key \notin At(r, q, k).rootKey[4]
<1>1. CASE install'[r] = install[r] /\ preKeys'[r] \subseteq preKeys[r]
  <2>1. key = PreKey(r, install[r], id) /\ id \in preKeys[r]
    BY <1>1
  <2>2. Unanswered(r, key)
    BY <2>1 DEF HeldUnanswered
  <2>3. ASSUME NEW q \in Parties, NEW k, Has(r, q, k)
        PROVE  key \notin At(r, q, k).rootKey[4]
    <3>1. SessionThere(r, q, At(r, q, k))
      BY <2>3, SessionIsThere
    <3>2. 4 \in DOMAIN At(r, q, k).rootKey
      BY <3>1 DEF SessionThere
    <3>3. id \in Held(r)
      BY <2>1 DEF Held, NothingLeft
    <3> QED  BY <2>1, <2>3, <3>2, <3>3 DEF RootsFree, Free, FreeOf
  <2> QED  BY <2>2, <2>3
<1>2. CASE install'[r] = install[r] + 1
  <2>1. /\ install \in [Parties -> Nat]
        /\ fresh \in [Parties -> Nat]
        /\ id \in Nat
    BY PartyAssumption DEF TypeInv, TablesTyped
  <2>2. PICK n : n = install'[r]
    OBVIOUS
  <2>3. n \in Nat /\ ~(n <= install[r])
    BY <1>2, <2>1, <2>2
  <2>4. key \notin Drawn
    BY <2>1, <2>2, <2>3, KeysMadeHas DEF Drawn
  <2>5. ASSUME NEW p \in Parties, NEW q \in Parties, NEW k, Has(p, q, k)
        PROVE  key \notin At(p, q, k).rootKey[4]
    <3>1. SessionThere(p, q, At(p, q, k))
      BY <2>5, SessionIsThere
    <3>2. PICK seed : seed = At(p, q, k).rootKey
      OBVIOUS
    <3>3. seed \in Seq(SUBSET Drawn) /\ Len(seed) >= 4
      BY <3>1, <3>2 DEF SessionThere
    <3>4. key \notin seed[4]
      BY <2>4, <3>3, NewNotIn
    <3> QED  BY <3>2, <3>4
  <2>6. ASSUME NEW m \in network
        PROVE  key \notin m.mac.key.seed[4]
    <3>1. PICK seed : seed = m.mac.key.seed
      OBVIOUS
    <3>2. seed \in Seq(SUBSET Drawn) /\ Len(seed) >= 4
      BY <3>1, MessageIsThere DEF MessageThere
    <3>3. key \notin seed[4]
      BY <2>4, <3>2, NewNotIn
    <3> QED  BY <3>1, <3>3
  <2> QED  BY <2>5, <2>6 DEF Unanswered, StartsWith
<1> QED  BY <1>1, <1>2 DEF PreKeysUsed

\* The session that turned got further with no prekey that is held.
LEMMA TurnsUnheld ==
  ASSUME TypeInv, Ends, HeldUnanswered, RootsFree, PreKeysUsed, NothingLeft, TypeInv',
         NEW p \in Parties, NEW m \in network, NEW k, NEW s, TurnsFrom(p, k, m, s),
         NEW r \in Parties, NEW id \in preKeys'[r], NEW key, key = PreKey(r, install'[r], id)
  PROVE  key \notin s.rootKey[4]
<1>1. /\ Opens(p, k, m, s)
      /\ install' = install
  BY DEF TurnsFrom, ReadsFrom
<1>2. MessageThere(m) /\ OpensIs(p, k, m, s)
  BY <1>1, MessageIsThere, OpensHolds
<1>3. Unanswered(r, key)
  BY HeldBefore
<1>4. CASE Has(p, m.from, k) /\ s = At(p, m.from, k)
  <2>1. SessionThere(p, m.from, s)
    BY <1>2, <1>4, SessionIsThere DEF MessageThere
  <2>2. s.rootKey[4] = m.mac.key.seed[4]
    BY <1>2 DEF OpensIs, Agree
  <2>3. StartsWith(key, m.mac.key.seed)
    BY <1>3 DEF Unanswered
  <2>4. ~(Len(m.mac.key.seed) = 5)
    BY <1>2, <2>1 DEF SessionThere, OpensIs
  <2> QED  BY <2>2, <2>3, <2>4 DEF StartsWith
<1>5. ASSUME Answers(p, k, m, s)
      PROVE  key \notin s.rootKey[4]
  <2>1. PICK n : n = install[p]
    OBVIOUS
  <2>2. PICK header : header = m.header.preKeyId
    OBVIOUS
  <2>3. /\ s.rootKey[4] = {k, PreKey(p, n, header)}
        /\ k \in SessionKeys(m.from)
        /\ header \notin preKeys'[p]
    BY <1>5, <2>1, <2>2 DEF Answers
  <2>4. key = PreKey(r, install[r], id)
    BY <1>1
  <2>5. key # PreKey(p, n, header)
    <3>1. CASE r = p
      BY <2>1, <2>3, <2>4, <3>1 DEF PreKey
    <3>2. CASE r # p
      BY <2>4, <3>2 DEF PreKey
    <3> QED  BY <3>1, <3>2
  <2>6. key # k
    BY <2>3, <2>4 DEF SessionKeys, SessionKey, PreKey
  <2> QED  BY <2>3, <2>5, <2>6
<1> QED  BY <1>1, <1>4, <1>5 DEF Opens

\* So nobody gets further with a prekey that is held.
LEMMA HeldStays ==
  ASSUME TypeInv, Ends, HeldUnanswered, RootsFree, PreKeysUsed, NothingLeft, TypeInv',
         EndStep
  PROVE  HeldUnanswered'
<1>1. SUFFICES ASSUME NEW r \in Parties, NEW id \in preKeys'[r],
                      NEW key, key = PreKey(r, install'[r], id)
               PROVE  Unanswered(r, key)'
  BY DEF HeldUnanswered, Unanswered
<1>2. key = PreKey(r, install'[r], id)
  BY <1>1
<1>3. /\ Unanswered(r, key)
      /\ \A q \in Parties : \A k : Has(r, q, k) => key \notin At(r, q, k).rootKey[4]
  BY <1>2, HeldBefore
<1>4. ASSUME NEW a \in Parties, NEW b \in Parties, NEW j, Has(a, b, j)', Has(a, b, j),
             SameEnd(At(a, b, j), At(a, b, j)')
      PROVE  StartsWith(key, At(a, b, j)'.rootKey)
  BY <1>3, <1>4 DEF Unanswered, SameEnd
<1>5. ASSUME NEW a \in Parties, NEW b \in Parties, NEW j, Has(a, b, j)'
      PROVE  StartsWith(key, At(a, b, j)'.rootKey)
  <2>1. CASE SameEnds
    BY <1>4, <1>5, <2>1 DEF SameEnds
  <2>2. ASSUME NEW p \in Parties, NEW q \in Parties \ {p}, NEW k, StartsEnd(p, q, k),
               Has(p, q, k)'
        PROVE  StartsWith(key, At(a, b, j)'.rootKey)
    <3>1. CASE <<a, b, j>> = <<p, q, k>>
      BY <2>2, <3>1 DEF StartsEnd, StartsWith
    <3>2. CASE <<a, b, j>> # <<p, q, k>>
      <4>1. SameEndsBut(p, q, k)
        BY <2>2, HoldsIsSame DEF StartsEnd
      <4> QED  BY <1>4, <1>5, <3>2, <4>1 DEF SameEndsBut
    <3> QED  BY <3>1, <3>2
  <2>3. ASSUME NEW p \in Parties, NEW m \in network, NEW k, NEW s, TurnsFrom(p, k, m, s)
        PROVE  StartsWith(key, At(a, b, j)'.rootKey)
    <3>1. CASE <<a, b, j>> = <<p, m.from, k>>
      <4>1. PICK t : t = At(p, m.from, k)'
        OBVIOUS
      <4>2. TurnsOn(p, s, m, t) /\ Opens(p, k, m, s)
        BY <2>3, <4>1 DEF TurnsFrom
      <4>3. MessageThere(m) /\ OpensIs(p, k, m, s) /\ HadRoot(s, m)
        BY <4>2, MessageIsThere, OpensHolds DEF Opens
      <4>4. Agree(s.rootKey, t.rootKey)
        BY <4>2, <4>3, TurnedRoot
      <4>5. key \notin s.rootKey[4]
        BY <1>2, <2>3, TurnsUnheld
      <4>6. key \notin t.rootKey[4]
        BY <4>4, <4>5 DEF Agree
      <4> QED  BY <3>1, <4>1, <4>6 DEF StartsWith
    <3>2. CASE <<a, b, j>> # <<p, m.from, k>>
      <4>1. SameEndsBut(p, m.from, k)
        BY <2>3, HoldsIsSame DEF TurnsFrom, ReadsFrom
      <4> QED  BY <1>4, <1>5, <3>2, <4>1 DEF SameEndsBut
    <3> QED  BY <3>1, <3>2
  <2> QED  BY <2>1, <2>2, <2>3, StepKinds
<1>6. ASSUME NEW n \in network'
      PROVE  StartsWith(key, n.mac.key.seed) /\ (n.from = r => key \notin n.mac.key.seed[4])
  <2>1. CASE n \in network
    BY <1>3, <2>1 DEF Unanswered
  <2>2. CASE n \notin network
    <3>1. PICK p \in Parties : \E q \in Parties \ {p} : \E k, m : SendsFrom(p, q, k, m)
      BY <2>2, NetworkKinds
    <3>q. PICK q \in Parties \ {p} : \E k, m : SendsFrom(p, q, k, m)
      BY <3>1
    <3>2. PICK k, m : SendsFrom(p, q, k, m)
      BY <3>q
    <3>3. n = m /\ Has(p, q, k) /\ Carries(m, p, q, At(p, q, k))
      BY <2>2, <3>2 DEF SendsFrom
    <3>4. n.from = p /\ n.mac.key.seed = At(p, q, k).rootKey
      BY <3>3 DEF Carries, MessageKey
    <3> QED  BY <1>3, <3>3, <3>4 DEF Unanswered
  <2> QED  BY <2>1, <2>2
<1> QED  BY <1>5, <1>6 DEF Unanswered

-----------------------------------------------------------------------------
\* What a message says that is sent in a session.
LEMMA SentIsEnd ==
  ASSUME Ends, NEW p \in Parties, NEW q \in Parties, NEW k, NEW m, SendsFrom(p, q, k, m),
         TypeInv
  PROVE  MessageEnd(m) /\ m.from = p /\ m.to = q /\ m.mac.key.seed = At(p, q, k).rootKey
<1>1. PICK s : s = At(p, q, k)
  OBVIOUS
<1>2. /\ Has(p, q, k)
      /\ Carries(m, p, q, s)
      /\ m.header = Header(p, s)
      /\ m.mac.sender = Identity(p)
      /\ m.mac.receiver = s.remoteIdentityKey
  BY <1>1 DEF SendsFrom
<1>3. /\ SessionAgreed(p, q, k, s)
      /\ SessionOffers(p, q, s)
      /\ SessionThere(p, q, s)
  BY <1>1, <1>2, SessionIsThere DEF Ends, End
<1>4. /\ m.from = p
      /\ m.to = q
      /\ m.ephemeralKey = s.ephemeralKeyPair
      /\ m.mac.key.seed = s.rootKey
  BY <1>2 DEF Carries, MessageKey
<1>5. Between(m.from, m.to, k, m.mac.key.seed)
  BY <1>3, <1>4, AgreedBetween
<1>6. m.ephemeralKey \in m.mac.key.seed[Len(m.mac.key.seed)]
  BY <1>3, <1>4 DEF SessionThere
<1>7. m.header # None =>
        /\ m.header.identityKey = m.mac.sender
        /\ Offered(m.to, m.header.identityKey, m.mac.receiver, m.header.preKeyId,
                   m.header.signedPreKeyId, m.header.baseKey, m.ephemeralKey, m.mac.key.seed)
  BY <1>2, <1>3, <1>4 DEF Header, SessionOffers
<1> QED  BY <1>1, <1>4, <1>5, <1>6, <1>7 DEF MessageEnd

\* A message that is sent, and those its sender sent before.
LEMMA SentIsApart ==
  ASSUME Ends, NEW p \in Parties, NEW q \in Parties, NEW k, NEW m, SendsFrom(p, q, k, m),
         TypeInv, NEW n \in network
  PROVE  MessagesApart(m, n) /\ MessagesApart(n, m) /\ MessagesApart(m, m)
<1>1. PICK s : s = At(p, q, k)
  OBVIOUS
<1>2. /\ Has(p, q, k)
      /\ IsOpen(s)
      /\ Carries(m, p, q, s)
  BY <1>1 DEF SendsFrom
<1>3. /\ OwnSent(network, p, s)
      /\ PreviousOK(network, p, s)
      /\ SessionThere(p, q, s)
      /\ MessageThere(n)
  BY <1>1, <1>2, SessionIsThere, MessageIsThere DEF Ends, End
<1>4. PICK root : root = s.rootKey
  OBVIOUS
<1>5. PICK seed : seed = n.mac.key.seed
  OBVIOUS
<1>6. /\ m.from = p
      /\ m.mac.key.seed = root
      /\ m.previousCounter = s.previousCounter
  BY <1>2, <1>4 DEF Carries, MessageKey
<1>7. /\ root \in Secrets
      /\ seed \in Secrets
      /\ root \in Seq(SUBSET Drawn)
      /\ seed \in Seq(SUBSET Drawn)
      /\ Len(root) \in Nat
      /\ Len(seed) \in Nat
  BY <1>3, <1>4, <1>5 DEF SessionThere, MessageThere
<1>8. ASSUME n.from = p, Agree(root, seed)
      PROVE  Len(seed) <= Len(root) /\ (Len(seed) = Len(root) => seed = root)
  <2>1. Begins(seed, root)
    BY <1>3, <1>4, <1>5, <1>8 DEF OwnSent
  <2>2. Len(seed) <= Len(root)
    BY <2>1 DEF Begins
  <2>3. PICK S : S = SUBSET Drawn
    OBVIOUS
  <2>4. seed \in Seq(S) /\ root \in Seq(S)
    BY <1>7, <2>3
  <2>5. Len(seed) = Len(root) => seed = root
    BY <2>1, <2>4, BeginsLaws
  <2> QED  BY <2>2, <2>5
<1>9. ~Before(root, root)
  BY <1>7, NotBefore
<1>10. ASSUME n.from = p
       PROVE  ~Before(root, seed)
  <2>1. SUFFICES ASSUME Before(root, seed)
                 PROVE  FALSE
    OBVIOUS
  <2>2. Agree(root, seed) /\ Len(seed) = Len(root) + 2
    BY <1>7, <2>1, NotBefore
  <2>3. Len(seed) <= Len(root)
    BY <1>8, <1>10, <2>2
  <2> QED  BY <1>7, <2>2, <2>3
<1>11. n.from = p /\ Before(seed, root) => n.counter <= s.previousCounter
  BY <1>2, <1>3, <1>4, <1>5 DEF PreviousOK
<1>12. Agree(seed, root) => Agree(root, seed)
  BY AgreeLaws
<1>13. MessagesApart(m, n)
  BY <1>5, <1>6, <1>8, <1>11 DEF MessagesApart
<1>14. MessagesApart(n, m)
  BY <1>5, <1>6, <1>8, <1>10, <1>12 DEF MessagesApart
<1>15. MessagesApart(m, m)
  BY <1>6, <1>9 DEF MessagesApart
<1> QED  BY <1>13, <1>14, <1>15

\* The messages.
LEMMA MessageEndsStay ==
  ASSUME TypeInv, Ends, MessageEnds, EndStep
  PROVE  MessageEnds'
<1>1. CASE network' = network
  BY <1>1 DEF MessageEnds
<1>2. ASSUME NEW p \in Parties, NEW q \in Parties, NEW k, NEW m, SendsFrom(p, q, k, m)
      PROVE  MessageEnds'
  <2>1. network' = network \cup {m}
    BY <1>2 DEF SendsFrom
  <2>2. \A n \in network' : MessageEnd(n)
    BY <1>2, <2>1, SentIsEnd DEF MessageEnds
  <2>3. MessagesApart(m, m)
    <3>1. PICK s : s = At(p, q, k)
      OBVIOUS
    <3>2. SessionThere(p, q, s) /\ m.mac.key.seed = s.rootKey
      BY <1>2, <3>1, SessionIsThere, SentIsEnd DEF SendsFrom
    <3>3. ~Before(s.rootKey, s.rootKey)
      <4>1. PICK root : root = s.rootKey
        OBVIOUS
      <4>2. root \in Secrets /\ Len(root) \in Nat
        BY <3>2, <4>1 DEF SessionThere
      <4>3. ~Before(root, root)
        BY <4>2, NotBefore
      <4> QED  BY <4>1, <4>3
    <3> QED  BY <3>2, <3>3 DEF MessagesApart
  <2>4. \A x, y \in network' : MessagesApart(x, y)
    BY <1>2, <2>1, <2>3, SentIsApart DEF MessageEnds
  <2> QED  BY <2>2, <2>4 DEF MessageEnds
<1> QED  BY <1>1, <1>2, NetworkKinds

-----------------------------------------------------------------------------
\* Root keys and chains that are there.
LEMMA SeedIsThere ==
  ASSUME TypeInv, NEW x, Seed(x)
  PROVE  x \in Seq(SUBSET Drawn) /\ Len(x) >= 4
<1>1. ASSUME NEW p \in Parties, NEW q \in Parties, NEW k, Has(p, q, k), x = At(p, q, k).rootKey
      PROVE  x \in Seq(SUBSET Drawn) /\ Len(x) >= 4
  BY <1>1, SessionIsThere DEF SessionThere
<1>2. ASSUME NEW m \in network, x = m.mac.key.seed
      PROVE  x \in Seq(SUBSET Drawn) /\ Len(x) >= 4
  BY <1>2, MessageIsThere DEF MessageThere
<1> QED  BY <1>1, <1>2 DEF Seed

\* After a step they come from agreements there were, or that of the session
\* that is started.
LEMMA SeedsAfter ==
  ASSUME TypeInv, Ends, EndStep, NEW x, Seed(x)'
  PROVE  \/ \E y : Seed(y) /\ Agree(x, y)
         \/ \E p \in Parties : \E q \in Parties \ {p} : \E k :
              /\ StartsEnd(p, q, k)
              /\ Has(p, q, k)'
              /\ x = At(p, q, k)'.rootKey
<1>1. \A y : Seed(y) => Agree(y, y)
  BY DEF Agree
<1>2. ASSUME NEW a \in Parties, NEW b \in Parties, NEW j, Has(a, b, j)',
             x = At(a, b, j)'.rootKey, Has(a, b, j), SameEnd(At(a, b, j), At(a, b, j)')
      PROVE  Seed(x)
  BY <1>2 DEF Seed, SameEnd
<1>3. ASSUME NEW a \in Parties, NEW b \in Parties, NEW j, Has(a, b, j)',
             x = At(a, b, j)'.rootKey
      PROVE  \/ \E y : Seed(y) /\ Agree(x, y)
             \/ \E p \in Parties : \E q \in Parties \ {p} : \E k :
                  /\ StartsEnd(p, q, k)
                  /\ Has(p, q, k)'
                  /\ x = At(p, q, k)'.rootKey
  <2>1. CASE SameEnds
    BY <1>1, <1>2, <1>3, <2>1 DEF SameEnds
  <2>2. ASSUME NEW p \in Parties, NEW q \in Parties \ {p}, NEW k, StartsEnd(p, q, k),
               Has(p, q, k)'
        PROVE  Seed(x) \/ x = At(p, q, k)'.rootKey
    <3>1. CASE <<a, b, j>> = <<p, q, k>>
      BY <1>3, <3>1
    <3>2. CASE <<a, b, j>> # <<p, q, k>>
      <4>1. SameEndsBut(p, q, k)
        BY <2>2, HoldsIsSame DEF StartsEnd
      <4> QED  BY <1>2, <1>3, <3>2, <4>1 DEF SameEndsBut
    <3> QED  BY <3>1, <3>2
  <2>3. ASSUME NEW p \in Parties, NEW m \in network, NEW k, NEW s, TurnsFrom(p, k, m, s)
        PROVE  \E y : Seed(y) /\ Agree(x, y)
    <3>1. CASE <<a, b, j>> = <<p, m.from, k>>
      <4>1. PICK t : t = At(p, m.from, k)'
        OBVIOUS
      <4>2. TurnsOn(p, s, m, t) /\ Opens(p, k, m, s)
        BY <2>3, <4>1 DEF TurnsFrom
      <4>3. MessageThere(m) /\ OpensIs(p, k, m, s) /\ HadRoot(s, m)
        BY <4>2, MessageIsThere, OpensHolds DEF Opens
      <4>4. Agree(m.mac.key.seed, t.rootKey)
        BY <4>2, <4>3, TurnedRoot
      <4>5. Agree(x, m.mac.key.seed)
        BY <1>3, <3>1, <4>1, <4>4, AgreeLaws
      <4>6. Seed(m.mac.key.seed)
        BY DEF Seed
      <4> QED  BY <4>5, <4>6
    <3>2. CASE <<a, b, j>> # <<p, m.from, k>>
      <4>1. SameEndsBut(p, m.from, k)
        BY <2>3, HoldsIsSame DEF TurnsFrom, ReadsFrom
      <4> QED  BY <1>1, <1>2, <1>3, <3>2, <4>1 DEF SameEndsBut
    <3> QED  BY <3>1, <3>2
  <2> QED  BY <1>1, <2>1, <2>2, <2>3, StepKinds
<1>4. ASSUME NEW n \in network', x = n.mac.key.seed
      PROVE  Seed(x)
  <2>1. CASE n \in network
    BY <1>4, <2>1 DEF Seed
  <2>2. CASE n \notin network
    <3>1. PICK p \in Parties : \E q \in Parties \ {p} : \E k, m : SendsFrom(p, q, k, m)
      BY <2>2, NetworkKinds
    <3>2. PICK q \in Parties \ {p} : \E k, m : SendsFrom(p, q, k, m)
      BY <3>1
    <3>3. PICK k, m : SendsFrom(p, q, k, m)
      BY <3>2
    <3>4. n = m /\ Has(p, q, k)
      BY <2>2, <3>3 DEF SendsFrom
    <3>5. x = At(p, q, k).rootKey
      BY <1>4, <3>3, <3>4, SentIsEnd
    <3> QED  BY <3>4, <3>5 DEF Seed
  <2> QED  BY <2>1, <2>2
<1>5. \/ \E a, b \in Parties : \E j : Has(a, b, j)' /\ x = At(a, b, j)'.rootKey
      \/ \E n \in network' : x = n.mac.key.seed
  BY DEF Seed
<1> QED  BY <1>1, <1>3, <1>4, <1>5

\* A base key stays agreed on once: that of a session that is started is new.
LEMMA OneAgreementStays ==
  ASSUME TypeInv, Ends, OneAgreement, EndStep
  PROVE  OneAgreement'
<1>1. ASSUME NEW x, NEW y, Seed(x)', NEW p \in Parties, NEW q \in Parties \ {p}, NEW k,
             StartsEnd(p, q, k), Has(p, q, k)', y = At(p, q, k)'.rootKey,
             SharesBase(x, y)
      PROVE  Agree(x, y)
  <2>1. PICK t : t = At(p, q, k)'
    OBVIOUS
  <2>2. /\ k \notin Drawn
        /\ SessionAgreed(p, q, k, t)
        /\ y = t.rootKey
    BY <1>1, <2>1 DEF StartsEnd
  <2>3. \E o, n, id : y[4] = {k, PreKey(o, n, id)}
    BY <2>2 DEF SessionAgreed, Agreement
  <2>4. PICK r \in Parties, n \in Nat : SessionKey(r, n) \in x[4] \cap y[4]
    BY <1>1 DEF SharesBase
  <2>5. SessionKey(r, n) = k
    BY <2>3, <2>4 DEF SessionKey, PreKey
  <2>6. k \in x[4]
    BY <2>4, <2>5
  <2>7. CASE \E z : Seed(z) /\ Agree(x, z)
    <3>1. PICK z : Seed(z) /\ Agree(x, z)
      BY <2>7
    <3>2. z \in Seq(SUBSET Drawn) /\ Len(z) >= 4
      BY <3>1, SeedIsThere
    <3>3. k \notin z[4]
      BY <2>2, <3>2, NewNotIn
    <3> QED  BY <2>6, <3>1, <3>3 DEF Agree
  <2>8. ASSUME NEW a \in Parties, NEW b \in Parties \ {a}, NEW j, StartsEnd(a, b, j),
               Has(a, b, j)', x = At(a, b, j)'.rootKey
        PROVE  Agree(x, y)
    <3>1. CASE <<a, b, j>> = <<p, q, k>>
      BY <1>1, <2>8, <3>1 DEF Agree
    <3>2. CASE <<a, b, j>> # <<p, q, k>>
      <4>1. SameEndsBut(a, b, j)
        BY <2>8, HoldsIsSame DEF StartsEnd
      <4>2. Has(p, q, k) /\ SameEnd(At(p, q, k), t)
        BY <1>1, <2>1, <3>2, <4>1 DEF SameEndsBut
      <4>3. Seed(y)
        BY <2>2, <4>2 DEF Seed, SameEnd
      <4>4. y \in Seq(SUBSET Drawn) /\ Len(y) >= 4
        BY <4>3, SeedIsThere
      <4>5. k \notin y[4]
        BY <2>2, <4>4, NewNotIn
      <4> QED  BY <2>3, <4>5
    <3> QED  BY <3>1, <3>2
  <2> QED  BY <1>1, <2>7, <2>8, SeedsAfter
<1>2. ASSUME NEW x, NEW y, NEW v, NEW w, Seed(v), Agree(x, v), Seed(w), Agree(y, w),
             SharesBase(x, y)
      PROVE  Agree(x, y)
  <2>1. SharesBase(v, w)
    BY <1>2 DEF SharesBase, Agree
  <2>2. Agree(v, w)
    BY <1>2, <2>1 DEF OneAgreement
  <2> QED  BY <1>2, <2>2 DEF Agree
<1>3. ASSUME NEW x, NEW y, Seed(x)', Seed(y)', SharesBase(x, y)
      PROVE  Agree(x, y)
  <2>1. SharesBase(y, x)
    BY <1>3 DEF SharesBase
  <2>2. ASSUME NEW p \in Parties, NEW q \in Parties \ {p}, NEW k,
               StartsEnd(p, q, k), Has(p, q, k)', y = At(p, q, k)'.rootKey
        PROVE  Agree(x, y)
    BY <1>1, <1>3, <2>2
  <2>3. ASSUME NEW p \in Parties, NEW q \in Parties \ {p}, NEW k,
               StartsEnd(p, q, k), Has(p, q, k)', x = At(p, q, k)'.rootKey
        PROVE  Agree(x, y)
    <3>1. Agree(y, x)
      BY <1>1, <1>3, <2>1, <2>3
    <3> QED  BY <3>1, AgreeLaws
  <2>4. CASE (\E v : Seed(v) /\ Agree(x, v)) /\ (\E w : Seed(w) /\ Agree(y, w))
    BY <1>2, <1>3, <2>4
  <2> QED  BY <1>3, <2>2, <2>3, <2>4, SeedsAfter
<1> QED  BY <1>3 DEF OneAgreement

-----------------------------------------------------------------------------
\* A session that is kept keeps its end, also when messages were read.
LEMMA HoldsEnd ==
  ASSUME NEW p, NEW q, NEW k, NEW s, SessionThere(p, q, s), NEW t, Holds(s, t),
         NEW sent, NEW unread, End(sent, unread, p, q, k, s), NEW fewer \in SUBSET unread
  PROVE  End(sent, fewer, p, q, k, t)
<1>1. /\ SessionAgreed(p, q, k, t)
      /\ OwnSent(sent, p, t)
      /\ PreviousOK(sent, p, t)
  BY SameEndKeeps DEF Holds, End
<1>2. LastLive(t)
  BY OffersHold DEF SessionThere, End
<1>3. ASSUME NEW n \in fewer, n.to = p, Agree(t.rootKey, n.mac.key.seed)
      PROVE  Reached(t, n)
  <2>1. Reached(s, n)
    BY <1>3 DEF End, ReachedFrom, Holds, SameEnd
  <2> QED  BY <2>1, HoldsReaches
<1> QED  BY <1>1, <1>2, <1>3 DEF End, ReachedFrom

\* The other end of the session a message is sent in can read it: it is one
\* agreement behind, or has read from the sending chain already.
LEMMA PeerReaches ==
  ASSUME TypeInv, AllSent, ChainsCovered, Ends, Ladder,
         NEW p \in Parties, NEW q \in Parties, NEW k, NEW m, SendsFrom(p, q, k, m),
         Has(q, p, k), Agree(At(p, q, k).rootKey, At(q, p, k).rootKey)
  PROVE  Reached(At(q, p, k), m)
<1>1. PICK s : s = At(p, q, k)
  OBVIOUS
<1>2. PICK u : u = At(q, p, k)
  OBVIOUS
<1>3. /\ Has(p, q, k)
      /\ IsOpen(s)
      /\ Carries(m, p, q, s)
  BY <1>1 DEF SendsFrom
<1>4. SessionThere(p, q, s) /\ SessionThere(q, p, u) /\ LastLive(u)
  BY <1>1, <1>2, <1>3, SessionIsThere DEF Ends, End
<1>5. /\ m.ephemeralKey = s.ephemeralKeyPair
      /\ m.mac.key.seed = s.rootKey
      /\ m.counter = SendingChain(s).counter + 1
  BY <1>3 DEF Carries, MessageKey
<1>6. CASE Ahead(s, u)
  <2>1. HadRoot(u, m) /\ m.ephemeralKey \notin DOMAIN u.chains
    BY <1>5, <1>6 DEF Ahead, HadRoot
  <2> QED  BY <1>2, <2>1 DEF Reached
<1>7. CASE Ahead(u, s)
  <2>1. PICK S : S = SUBSET Drawn
    OBVIOUS
  <2>2. PICK x : x = {u.ephemeralKeyPair, s.ephemeralKeyPair}
    OBVIOUS
  <2>3. PICK root : root = s.rootKey
    OBVIOUS
  <2>4. x \in S /\ root \in Seq(S) /\ Len(root) >= 5 /\ Len(root) \in Nat
    BY <1>4, <2>1, <2>2, <2>3 DEF SessionThere
  <2>5. u.rootKey = Append(root, x)
    BY <1>7, <2>2, <2>3 DEF Ahead
  <2>6. Len(u.rootKey) = Len(root) + 1 /\ u.rootKey[Len(u.rootKey)] = x
    BY <2>4, <2>5, AppendIs
  <2>7. PICK last : last = u.lastRemoteEphemeralKey
    OBVIOUS
  <2>8. last = s.ephemeralKeyPair
    BY <1>4, <2>2, <2>6, <2>7 DEF SessionThere
  <2>9. Len(u.rootKey) >= 6
    BY <2>4, <2>6
  <2>10. last \in DOMAIN u.chains /\ u.chains[last].live
    BY <1>4, <2>7, <2>9 DEF LastLive
  <2>11. PICK c : c = u.chains[last]
    OBVIOUS
  <2>12. /\ c.chainType = "RECEIVING"
         /\ u.rootKey = Append(c.seed, {last, u.ephemeralKeyPair})
         /\ c \in ChainOver(Drawn)
    <3>1. ReceivingOK(u) /\ last # u.ephemeralKeyPair
      BY <1>4, <2>7 DEF SessionThere, SessionOK, ChainsOK
    <3> QED  BY <1>4, <2>7, <2>10, <2>11, <3>1 DEF ReceivingOK, SessionThere
  <2>13. c.seed = root
    <3>1. c.seed \in Seq(S)
      BY <2>1, <2>12 DEF ChainOver
    <3>2. {last, u.ephemeralKeyPair} = x
      BY <2>2, <2>8
    <3>3. PICK seed : seed = c.seed
      OBVIOUS
    <3>4. Append(seed, x) = Append(root, x)
      BY <2>5, <2>12, <3>2, <3>3
    <3>5. seed \in Seq(S)
      BY <3>1, <3>3
    <3>6. seed = root
      BY <2>4, <3>4, <3>5, AppendSame
    <3> QED  BY <3>3, <3>6
  <2>14. last \in Receiving(u)
    BY <2>10, <2>11, <2>12 DEF Receiving
  <2>15. ChainCovered(network, q, c)
    BY <1>2, <2>11, <2>14 DEF ChainsCovered, Stands
  <2>16. PICK n \in network : n.mac.key = MessageKey(root, c.counter)
    BY <2>13, <2>15 DEF ChainCovered, SentTo
  <2>17. n.mac.key.seed = s.rootKey /\ n.counter = c.counter
    <3>1. MessageThere(n)
      BY MessageIsThere
    <3> QED  BY <2>3, <2>16, <3>1 DEF MessageThere, MessageKey
  <2>18. s.ephemeralKeyPair \in DOMAIN s.chains /\ SendingChain(s).counter \in Int
    <3>1. s.ephemeralKeyPair \in DOMAIN s.chains
      BY <1>3, <1>4 DEF SessionThere, SessionOK, ChainsOK, SendingOK
    <3> QED  BY <1>1, <1>3, <3>1, KeysThere
  <2>19. n.counter <= SendingChain(s).counter
    BY <1>1, <1>3, <2>17, <2>18 DEF AllSent, SentOn
  <2>20. c.counter \in Int
    BY <2>12 DEF ChainOver, Counters
  <2>21. m.counter > c.counter
    BY <1>5, <2>17, <2>18, <2>19, <2>20
  <2>22. Gives(c, m.counter)
    BY <2>10, <2>11, <2>21 DEF Gives
  <2>23. HadChain(u, m)
    BY <1>5, <2>3, <2>8, <2>11, <2>13, <2>14, <2>22 DEF HadChain
  <2> QED  BY <1>2, <2>23 DEF Reached
<1>8. Ahead(s, u) \/ Ahead(u, s)
  BY <1>1, <1>2, <1>3 DEF Ladder, Either
<1> QED  BY <1>6, <1>7, <1>8

\* What is sent keeps every end.
LEMMA SendsKeepsEnd ==
  ASSUME TypeInv, AllSent, ChainsCovered, Ends, Ladder,
         NEW p \in Parties, NEW q \in Parties \ {p}, NEW k, NEW m, SendsFrom(p, q, k, m),
         NEW a \in Parties, NEW b \in Parties, NEW j, Has(a, b, j)
  PROVE  End(network \cup {m}, (network \cup {m}) \ delivered, a, b, j, At(a, b, j))
<1>1. PICK s : s = At(p, q, k)
  OBVIOUS
<1>2. PICK u : u = At(a, b, j)
  OBVIOUS
<1>3. /\ Has(p, q, k)
      /\ m.from = p
      /\ m.to = q
      /\ m.mac.key.seed = s.rootKey
  BY <1>1, SentIsEnd DEF SendsFrom
<1>4. /\ SessionThere(p, q, s)
      /\ SessionThere(a, b, u)
      /\ End(network, network \ delivered, a, b, j, u)
  BY <1>1, <1>2, <1>3, SessionIsThere DEF Ends
<1>5. a # b
  BY <1>4 DEF SessionThere
<1>6. ASSUME Agree(u.rootKey, m.mac.key.seed)
      PROVE  j = k /\ ((a = p /\ b = q) \/ (a = q /\ b = p))
  <2>1. Agree(s.rootKey, u.rootKey)
    BY <1>3, <1>6, AgreeLaws
  <2> QED  BY <1>1, <1>2, <1>3, <2>1, SlotAlone
<1>7. ASSUME NEW n \in network \cup {m}, n.from = a, Agree(u.rootKey, n.mac.key.seed)
      PROVE  Begins(n.mac.key.seed, u.rootKey)
  <2>1. CASE n \in network
    BY <1>4, <1>7, <2>1 DEF End, OwnSent
  <2>2. CASE n = m
    <3>1. u = s
      BY <1>1, <1>2, <1>3, <1>5, <1>6, <1>7, <2>2
    <3> QED  BY <1>3, <1>4, <2>2, <3>1 DEF Begins, SessionThere
  <2> QED  BY <2>1, <2>2
<1>8. ASSUME IsOpen(u), NEW n \in network \cup {m}, n.from = a,
             Before(n.mac.key.seed, u.rootKey)
      PROVE  n.counter <= u.previousCounter
  <2>1. CASE n \in network
    BY <1>4, <1>8, <2>1 DEF End, PreviousOK
  <2>2. CASE n = m
    <3>1. PICK x, y : x = s.rootKey /\ y = u.rootKey
      OBVIOUS
    <3>2. x \in Secrets /\ y \in Secrets /\ Len(x) \in Nat /\ Before(x, y)
      BY <1>3, <1>4, <1>8, <2>2, <3>1 DEF SessionThere
    <3>3. Agree(x, y) /\ Len(y) = Len(x) + 2
      BY <3>2, NotBefore
    <3>4. Agree(u.rootKey, m.mac.key.seed)
      BY <1>3, <3>1, <3>3, AgreeLaws
    <3>5. u = s
      BY <1>1, <1>2, <1>3, <1>5, <1>6, <1>8, <2>2, <3>4
    <3>6. x = y
      BY <3>1, <3>5
    <3> QED  BY <3>2, <3>3, <3>6
  <2> QED  BY <2>1, <2>2
<1>9. ASSUME NEW n \in (network \cup {m}) \ delivered, n.to = a,
             Agree(u.rootKey, n.mac.key.seed)
      PROVE  Reached(u, n)
  <2>1. CASE n \in network
    BY <1>4, <1>9, <2>1 DEF End, ReachedFrom
  <2>2. CASE n = m
    <3>1. a = q /\ b = p /\ j = k
      BY <1>3, <1>5, <1>6, <1>9, <2>2
    <3>2. Agree(s.rootKey, u.rootKey)
      BY <1>3, <1>9, <2>2, AgreeLaws
    <3> QED  BY <1>1, <1>2, <2>2, <3>1, <3>2, PeerReaches
  <2> QED  BY <2>1, <2>2
<1>10. OwnSent(network \cup {m}, a, u)
  BY <1>7 DEF OwnSent
<1>11. PreviousOK(network \cup {m}, a, u)
  BY <1>8 DEF PreviousOK
<1>12. ReachedFrom((network \cup {m}) \ delivered, a, u)
  BY <1>9 DEF ReachedFrom
<1> QED  BY <1>2, <1>4, <1>10, <1>11, <1>12 DEF End

-----------------------------------------------------------------------------
\* A session that read a message from a chain it had reaches the others.
LEMMA ReadsInKeepsEnd ==
  ASSUME NEW p, NEW q, NEW k, NEW s, SessionThere(p, q, s), AllPassed(s),
         NEW m, m.counter \in Nat, MessageKeysLimit # 0 => m.counter < MessageKeysLimit,
         NEW t, ReadsIn(s, m, t),
         NEW sent, NEW unread, End(sent, unread, p, q, k, s), NEW fewer \in SUBSET unread,
         \A n \in fewer : /\ n.counter \in Nat
                          /\ n.mac.key.seed = m.mac.key.seed => n.counter # m.counter
  PROVE  End(sent, fewer, p, q, k, t)
<1>1. SameEnd(s, t)
  BY DEF ReadsIn
<1>2. /\ SessionAgreed(p, q, k, t)
      /\ OwnSent(sent, p, t)
      /\ PreviousOK(sent, p, t)
  BY <1>1, SameEndKeeps DEF End
<1>3. PICK last : last = s.lastRemoteEphemeralKey
  OBVIOUS
<1>4. t.lastRemoteEphemeralKey = last /\ t.rootKey = s.rootKey
  BY <1>1, <1>3 DEF SameEnd
<1>5. last # s.ephemeralKeyPair
  BY <1>3 DEF SessionThere
<1>6. ASSUME last \in DOMAIN t.chains
      PROVE  t.chains[last].live
  <2>1. last \in DOMAIN s.chains
    BY <1>1, <1>6 DEF SameEnd
  <2>2. s.chains[last].live
    BY <1>3, <2>1 DEF End, LastLive
  <2>3. CASE last = m.ephemeralKey
    <3>1. PICK c : c = s.chains[last]
      OBVIOUS
    <3>2. c \in ChainOver(Drawn) /\ Passed(c)
      BY <2>1, <3>1 DEF SessionThere, AllPassed
    <3>3. m.counter \in Int
      OBVIOUS
    <3>4. Used(c, m.counter).live = c.live
      BY <3>2, <3>3, UsedGives
    <3> QED  BY <2>2, <2>3, <3>1, <3>4 DEF ReadsIn
  <2>4. CASE last # m.ephemeralKey
    BY <1>5, <1>6, <2>2, <2>4 DEF ReadsIn
  <2> QED  BY <2>3, <2>4
<1>7. ASSUME Len(t.rootKey) >= 6
      PROVE  last \in DOMAIN t.chains
  <2>1. last \in DOMAIN s.chains
    BY <1>3, <1>4, <1>7 DEF End, LastLive
  <2> QED  BY <1>1, <1>5, <2>1 DEF SameEnd
<1>8. LastLive(t)
  BY <1>4, <1>6, <1>7 DEF LastLive
<1>9. ASSUME NEW n \in fewer, n.to = p, Agree(t.rootKey, n.mac.key.seed)
      PROVE  Reached(t, n)
  <2>1. Reached(s, n)
    BY <1>4, <1>9 DEF End, ReachedFrom
  <2> QED  BY <2>1, ReadsInReaches
<1> QED  BY <1>2, <1>8, <1>9 DEF End, ReachedFrom

\* The previousCounter of a message is below the limit, as one was sent with it.
LEMMA PreviousBelow ==
  ASSUME TypeInv, MessagesCovered, LimitsNotReached, NEW m \in network, NEW seed \in Secrets,
         Before(seed, m.mac.key.seed), MessageKeysLimit # 0
  PROVE  m.previousCounter < MessageKeysLimit
<1>1. m.previousCounter \in Int
  BY MessageIsThere DEF MessageThere
<1>2. CASE m.previousCounter < 0
  BY <1>1, <1>2, LimitAssumption
<1>3. CASE m.previousCounter >= 0
  <2>1. PICK i : i = m.previousCounter
    OBVIOUS
  <2>2. AllTo(network, m.to, seed, i)
    BY <2>1 DEF MessagesCovered, Covered
  <2>3. i \in 0..i
    BY <1>1, <1>3, <2>1
  <2>4. PICK n \in network : n.mac.key = MessageKey(seed, i)
    BY <2>2, <2>3 DEF AllTo, SentTo
  <2>5. n.counter = i
    <3>1. MessageThere(n)
      BY MessageIsThere
    <3> QED  BY <2>4, <3>1 DEF MessageThere, MessageKey
  <2> QED  BY <2>1, <2>4, <2>5 DEF LimitsNotReached
<1> QED  BY <1>1, <1>2, <1>3

\* What the root key begins with it begins with after a turn.
LEMMA TurnedBegins ==
  ASSUME NEW p, NEW k, NEW m, MessageThere(m), NEW s, OpensIs(p, k, m, s), HadRoot(s, m),
         NEW t, TurnsOn(p, s, m, t), NEW seed \in Seq(SUBSET Drawn), Begins(seed, s.rootKey)
  PROVE  Begins(seed, t.rootKey)
<1>1. \A x \in Seq(SUBSET Drawn) : Begins(x, s.rootKey) => Begins(x, t.rootKey)
  BY TurnedRoot
<1> QED  BY <1>1

\* A session that turned keeps its end: a new root key, with the chain it left
\* filled up to what was sent on it.
LEMMA TurnsKeepsEnd ==
  ASSUME TypeInv, PassedOK, AllSent, NoKeyReuse, MessagesCovered, Ends, MessageEnds,
         HeldUnanswered, LimitsNotReached,
         NEW p \in Parties, NEW m \in network, NEW k, NEW s, TurnsFrom(p, k, m, s)
  PROVE  LET t == At(p, m.from, k)'
         IN  End(network, network \ (delivered \cup {m}), p, m.from, k, t)
<1>1. PICK t : t = At(p, m.from, k)'
  OBVIOUS
<1>2. /\ ReadsFrom(p, k, m, s)
      /\ Opens(p, k, m, s)
      /\ TurnsOn(p, s, m, t)
      /\ HadRoot(s, m)
      /\ m.to = p
  BY <1>1 DEF TurnsFrom, Opens
<1>3. MessageThere(m) /\ OpensIs(p, k, m, s)
  <2>1. MessageThere(m)
    BY MessageIsThere
  <2>2. OpensIs(p, k, m, s)
    BY <1>2, OpensHolds
  <2> QED  BY <2>1, <2>2
<1>4. /\ Agree(s.rootKey, t.rootKey)
      /\ Agree(m.mac.key.seed, t.rootKey)
      /\ \A seed \in Seq(SUBSET Drawn) : Begins(seed, s.rootKey) => Begins(seed, t.rootKey)
  <2>1. Agree(s.rootKey, t.rootKey) /\ Agree(m.mac.key.seed, t.rootKey)
    BY <1>2, <1>3, TurnedRoot
  <2>2. ASSUME NEW seed \in Seq(SUBSET Drawn), Begins(seed, s.rootKey)
        PROVE  Begins(seed, t.rootKey)
    BY <1>2, <1>3, <2>2, TurnedBegins
  <2> QED  BY <2>1, <2>2
<1>5. /\ m.from \in Parties
      /\ m.from # p
      /\ m.counter \in Nat
      /\ m.previousCounter \in Int
      /\ m.mac.key.seed \in Seq(SUBSET Drawn)
      /\ m.mac.key = MessageKey(m.mac.key.seed, m.counter)
  BY <1>2, <1>3 DEF MessageThere
<1>6. ASSUME Has(p, m.from, k), s = At(p, m.from, k)
      PROVE  /\ SessionThere(p, m.from, s)
             /\ AllPassed(s)
             /\ End(network, network \ delivered, p, m.from, k, s)
             /\ SentOn(network, p, s)
  BY <1>5, <1>6, SessionIsThere DEF Ends, AllSent, PassedOK
<1>7. ASSUME Answers(p, k, m, s)
      PROVE  /\ Agreement(m.from, p, k, s.rootKey)
             /\ s.baseKeyType = "THEIRS"
             /\ Len(s.rootKey) = 4
             /\ \A n \in network : Agree(s.rootKey, n.mac.key.seed) => n.from # p
  <2>1. \A n \in network : Agree(s.rootKey, n.mac.key.seed) => n.from # p
    BY <1>7, AnswersAlone
  <2>2. install[p] \in Nat /\ preKeys[p] \subseteq Nat
    BY PartyAssumption DEF TypeInv, StorageInv, TablesTyped
  <2>3. Agreement(m.from, p, k, s.rootKey)
    BY <1>7, <2>2 DEF Answers, Agreement
  <2> QED  BY <1>7, <2>1, <2>3 DEF Answers
<1>8. (Has(p, m.from, k) /\ s = At(p, m.from, k)) \/ Answers(p, k, m, s)
  BY <1>2 DEF Opens
<1>9. SessionAgreed(p, m.from, k, t)
  <2>1. SessionAgreed(p, m.from, k, s)
    BY <1>6, <1>7, <1>8 DEF SessionAgreed, End
  <2>2. t.baseKeyType = s.baseKeyType
    BY <1>2 DEF TurnsOn
  <2>3. \A a, b, base : Agreement(a, b, base, s.rootKey) => Agreement(a, b, base, t.rootKey)
    BY <1>4, AgreeLaws
  <2> QED  BY <2>1, <2>2, <2>3 DEF SessionAgreed
<1>10. LastLive(t)
  <2>1. PICK c : c = NewChain(m.mac.key.seed, "RECEIVING")
    OBVIOUS
  <2>2. c \in ChainOver(Drawn)
    BY <1>5, <2>1, NewChainOver
  <2>3. c.live /\ Passed(c)
    BY <2>1 DEF NewChain, Passed
  <2>4. MessageKeysLimit # 0 => m.counter < MessageKeysLimit
    BY DEF LimitsNotReached
  <2>5. m.counter \in Int
    BY <1>5
  <2>6. Used(c, m.counter).live
    BY <2>2, <2>3, <2>4, <2>5, UsedGives
  <2> QED  BY <1>2, <2>1, <2>6 DEF LastLive, TurnsOn
<1>11. ASSUME NEW n \in network, n.from = p, Agree(t.rootKey, n.mac.key.seed)
       PROVE  Begins(n.mac.key.seed, t.rootKey)
  <2>1. Agree(s.rootKey, n.mac.key.seed)
    BY <1>4, <1>11, AgreeLaws
  <2>2. Has(p, m.from, k) /\ s = At(p, m.from, k)
    BY <1>7, <1>8, <1>11, <2>1
  <2>3. Begins(n.mac.key.seed, s.rootKey)
    BY <1>6, <1>11, <2>1, <2>2 DEF End, OwnSent
  <2>4. n.mac.key.seed \in Seq(SUBSET Drawn)
    BY MessageIsThere DEF MessageThere
  <2> QED  BY <1>4, <2>3, <2>4
<1>12. ASSUME IsOpen(t), NEW n \in network, n.from = p, Before(n.mac.key.seed, t.rootKey)
       PROVE  n.counter <= t.previousCounter
  <2>1. PICK x : x = {m.ephemeralKey, s.ephemeralKeyPair}
    OBVIOUS
  <2>2. PICK y : y = {m.ephemeralKey, t.ephemeralKeyPair}
    OBVIOUS
  <2>3. PICK root, seed : root = s.rootKey /\ seed = n.mac.key.seed
    OBVIOUS
  <2>4. t.rootKey = Append(Append(root, x), y)
    BY <1>2, <2>1, <2>2, <2>3 DEF TurnsOn, HadRoot
  <2>5. x \in SUBSET Key /\ y \in SUBSET Key
    <3>1. Drawn \subseteq Key
      BY SeedsThere
    <3>2. t.ephemeralKeyPair \in Key
      BY <1>2 DEF TurnsOn, SessionKeys, SessionKey, Key
    <3> QED  BY <1>3, <2>1, <2>2, <3>1, <3>2 DEF OpensIs
  <2>6. root \in Secrets /\ seed \in Secrets /\ Len(seed) >= 5
    <3>1. MessageThere(n)
      BY MessageIsThere
    <3> QED  BY <1>3, <2>3, <3>1 DEF OpensIs, MessageThere
  <2>7. seed = root
    <3>1. Before(seed, Append(Append(root, x), y))
      BY <1>12, <2>3, <2>4
    <3> QED  BY <2>5, <2>6, <3>1, BeforeIs
  <2>8. Has(p, m.from, k) /\ s = At(p, m.from, k)
    <3>1. Len(root) >= 5
      BY <2>6, <2>7
    <3>2. ~Answers(p, k, m, s)
      <4>1. SUFFICES ASSUME Answers(p, k, m, s)
                     PROVE  FALSE
        OBVIOUS
      <4>2. Len(root) = 4
        BY <1>7, <2>3, <4>1
      <4> QED  BY <3>1, <4>2
    <3> QED  BY <1>8, <3>2
  <2>9. IsOpen(s) /\ (s.ephemeralKeyPair \in DOMAIN s.chains =>
                        t.previousCounter = SendingChain(s).counter)
    BY <1>2, <1>12 DEF TurnsOn
  <2>10. s.ephemeralKeyPair \in DOMAIN s.chains
    BY <1>6, <2>8, <2>9 DEF SessionThere, SessionOK, ChainsOK, SendingOK
  <2>11. n.counter <= SendingChain(s).counter
    BY <1>6, <2>3, <2>7, <2>8, <2>10 DEF SentOn
  <2> QED  BY <2>9, <2>10, <2>11
<1>13. ASSUME NEW n \in network \ (delivered \cup {m}), n.to = p,
              Agree(t.rootKey, n.mac.key.seed)
       PROVE  Reached(t, n)
  <2>1. Agree(s.rootKey, n.mac.key.seed)
    BY <1>4, <1>13, AgreeLaws
  <2>2. MessageThere(n)
    BY MessageIsThere
  <2>3. n.counter \in Nat
    BY <2>2 DEF MessageThere
  <2>4. CASE HadRoot(s, n) \/ Answers(p, k, m, s)
    <3>1. n.mac.key.seed = m.mac.key.seed /\ n.ephemeralKey = m.ephemeralKey
      BY <1>2, <1>13, <2>1, <2>4, ChainIsThat
    <3>2. n.counter # m.counter
      BY <1>5, <1>13, <2>2, <3>1 DEF NoKeyReuse, MessageThere
    <3>3. MessageKeysLimit # 0 => m.counter < MessageKeysLimit
      BY DEF LimitsNotReached
    <3> QED  BY <1>2, <1>5, <2>3, <3>1, <3>2, <3>3, TurnsMakesChain
  <2>5. ASSUME Has(p, m.from, k), s = At(p, m.from, k), ~HadRoot(s, n)
        PROVE  Reached(t, n)
    <3>1. HadChain(s, n)
      BY <1>6, <1>13, <2>1, <2>5 DEF End, ReachedFrom, Reached
    <3>2. ASSUME n.ephemeralKey = s.lastRemoteEphemeralKey
          PROVE  /\ n.counter <= m.previousCounter
                 /\ MessageKeysLimit # 0 => m.previousCounter < MessageKeysLimit
      <4>1. PICK seed : seed = n.mac.key.seed
        OBVIOUS
      <4>2. Before(seed, m.mac.key.seed)
        <5>1. SessionThere(p, m.from, s)
          BY <1>6, <2>5
        <5>2. s.lastRemoteEphemeralKey \in DOMAIN s.chains \ {s.ephemeralKeyPair}
          BY <3>1, <3>2, <5>1 DEF HadChain, Receiving, SessionThere
        <5>3. s.chains[s.lastRemoteEphemeralKey].seed = seed
          BY <3>1, <3>2, <4>1 DEF HadChain
        <5>4. ReceivingOK(s)
          BY <5>1 DEF SessionThere, SessionOK, ChainsOK
        <5>5. s.rootKey = Append(seed, {s.lastRemoteEphemeralKey, s.ephemeralKeyPair})
          BY <5>2, <5>3, <5>4 DEF ReceivingOK
        <5>6. m.mac.key.seed = Append(s.rootKey, {m.ephemeralKey, s.ephemeralKeyPair})
          BY <1>2 DEF HadRoot
        <5>7. Drawn \subseteq Key
          BY SeedsThere
        <5>8. /\ {s.lastRemoteEphemeralKey, s.ephemeralKeyPair} \in SUBSET Key
              /\ {m.ephemeralKey, s.ephemeralKeyPair} \in SUBSET Key
          BY <1>3, <5>1, <5>2, <5>7 DEF SessionThere, MessageThere
        <5>9. Len(seed) >= 5
          BY <2>2, <4>1 DEF MessageThere
        <5> QED  BY <5>5, <5>6, <5>8, <5>9 DEF Before
      <4>3. seed \in Secrets
        BY <2>2, <4>1 DEF MessageThere
      <4>4. n.from = m.from
        <5>1. Between(p, m.from, k, s.rootKey)
          BY <1>3 DEF OpensIs
        <5> QED  BY <1>13, <2>1, <5>1, MessageParties
      <4>5. n.counter <= m.previousCounter
        BY <1>13, <4>1, <4>2, <4>4 DEF MessageEnds, MessagesApart
      <4>6. MessageKeysLimit # 0 => m.previousCounter < MessageKeysLimit
        BY <4>2, <4>3, PreviousBelow
      <4> QED  BY <4>5, <4>6
    <3>3. SessionThere(p, m.from, s) /\ AllPassed(s)
      BY <1>6, <2>5
    <3> QED  BY <1>2, <1>5, <2>3, <3>1, <3>2, <3>3, TurnsKeepsChain
  <2> QED  BY <1>8, <2>4, <2>5
<1>14. OwnSent(network, p, t)
  BY <1>11 DEF OwnSent
<1>15. PreviousOK(network, p, t)
  BY <1>12 DEF PreviousOK
<1>16. ReachedFrom(network \ (delivered \cup {m}), p, t)
  BY <1>13 DEF ReachedFrom
<1> QED  BY <1>1, <1>9, <1>10, <1>14, <1>15, <1>16 DEF End

\* A session that holds keeps all of it.
LEMMA KeptEnds ==
  ASSUME TypeInv, Ends, NEW a \in Parties, NEW b \in Parties, NEW j, Has(a, b, j),
         NEW t, Holds(At(a, b, j), t), NEW fewer \in SUBSET (network \ delivered)
  PROVE  End(network, fewer, a, b, j, t) /\ SessionOffers(a, b, t)
<1>1. PICK s : s = At(a, b, j)
  OBVIOUS
<1>2. /\ SessionThere(a, b, s)
      /\ End(network, network \ delivered, a, b, j, s)
      /\ SessionOffers(a, b, s)
      /\ Holds(s, t)
  BY <1>1, SessionIsThere DEF Ends
<1>3. End(network, fewer, a, b, j, t)
  BY <1>2, HoldsEnd
<1>4. SessionOffers(a, b, t)
  BY <1>2, OffersHold
<1> QED  BY <1>3, <1>4

\* The session that is started has nothing behind it.
LEMMA StartsWithEnd ==
  ASSUME TypeInv, NEW p \in Parties, NEW q \in Parties, NEW k, StartsEnd(p, q, k),
         Has(p, q, k)'
  PROVE  LET t == At(p, q, k)'
         IN  End(network, network \ delivered, p, q, k, t) /\ SessionOffers(p, q, t)
<1>1. PICK t : t = At(p, q, k)'
  OBVIOUS
<1>2. /\ k \notin Drawn
      /\ Len(t.rootKey) = 5
      /\ k \in t.rootKey[4]
      /\ SessionAgreed(p, q, k, t)
      /\ LastLive(t)
  BY <1>1 DEF StartsEnd
<1>3. SessionOffers(p, q, At(p, q, k)')
  BY DEF StartsEnd
<1>4. ASSUME NEW n \in network
      PROVE  ~Agree(t.rootKey, n.mac.key.seed) /\ ~Before(n.mac.key.seed, t.rootKey)
  <2>1. PICK seed : seed = n.mac.key.seed
    OBVIOUS
  <2>2. /\ seed \in Seq(SUBSET Drawn)
        /\ seed \in Secrets
        /\ Len(seed) >= 4
    BY <2>1, MessageIsThere DEF MessageThere
  <2>3. ~Agree(t.rootKey, seed)
    BY <1>2, <2>2, NewAgreesNot
  <2>4. ~Before(seed, t.rootKey)
    <3>1. PICK root : root = t.rootKey
      OBVIOUS
    <3>2. Before(seed, root) => Len(root) >= 7
      BY <2>2, BeforeIsLong
    <3>3. Len(root) = 5
      BY <1>2, <3>1
    <3> QED  BY <3>1, <3>2, <3>3
  <2> QED  BY <2>1, <2>3, <2>4
<1>5. /\ OwnSent(network, p, t)
      /\ PreviousOK(network, p, t)
      /\ ReachedFrom(network \ delivered, p, t)
  BY <1>4 DEF OwnSent, PreviousOK, ReachedFrom
<1> QED  BY <1>1, <1>2, <1>3, <1>5 DEF End

\* The session a message was read in, from a chain that it had.
LEMMA ReadWithEnd ==
  ASSUME TypeInv, PassedOK, NoKeyReuse, Ends, LimitsNotReached,
         NEW p \in Parties, NEW m \in network, NEW k, Has(p, m.from, k),
         NEW t, ReadsIn(At(p, m.from, k), m, t)
  PROVE  /\ End(network, network \ (delivered \cup {m}), p, m.from, k, t)
         /\ SessionOffers(p, m.from, t)
<1>1. PICK s : s = At(p, m.from, k)
  OBVIOUS
<1>2. MessageThere(m)
  BY MessageIsThere
<1>3. m.from \in Parties /\ m.counter \in Nat
  BY <1>2 DEF MessageThere
<1>4. /\ SessionThere(p, m.from, s)
      /\ AllPassed(s)
      /\ End(network, network \ delivered, p, m.from, k, s)
      /\ ReadsIn(s, m, t)
  BY <1>1, <1>3, SessionIsThere DEF Ends, PassedOK
<1>5. MessageKeysLimit # 0 => m.counter < MessageKeysLimit
  BY DEF LimitsNotReached
<1>6. PICK fewer, unread : /\ fewer = network \ (delivered \cup {m})
                           /\ unread = network \ delivered
  OBVIOUS
<1>7. ASSUME NEW n \in fewer
      PROVE  /\ n.counter \in Nat
             /\ n.mac.key.seed = m.mac.key.seed => n.counter # m.counter
  <2>1. MessageThere(n) /\ n \in network /\ n # m
    BY <1>6, <1>7, MessageIsThere
  <2> QED  BY <1>2, <2>1 DEF NoKeyReuse, MessageThere
<1>8. fewer \in SUBSET unread
  BY <1>6
<1>9. End(network, unread, p, m.from, k, s)
  BY <1>4, <1>6
<1>10. End(network, fewer, p, m.from, k, t)
  BY <1>3, <1>4, <1>5, <1>7, <1>8, <1>9, ReadsInKeepsEnd
<1>11. SessionOffers(p, m.from, t)
  BY <1>4 DEF ReadsIn, SessionOffers
<1> QED  BY <1>6, <1>10, <1>11

\* Every session after a step.
LEMMA SlotEnds ==
  ASSUME KeyInv, AheadInv, EndsInv, LimitsNotReached, EndStep,
         NEW a \in Parties, NEW b \in Parties, NEW j, Has(a, b, j)'
  PROVE  LET t == At(a, b, j)'
         IN  End(network', network' \ delivered', a, b, j, t) /\ SessionOffers(a, b, t)
<1>1. PICK t : t = At(a, b, j)'
  OBVIOUS
<1>2. /\ TypeInv
      /\ PassedOK
      /\ AllSent
      /\ NoKeyReuse
      /\ MessagesCovered
      /\ ChainsCovered
      /\ Ends
      /\ Ladder
      /\ MessageEnds
      /\ HeldUnanswered
  BY DEF KeyInv, SendInv, AheadInv, EndsInv
<1>3. PICK unread, after : unread = network \ delivered /\ after = network' \ delivered'
  OBVIOUS
<1>4. ASSUME Has(a, b, j), Holds(At(a, b, j), t), network' = network, after \subseteq unread
      PROVE  End(network', after, a, b, j, t) /\ SessionOffers(a, b, t)
  <2>1. after \in SUBSET (network \ delivered)
    BY <1>3, <1>4
  <2> QED  BY <1>2, <1>4, <2>1, KeptEnds
<1>5. ASSUME AllHold, UNCHANGED <<network, delivered>>
      PROVE  End(network', after, a, b, j, t) /\ SessionOffers(a, b, t)
  BY <1>1, <1>3, <1>4, <1>5 DEF AllHold
<1>6. ASSUME NEW p \in Parties, NEW q \in Parties \ {p}, NEW k, StartsEnd(p, q, k)
      PROVE  End(network', after, a, b, j, t) /\ SessionOffers(a, b, t)
  <2>1. network' = network /\ after = unread
    BY <1>3, <1>6 DEF StartsEnd
  <2>2. CASE <<a, b, j>> # <<p, q, k>>
    BY <1>1, <1>4, <1>6, <2>1, <2>2 DEF StartsEnd, HoldBut
  <2>3. CASE <<a, b, j>> = <<p, q, k>>
    <3>1. p = a /\ q = b /\ k = j
      BY <2>3
    <3>2. StartsEnd(a, b, j)
      BY <1>6, <3>1
    <3> QED  BY <1>1, <1>2, <1>3, <2>1, <3>2, StartsWithEnd
  <2> QED  BY <2>2, <2>3
<1>7. ASSUME NEW p \in Parties, NEW q \in Parties \ {p}, NEW k, NEW m, SendsFrom(p, q, k, m)
      PROVE  End(network', after, a, b, j, t) /\ SessionOffers(a, b, t)
  <2>1. PICK s : s = At(a, b, j)
    OBVIOUS
  <2>2. Has(a, b, j) /\ Holds(s, t)
    BY <1>1, <1>7, <2>1 DEF SendsFrom, AllHold
  <2>3. SessionThere(a, b, s)
    BY <1>2, <2>1, <2>2, SessionIsThere
  <2>4. PICK sent : sent = network \cup {m}
    OBVIOUS
  <2>5. network' = sent /\ after = sent \ delivered
    BY <1>3, <1>7, <2>4 DEF SendsFrom
  <2>6. End(sent, after, a, b, j, s)
    BY <1>2, <1>7, <2>1, <2>2, <2>4, <2>5, SendsKeepsEnd
  <2>7. after \in SUBSET after
    OBVIOUS
  <2>8. End(sent, after, a, b, j, t)
    BY <2>2, <2>3, <2>6, <2>7, HoldsEnd
  <2>9. SessionOffers(a, b, t)
    BY <1>2, <2>1, <2>2, OffersHold DEF Ends
  <2> QED  BY <2>5, <2>8, <2>9
<1>8. ASSUME NEW p \in Parties, NEW m \in network, NEW k, NEW s, ReadsFrom(p, k, m, s)
      PROVE  End(network', after, a, b, j, t) /\ SessionOffers(a, b, t)
  <2>1. /\ network' = network
        /\ after = network \ (delivered \cup {m})
        /\ after \subseteq unread
    BY <1>3, <1>8 DEF ReadsFrom
  <2>2. ASSUME AllHold
        PROVE  End(network', after, a, b, j, t) /\ SessionOffers(a, b, t)
    BY <1>1, <1>4, <2>1, <2>2 DEF AllHold
  <2>3. CASE <<a, b, j>> # <<p, m.from, k>>
    BY <1>1, <1>4, <1>8, <2>1, <2>3 DEF ReadsFrom, HoldBut
  <2>4. CASE <<a, b, j>> = <<p, m.from, k>>
    <3>1. p = a /\ m.from = b /\ k = j
      BY <2>4
    <3>2. ASSUME Has(p, m.from, k), ReadsIn(At(p, m.from, k), m, t)
          PROVE  End(network', after, a, b, j, t) /\ SessionOffers(a, b, t)
      BY <1>2, <2>1, <3>1, <3>2, ReadWithEnd
    <3>3. ASSUME TurnsFrom(p, k, m, s)
          PROVE  End(network', after, a, b, j, t) /\ SessionOffers(a, b, t)
      <4>1. End(network, network \ (delivered \cup {m}), p, m.from, k, t)
        BY <1>1, <1>2, <3>1, <3>3, TurnsKeepsEnd
      <4>2. TurnsOn(p, s, m, t)
        BY <1>1, <3>1, <3>3 DEF TurnsFrom
      <4>3. SessionOffers(a, b, t)
        BY <4>2 DEF TurnsOn, SessionOffers
      <4> QED  BY <2>1, <3>1, <4>1, <4>3
    <3>4. \/ AllHold
          \/ Has(p, m.from, k) /\ ReadsIn(At(p, m.from, k), m, t)
          \/ TurnsFrom(p, k, m, s)
      BY <1>1, <1>8, <3>1, ReadKinds
    <3> QED  BY <2>2, <3>2, <3>3, <3>4
  <2> QED  BY <2>3, <2>4
<1>9. End(network', after, a, b, j, t) /\ SessionOffers(a, b, t)
  BY <1>5, <1>6, <1>7, <1>8 DEF EndStep
<1> QED  BY <1>1, <1>3, <1>9

\* The ends.
LEMMA EndsStay ==
  ASSUME KeyInv, AheadInv, EndsInv, LimitsNotReached, PreKeysUsed, EndStep
  PROVE  Ends'
<1> SUFFICES ASSUME NEW a \in Parties, NEW b \in Parties, NEW j, Has(a, b, j)'
             PROVE  /\ End(network', network' \ delivered', a, b, j, At(a, b, j)')
                    /\ SessionOffers(a, b, At(a, b, j))'
  BY DEF Ends
<1>1. PICK t : t = At(a, b, j)'
  OBVIOUS
<1>2. End(network', network' \ delivered', a, b, j, t) /\ SessionOffers(a, b, t)
  BY <1>1, SlotEnds
<1>3. install'[a] = install[a]
  BY DEF PreKeysUsed
<1>4. PICK ours : ours = IdentityKey(a, install[a])
  OBVIOUS
<1>5. t.pendingPreKey # None =>
        Offered(b, ours, t.remoteIdentityKey, t.pendingPreKey.preKeyId,
                t.pendingPreKey.signedKeyId, t.pendingPreKey.baseKey,
                t.ephemeralKeyPair, t.rootKey)
  BY <1>2, <1>4 DEF SessionOffers, Identity
<1>6. ours = Identity(a)'
  BY <1>3, <1>4 DEF Identity
<1>7. SessionOffers(a, b, At(a, b, j))'
  BY <1>1, <1>5, <1>6 DEF SessionOffers
<1> QED  BY <1>1, <1>2, <1>7

-----------------------------------------------------------------------------
\* The inductive invariant, as long as no limit binds and no prekey is left behind.
ReadableInv == KeyInv /\ AheadInv /\ EndsInv

\* Every step keeps it.
LEMMA ReadableInvStays ==
  ASSUME ReadableInv, [Next]_vars, LimitsNotReached, LimitsNotReached',
         NothingLeft, NothingLeft'
  PROVE  ReadableInv'
<1>1. KeyInv' /\ KeyStep
  BY KeyInvStays DEF ReadableInv
<1>2. /\ TypeInv
      /\ PassedOK
      /\ RootsFree
      /\ Ends
      /\ Ladder
      /\ MessageEnds
      /\ HeldUnanswered
      /\ OneAgreement
  BY DEF ReadableInv, KeyInv, EndsInv
<1>3. TypeInv' /\ PreKeysUsed
  BY <1>1 DEF KeyInv, KeyStep
<1>4. AheadInv'
  BY <1>1, <1>2, <1>3, StepKeepsAhead DEF ReadableInv
<1>5. EndStep
  BY <1>2, NextSteps, StepEnds
<1>6. Ends'
  BY <1>3, <1>5, EndsStay DEF ReadableInv
<1>7. Ladder'
  BY <1>2, <1>5, LadderStays
<1>8. MessageEnds'
  BY <1>2, <1>5, MessageEndsStay
<1>9. HeldUnanswered'
  BY <1>2, <1>3, <1>5, HeldStays
<1>10. OneAgreement'
  BY <1>2, <1>5, OneAgreementStays
<1>11. EndsInv'
  BY <1>6, <1>7, <1>8, <1>9, <1>10 DEF EndsInv
<1> QED  BY <1>1, <1>4, <1>11 DEF ReadableInv

\* It holds at first, when nothing is stored and nothing was sent.
LEMMA ReadableInvStarts ==
  ASSUME Init
  PROVE  ReadableInv
<1>1. /\ \A p, q \in Parties : \A k : ~Has(p, q, k)
      /\ network = {}
  BY DEF Init, Has
<1>2. KeyInv
  BY KeyInvStarts
<1>3. AheadInv
  BY <1>1 DEF AheadInv, SessionsCovered, MessagesCovered, ChainsCovered, Stands
<1>4. Ends /\ Ladder /\ MessageEnds
  BY <1>1 DEF Ends, Ladder, MessageEnds
<1>5. HeldUnanswered /\ OneAgreement
  BY <1>1 DEF HeldUnanswered, Unanswered, OneAgreement, Seed
<1> QED  BY <1>2, <1>3, <1>4, <1>5 DEF ReadableInv, EndsInv

\* As long as no limit binds and no prekey is left behind, the two ends of
\* every session are one agreement apart, and each unread message of the peer
\* has its key on a stored chain or on the one the next turn of the ratchet
\* makes (maybeStepRatchet keeps what the last chain had left, fillMessageKeys
\* what was passed over).
THEOREM EndsInvariant ==
  Spec /\ []LimitsNotReached /\ []NothingLeft => []ReadableInv
<1>1. Init => ReadableInv
  BY ReadableInvStarts
<1>2. /\ ReadableInv /\ [Next]_vars
      /\ LimitsNotReached /\ LimitsNotReached' /\ NothingLeft /\ NothingLeft'
      => ReadableInv'
  BY ReadableInvStays
<1> QED  BY <1>1, <1>2, PTL DEF Spec

-----------------------------------------------------------------------------
\* A key a chain gives can be taken from it.
LEMMA GivesFills ==
  ASSUME NEW K, NEW c \in ChainOver(K), Passed(c), NEW n \in Int,
         MessageKeysLimit # 0 => n < MessageKeysLimit, Gives(c, n)
  PROVE  CanFill(c, n) /\ n \in FillMessageKeys(c, n).messageKeys
<1>1. n \in FillMessageKeys(c, n).messageKeys
  BY FillGives
<1>2. c.counter < n => c.live
  <2>1. c.counter \in Int
    BY DEF ChainOver, Counters
  <2> QED  BY <2>1 DEF Gives, Passed
<1> QED  BY <1>1, <1>2 DEF CanFill

\* A message whose key a session reaches decrypts in it.
LEMMA ReachedDecrypts ==
  ASSUME NEW p, NEW q, p # q, NEW s, Turnable(Drawn, p, q, s), AllPassed(s), LastLive(s),
         NEW m, m.ephemeralKey \in SessionKeys(q), m.ephemeralKey \in Drawn,
         m.counter \in Nat, m.previousCounter \in Int, m.mac.key.seed \in Seq(SUBSET Drawn),
         MessageKeysLimit # 0 => m.counter < MessageKeysLimit,
         NEW keyPair \in SessionKeys(p) \ Drawn, NEW ours,
         m.mac = MAC(MessageKey(m.mac.key.seed, m.counter), s.remoteIdentityKey, ours),
         Reached(s, m)
  PROVE  Decrypts(s, m, ours, keyPair)
<1> DEFINE key == m.ephemeralKey
           last == s.lastRemoteEphemeralKey
           u == Stepped(s, m, keyPair)
<1>1. m.counter \in Int /\ \A i \in DOMAIN s.chains : s.chains[i] \in ChainOver(Drawn)
  BY DEF Turnable, SessionOver, ChainsOver
<1>2. ASSUME NEW c \in ChainOver(Drawn), c = u.chains[key], c.chainType = "RECEIVING",
             Passed(c), Gives(c, m.counter), c.seed = m.mac.key.seed
      PROVE  Decrypts(s, m, ours, keyPair)
  <2>1. CanFill(c, m.counter) /\ m.counter \in FillMessageKeys(c, m.counter).messageKeys
    BY <1>1, <1>2, GivesFills
  <2>2. CanStepRatchet(s, key, m.previousCounter)
    BY DEF CanStepRatchet, CanFill, LastLive
  <2> HIDE DEF u
  <2>3. m.mac = MAC(MessageKey(c.seed, m.counter), s.remoteIdentityKey, ours)
    BY <1>2
  <2> QED  BY <1>2, <2>1, <2>2, <2>3 DEF Decrypts, u
<1>3. CASE HadChain(s, m)
  <2>1. key \in DOMAIN s.chains
    BY <1>3 DEF HadChain, Receiving
  <2>2. u = s
    BY <2>1 DEF Stepped, MaybeStepRatchet
  <2> HIDE DEF u
  <2>3. PICK c : c = s.chains[key]
    OBVIOUS
  <2>4. /\ c \in ChainOver(Drawn)
        /\ c = u.chains[key]
        /\ c.chainType = "RECEIVING"
        /\ Passed(c)
        /\ Gives(c, m.counter)
        /\ c.seed = m.mac.key.seed
    BY <1>1, <1>3, <2>1, <2>2, <2>3 DEF HadChain, Receiving, AllPassed
  <2> QED  BY <1>2, <2>4
<1>4. CASE HadRoot(s, m) /\ key \notin DOMAIN s.chains
  <2> DEFINE received == Append(s.rootKey, {key, s.ephemeralKeyPair})
             new == NewChain(received, "RECEIVING")
  <2>1. /\ SessionOver(Drawn, s)
        /\ key # s.ephemeralKeyPair
        /\ last # s.ephemeralKeyPair
        /\ key # keyPair
    BY KeysApart, SessionKeysDistinct DEF Turnable
  <2>2. Turned(s, key, m.previousCounter, keyPair, u)
    BY <1>4, <2>1, MaybeStepRatchetIs DEF Stepped
  <2> HIDE DEF u
  <2>3. u.chains[key] = new
    BY <2>2 DEF Turned
  <2>4. received = m.mac.key.seed
    BY <1>4 DEF HadRoot
  <2>5. PICK c : c = NewChain(m.mac.key.seed, "RECEIVING")
    OBVIOUS
  <2>6. c \in ChainOver(Drawn)
    BY <2>5, NewChainOver
  <2>7. c = u.chains[key]
    BY <2>3, <2>4, <2>5
  <2>8. /\ c.chainType = "RECEIVING"
        /\ c.seed = m.mac.key.seed
        /\ c.messageKeys = {}
        /\ c.live
        /\ c.counter = -1
    BY <2>5 DEF NewChain
  <2>9. Passed(c) /\ Gives(c, m.counter)
    BY <2>8 DEF Passed, Gives
  <2> QED  BY <1>2, <2>6, <2>7, <2>8, <2>9
<1> QED  BY <1>3, <1>4 DEF Reached

-----------------------------------------------------------------------------
\* A stored record can be updated with a session that has read a message.
LEMMA StoredAccepts ==
  ASSUME NEW p, NEW m, NEW r, StoredOK(r), NEW key \in DOMAIN r.sessions,
         SessionDecrypts(p, r.sessions[key], m)
  PROVE  Accepts(p, r, r.sessions[key], m)
<1>1. PICK s : s = r.sessions[key]
  OBVIOUS
<1>2. PICK t : t = Decrypted(s, m, NextKey(p))
  OBVIOUS
<1>3. /\ DOMAIN s = SessionFields
      /\ s.baseKey = key
      /\ s.remoteIdentityKey = r.identityKey
      /\ RecordOK(r)
  BY <1>1 DEF StoredOK, RecordOK
<1>4. SameHead(s, t)
  BY <1>2, <1>3, DecryptedKeepsHead
<1>5. PICK sessions : sessions = SessionsWith(r, t)
  OBVIOUS
<1>6. ASSUME r.registrationId = None, NEW other \in DOMAIN sessions
      PROVE  ~IsOpen(sessions[other])
  <2>1. \A k \in DOMAIN r.sessions : ~IsOpen(r.sessions[k])
    BY <1>6 DEF StoredOK, HaveOpenSession, OpenKeys
  <2>2. DOMAIN t = SessionFields /\ t.baseKey = key /\ t.closed = s.closed
    BY <1>3, <1>4 DEF SameHead
  <2>3. /\ DOMAIN sessions \subseteq DOMAIN r.sessions \cup {key}
        /\ \A k \in DOMAIN sessions \ {key} : sessions[k] = r.sessions[k]
        /\ key \in DOMAIN sessions => SameHead(t, sessions[key])
    BY <1>5, <2>2, SessionsWithKeeps
  <2>4. CASE other = key
    BY <1>1, <1>6, <2>1, <2>2, <2>3, <2>4 DEF SameHead, IsOpen
  <2>5. CASE other # key
    BY <1>6, <2>1, <2>3, <2>5
  <2> QED  BY <2>4, <2>5
<1>7. CanUpdateSessionState(r, t, None)
  BY <1>3, <1>4, <1>5, <1>6 DEF CanUpdateSessionState, SameHead
<1> QED  BY <1>1, <1>2, <1>7 DEF Accepts

\* Of the sessions that decrypt a message one is tried first.
LEMMA FirstIsTried ==
  ASSUME NEW r, RecordOK(r), NEW keys \in SUBSET DOMAIN r.sessions, keys # {}
  PROVE  \E key \in keys : \A other \in keys : ~TriedBefore(r, other, key)
<1> DEFINE time == [key \in keys |-> r.sessions[key].closed]
<1>1. CASE \E key \in keys : r.sessions[key].closed = -1
  BY <1>1 DEF TriedBefore
<1>2. CASE \A key \in keys : r.sessions[key].closed # -1
  <2>1. IsFiniteSet(keys) /\ \A x \in keys : time[x] \in Int
    BY FS_Subset DEF RecordOK
  <2>2. PICK last \in keys : \A x \in keys : time[x] <= time[last]
    <3> HIDE DEF time
    <3> QED  BY <2>1, LatestExists
  <2>3. ASSUME NEW other \in keys
        PROVE  ~TriedBefore(r, other, last)
    <3>1. time[other] <= time[last] /\ time[other] \in Int /\ time[last] \in Int
      BY <2>1, <2>2
    <3>2. ~(time[other] > time[last])
      <4> HIDE DEF time
      <4> QED  BY <3>1
    <3> QED  BY <1>2, <3>2 DEF TriedBefore
  <2> QED  BY <2>3
<1> QED  BY <1>1, <1>2

\* So a message that decrypts in a stored session is read, if it has no header.
LEMMA StoredReads ==
  ASSUME StorageInv, NEW p \in Parties, NEW m \in network, m.to = p, m.header = None,
         NEW k, Has(p, m.from, k), SessionDecrypts(p, At(p, m.from, k), m)
  PROVE  Readable(p, m)
<1>1. PICK r : r = records[p][m.from]
  OBVIOUS
<1>2. PICK keys : keys = Decrypting(p, m)
  OBVIOUS
<1>3. m.from \in Parties /\ r # None /\ StoredOK(r)
  BY <1>1 DEF StorageInv, SendersOK, Has
<1>4. keys \in SUBSET DOMAIN r.sessions
  BY <1>1, <1>2 DEF Decrypting
<1>5. k \in keys
  BY <1>1, <1>2 DEF Decrypting, Has, At
<1>6. RecordOK(r)
  BY <1>3 DEF StoredOK
<1>7. PICK key \in keys : \A other \in keys : ~TriedBefore(r, other, key)
  BY <1>4, <1>5, <1>6, FirstIsTried
<1>8. SessionDecrypts(p, r.sessions[key], m)
  BY <1>1, <1>2, <1>7 DEF Decrypting
<1>9. Accepts(p, r, r.sessions[key], m)
  BY <1>3, <1>4, <1>8, StoredAccepts
<1>10. CanDecryptWhisper(p, m, key)
  BY <1>1, <1>2, <1>7, <1>9 DEF CanDecryptWhisper
<1>11. WhisperMessageArrives(p, m)
  BY <1>1, <1>3 DEF WhisperMessageArrives
<1> QED  BY <1>2, <1>10, <1>11 DEF Readable

\* removeOldSessions takes a closed session, whatever open one was put in.
LEMMA OpenStays ==
  ASSUME NEW sessions, IsFiniteSet(DOMAIN sessions),
         \A key \in DOMAIN sessions : sessions[key].closed \in Int,
         NEW k \in DOMAIN sessions, IsOpen(sessions[k]),
         \A key \in DOMAIN sessions \ {k} : ~IsOpen(sessions[key])
  PROVE  k \in DOMAIN RemoveOldSessions(sessions)
<1> DEFINE keys == DOMAIN sessions
           closed == {key \in keys : ~IsOpen(sessions[key])}
           time == [key \in closed |-> 0 - sessions[key].closed]
           oldest == CHOOSE key \in closed :
                       \A other \in closed : sessions[key].closed <= sessions[other].closed
<1>1. CASE Cardinality(keys) <= MaxSessions
  BY <1>1 DEF RemoveOldSessions
<1>2. CASE ~(Cardinality(keys) <= MaxSessions)
  <2>1. Cardinality(keys) \in Nat /\ MaxSessions \in Nat \ {0}
    BY FS_CardinalityType, RecordAssumption
  <2>2. closed # {}
    <3> SUFFICES ASSUME closed = {}  PROVE FALSE
      OBVIOUS
    <3>1. keys = {k}
      OBVIOUS
    <3>2. Cardinality(keys) = 1
      BY <3>1, FS_Singleton
    <3> QED  BY <1>2, <2>1, <3>2
  <2>3. IsFiniteSet(closed) /\ \A key \in closed : time[key] \in Int
    BY FS_Subset
  <2>4. PICK last \in closed : \A key \in closed : time[key] <= time[last]
    <3> HIDE DEF closed, time
    <3> QED  BY <2>2, <2>3, LatestExists
  <2>5. \A key \in closed : sessions[last].closed <= sessions[key].closed
    BY <2>4
  <2>6. oldest \in closed
    <3> HIDE DEF closed
    <3> QED  BY <2>4, <2>5
  <2>7. DOMAIN RemoveOldSessions(sessions) = keys \ {oldest}
    BY <1>2 DEF RemoveOldSessions, Delete
  <2> QED  BY <2>6, <2>7
<1> QED  BY <1>1, <1>2

-----------------------------------------------------------------------------
\* The key pair a party draws next has not been drawn.
LEMMA NextKeyIsNew ==
  ASSUME TypeInv, NEW p \in Parties
  PROVE  NextKey(p) \in SessionKeys(p) \ Drawn
<1>1. fresh[p] \in Nat /\ TablesTyped
  BY DEF TypeInv, TablesTyped
<1>2. fresh[p] + 1 \in Nat /\ ~(fresh[p] + 1 <= fresh[p])
  BY <1>1
<1>3. SessionKey(p, fresh[p] + 1) \notin Drawn
  BY <1>1, <1>2, InstalledKeys
<1> QED  BY <1>2, <1>3 DEF NextKey, SessionKeys

\* A message whose key a sound session reaches decrypts in it, when it was
\* sent between the identities of the session.
LEMMA SoundDecrypts ==
  ASSUME TypeInv, LimitsNotReached, NEW p \in Parties, NEW m \in network, m.to = p, NEW s,
         Turnable(Drawn, p, m.from, s), AllPassed(s), LastLive(s), Reached(s, m),
         m.mac.sender = s.remoteIdentityKey, m.mac.receiver = Identity(p)
  PROVE  SessionDecrypts(p, s, m)
<1>1. MessageThere(m)
  BY MessageIsThere
<1>2. PICK keyPair \in SessionKeys(p) \ Drawn : keyPair = NextKey(p)
  BY NextKeyIsNew
<1>3. PICK q : q = m.from
  OBVIOUS
<1>4. m.mac = MAC(MessageKey(m.mac.key.seed, m.counter), s.remoteIdentityKey, Identity(p))
  <2>1. m.mac \in [key : [seed : Seq(SUBSET Drawn), counter : Nat], sender : Drawn,
                   receiver : Drawn]
    BY DEF TypeInv, MessagesTyped, MessageOK, MessageOver
  <2>2. m.mac = [key |-> m.mac.key, sender |-> m.mac.sender, receiver |-> m.mac.receiver]
    BY <2>1
  <2>3. m.mac.key = MessageKey(m.mac.key.seed, m.counter)
    BY <1>1 DEF MessageThere
  <2> QED  BY <2>2, <2>3 DEF MAC
<1>5. MessageKeysLimit # 0 => m.counter < MessageKeysLimit
  BY DEF LimitsNotReached
<1>6. /\ p # q
      /\ m.ephemeralKey \in SessionKeys(q)
      /\ m.ephemeralKey \in Drawn
      /\ m.counter \in Nat
      /\ m.previousCounter \in Int
      /\ m.mac.key.seed \in Seq(SUBSET Drawn)
      /\ Turnable(Drawn, p, q, s)
  BY <1>1, <1>3 DEF MessageThere
<1>7. Decrypts(s, m, Identity(p), keyPair)
  BY <1>4, <1>5, <1>6, ReachedDecrypts
<1> QED  BY <1>2, <1>7 DEF SessionDecrypts

\* What is asked about a message: it is for p as installed, from the sender p
\* trusts, and was not read.
Awaited(p, m) == /\ p \in Parties
                 /\ m \in network \ delivered
                 /\ m.to = p
                 /\ m.mac.receiver = Identity(p)
                 /\ AcceptsSender(p, m)

\* A message decrypts in the stored session that comes from its agreement.
LEMMA AgreeingDecrypts ==
  ASSUME ReadableInv, LimitsNotReached, NEW p, NEW m, Awaited(p, m),
         NEW q \in Parties, NEW k, Has(p, q, k), Agree(At(p, q, k).rootKey, m.mac.key.seed)
  PROVE  /\ q = m.from
         /\ SessionDecrypts(p, At(p, q, k), m)
<1>1. /\ TypeInv
      /\ PassedOK
      /\ Ends
      /\ MessageEnds
      /\ p \in Parties
      /\ m \in network
      /\ m \in network \ delivered
      /\ m.to = p
  BY DEF ReadableInv, KeyInv, EndsInv, Awaited
<1>2. PICK s : s = At(p, q, k)
  OBVIOUS
<1>3. End(network, network \ delivered, p, q, k, s)
  BY <1>1, <1>2 DEF Ends
<1>4. q = m.from
  <2>1. Between(p, q, k, s.rootKey)
    BY <1>3, AgreedBetween DEF End
  <2> QED  BY <1>1, <1>2, <2>1, MessageParties
<1>5. LastLive(s) /\ Reached(s, m)
  BY <1>1, <1>2, <1>3 DEF End, ReachedFrom
<1>6. Turnable(Drawn, p, q, s)
  BY <1>1, <1>2, SessionOKIsTurnable DEF TypeInv, SessionsTyped
<1>7. AllPassed(s)
  BY <1>1, <1>2 DEF PassedOK
<1>8. m.mac.sender = s.remoteIdentityKey
  <2>1. StoredOK(records[p][q]) /\ k \in DOMAIN records[p][q].sessions
    BY <1>1 DEF TypeInv, StorageInv, Has
  <2>2. s.remoteIdentityKey = records[p][q].identityKey
    BY <1>2, <2>1 DEF StoredOK, RecordOK, At
  <2>3. records[p][q].identityKey = m.mac.sender
    BY <1>4 DEF Awaited, AcceptsSender, Has
  <2> QED  BY <2>2, <2>3
<1>9. SessionDecrypts(p, s, m)
  BY <1>1, <1>4, <1>5, <1>6, <1>7, <1>8, SoundDecrypts DEF Awaited
<1> QED  BY <1>2, <1>4, <1>9

-----------------------------------------------------------------------------
\* What the header of a message asks for: the agreement its chain starts with.
Asks(m, n, secret) ==
  LET header == m.header
      signedPreKey == SignedPreKey(m.to, n, header.signedPreKeyId)
      preKey == PreKey(m.to, n, header.preKeyId)
  IN  /\ m.mac.receiver = IdentityKey(m.to, n)
      /\ secret = SharedSecret(TRUE, header.identityKey, header.baseKey, header.baseKey,
                               m.mac.receiver, signedPreKey, preKey)
      /\ secret \in Seq(SUBSET Drawn)
      /\ Len(secret) = 4
      /\ m.mac.key.seed = Append(secret, {signedPreKey, m.ephemeralKey})
      /\ Agree(secret, m.mac.key.seed)
      /\ Agreement(m.from, m.to, header.baseKey, m.mac.key.seed)
LEMMA HeaderAsks ==
  ASSUME TypeInv, NEW m \in network, m.header # None, MessageEnd(m)
  PROVE  \E n \in Nat : \E secret : Asks(m, n, secret)
<1>1. PICK q, base, id, sid, theirs : /\ q = m.to
                                      /\ base = m.header.baseKey
                                      /\ id = m.header.preKeyId
                                      /\ sid = m.header.signedPreKeyId
                                      /\ theirs = m.header.identityKey
  OBVIOUS
<1>2. /\ q \in Parties
      /\ base \in SessionKeys(m.from)
      /\ base \in Drawn
      /\ theirs \in Drawn
      /\ id \in Nat
      /\ sid \in Nat
      /\ m.mac.receiver \in Drawn
  BY <1>1 DEF TypeInv, MessagesTyped, MessageOK, MessageOver, HeaderOver
<1>3. PICK n \in Nat :
        /\ m.mac.receiver = IdentityKey(q, n)
        /\ m.mac.key.seed =
             Append(SharedSecret(TRUE, theirs, base, base, m.mac.receiver,
                                 SignedPreKey(q, n, sid), PreKey(q, n, id)),
                    {SignedPreKey(q, n, sid), m.ephemeralKey})
  BY <1>1 DEF MessageEnd, Offered
<1>4. PICK spk, pk : spk = SignedPreKey(q, n, sid) /\ pk = PreKey(q, n, id)
  OBVIOUS
<1>5. /\ spk \in Drawn
      /\ pk \in Drawn
      /\ None \notin Drawn
  <2>1. /\ install \in [Parties -> Nat]
        /\ fresh \in [Parties -> Nat]
    BY DEF TypeInv, TablesTyped
  <2>2. n <= install[q]
    BY <1>2, <1>3, <2>1, KeysMadeHas DEF Drawn
  <2> QED  BY <1>2, <1>4, <2>1, <2>2, KeysMadeHas DEF Drawn
<1>6. PICK secret : secret = SharedSecret(TRUE, theirs, base, base, m.mac.receiver, spk, pk)
  OBVIOUS
<1>7. Agreed(Drawn, secret, theirs, base, base, m.mac.receiver, spk, pk)
  BY <1>2, <1>5, <1>6, SharedSecretIs
<1>8. /\ secret \in Seq(SUBSET Drawn)
      /\ Len(secret) = 4
      /\ secret[4] = {pk, base}
  <2>1. base # None /\ pk # None
    BY <1>2, <1>5
  <2> QED  BY <1>7, <2>1 DEF Agreed
<1>9. m.mac.key.seed = Append(secret, {spk, m.ephemeralKey})
  BY <1>3, <1>4, <1>6
<1>10. Agree(secret, m.mac.key.seed)
  <2>1. {spk, m.ephemeralKey} \in SUBSET Drawn
    BY <1>5, MessageIsThere DEF MessageThere
  <2>2. PICK last \in SUBSET Drawn : last = {spk, m.ephemeralKey}
    BY <2>1
  <2>3. PICK S : S = SUBSET Drawn
    OBVIOUS
  <2>4. secret \in Seq(S) /\ last \in S /\ Len(secret) >= 4
    BY <1>8, <2>2, <2>3
  <2>5. Agree(secret, Append(secret, last))
    BY <2>4, AgreeLonger
  <2> QED  BY <1>9, <2>2, <2>5
<1>11. Agreement(m.from, q, base, m.mac.key.seed)
  <2>1. m.mac.key.seed[4] = {base, PreKey(q, n, id)}
    BY <1>4, <1>8, <1>10 DEF Agree
  <2> QED  BY <1>2, <2>1 DEF Agreement
<1> HIDE DEF Agreement, Agree
<1>12. Asks(m, n, secret)
  BY <1>1, <1>3, <1>4, <1>6, <1>8, <1>9, <1>10, <1>11 DEF Asks
<1> QED  BY <1>12

\* A message with a header is read in the session that comes from its
\* agreement, which is stored under the base key of the header.
LEMMA AgreeingReads ==
  ASSUME ReadableInv, LimitsNotReached, NEW p, NEW m, Awaited(p, m),
         NEW q \in Parties, NEW k, Has(p, q, k), Agree(At(p, q, k).rootKey, m.mac.key.seed)
  PROVE  Readable(p, m)
<1>1. /\ TypeInv
      /\ StorageInv
      /\ Ends
      /\ MessageEnds
      /\ p \in Parties
      /\ m \in network
      /\ m.to = p
  BY DEF ReadableInv, KeyInv, EndsInv, Awaited, TypeInv
<1>2. q = m.from /\ SessionDecrypts(p, At(p, q, k), m)
  BY AgreeingDecrypts
<1>3. CASE m.header = None
  BY <1>1, <1>2, <1>3, StoredReads
<1>4. CASE m.header # None
  <2>1. MessageEnd(m)
    BY <1>1 DEF MessageEnds
  <2>2. Agreement(q, p, m.header.baseKey, m.mac.key.seed)
    BY <1>1, <1>2, <1>4, <2>1, HeaderAsks DEF Asks
  <2>3. PICK s : s = At(p, q, k)
    OBVIOUS
  <2>4. SessionAgreed(p, q, k, s)
    BY <1>1, <2>3 DEF Ends, End
  <2>5. p # q
    BY <1>1, <1>2, MessageIsThere DEF MessageThere
  <2>6. k = m.header.baseKey /\ s.baseKeyType # "OURS"
    BY <2>2, <2>3, <2>4, <2>5, AgreementSame DEF SessionAgreed
  <2>7. PICK r : r = records[p][m.from]
    OBVIOUS
  <2>8. r # None /\ StoredOK(r) /\ k \in DOMAIN r.sessions /\ s = r.sessions[k]
    BY <1>1, <1>2, <2>3, <2>7 DEF StorageInv, Has, At
  <2>9. WorkingRecord(p, m) = r
    BY <2>7, <2>8 DEF WorkingRecord
  <2>10. IsDuplicate(r, m.header)
    BY <2>6, <2>8 DEF IsDuplicate, HasSessionByBaseKey
  <2>11. Accepts(p, r, r.sessions[k], m)
    BY <1>2, <2>3, <2>8, StoredAccepts
  <2>12. PreKeyMessageArrives(p, m)
    BY <1>1, <1>4, <2>1 DEF PreKeyMessageArrives, Awaited, AcceptsSender, MessageEnd
  <2>13. CanDecryptInKnownSession(p, m)
    BY <2>6, <2>9, <2>10, <2>11, <2>12 DEF CanDecryptInKnownSession
  <2> QED  BY <2>13 DEF Readable
<1> QED  BY <1>3, <1>4

-----------------------------------------------------------------------------
\* The open session of a record that has a registration id can be archived.
LEMMA RecordArchives ==
  ASSUME NEW r, RecordOK(r), HaveOpenSession(r) \/ OpenKeys(r) = {}
  PROVE  CanArchive(r)
<1>1. ~DuplicateOpenSessions(r)
  BY DEF RecordOK, DuplicateOpenSessions
<1>2. ASSUME OpenKeys(r) # {}
      PROVE  CanUpdateSessionState(r, CloseSession(OpenSession(r), Now(r)), None)
  <2>1. PICK k, now : k = (CHOOSE key \in OpenKeys(r) : TRUE) /\ now = Now(r)
    OBVIOUS
  <2>2. PICK s : s = OpenSession(r)
    OBVIOUS
  <2>3. k \in OpenKeys(r) /\ s = r.sessions[k]
    BY <1>2, <2>1, <2>2 DEF OpenSession
  <2>4. DOMAIN s = SessionFields /\ IsOpen(s) /\ s.remoteIdentityKey = r.identityKey
    BY <2>3 DEF RecordOK, OpenKeys
  <2> DEFINE chains == Delete(s.chains, {s.ephemeralKeyPair})
             live == {key \in DOMAIN chains : chains[key].live}
             closed == [s EXCEPT !.chains = chains,
                                 !.oldRatchetList = @ \o SetToSeq(live),
                                 !.closed = now]
  <2>5. CloseSession(s, now) = RemoveOldChains(closed)
    BY <2>4 DEF CloseSession
  <2>6. DOMAIN closed = SessionFields /\ closed.remoteIdentityKey = s.remoteIdentityKey
    BY <2>4 DEF SessionFields
  <2> HIDE DEF closed
  <2>7. CloseSession(s, now).remoteIdentityKey = r.identityKey
    BY <2>4, <2>5, <2>6, RemoveOldChainsKeepsHead DEF SameHead
  <2>8. r.registrationId # None
    BY <1>2 DEF HaveOpenSession
  <2> QED  BY <2>1, <2>2, <2>7, <2>8 DEF CanUpdateSessionState
<1> QED  BY <1>1, <1>2 DEF CanArchive

\* Both ends of an agreement compute the same secrets.
LEMMA SecretSame ==
  ASSUME NEW ours, NEW signedPreKey, NEW preKey, NEW theirs, NEW base,
         preKey # None, base # None
  PROVE  SharedSecret(FALSE, ours, signedPreKey, preKey, theirs, base, base)
           = SharedSecret(TRUE, theirs, base, base, ours, signedPreKey, preKey)
  BY DEF SharedSecret, ECDHE

\* The session a header asks for decrypts its message, when both prekeys are
\* still there.
LEMMA HeaderSessionDecrypts ==
  ASSUME ReadableInv, LimitsNotReached, NEW p, NEW m, Awaited(p, m),
         m.header # None, HoldsPreKeys(p, m.header)
  PROVE  SessionDecrypts(p, HeaderSession(p, m.header), m)
<1>1. /\ TypeInv
      /\ p \in Parties
      /\ m \in network
      /\ m.to = p
      /\ MessageEnd(m)
      /\ m.mac.receiver = Identity(p)
  BY DEF ReadableInv, KeyInv, EndsInv, Awaited, MessageEnds
<1>2. PICK base, id, sid, theirs : /\ base = m.header.baseKey
                                   /\ id = m.header.preKeyId
                                   /\ sid = m.header.signedPreKeyId
                                   /\ theirs = m.header.identityKey
  OBVIOUS
<1>3. id \in preKeys[p] /\ sid \in signedPreKeys[p]
  BY <1>2 DEF HoldsPreKeys
<1>4. PICK spk, pk : spk = SignedPreKey(p, install[p], sid) /\ pk = PreKey(p, install[p], id)
  OBVIOUS
<1>5. PICK s : s = HeaderSession(p, m.header)
  OBVIOUS
<1>6. /\ Answering(s, Identity(p), pk, spk, theirs, base)
      /\ Ready(p, m.from, s)
      /\ pk \in Drawn \cup {None}
      /\ None \notin Drawn
  <2>1. PreKeyFor(p, m.header) = pk
    BY <1>2, <1>3, <1>4 DEF PreKeyFor
  <2> QED  BY <1>1, <1>2, <1>3, <1>4, <1>5, <2>1, HeaderSessionReady
<1>7. s.rootKey = SharedSecret(FALSE, Identity(p), spk, pk, theirs, base, base)
  BY <1>2, <1>3, <1>4, <1>5 DEF HeaderSession, ResponderSession, NewSession
<1>8. PICK n \in Nat : \E secret : Asks(m, n, secret)
  BY <1>1, HeaderAsks
<1>9. PICK secret : Asks(m, n, secret)
  BY <1>8
<1>10. n = install[p]
  BY <1>1, <1>9 DEF Asks, Identity, IdentityKey
<1>11. /\ pk # None
       /\ base # None
  <2>1. pk \in Key
    BY <1>1, <1>3, <1>4, PartyAssumption DEF PreKey, Key, TypeInv, TablesTyped
  <2>2. base \in Drawn
    BY <1>1, <1>2 DEF TypeInv, MessagesTyped, MessageOK, MessageOver, HeaderOver
  <2> QED  BY <1>6, <2>1, <2>2, KeyAssumption
<1>12. s.rootKey = secret /\ Len(secret) = 4
  <2>1. /\ secret = SharedSecret(TRUE, theirs, base, base, Identity(p), spk, pk)
        /\ Len(secret) = 4
    BY <1>1, <1>2, <1>4, <1>9, <1>10 DEF Asks
  <2>2. PICK ours : ours = Identity(p)
    OBVIOUS
  <2> QED  BY <1>7, <1>11, <2>1, <2>2, SecretSame
<1>13. s.ephemeralKeyPair = spk /\ DOMAIN s.chains = {}
  BY <1>6 DEF Answering
<1>14. HadRoot(s, m)
  <2>1. m.mac.key.seed = Append(secret, {spk, m.ephemeralKey})
    BY <1>1, <1>2, <1>4, <1>9, <1>10 DEF Asks
  <2>2. {spk, m.ephemeralKey} = {m.ephemeralKey, s.ephemeralKeyPair}
    BY <1>13
  <2> QED  BY <1>12, <2>1, <2>2 DEF HadRoot
<1>15. Reached(s, m) /\ LastLive(s) /\ AllPassed(s)
  BY <1>12, <1>13, <1>14 DEF Reached, LastLive, AllPassed
<1>16. m.mac.sender = s.remoteIdentityKey
  BY <1>1, <1>5, HeaderSessionMadeFor DEF MadeFor, MessageEnd
<1>17. Turnable(Drawn, p, m.from, s)
  BY <1>6 DEF Ready
<1>18. SessionDecrypts(p, s, m)
  BY <1>1, <1>15, <1>16, <1>17, SoundDecrypts
<1> QED  BY <1>5, <1>18

\* processV3 puts that session in the record, open, so that the record can be
\* updated after the message was read.
LEMMA AddedAccepts ==
  ASSUME NEW p, NEW m, NEW r, RecordOK(r), HaveOpenSession(r) \/ OpenKeys(r) = {},
         NEW s, MadeFor(s, r.identityKey, s.baseKey),
         NEW id, id # None, SessionDecrypts(p, s, m)
  PROVE  /\ CanArchive(r)
         /\ CanUpdateSessionState(ArchiveCurrentState(r), s, id)
         /\ Accepts(p, UpdateSessionState(ArchiveCurrentState(r), s, id), s, m)
<1>1. PICK k : k = s.baseKey
  OBVIOUS
<1>2. DOMAIN s = SessionFields /\ s.closed = -1 /\ s.remoteIdentityKey = r.identityKey
  BY DEF MadeFor
<1>3. CanArchive(r)
  BY RecordArchives
<1>4. PICK a : a = ArchiveCurrentState(r)
  OBVIOUS
<1>5. RecordOK(a) /\ OpenKeys(a) = {} /\ a.identityKey = r.identityKey
  BY <1>3, <1>4, ArchiveCurrentStateKeeps
<1>6. CanUpdateSessionState(a, s, id)
  BY <1>2, <1>5 DEF CanUpdateSessionState
<1>7. PICK b : b = UpdateSessionState(a, s, id)
  OBVIOUS
<1>8. /\ StoredOK(b)
      /\ b.identityKey = r.identityKey
  BY <1>3, <1>4, <1>6, <1>7, AddSessionKeeps
<1>9. b.sessions = SessionsWith(a, s)
  BY <1>2, <1>5, <1>6, <1>7, UpdateSessionStateKeeps
<1>10. PICK t, sessions : /\ t = RemoveOldChains(s)
                          /\ sessions = Put(a.sessions, k, t)
  OBVIOUS
<1>11. IsOpen(t)
  BY <1>2, <1>10, RemoveOldChainsKeepsHead DEF SameHead, IsOpen
<1>12. /\ DOMAIN sessions = DOMAIN a.sessions \cup {k}
       /\ sessions[k] = t
       /\ \A key \in DOMAIN sessions \ {k} : sessions[key] = a.sessions[key]
  BY <1>10 DEF Put
<1>13. k \in DOMAIN RemoveOldSessions(sessions)
  <2>1. IsFiniteSet(DOMAIN sessions)
    BY <1>5, <1>12, FS_AddElement DEF RecordOK
  <2>2. \A key \in DOMAIN sessions : sessions[key].closed \in Int
    BY <1>5, <1>11, <1>12 DEF RecordOK, IsOpen
  <2>3. \A key \in DOMAIN sessions \ {k} : ~IsOpen(sessions[key])
    BY <1>5, <1>12 DEF OpenKeys
  <2> QED  BY <1>11, <1>12, <2>1, <2>2, <2>3, OpenStays
<1>14. b.sessions = RemoveOldSessions(sessions)
  BY <1>1, <1>9, <1>10 DEF SessionsWith
<1>15. k \in DOMAIN b.sessions /\ b.sessions[k] = t
  BY <1>12, <1>13, <1>14, RemoveOldSessionsKeeps
<1>16. b.registrationId # None
  BY <1>8, <1>11, <1>15 DEF StoredOK, HaveOpenSession, OpenKeys
<1>17. Decrypted(s, m, NextKey(p)).remoteIdentityKey = r.identityKey
  BY <1>2, DecryptedKeepsHead DEF SameHead
<1>18. CanUpdateSessionState(b, Decrypted(s, m, NextKey(p)), None)
  BY <1>8, <1>16, <1>17 DEF CanUpdateSessionState
<1> QED  BY <1>3, <1>4, <1>6, <1>7, <1>18 DEF Accepts

-----------------------------------------------------------------------------
\* A message with a header is read in the session processV3 makes for it, if
\* no stored session comes from its agreement and both prekeys are there.
LEMMA NewSessionReads ==
  ASSUME ReadableInv, LimitsNotReached, NEW p, NEW m, Awaited(p, m),
         m.header # None, HoldsPreKeys(p, m.header),
         \A q \in Parties : \A k : Has(p, q, k) => ~Agree(At(p, q, k).rootKey, m.mac.key.seed)
  PROVE  Readable(p, m)
<1>1. /\ TypeInv
      /\ StorageInv
      /\ Ends
      /\ OneAgreement
      /\ p \in Parties
      /\ m \in network
      /\ m.from \in Parties
      /\ m.to = p
      /\ p # m.from
      /\ MessageEnd(m)
      /\ AcceptsSender(p, m)
  BY MessageIsThere DEF ReadableInv, KeyInv, EndsInv, TypeInv, Awaited, MessageEnds, MessageThere
<1>2. PICK q, base, s, r : /\ q = m.from
                           /\ base = m.header.baseKey
                           /\ s = HeaderSession(p, m.header)
                           /\ r = WorkingRecord(p, m)
  OBVIOUS
<1>3. /\ RecordOK(r)
      /\ records[p][q] = None => DOMAIN r.sessions = {}
      /\ records[p][q] # None => r = records[p][q]
  BY <1>1, <1>2, WorkingRecordOK
<1>4. HaveOpenSession(r) \/ OpenKeys(r) = {}
  BY <1>1, <1>2, <1>3 DEF StorageInv, StoredOK, OpenKeys
<1>5. r.identityKey = m.header.identityKey
  <2>1. m.header.identityKey = m.mac.sender
    BY <1>1 DEF MessageEnd
  <2>2. CASE records[p][q] = None
    BY <1>2, <2>2, NewRecordOK DEF WorkingRecord
  <2>3. CASE records[p][q] # None
    BY <1>1, <1>2, <1>3, <2>1, <2>3 DEF AcceptsSender
  <2> QED  BY <2>2, <2>3
<1>6. MadeFor(s, r.identityKey, s.baseKey)
  BY <1>2, <1>5, HeaderSessionMadeFor DEF MadeFor
<1>7. m.header.registrationId # None
  BY <1>1, NumberAssumption DEF TypeInv, MessagesTyped, MessageOK, MessageOver, HeaderOver
<1>8. SessionDecrypts(p, s, m)
  BY <1>2, HeaderSessionDecrypts
<1>9. /\ CanAddSession(r, s, m.header)
      /\ Accepts(p, RecordAfterV3(p, m), s, m)
  <2>1. PICK id : id = m.header.registrationId
    OBVIOUS
  <2>2. /\ CanArchive(r)
        /\ CanUpdateSessionState(ArchiveCurrentState(r), s, id)
        /\ Accepts(p, UpdateSessionState(ArchiveCurrentState(r), s, id), s, m)
    BY <1>3, <1>4, <1>6, <1>7, <1>8, <2>1, AddedAccepts
  <2> QED  BY <1>2, <2>1, <2>2 DEF CanAddSession, RecordAfterV3, RecordWithNewSession
<1>10. ~IsDuplicate(r, m.header)
  <2> SUFFICES ASSUME IsDuplicate(r, m.header)
               PROVE  FALSE
    OBVIOUS
  <2>1. base \in DOMAIN r.sessions /\ r.sessions[base].baseKeyType # "OURS"
    BY <1>2 DEF IsDuplicate, HasSessionByBaseKey
  <2>2. Has(p, q, base) /\ r = records[p][q]
    BY <1>3, <2>1 DEF Has
  <2>3. PICK t : t = At(p, q, base)
    OBVIOUS
  <2>4. t.baseKeyType # "OURS"
    BY <2>1, <2>2, <2>3 DEF At
  <2>5. Agreement(q, p, base, t.rootKey)
    BY <1>1, <1>2, <2>2, <2>3, <2>4 DEF Ends, End, SessionAgreed
  <2>6. Agreement(q, p, base, m.mac.key.seed)
    BY <1>1, <1>2, HeaderAsks DEF Asks
  <2>7. SharesBase(t.rootKey, m.mac.key.seed)
    BY <1>1, <1>2, <2>5, <2>6 DEF SharesBase, Agreement, SessionKeys
  <2>8. Seed(t.rootKey) /\ Seed(m.mac.key.seed)
    BY <1>1, <1>2, <2>2, <2>3 DEF Seed
  <2>9. Agree(t.rootKey, m.mac.key.seed)
    BY <1>1, <2>7, <2>8 DEF OneAgreement
  <2> QED  BY <1>1, <1>2, <2>2, <2>3, <2>9
<1>11. PreKeyMessageArrives(p, m)
  BY <1>1 DEF PreKeyMessageArrives, AcceptsSender, MessageEnd
<1>12. CanDecryptInNewSession(p, m)
  BY <1>2, <1>9, <1>10, <1>11 DEF CanDecryptInNewSession, NewSessionArrives, HoldsPreKeys
<1> QED  BY <1>12 DEF Readable

\* SameAgreement is that of the root key and the chain of a message.
LEMMA SameAgreementAgrees ==
  ASSUME TypeInv, NEW p \in Parties, NEW q \in Parties, NEW k, Has(p, q, k),
         NEW m \in network, SameAgreement(At(p, q, k), m)
  PROVE  Agree(At(p, q, k).rootKey, m.mac.key.seed)
<1>1. PICK x, y : x = At(p, q, k).rootKey /\ y = m.mac.key.seed
  OBVIOUS
<1>2. x \in Secrets /\ y \in Secrets /\ Len(x) >= 5 /\ Len(y) >= 5
  BY <1>1, SessionIsThere, MessageIsThere DEF SessionThere, MessageThere
<1>3. SubSeq(x, 1, 4) = SubSeq(y, 1, 4)
  BY <1>1 DEF SameAgreement
<1>4. ASSUME NEW i \in 1..4
      PROVE  x[i] = y[i]
  <2>1. SubSeq(x, 1, 4)[i] = x[i] /\ SubSeq(y, 1, 4)[i] = y[i]
    BY <1>2 DEF Secrets
  <2> QED  BY <1>3, <2>1
<1> QED  BY <1>1, <1>4 DEF Agree

\* So every message is readable that the property speaks of.
LEMMA InvIsReadable ==
  ASSUME ReadableInv, LimitsNotReached
  PROVE  EveryMessageReadable
<1> SUFFICES ASSUME NEW m \in network \ delivered, NEW p, p = m.to,
                    m.mac.receiver = Identity(p), AcceptsSender(p, m),
                    \/ \E session \in SessionsAt(p) : SameAgreement(session, m)
                    \/ m.header # None /\ HoldsPreKeys(p, m.header)
             PROVE  Readable(p, m)
  BY DEF EveryMessageReadable
<1>1. TypeInv
  BY DEF ReadableInv, KeyInv
<1>2. p \in Parties
  BY <1>1, MessageIsThere DEF MessageThere
<1>3. Awaited(p, m)
  BY <1>2 DEF Awaited
<1>4. CASE \E q \in Parties : \E k : Has(p, q, k) /\ Agree(At(p, q, k).rootKey, m.mac.key.seed)
  BY <1>3, <1>4, AgreeingReads
<1>5. ASSUME \A q \in Parties : \A k :
               Has(p, q, k) => ~Agree(At(p, q, k).rootKey, m.mac.key.seed)
      PROVE  Readable(p, m)
  <2>1. ASSUME NEW session \in SessionsAt(p)
        PROVE  ~SameAgreement(session, m)
    <3>1. PICK r \in Stored(p) : session \in SessionsOf(r)
      BY <2>1 DEF SessionsAt
    <3>2. PICK q \in Parties : r # None /\ r = records[p][q]
      BY <3>1 DEF Stored
    <3>3. PICK k \in DOMAIN r.sessions : session = r.sessions[k]
      BY <3>1 DEF SessionsOf
    <3>4. Has(p, q, k) /\ session = At(p, q, k)
      BY <3>2, <3>3 DEF Has, At
    <3> QED  BY <1>1, <1>2, <1>5, <3>4, SameAgreementAgrees
  <2>2. m.header # None /\ HoldsPreKeys(p, m.header)
    BY <2>1
  <2> QED  BY <1>3, <1>5, <2>2, NewSessionReads
<1> QED  BY <1>4, <1>5

\* As long as no limit binds and no prekey is left behind, a message that was
\* sent and not read can be read by its addressee, in whatever order messages come and however the two sides
\* open, close and step their sessions: in the stored session that comes from
\* its agreement (decryptWithSessionList, getSessionByBaseKey), or in the one
\* processV3 makes while both prekeys are there.
THEOREM SignalEveryMessageReadable ==
  Spec /\ []LimitsNotReached /\ []NothingLeft => []EveryMessageReadable
<1>1. ReadableInv /\ LimitsNotReached => EveryMessageReadable
  BY InvIsReadable
<1> QED  BY <1>1, EndsInvariant, PTL
=============================================================================
