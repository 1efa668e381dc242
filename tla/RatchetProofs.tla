----------------------------- MODULE RatchetProofs -----------------------------
(*****************************************************************************)
(* Proofs about the operators of Ratchet, SessionRecord and                  *)
(* SessionBuilder, for any limits: what each does to a chain, a session      *)
(* and a record, and that the session it leaves is sound. A session of p     *)
(* with q is sound when its key pairs are those of the two, its sending      *)
(* chain grew from its root key, and its last receiving chain from the       *)
(* root key before the last agreement.                                       *)
(*****************************************************************************)
EXTENDS SessionRecordProofs, SequenceTheorems

\* Chains and sessions over a set of key pairs.  A counter starts at -1; the
\* message keys a chain stores are finitely many.
Counters == {c \in Int : c >= -1}
KeySets == {keys \in SUBSET Nat : IsFiniteSet(keys)}
ChainOver(K) == [chainType : {"SENDING", "RECEIVING"}, seed : Seq(SUBSET K),
                 counter : Counters, live : BOOLEAN, messageKeys : KeySets]
PendingOver(K) == [preKeyId : Nat, signedKeyId : Nat, baseKey : K]
ChainsOver(K, chains) == /\ DOMAIN chains \subseteq K
                         /\ IsFiniteSet(DOMAIN chains)
                         /\ chains \in [DOMAIN chains -> ChainOver(K)]
SessionOver(K, s) ==
  /\ s \in [rootKey : Seq(SUBSET K), ephemeralKeyPair : K,
            lastRemoteEphemeralKey : K, previousCounter : Int,
            remoteIdentityKey : K, closed : Int, baseKey : K,
            baseKeyType : {"OURS", "THEIRS"}, oldRatchetList : Seq(K),
            pendingPreKey : PendingOver(K) \cup {None}, chains : {s.chains}]
  /\ ChainsOver(K, s.chains)

\* A new chain.
LEMMA NewChainOver ==
  ASSUME NEW K, NEW seed \in Seq(SUBSET K), NEW type \in {"SENDING", "RECEIVING"}
  PROVE  NewChain(seed, type) \in ChainOver(K)
  BY FS_EmptySet DEF NewChain, ChainOver, Counters, KeySets

\* fillMessageKeys: the chain is advanced, to the counter asked for or to the
\* limit, and the keys passed are stored.
LEMMA FillMessageKeysIs ==
  ASSUME NEW K, NEW chain \in ChainOver(K), NEW counter \in Int
  PROVE  LET filled == FillMessageKeys(chain, counter)
         IN  /\ filled \in ChainOver(K)
             /\ filled.chainType = chain.chainType
             /\ filled.seed = chain.seed
             /\ filled.live = chain.live
             /\ filled.counter >= chain.counter
             /\ filled.counter > chain.counter =>
                  filled.counter <= counter /\ ~TooManyKeys(chain)
             /\ filled.messageKeys
                  = chain.messageKeys \cup (chain.counter + 1)..filled.counter
             /\ MessageKeysLimit # 0
                  /\ Cardinality(chain.messageKeys) <= MessageKeysLimit
                => Cardinality(filled.messageKeys) <= MessageKeysLimit
<1> DEFINE end == FillEnd(chain, counter)
           new == (chain.counter + 1)..end
           keys == chain.messageKeys \cup new
           moved == [chain EXCEPT !.counter = end]
           filled == FillMessageKeys(chain, counter)
<1>1. /\ Cardinality(chain.messageKeys) \in Nat
      /\ IsFiniteSet(chain.messageKeys)
      /\ chain.messageKeys \in SUBSET Nat
      /\ chain.counter \in Int
      /\ chain.counter >= -1
  BY FS_CardinalityType DEF ChainOver, KeySets, Counters
<1>2. CASE TooManyKeys(chain) \/ chain.counter >= counter
  <2>1. filled = chain
    BY <1>2 DEF FillMessageKeys
  <2>2. (chain.counter + 1)..chain.counter = {}
    BY <1>1
  <2> HIDE DEF filled
  <2>3. chain.messageKeys = chain.messageKeys \cup (chain.counter + 1)..chain.counter
    BY <2>2
  <2>4. chain.counter >= chain.counter /\ ~(chain.counter > chain.counter)
    BY <1>1
  <2> QED  BY <2>1, <2>3, <2>4 DEF filled
<1>3. CASE ~TooManyKeys(chain) /\ ~(chain.counter >= counter)
  <2>1. /\ end \in Int
        /\ end >= chain.counter
        /\ end <= counter
        /\ MessageKeysLimit # 0 =>
             end <= chain.counter + MessageKeysLimit - Cardinality(chain.messageKeys)
    BY <1>1, <1>3, LimitAssumption DEF FillEnd, TooManyKeys
  <2> HIDE DEF end, moved, filled
  <2>2. /\ IsFiniteSet(new)
        /\ Cardinality(new) = end - chain.counter
        /\ new \in SUBSET Nat
    <3> DEFINE first == chain.counter + 1
    <3>1. first \in Int
      BY <1>1
    <3> HIDE DEF first
    <3>2. /\ IsFiniteSet(first..end)
          /\ Cardinality(first..end) = IF first > end THEN 0 ELSE end - first + 1
      BY <2>1, <3>1, FS_Interval
    <3> USE DEF first
    <3>3. new \in SUBSET Nat
      BY <1>1, <2>1
    <3> QED  BY <1>1, <2>1, <3>2, <3>3
  <2> HIDE DEF new
  <2>3. /\ IsFiniteSet(keys)
        /\ keys \in KeySets
        /\ Cardinality(keys) = Cardinality(chain.messageKeys) + Cardinality(new)
                                 - Cardinality(chain.messageKeys \cap new)
        /\ Cardinality(chain.messageKeys \cap new) \in Nat
    BY <1>1, <2>2, FS_Union, FS_Intersection, FS_CardinalityType DEF KeySets
  <2>4. MessageKeysLimit # 0 => Cardinality(keys) <= MessageKeysLimit
    BY <1>1, <2>1, <2>2, <2>3, LimitAssumption
  <2>5. filled = [moved EXCEPT !.messageKeys = keys]
    BY <1>3 DEF FillMessageKeys, end, new, moved, filled
  <2> USE DEF moved
  <2> HIDE DEF keys
  <2>6. /\ moved \in ChainOver(K)
        /\ moved.chainType = chain.chainType
        /\ moved.seed = chain.seed
        /\ moved.live = chain.live
        /\ moved.counter = end
    BY <1>1, <2>1 DEF ChainOver, Counters
  <2> HIDE DEF moved
  <2>7. /\ filled \in ChainOver(K)
        /\ filled.chainType = chain.chainType
        /\ filled.seed = chain.seed
        /\ filled.live = chain.live
        /\ filled.counter = end
        /\ filled.messageKeys = keys
    BY <2>3, <2>5, <2>6 DEF ChainOver
  <2> QED  BY <1>3, <2>1, <2>4, <2>7 DEF filled, keys, new
<1> QED  BY <1>2, <1>3

\* Chains that one was added to.
LEMMA PutOver ==
  ASSUME NEW K, NEW chains, ChainsOver(K, chains), NEW key \in K,
         NEW chain \in ChainOver(K)
  PROVE  ChainsOver(K, Put(chains, key, chain))
  BY FS_AddElement DEF ChainsOver, Put

\* Chains that some were deleted from.
LEMMA DeleteOver ==
  ASSUME NEW K, NEW chains, ChainsOver(K, chains), NEW keys
  PROVE  ChainsOver(K, Delete(chains, keys))
  BY FS_Difference DEF ChainsOver, Delete

\* t is s with other values in the fields F at most.
SameBut(F, s, t) == /\ DOMAIN s = SessionFields
                    /\ DOMAIN t = SessionFields
                    /\ \A f \in SessionFields \ F : t[f] = s[f]

\* A session with another chain and another root key.
Chained(s, key, chain, rootKey) ==
  [s EXCEPT !.chains = Put(@, key, chain), !.rootKey = rootKey]

\* The session with one more chain and its seed as root key.
LEMMA ChainedIs ==
  ASSUME NEW K, NEW s, SessionOver(K, s), NEW key \in K, NEW chain \in ChainOver(K),
         NEW rootKey \in Seq(SUBSET K)
  PROVE  LET t == Chained(s, key, chain, rootKey)
         IN  /\ SessionOver(K, t)
             /\ SameBut({"chains", "rootKey"}, s, t)
             /\ t.rootKey = rootKey
             /\ t.chains = Put(s.chains, key, chain)
<1> DEFINE chains == Put(s.chains, key, chain)
           chained == [s EXCEPT !.chains = chains]
           t == [chained EXCEPT !.rootKey = rootKey]
<1>1. DOMAIN s = SessionFields
  BY DEF SessionOver, SessionFields
<1>2. ChainsOver(K, chains)
  BY PutOver DEF SessionOver
<1> HIDE DEF chains
<1>3. /\ SessionOver(K, chained)
      /\ SameBut({"chains"}, s, chained)
      /\ chained.chains = chains
  BY <1>1, <1>2 DEF SessionOver, SameBut, SessionFields
<1> HIDE DEF chained
<1>4. /\ SessionOver(K, t)
      /\ SameBut({"chains", "rootKey"}, s, t)
      /\ t.rootKey = rootKey
      /\ t.chains = chains
  BY <1>1, <1>3 DEF SessionOver, SameBut, SessionFields
<1> QED  BY <1>4 DEF t, chained, chains, Chained

\* calculateRatchet, receiving and sending.
WithReceivingChain(s, key) == CalculateRatchet(s, key, FALSE)
WithSendingChain(s, key) == CalculateRatchet(s, key, TRUE)

\* calculateRatchet, for either direction.
LEMMA CalculateRatchetIs ==
  ASSUME NEW K, NEW s, SessionOver(K, s), NEW key \in K
  PROVE  LET receiving == WithReceivingChain(s, key)
             sending == WithSendingChain(s, key)
             rootKey == Append(s.rootKey, {key, s.ephemeralKeyPair})
         IN  /\ SessionOver(K, receiving)
             /\ SameBut({"chains", "rootKey"}, s, receiving)
             /\ receiving.rootKey = rootKey
             /\ receiving.chains = Put(s.chains, key, NewChain(rootKey, "RECEIVING"))
             /\ SessionOver(K, sending)
             /\ SameBut({"chains", "rootKey"}, s, sending)
             /\ sending.rootKey = rootKey
             /\ sending.chains = Put(s.chains, s.ephemeralKeyPair,
                                     NewChain(rootKey, "SENDING"))
<1> DEFINE receiving == WithReceivingChain(s, key)
           sending == WithSendingChain(s, key)
           rootKey == Append(s.rootKey, {key, s.ephemeralKeyPair})
           chainR == NewChain(rootKey, "RECEIVING")
           chainS == NewChain(rootKey, "SENDING")
<1>1. /\ s.rootKey \in Seq(SUBSET K)
      /\ s.ephemeralKeyPair \in K
  BY DEF SessionOver
<1>2. rootKey \in Seq(SUBSET K)
  BY <1>1
<1>3. /\ receiving = Chained(s, key, chainR, rootKey)
      /\ sending = Chained(s, s.ephemeralKeyPair, chainS, rootKey)
  BY DEF WithReceivingChain, WithSendingChain, CalculateRatchet, HKDF, ECDHE, Chained
<1> HIDE DEF rootKey
<1>4. chainR \in ChainOver(K) /\ chainS \in ChainOver(K)
  BY <1>2, NewChainOver
<1> HIDE DEF chainR, chainS, receiving, sending
<1>5. /\ SessionOver(K, receiving)
      /\ SameBut({"chains", "rootKey"}, s, receiving)
      /\ receiving.rootKey = rootKey
      /\ receiving.chains = Put(s.chains, key, chainR)
  BY <1>2, <1>3, <1>4, ChainedIs
<1>6. /\ SessionOver(K, sending)
      /\ SameBut({"chains", "rootKey"}, s, sending)
      /\ sending.rootKey = rootKey
      /\ sending.chains = Put(s.chains, s.ephemeralKeyPair, chainS)
  BY <1>1, <1>2, <1>3, <1>4, ChainedIs
<1> QED  BY <1>5, <1>6 DEF receiving, sending, rootKey, chainR, chainS

\* A receiving chain that maybeStepRatchet leaves behind.
Retired(chain, counter) == [FillMessageKeys(chain, counter) EXCEPT !.live = FALSE]

\* The first part of maybeStepRatchet: the last receiving chain is completed
\* and closed.
LEMMA RetireReceivingChainIs ==
  ASSUME NEW K, NEW s, SessionOver(K, s), NEW previousCounter \in Int
  PROVE  LET t == RetireReceivingChain(s, previousCounter)
             last == s.lastRemoteEphemeralKey
         IN  /\ SessionOver(K, t)
             /\ SameBut({"chains", "oldRatchetList"}, s, t)
             /\ DOMAIN t.chains = DOMAIN s.chains
             /\ \A k \in DOMAIN s.chains \ {last} : t.chains[k] = s.chains[k]
             /\ last \in DOMAIN s.chains =>
                  /\ t.chains[last] = Retired(s.chains[last], previousCounter)
                  /\ t.oldRatchetList = Append(s.oldRatchetList, last)
             /\ last \notin DOMAIN s.chains => t.oldRatchetList = s.oldRatchetList
<1> DEFINE last == s.lastRemoteEphemeralKey
           t == RetireReceivingChain(s, previousCounter)
<1>1. DOMAIN s = SessionFields
  BY DEF SessionOver, SessionFields
<1>2. CASE last \notin DOMAIN s.chains
  <2>1. t = s
    BY <1>2 DEF RetireReceivingChain
  <2> QED  BY <1>1, <1>2, <2>1 DEF SameBut
<1>3. CASE last \in DOMAIN s.chains
  <2> DEFINE filled == FillMessageKeys(s.chains[last], previousCounter)
             retired == [filled EXCEPT !.live = FALSE]
             chains == [s.chains EXCEPT ![last] = retired]
             chained == [s EXCEPT !.chains = chains]
             list == Append(s.oldRatchetList, last)
  <2>1. t = [chained EXCEPT !.oldRatchetList = list]
    BY <1>3 DEF RetireReceivingChain
  <2>2. filled \in ChainOver(K)
    BY <1>3, FillMessageKeysIs DEF SessionOver, ChainsOver
  <2>3. retired \in ChainOver(K)
    <3> HIDE DEF filled
    <3> QED  BY <2>2 DEF ChainOver
  <2>4. list \in Seq(K)
    BY DEF SessionOver
  <2> HIDE DEF retired, list, t
  <2>5. /\ ChainsOver(K, chains)
        /\ DOMAIN chains = DOMAIN s.chains
        /\ \A k \in DOMAIN s.chains \ {last} : chains[k] = s.chains[k]
        /\ chains[last] = retired
    BY <1>3, <2>3 DEF SessionOver, ChainsOver
  <2> HIDE DEF chains
  <2>6. /\ SessionOver(K, chained)
        /\ SameBut({"chains"}, s, chained)
        /\ chained.chains = chains
    BY <1>1, <2>5 DEF SessionOver, SameBut, SessionFields
  <2> HIDE DEF chained
  <2>7. /\ SessionOver(K, t)
        /\ SameBut({"chains", "oldRatchetList"}, s, t)
        /\ t.chains = chains
        /\ t.oldRatchetList = list
    BY <1>1, <2>1, <2>4, <2>6 DEF SessionOver, SameBut, SessionFields
  <2> QED  BY <1>3, <2>5, <2>7 DEF t, retired, list, Retired
<1> QED  BY <1>2, <1>3

\* Its middle part: the sending chain goes, its counter is kept.
LEMMA RetireSendingChainIs ==
  ASSUME NEW K, NEW s, SessionOver(K, s)
  PROVE  LET t == RetireSendingChain(s)
             key == s.ephemeralKeyPair
         IN  /\ SessionOver(K, t)
             /\ SameBut({"chains", "previousCounter"}, s, t)
             /\ DOMAIN t.chains = DOMAIN s.chains \ {key}
             /\ \A k \in DOMAIN t.chains : t.chains[k] = s.chains[k]
             /\ t.previousCounter = IF key \in DOMAIN s.chains
                                      THEN s.chains[key].counter
                                      ELSE s.previousCounter
<1> DEFINE key == s.ephemeralKeyPair
           t == RetireSendingChain(s)
<1>1. DOMAIN s = SessionFields
  BY DEF SessionOver, SessionFields
<1>2. CASE key \notin DOMAIN s.chains
  <2>1. t = s
    BY <1>2 DEF RetireSendingChain
  <2> QED  BY <1>1, <1>2, <2>1 DEF SameBut
<1>3. CASE key \in DOMAIN s.chains
  <2> DEFINE counted == [s EXCEPT !.previousCounter = s.chains[key].counter]
             chains == Delete(s.chains, {key})
  <2>1. t = [counted EXCEPT !.chains = chains]
    BY <1>3 DEF RetireSendingChain
  <2>2. s.chains[key].counter \in Int
    BY <1>3 DEF SessionOver, ChainsOver, ChainOver, Counters
  <2>3. /\ ChainsOver(K, chains)
        /\ DOMAIN chains = DOMAIN s.chains \ {key}
        /\ \A k \in DOMAIN chains : chains[k] = s.chains[k]
    BY DeleteOver DEF SessionOver, Delete
  <2> HIDE DEF t, chains
  <2>4. /\ SessionOver(K, counted)
        /\ SameBut({"previousCounter"}, s, counted)
        /\ counted.previousCounter = s.chains[key].counter
    BY <1>1, <2>2 DEF SessionOver, SameBut, SessionFields
  <2> HIDE DEF counted
  <2>5. /\ SessionOver(K, t)
        /\ SameBut({"chains", "previousCounter"}, s, t)
        /\ t.chains = chains
        /\ t.previousCounter = s.chains[key].counter
    BY <1>1, <2>1, <2>3, <2>4 DEF SessionOver, SameBut, SessionFields
  <2> QED  BY <1>3, <2>3, <2>5 DEF t
<1> QED  BY <1>2, <1>3

\* A session over some keys is one over more keys.
LEMMA SessionOverMore ==
  ASSUME NEW K, NEW L, K \subseteq L, NEW s, SessionOver(K, s)
  PROVE  SessionOver(L, s)
<1>1. Seq(SUBSET K) \subseteq Seq(SUBSET L) /\ Seq(K) \subseteq Seq(L)
  BY SeqMonotonic
<1>2. ChainOver(K) \subseteq ChainOver(L) /\ PendingOver(K) \subseteq PendingOver(L)
  BY <1>1 DEF ChainOver, PendingOver
<1>3. ChainsOver(L, s.chains)
  BY <1>2 DEF SessionOver, ChainsOver
<1> QED  BY <1>1, <1>2, <1>3 DEF SessionOver

\* t is s after a turn of the ratchet with the key pair keyPair: the receiving
\* chain of key and the sending chain of keyPair are new, the sending chain of
\* the old key pair is gone, and the chain of the last remote key is retired.
Turned(s, key, previousCounter, keyPair, t) ==
  LET last == s.lastRemoteEphemeralKey
      received == Append(s.rootKey, {key, s.ephemeralKeyPair})
      sending == Append(received, {key, keyPair})
  IN  /\ SameBut({"rootKey", "ephemeralKeyPair", "lastRemoteEphemeralKey",
                  "previousCounter", "oldRatchetList", "chains"}, s, t)
      /\ t.rootKey = sending
      /\ t.ephemeralKeyPair = keyPair
      /\ t.lastRemoteEphemeralKey = key
      /\ t.previousCounter = IF s.ephemeralKeyPair \in DOMAIN s.chains
                               THEN s.chains[s.ephemeralKeyPair].counter
                               ELSE s.previousCounter
      /\ t.oldRatchetList = IF last \in DOMAIN s.chains
                              THEN Append(s.oldRatchetList, last)
                              ELSE s.oldRatchetList
      /\ DOMAIN t.chains = (DOMAIN s.chains \ {s.ephemeralKeyPair})
                             \cup {key, keyPair}
      /\ t.chains[key] = NewChain(received, "RECEIVING")
      /\ t.chains[keyPair] = NewChain(sending, "SENDING")
      /\ last \in DOMAIN s.chains =>
           t.chains[last] = Retired(s.chains[last], previousCounter)
      /\ \A k \in DOMAIN s.chains \ {s.ephemeralKeyPair, last} :
           t.chains[k] = s.chains[k]

\* maybeStepRatchet with a key that has no chain yet is such a turn.
LEMMA MaybeStepRatchetIs ==
  ASSUME NEW K, NEW s, SessionOver(K, s), NEW key \in K, NEW previousCounter \in Int,
         NEW keyPair, keyPair \notin K,
         key \notin DOMAIN s.chains, key # s.ephemeralKeyPair,
         s.lastRemoteEphemeralKey # s.ephemeralKeyPair
  PROVE  LET t == MaybeStepRatchet(s, key, previousCounter, keyPair)
         IN  /\ SessionOver(K \cup {keyPair}, t)
             /\ Turned(s, key, previousCounter, keyPair, t)
<1> DEFINE L == K \cup {keyPair}
           last == s.lastRemoteEphemeralKey
           masterR == Append(s.rootKey, {key, s.ephemeralKeyPair})
           masterS == Append(masterR, {key, keyPair})
           retired == RetireReceivingChain(s, previousCounter)
           received == WithReceivingChain(retired, key)
           unsent == RetireSendingChain(received)
           swapped == [unsent EXCEPT !.ephemeralKeyPair = keyPair]
           sending == WithSendingChain(swapped, key)
           t == MaybeStepRatchet(s, key, previousCounter, keyPair)
<1>1. t = [sending EXCEPT !.lastRemoteEphemeralKey = key]
  BY DEF MaybeStepRatchet, WithReceivingChain, WithSendingChain
<1>2. /\ DOMAIN s.chains \subseteq K
      /\ s.ephemeralKeyPair \in K
      /\ keyPair # key
  BY DEF SessionOver, ChainsOver
<1>3. /\ SessionOver(K, retired)
      /\ SameBut({"chains", "oldRatchetList"}, s, retired)
      /\ DOMAIN retired.chains = DOMAIN s.chains
      /\ \A k \in DOMAIN s.chains \ {last} : retired.chains[k] = s.chains[k]
      /\ last \in DOMAIN s.chains =>
           /\ retired.chains[last] = Retired(s.chains[last], previousCounter)
           /\ retired.oldRatchetList = Append(s.oldRatchetList, last)
      /\ last \notin DOMAIN s.chains => retired.oldRatchetList = s.oldRatchetList
  BY RetireReceivingChainIs
<1> HIDE DEF retired
<1>4. /\ SessionOver(K, received)
      /\ SameBut({"chains", "rootKey"}, retired, received)
      /\ received.rootKey = Append(retired.rootKey, {key, retired.ephemeralKeyPair})
      /\ received.chains = Put(retired.chains, key,
            NewChain(Append(retired.rootKey, {key, retired.ephemeralKeyPair}), "RECEIVING"))
  <2>1. SessionOver(K, retired)
    BY <1>3
  <2> QED  BY <2>1, CalculateRatchetIs
<1> HIDE DEF received
<1>5. /\ SessionOver(K, unsent)
      /\ SameBut({"chains", "previousCounter"}, received, unsent)
      /\ DOMAIN unsent.chains = DOMAIN received.chains \ {received.ephemeralKeyPair}
      /\ \A k \in DOMAIN unsent.chains : unsent.chains[k] = received.chains[k]
      /\ unsent.previousCounter = IF received.ephemeralKeyPair \in DOMAIN received.chains
                                    THEN received.chains[received.ephemeralKeyPair].counter
                                    ELSE received.previousCounter
  BY <1>4, RetireSendingChainIs
<1> HIDE DEF unsent
<1>6. /\ SessionOver(L, swapped)
      /\ SameBut({"ephemeralKeyPair"}, unsent, swapped)
      /\ swapped.ephemeralKeyPair = keyPair
  <2>1. SessionOver(L, unsent) /\ keyPair \in L
    BY <1>5, SessionOverMore
  <2>2. DOMAIN unsent = SessionFields
    BY <1>5 DEF SameBut
  <2> HIDE DEF L
  <2> QED  BY <2>1, <2>2 DEF SessionOver, SameBut, SessionFields
<1> HIDE DEF swapped
<1>7. key \in L
  OBVIOUS
<1>8. /\ SessionOver(L, sending)
      /\ SameBut({"chains", "rootKey"}, swapped, sending)
      /\ sending.rootKey = Append(swapped.rootKey, {key, swapped.ephemeralKeyPair})
      /\ sending.chains = Put(swapped.chains, swapped.ephemeralKeyPair,
            NewChain(Append(swapped.rootKey, {key, swapped.ephemeralKeyPair}), "SENDING"))
  BY ZenonT(40), <1>6, <1>7, CalculateRatchetIs
<1> HIDE DEF sending
<1>9. /\ SessionOver(L, t)
      /\ SameBut({"lastRemoteEphemeralKey"}, sending, t)
      /\ t.lastRemoteEphemeralKey = key
  BY <1>1, <1>8 DEF SessionOver, SameBut, SessionFields
<1> HIDE DEF t
<1>10. /\ retired.rootKey = s.rootKey
      /\ retired.ephemeralKeyPair = s.ephemeralKeyPair
      /\ retired.previousCounter = s.previousCounter
      /\ received.ephemeralKeyPair = retired.ephemeralKeyPair
      /\ received.previousCounter = retired.previousCounter
      /\ unsent.rootKey = received.rootKey
      /\ swapped.rootKey = unsent.rootKey
      /\ swapped.chains = unsent.chains
      /\ t.chains = sending.chains
      /\ t.rootKey = sending.rootKey
  BY <1>3, <1>4, <1>5, <1>6, <1>9 DEF SameBut, SessionFields
<1>11. /\ t.ephemeralKeyPair = keyPair
       /\ t.previousCounter = unsent.previousCounter
       /\ t.oldRatchetList = retired.oldRatchetList
  <2>1. t.ephemeralKeyPair = sending.ephemeralKeyPair
    BY <1>9 DEF SameBut, SessionFields
  <2>2. sending.ephemeralKeyPair = swapped.ephemeralKeyPair
    BY <1>8 DEF SameBut, SessionFields
  <2>3. t.previousCounter = unsent.previousCounter
    BY <1>6, <1>8, <1>9 DEF SameBut, SessionFields
  <2>4. t.oldRatchetList = unsent.oldRatchetList
    BY <1>6, <1>8, <1>9 DEF SameBut, SessionFields
  <2>5. unsent.oldRatchetList = retired.oldRatchetList
    BY <1>4, <1>5 DEF SameBut, SessionFields
  <2> QED  BY <1>6, <2>1, <2>2, <2>3, <2>4, <2>5
<1>12. SameBut({"rootKey", "ephemeralKeyPair", "lastRemoteEphemeralKey",
                "previousCounter", "oldRatchetList", "chains"}, s, t)
  BY <1>3, <1>4, <1>5, <1>6, <1>8, <1>9 DEF SameBut
<1>13. received.rootKey = masterR /\ t.rootKey = masterS
  BY <1>4, <1>6, <1>8, <1>10
<1>14. /\ DOMAIN received.chains = DOMAIN s.chains \cup {key}
       /\ \A k \in DOMAIN s.chains : received.chains[k] = retired.chains[k]
       /\ received.chains[key] = NewChain(masterR, "RECEIVING")
  BY <1>3, <1>4, <1>10 DEF Put
<1>15. /\ DOMAIN t.chains = (DOMAIN s.chains \ {s.ephemeralKeyPair}) \cup {key, keyPair}
       /\ t.chains[keyPair] = NewChain(masterS, "SENDING")
       /\ \A k \in DOMAIN unsent.chains : t.chains[k] = received.chains[k]
  <2>1. keyPair \notin DOMAIN unsent.chains
    BY <1>2, <1>5, <1>10, <1>14
  <2>2. t.chains = Put(unsent.chains, keyPair, NewChain(masterS, "SENDING"))
    BY <1>6, <1>8, <1>10, <1>13
  <2>3. DOMAIN unsent.chains = (DOMAIN s.chains \ {s.ephemeralKeyPair}) \cup {key}
    BY <1>5, <1>10, <1>14
  <2> QED  BY <1>5, <2>1, <2>2, <2>3 DEF Put
<1>16. /\ t.chains[key] = NewChain(masterR, "RECEIVING")
       /\ \A k \in DOMAIN s.chains \ {s.ephemeralKeyPair} : t.chains[k] = retired.chains[k]
  BY <1>5, <1>10, <1>14, <1>15
<1>17. t.previousCounter = IF s.ephemeralKeyPair \in DOMAIN s.chains
                             THEN s.chains[s.ephemeralKeyPair].counter
                             ELSE s.previousCounter
  BY <1>3, <1>5, <1>10, <1>14, <1>11
<1> HIDE DEF masterR, masterS
<1>18. /\ last \in DOMAIN s.chains =>
            t.chains[last] = Retired(s.chains[last], previousCounter)
       /\ \A k \in DOMAIN s.chains \ {s.ephemeralKeyPair, last} :
            t.chains[k] = s.chains[k]
       /\ t.oldRatchetList = IF last \in DOMAIN s.chains
                               THEN Append(s.oldRatchetList, last)
                               ELSE s.oldRatchetList
  BY <1>3, <1>11, <1>16
<1>19. Turned(s, key, previousCounter, keyPair, t)
  BY <1>9, <1>11, <1>12, <1>13, <1>15, <1>16, <1>17, <1>18 DEF Turned, masterR, masterS
<1> QED  BY <1>9, <1>19 DEF t

\* The two ways a chain is left by a filling: retired, or with one key used.
Used(chain, counter) ==
  [FillMessageKeys(chain, counter) EXCEPT !.messageKeys = @ \ {counter}]

\* A chain that was completed and closed.
LEMMA RetiredIs ==
  ASSUME NEW K, NEW chain \in ChainOver(K), NEW counter \in Int
  PROVE  LET filled == FillMessageKeys(chain, counter)
             retired == Retired(chain, counter)
         IN  /\ retired \in ChainOver(K)
             /\ retired.chainType = chain.chainType
             /\ retired.seed = chain.seed
             /\ retired.live = FALSE
             /\ retired.counter = filled.counter
             /\ retired.messageKeys = filled.messageKeys
<1> DEFINE filled == FillMessageKeys(chain, counter)
<1>1. /\ filled \in ChainOver(K)
      /\ filled.chainType = chain.chainType
      /\ filled.seed = chain.seed
  BY FillMessageKeysIs
<1>2. Retired(chain, counter) = [filled EXCEPT !.live = FALSE]
  BY DEF Retired
<1> HIDE DEF filled
<1>3. LET retired == [filled EXCEPT !.live = FALSE]
      IN  /\ retired \in ChainOver(K)
          /\ retired.chainType = filled.chainType
          /\ retired.seed = filled.seed
          /\ retired.live = FALSE
          /\ retired.counter = filled.counter
          /\ retired.messageKeys = filled.messageKeys
  BY <1>1 DEF ChainOver
<1> QED  BY <1>1, <1>2, <1>3 DEF filled

\* A chain that gave one key.
LEMMA UsedIs ==
  ASSUME NEW K, NEW chain \in ChainOver(K), NEW counter \in Int
  PROVE  LET filled == FillMessageKeys(chain, counter)
             used == Used(chain, counter)
         IN  /\ used \in ChainOver(K)
             /\ used.chainType = chain.chainType
             /\ used.seed = chain.seed
             /\ used.live = chain.live
             /\ used.counter = filled.counter
             /\ used.messageKeys = filled.messageKeys \ {counter}
<1> DEFINE filled == FillMessageKeys(chain, counter)
           keys == filled.messageKeys \ {counter}
<1>1. /\ filled \in ChainOver(K)
      /\ filled.chainType = chain.chainType
      /\ filled.seed = chain.seed
      /\ filled.live = chain.live
  BY FillMessageKeysIs
<1>2. Used(chain, counter) = [filled EXCEPT !.messageKeys = keys]
  BY DEF Used
<1> HIDE DEF filled
<1>3. keys \in KeySets
  BY <1>1, FS_RemoveElement DEF ChainOver, KeySets
<1> HIDE DEF keys
<1>4. LET used == [filled EXCEPT !.messageKeys = keys]
      IN  /\ used \in ChainOver(K)
          /\ used.chainType = filled.chainType
          /\ used.seed = filled.seed
          /\ used.live = filled.live
          /\ used.counter = filled.counter
          /\ used.messageKeys = keys
  BY <1>1, <1>3 DEF ChainOver
<1> QED  BY <1>1, <1>2, <1>4 DEF filled, keys

\* A session of which one chain was replaced.
LEMMA WithChainIs ==
  ASSUME NEW K, NEW s, SessionOver(K, s), NEW key \in DOMAIN s.chains,
         NEW chain \in ChainOver(K)
  PROVE  LET t == [s EXCEPT !.chains[key] = chain]
         IN  /\ SessionOver(K, t)
             /\ SameBut({"chains"}, s, t)
             /\ DOMAIN t.chains = DOMAIN s.chains
             /\ t.chains[key] = chain
             /\ \A k \in DOMAIN s.chains \ {key} : t.chains[k] = s.chains[k]
<1> DEFINE chains == [s.chains EXCEPT ![key] = chain]
           t == [s EXCEPT !.chains = chains]
<1>1. DOMAIN s = SessionFields
  BY DEF SessionOver, SessionFields
<1>2. /\ ChainsOver(K, chains)
      /\ DOMAIN chains = DOMAIN s.chains
      /\ chains[key] = chain
      /\ \A k \in DOMAIN s.chains \ {key} : chains[k] = s.chains[k]
  BY DEF SessionOver, ChainsOver
<1> HIDE DEF chains
<1>3. /\ SessionOver(K, t)
      /\ SameBut({"chains"}, s, t)
      /\ t.chains = chains
  BY <1>1, <1>2 DEF SessionOver, SameBut, SessionFields
<1> QED  BY <1>2, <1>3 DEF chains, t

\* doDecryptWhisperMessage, after the turn of the ratchet: one chain gives one
\* key, and nothing waits for an answer any more.
LEMMA DecryptedIs ==
  ASSUME NEW K, NEW s, NEW message, NEW keyPair,
         SessionOver(K, Stepped(s, message, keyPair)),
         message.ephemeralKey \in DOMAIN Stepped(s, message, keyPair).chains,
         message.counter \in Int
  PROVE  LET stepped == Stepped(s, message, keyPair)
             t == Decrypted(s, message, keyPair)
             key == message.ephemeralKey
         IN  /\ SessionOver(K, t)
             /\ SameBut({"chains", "pendingPreKey"}, stepped, t)
             /\ t.pendingPreKey = None
             /\ DOMAIN t.chains = DOMAIN stepped.chains
             /\ t.chains[key] = Used(stepped.chains[key], message.counter)
             /\ \A k \in DOMAIN stepped.chains \ {key} : t.chains[k] = stepped.chains[k]
<1> DEFINE stepped == Stepped(s, message, keyPair)
           key == message.ephemeralKey
           chain == Used(stepped.chains[key], message.counter)
           chained == [stepped EXCEPT !.chains[key] = chain]
           t == Decrypted(s, message, keyPair)
<1>1. t = [chained EXCEPT !.pendingPreKey = None]
  BY DEF Decrypted, Used
<1> HIDE DEF stepped, t
<1>2. chain \in ChainOver(K)
  <2>1. stepped.chains[key] \in ChainOver(K)
    BY DEF stepped, SessionOver, ChainsOver
  <2> QED  BY <2>1, UsedIs
<1> HIDE DEF chain
<1>3. /\ SessionOver(K, chained)
      /\ SameBut({"chains"}, stepped, chained)
      /\ DOMAIN chained.chains = DOMAIN stepped.chains
      /\ chained.chains[key] = chain
      /\ \A k \in DOMAIN stepped.chains \ {key} : chained.chains[k] = stepped.chains[k]
  BY <1>2, WithChainIs DEF stepped
<1> HIDE DEF chained
<1>4. /\ SessionOver(K, t)
      /\ SameBut({"pendingPreKey"}, chained, t)
      /\ t.pendingPreKey = None
  BY <1>1, <1>3 DEF SessionOver, SameBut, SessionFields
<1>5. t.chains = chained.chains /\ SameBut({"chains", "pendingPreKey"}, stepped, t)
  BY <1>3, <1>4 DEF SameBut, SessionFields
<1> QED  BY <1>3, <1>4, <1>5 DEF t, chain, stepped

\* encrypt: the sending chain is one key further and stores none.
LEMMA EncryptedIs ==
  ASSUME NEW K, NEW s, SessionOver(K, s), s.ephemeralKeyPair \in DOMAIN s.chains,
         s.chains[s.ephemeralKeyPair].messageKeys = {}
  PROVE  LET t == Encrypted(s)
             key == s.ephemeralKeyPair
         IN  /\ SessionOver(K, t)
             /\ SameBut({"chains"}, s, t)
             /\ DOMAIN t.chains = DOMAIN s.chains
             /\ \A k \in DOMAIN s.chains \ {key} : t.chains[k] = s.chains[k]
             /\ t.chains[key].chainType = s.chains[key].chainType
             /\ t.chains[key].seed = s.chains[key].seed
             /\ t.chains[key].live = s.chains[key].live
             /\ t.chains[key].counter = s.chains[key].counter + 1
             /\ t.chains[key].messageKeys = {}
             /\ FillMessageKeys(s.chains[key], s.chains[key].counter + 1).counter
                  = s.chains[key].counter + 1
             /\ ~TooManyKeys(s.chains[key])
<1> DEFINE key == s.ephemeralKeyPair
           chain == s.chains[key]
           next == chain.counter + 1
           filled == FillMessageKeys(chain, next)
           used == Used(chain, next)
           t == Encrypted(s)
<1>1. /\ chain \in ChainOver(K)
      /\ chain.messageKeys = {}
      /\ chain.counter \in Int
      /\ next \in Int
  BY DEF SessionOver, ChainsOver, ChainOver, Counters
<1>2. /\ Cardinality(chain.messageKeys) = 0
      /\ ~TooManyKeys(chain)
  BY <1>1, FS_EmptySet, LimitAssumption DEF TooManyKeys
<1>3. filled.counter = next
  <2>1. FillEnd(chain, next) = next
    BY <1>1, <1>2, LimitAssumption DEF FillEnd
  <2> DEFINE moved == [chain EXCEPT !.counter = FillEnd(chain, next)]
             keys == chain.messageKeys \cup (chain.counter + 1)..FillEnd(chain, next)
  <2>2. filled = [moved EXCEPT !.messageKeys = keys]
    BY <1>1, <1>2 DEF FillMessageKeys
  <2>3. moved \in ChainOver(K) /\ moved.counter = next
    BY <1>1, <2>1 DEF ChainOver, Counters
  <2> HIDE DEF moved, filled, keys
  <2> QED  BY <2>2, <2>3 DEF ChainOver
<1>4. /\ used \in ChainOver(K)
      /\ used.chainType = chain.chainType
      /\ used.seed = chain.seed
      /\ used.live = chain.live
      /\ used.counter = next
      /\ used.messageKeys = {}
  <2> DEFINE at == chain.counter
  <2>1. at \in Int /\ next = at + 1
    BY <1>1
  <2> HIDE DEF next, chain, at
  <2>2. /\ used \in ChainOver(K)
        /\ used.chainType = chain.chainType
        /\ used.seed = chain.seed
        /\ used.live = chain.live
        /\ used.counter = filled.counter
        /\ used.messageKeys = filled.messageKeys \ {next}
    BY <1>1, UsedIs
  <2>3. filled.messageKeys = chain.messageKeys \cup (at + 1)..filled.counter
    BY ZenonT(40), <1>1, FillMessageKeysIs DEF at
  <2> HIDE DEF filled, used
  <2> QED  BY <1>1, <1>3, <2>1, <2>2, <2>3
<1>5. t = [s EXCEPT !.chains[key] = used]
  BY <1>3 DEF Encrypted, SendingChain, Used
<1> HIDE DEF used, t, filled
<1>6. LET u == [s EXCEPT !.chains[key] = used]
      IN  /\ SessionOver(K, u)
          /\ SameBut({"chains"}, s, u)
          /\ DOMAIN u.chains = DOMAIN s.chains
          /\ u.chains[key] = used
          /\ \A k \in DOMAIN s.chains \ {key} : u.chains[k] = s.chains[k]
  BY <1>4, WithChainIs
<1>7. /\ SessionOver(K, t)
      /\ SameBut({"chains"}, s, t)
      /\ DOMAIN t.chains = DOMAIN s.chains
      /\ t.chains[key] = used
      /\ \A k \in DOMAIN s.chains \ {key} : t.chains[k] = s.chains[k]
  BY <1>5, <1>6
<1> QED  BY <1>2, <1>3, <1>4, <1>7 DEF t, filled

-----------------------------------------------------------------------------
\* setToSeq of a finite set lists its elements.
LEMMA SetToSeqIs ==
  ASSUME NEW S, IsFiniteSet(S)
  PROVE  SetToSeq(S) \in Seq(S)
<1>1. Cardinality(S) \in Nat /\ ExistsBijection(1..Cardinality(S), S)
  BY FS_CardinalityType
<1>2. \E f \in [1..Cardinality(S) -> S] : IsInjective(f)
  BY <1>1 DEF ExistsBijection, Bijection, Injection
<1>3. SetToSeq(S) \in [1..Cardinality(S) -> S]
  BY <1>2 DEF SetToSeq
<1> QED  BY <1>1, <1>3

\* Of t, which has fewer retired chains than the limit, none was pruned: t has
\* the receiving chains of s.
Whole(s, t) ==
  Len(t.oldRatchetList) < MaxOldChains =>
    /\ Len(s.oldRatchetList) < MaxOldChains
    /\ DOMAIN s.chains \ {s.ephemeralKeyPair} \subseteq DOMAIN t.chains

\* t is s with fewer chains: what closing a session and removeOldChains leave.
Thinned(s, t) ==
  /\ Whole(s, t)
  /\ SameBut({"chains", "oldRatchetList", "closed"}, s, t)
  /\ DOMAIN t.chains \subseteq DOMAIN s.chains
  /\ \A k \in DOMAIN t.chains : t.chains[k] = s.chains[k]
  /\ ~IsOpen(s) => t.closed = s.closed
  /\ \A i \in DOMAIN t.oldRatchetList :
       \/ t.oldRatchetList[i] \in DOMAIN s.chains \ {s.ephemeralKeyPair}
       \/ \E j \in DOMAIN s.oldRatchetList : t.oldRatchetList[i] = s.oldRatchetList[j]
  /\ IsOpen(t) =>
       \/ s.ephemeralKeyPair \in DOMAIN t.chains
       \/ s.ephemeralKeyPair \notin DOMAIN s.chains
       \/ \E j \in DOMAIN s.oldRatchetList : s.oldRatchetList[j] = s.ephemeralKeyPair

\* A session is a pruned form of itself.
LEMMA ThinnedItself ==
  ASSUME NEW s, DOMAIN s = SessionFields
  PROVE  Thinned(s, s)
  BY DEF Thinned, Whole, SameBut

\* removeOldChains takes chains away and moves none.
LEMMA RemoveOldChainsThins ==
  ASSUME NEW K, NEW s, SessionOver(K, s)
  PROVE  LET t == RemoveOldChains(s)
         IN  /\ SessionOver(K, t)
             /\ Thinned(s, t)
             /\ t.closed = s.closed
             /\ Len(t.oldRatchetList) <= MaxOldChains
<1> DEFINE list == s.oldRatchetList
           excess == Len(list) - MaxOldChains
           t == RemoveOldChains(s)
<1>1. /\ list \in Seq(K)
      /\ Len(list) \in Nat
      /\ DOMAIN list = 1..Len(list)
      /\ excess \in Int
      /\ DOMAIN s = SessionFields
  BY RecordAssumption DEF SessionOver, SessionFields
<1>2. CASE excess <= 0
  <2>1. t = s
    BY <1>2 DEF RemoveOldChains
  <2>2. Thinned(s, s)
    BY <1>1, ThinnedItself
  <2>3. Len(list) <= MaxOldChains
    BY <1>1, <1>2, RecordAssumption
  <2> HIDE DEF t
  <2> QED  BY <2>1, <2>2, <2>3 DEF t
<1>3. CASE ~(excess <= 0)
  <2> DEFINE gone == {list[i] : i \in 1..excess}
             chains == Delete(s.chains, gone)
             rest == SubSeq(list, excess + 1, Len(list))
             chained == [s EXCEPT !.chains = chains]
  <2>1. t = [chained EXCEPT !.oldRatchetList = rest]
    BY <1>3 DEF RemoveOldChains
  <2>2. /\ rest \in Seq(K)
        /\ Len(rest) = MaxOldChains
        /\ DOMAIN rest = 1..MaxOldChains
        /\ \A i \in 1..MaxOldChains : rest[i] = list[i + excess]
    <3>1. excess + 1 \in 1..(Len(list) + 1) /\ Len(list) = excess + MaxOldChains
      BY <1>1, <1>3, RecordAssumption
    <3> HIDE DEF excess
    <3>2. /\ excess \in Nat
          /\ excess + 1 \in Int
          /\ \A i \in (excess + 1)..Len(list) : list[i] \in K
      BY <1>1, <1>3
    <3>3. /\ rest \in Seq(K)
          /\ Len(rest) = IF excess + 1 <= Len(list) THEN Len(list) - (excess + 1) + 1 ELSE 0
          /\ \A i \in 1..(Len(list) - (excess + 1) + 1) : rest[i] = list[(excess + 1) + i - 1]
      BY <1>1, <3>2, SubSeqProperties
    <3> HIDE DEF rest
    <3>4. Len(rest) = MaxOldChains
      BY <1>1, <3>1, <3>2, <3>3, RecordAssumption
    <3>5. DOMAIN rest = 1..MaxOldChains
      BY <3>3, <3>4
    <3>6. ASSUME NEW i \in 1..MaxOldChains
          PROVE  rest[i] = list[i + excess]
      <4>1. i \in 1..(Len(list) - (excess + 1) + 1)
        BY <3>1, <3>2, RecordAssumption
      <4>2. (excess + 1) + i - 1 = i + excess
        BY <3>2, RecordAssumption
      <4> QED  BY <3>3, <4>1, <4>2
    <3> QED  BY <3>3, <3>4, <3>5, <3>6
  <2>3. /\ ChainsOver(K, chains)
        /\ DOMAIN chains = DOMAIN s.chains \ gone
        /\ \A k \in DOMAIN chains : chains[k] = s.chains[k]
    BY DeleteOver DEF SessionOver, Delete
  <2>4. ASSUME NEW k \in gone
        PROVE  \E j \in DOMAIN list : list[j] = k
    <3>1. 1..excess \subseteq DOMAIN list
      BY <1>1, RecordAssumption
    <3> HIDE DEF excess
    <3> QED  BY <3>1
  <2>5. ASSUME NEW i \in DOMAIN rest
        PROVE  \E j \in DOMAIN list : rest[i] = list[j]
    <3>1. Len(list) = excess + MaxOldChains
      BY <1>1, RecordAssumption
    <3> HIDE DEF rest, excess
    <3>2. i \in 1..MaxOldChains /\ rest[i] = list[i + excess]
      BY <2>2
    <3>3. i + excess \in 1..Len(list)
      BY <1>1, <1>3, <3>1, <3>2, RecordAssumption
    <3> QED  BY <1>1, <3>2, <3>3
  <2> HIDE DEF t, gone, chains, rest
  <2>6. /\ SessionOver(K, chained)
        /\ SameBut({"chains"}, s, chained)
        /\ chained.chains = chains
    BY <1>1, <2>3 DEF SessionOver, SameBut, SessionFields
  <2> HIDE DEF chained
  <2>7. /\ SessionOver(K, t)
        /\ SameBut({"chains", "oldRatchetList"}, s, t)
        /\ t.chains = chains
        /\ t.oldRatchetList = rest
    BY <1>1, <2>1, <2>2, <2>6 DEF SessionOver, SameBut, SessionFields
  <2>8. t.closed = s.closed /\ SameBut({"chains", "oldRatchetList", "closed"}, s, t)
    BY <2>7 DEF SameBut, SessionFields
  <2>9. Len(t.oldRatchetList) = MaxOldChains /\ MaxOldChains \in Nat
    BY <2>2, <2>7, RecordAssumption
  <2>10. Thinned(s, t)
    BY <2>3, <2>4, <2>5, <2>7, <2>8, <2>9 DEF Thinned, Whole, IsOpen
  <2> QED  BY <2>7, <2>8, <2>9, <2>10 DEF t
<1> QED  BY <1>2, <1>3

\* Pruning twice is pruning.
LEMMA ThinnedTwice ==
  ASSUME NEW s, NEW t, NEW u, Thinned(s, t), Thinned(t, u)
  PROVE  Thinned(s, u)
<1>1. /\ t.ephemeralKeyPair = s.ephemeralKeyPair
      /\ SameBut({"chains", "oldRatchetList", "closed"}, s, u)
      /\ IsOpen(u) => IsOpen(t)
  BY DEF Thinned, SameBut, SessionFields, IsOpen
<1>2. /\ DOMAIN u.chains \subseteq DOMAIN s.chains
      /\ \A k \in DOMAIN u.chains : u.chains[k] = s.chains[k]
  BY DEF Thinned
<1>3. Whole(s, u)
  BY <1>1 DEF Thinned, Whole
<1>4. ~IsOpen(s) => u.closed = s.closed
  BY DEF Thinned, IsOpen
<1>5. \A i \in DOMAIN u.oldRatchetList :
        \/ u.oldRatchetList[i] \in DOMAIN s.chains \ {s.ephemeralKeyPair}
        \/ \E j \in DOMAIN s.oldRatchetList : u.oldRatchetList[i] = s.oldRatchetList[j]
  BY <1>1 DEF Thinned
<1>6. IsOpen(u) =>
        \/ s.ephemeralKeyPair \in DOMAIN u.chains
        \/ s.ephemeralKeyPair \notin DOMAIN s.chains
        \/ \E j \in DOMAIN s.oldRatchetList : s.oldRatchetList[j] = s.ephemeralKeyPair
  BY <1>1 DEF Thinned
<1> QED  BY <1>1, <1>2, <1>4, <1>5, <1>6, <1>3 DEF Thinned

\* closeSession takes the sending chain away and moves none.
LEMMA CloseSessionThins ==
  ASSUME NEW K, NEW s, SessionOver(K, s), NEW now \in Int, now >= 1
  PROVE  LET t == CloseSession(s, now)
         IN  /\ SessionOver(K, t)
             /\ Thinned(s, t)
<1> DEFINE t == CloseSession(s, now)
<1>1. CASE ~IsOpen(s)
  <2>1. t = s /\ DOMAIN s = SessionFields
    BY <1>1 DEF CloseSession, SessionOver, SessionFields
  <2> QED  BY <2>1, ThinnedItself
<1>2. CASE IsOpen(s)
  <2> DEFINE chains == Delete(s.chains, {s.ephemeralKeyPair})
             live == {key \in DOMAIN chains : chains[key].live}
             list == s.oldRatchetList \o SetToSeq(live)
             chained == [s EXCEPT !.chains = chains]
             listed == [chained EXCEPT !.oldRatchetList = list]
             closed == [listed EXCEPT !.closed = now]
  <2>1. t = RemoveOldChains(closed)
    BY <1>2 DEF CloseSession
  <2>2. DOMAIN s = SessionFields /\ s.oldRatchetList \in Seq(K)
    BY DEF SessionOver, SessionFields
  <2>3. /\ ChainsOver(K, chains)
        /\ DOMAIN chains = DOMAIN s.chains \ {s.ephemeralKeyPair}
        /\ \A k \in DOMAIN chains : chains[k] = s.chains[k]
    BY DeleteOver DEF SessionOver, Delete
  <2> HIDE DEF chains
  <2>4. SetToSeq(live) \in Seq(live) /\ live \subseteq DOMAIN chains /\ live \subseteq K
    <3>1. live \subseteq DOMAIN chains /\ live \subseteq K
      BY <2>3 DEF ChainsOver
    <3>2. IsFiniteSet(live)
      BY <2>3, <3>1, FS_Subset DEF ChainsOver
    <3> HIDE DEF live
    <3> QED  BY <3>1, <3>2, SetToSeqIs
  <2> DEFINE added == SetToSeq(live)
  <2> HIDE DEF live
  <2>5. /\ added \in Seq(K)
        /\ \A i \in 1..Len(added) : added[i] \in DOMAIN chains
    <3>1. added \in Seq(live)
      BY <2>4
    <3> HIDE DEF added
    <3>2. added \in Seq(K)
      BY <2>4, <3>1, SeqMonotonic
    <3>3. \A i \in 1..Len(added) : added[i] \in live
      BY <3>1
    <3> QED  BY <2>4, <3>2, <3>3
  <2>6. /\ list \in Seq(K)
        /\ \A i \in DOMAIN list :
             \/ list[i] \in DOMAIN chains
             \/ \E j \in DOMAIN s.oldRatchetList : list[i] = s.oldRatchetList[j]
        /\ Len(list) < MaxOldChains => Len(s.oldRatchetList) < MaxOldChains
    <3> DEFINE old == s.oldRatchetList
    <3>1. list = old \o added /\ old \in Seq(K)
      BY <2>2
    <3> HIDE DEF list, old, added
    <3>2. /\ list \in Seq(K)
          /\ Len(list) = Len(old) + Len(added)
          /\ \A i \in 1..(Len(old) + Len(added)) :
               list[i] = IF i <= Len(old) THEN old[i] ELSE added[i - Len(old)]
      BY <2>5, <3>1, ConcatProperties
    <3>3. /\ DOMAIN list = 1..Len(list) /\ DOMAIN old = 1..Len(old)
          /\ Len(old) \in Nat /\ Len(added) \in Nat
      BY <2>5, <3>1, <3>2
    <3>4. ASSUME NEW i \in DOMAIN list
          PROVE  list[i] \in DOMAIN chains \/ \E j \in DOMAIN old : list[i] = old[j]
      <4>1. CASE i <= Len(old)
        BY <3>2, <3>3, <4>1
      <4>2. CASE ~(i <= Len(old))
        <5>1. i - Len(old) \in 1..Len(added)
          BY <3>2, <3>3, <4>2
        <5> QED  BY <2>5, <3>2, <3>3, <4>2, <5>1
      <4> QED  BY <4>1, <4>2
    <3>5. Len(list) < MaxOldChains => Len(old) < MaxOldChains
      BY <3>2, <3>3, RecordAssumption
    <3> QED  BY <3>2, <3>4, <3>5 DEF old
  <2> HIDE DEF list, added
  <2>7. /\ SessionOver(K, chained)
        /\ SameBut({"chains"}, s, chained)
        /\ chained.chains = chains
    BY <2>2, <2>3 DEF SessionOver, SameBut, SessionFields
  <2> HIDE DEF chained
  <2>8. /\ SessionOver(K, listed)
        /\ SameBut({"chains", "oldRatchetList"}, s, listed)
        /\ listed.chains = chains
        /\ listed.oldRatchetList = list
    BY <2>2, <2>6, <2>7 DEF SessionOver, SameBut, SessionFields
  <2> HIDE DEF listed
  <2>9. /\ SessionOver(K, closed)
        /\ SameBut({"chains", "oldRatchetList", "closed"}, s, closed)
        /\ closed.chains = chains
        /\ closed.oldRatchetList = list
        /\ closed.closed = now
    BY <2>2, <2>8 DEF SessionOver, SameBut, SessionFields
  <2>10. t = RemoveOldChains(closed)
    BY <2>1 DEF closed, listed, chained, list, live, added
  <2> HIDE DEF closed, t
  <2>11. Thinned(s, closed)
    <3>1. Whole(s, closed)
      BY <2>3, <2>6, <2>9 DEF Whole
    <3> QED  BY <1>2, <2>3, <2>6, <2>9, <3>1 DEF Thinned, IsOpen
  <2>12. SessionOver(K, t) /\ Thinned(closed, t)
    BY <2>9, <2>10, RemoveOldChainsThins
  <2> QED  BY <2>11, <2>12, ThinnedTwice DEF t
<1> QED  BY <1>1, <1>2

-----------------------------------------------------------------------------
\* The secrets both ends of a new session agree on: agreements of their keys,
\* the fourth one when both have a one-time key.
Agreed(K, secret, ourId, ourSigned, ourEph, theirId, theirSigned, theirEph) ==
  /\ secret \in Seq(SUBSET K)
  /\ Len(secret) = IF ourEph # None /\ theirEph # None THEN 4 ELSE 3
  /\ ourEph # None /\ theirEph # None => secret[4] = {theirEph, ourEph}
  /\ \A i \in 1..Len(secret) :
       secret[i] \subseteq {ourId, ourSigned, ourEph, theirId, theirSigned, theirEph}

\* sharedSecret of initSession makes them.
LEMMA SharedSecretIs ==
  ASSUME NEW K, NEW initiator \in BOOLEAN, NEW ourId, NEW ourSigned, NEW ourEph,
         NEW theirId, NEW theirSigned, NEW theirEph,
         {ourId, ourSigned, theirId, theirSigned} \subseteq K,
         ourEph # None /\ theirEph # None => {ourEph, theirEph} \subseteq K
  PROVE  Agreed(K, SharedSecret(initiator, ourId, ourSigned, ourEph,
                                theirId, theirSigned, theirEph),
                ourId, ourSigned, ourEph, theirId, theirSigned, theirEph)
<1> DEFINE dh1 == ECDHE(theirSigned, ourId)
           dh2 == ECDHE(theirId, ourSigned)
           dh3 == ECDHE(theirSigned, ourSigned)
           dh4 == ECDHE(theirEph, ourEph)
           full == ourEph # None /\ theirEph # None
           secret == SharedSecret(initiator, ourId, ourSigned, ourEph,
                                  theirId, theirSigned, theirEph)
<1>1. secret = (IF initiator THEN <<dh1, dh2>> ELSE <<dh2, dh1>>)
                 \o <<dh3>> \o (IF full THEN <<dh4>> ELSE <<>>)
  BY DEF SharedSecret
<1>2. /\ {dh1, dh2, dh3} \subseteq SUBSET K
      /\ {dh1, dh2, dh3} \subseteq SUBSET {ourId, ourSigned, theirId, theirSigned}
      /\ full => dh4 \in SUBSET K
      /\ dh4 = {theirEph, ourEph}
  BY DEF ECDHE
<1> HIDE DEF dh1, dh2, dh3, dh4, secret, full
<1>3. \E a, b \in {dh1, dh2} : secret = <<a, b>> \o <<dh3>> \o (IF full THEN <<dh4>> ELSE <<>>)
  BY <1>1
<1>4. PICK a \in {dh1, dh2}, b \in {dh1, dh2} :
        secret = <<a, b>> \o <<dh3>> \o (IF full THEN <<dh4>> ELSE <<>>)
  BY <1>3
<1>5. /\ a \in SUBSET K /\ b \in SUBSET K /\ dh3 \in SUBSET K
      /\ {a, b, dh3} \subseteq SUBSET {ourId, ourSigned, theirId, theirSigned}
  BY <1>2
<1> DEFINE three == <<a, b>> \o <<dh3>>
<1>6. /\ three \in Seq(SUBSET K)
      /\ Len(three) = 3
      /\ three[1] = a /\ three[2] = b /\ three[3] = dh3
  <2> DEFINE pair == <<a, b>>
             last == <<dh3>>
  <2>1. /\ pair \in Seq(SUBSET K) /\ Len(pair) = 2 /\ pair[1] = a /\ pair[2] = b
        /\ last \in Seq(SUBSET K) /\ Len(last) = 1 /\ last[1] = dh3
    BY <1>5
  <2> HIDE DEF pair, last
  <2> QED  BY <2>1
<1> HIDE DEF three
<1>7. CASE full
  <2> DEFINE last == <<dh4>>
  <2>1. last \in Seq(SUBSET K) /\ Len(last) = 1 /\ last[1] = dh4
    BY <1>2, <1>7
  <2>2. secret = three \o last
    BY <1>4, <1>7 DEF three
  <2> HIDE DEF last
  <2>3. /\ secret \in Seq(SUBSET K) /\ Len(secret) = 4 /\ secret[4] = dh4
        /\ \A i \in 1..4 : secret[i] \in {a, b, dh3, dh4}
    <3>1. /\ secret \in Seq(SUBSET K) /\ Len(secret) = 4
          /\ \A i \in 1..3 : secret[i] = three[i]
          /\ secret[4] = dh4
      <4>1. /\ three \o last \in Seq(SUBSET K)
            /\ Len(three \o last) = Len(three) + Len(last)
            /\ \A i \in 1 .. Len(three) + Len(last) : (three \o last)[i] =
                 IF i <= Len(three) THEN three[i] ELSE last[i - Len(three)]
        BY <1>6, <2>1, ConcatProperties
      <4>2. \A i \in 1..4 : secret[i] = IF i <= 3 THEN three[i] ELSE last[i - 3]
        BY <1>6, <2>1, <2>2, <4>1
      <4>3. secret[4] = last[4 - 3]
        BY <4>2
      <4> QED  BY <1>6, <2>1, <2>2, <4>1, <4>2, <4>3
    <3>2. \A i \in 1..4 : i = 1 \/ i = 2 \/ i = 3 \/ i = 4
      OBVIOUS
    <3> QED  BY <1>6, <3>1, <3>2
  <2>4. {a, b, dh3, dh4} \subseteq SUBSET {ourId, ourSigned, ourEph,
                                           theirId, theirSigned, theirEph}
    BY <1>2, <1>5
  <2> QED  BY <1>2, <1>7, <2>3, <2>4 DEF full, secret, Agreed
<1>8. CASE ~full
  <2>1. secret = three \o <<>>
    BY <1>4, <1>8 DEF three
  <2>2. secret = three
    BY <1>6, <2>1
  <2>3. /\ secret \in Seq(SUBSET K) /\ Len(secret) = 3
        /\ \A i \in 1..3 : secret[i] \in {a, b, dh3}
    BY <1>6, <2>2
  <2> QED  BY <1>5, <1>8, <2>3 DEF full, secret, Agreed
<1> QED  BY <1>7, <1>8
-----------------------------------------------------------------------------
\* The key pairs a party draws for sessions, and all its key pairs.
SessionKeys(p) == {SessionKey(p, n) : n \in Nat}
KeysOf(p) == SessionKeys(p) \cup {IdentityKey(p, n) : n \in Nat}
               \cup {SignedPreKey(p, n, id) : n, id \in Nat}
               \cup {PreKey(p, n, id) : n, id \in Nat}

\* Two parties have no key pair in common.
LEMMA KeysApart ==
  ASSUME NEW p, NEW q, p # q
  PROVE  KeysOf(p) \cap KeysOf(q) = {}
  BY DEF KeysOf, SessionKeys, SessionKey, IdentityKey, SignedPreKey, PreKey

\* The kinds of key pairs of a party are distinct.
LEMMA SessionKeysDistinct ==
  ASSUME NEW p
  PROVE  /\ SessionKeys(p) \subseteq KeysOf(p)
         /\ \A n, id \in Nat : /\ SignedPreKey(p, n, id) \notin SessionKeys(p)
                               /\ PreKey(p, n, id) \notin SessionKeys(p)
                               /\ SignedPreKey(p, n, id) # PreKey(p, n, id)
  BY DEF KeysOf, SessionKeys, SessionKey, IdentityKey, SignedPreKey, PreKey

-----------------------------------------------------------------------------
\* A session of p with q: its keys are those of the two parties.
KeysOK(p, q, s) ==
  /\ s.ephemeralKeyPair \in SessionKeys(p)
  /\ s.lastRemoteEphemeralKey \in KeysOf(q)
  /\ s.baseKeyType = "OURS" => s.baseKey \in SessionKeys(p)
  /\ s.pendingPreKey # None => s.pendingPreKey.baseKey \in SessionKeys(p)

\* The chains of a session: the root key was made last with its key pair, for
\* the sending chain, which an open session has; all others are receiving
\* chains, and the one of the last remote key led to the root key.
SendingOK(s) ==
  /\ IsOpen(s) => s.ephemeralKeyPair \in DOMAIN s.chains
  /\ s.ephemeralKeyPair \in DOMAIN s.chains =>
       /\ SendingChain(s).chainType = "SENDING"
       /\ SendingChain(s).live
       /\ SendingChain(s).seed = s.rootKey
       /\ SendingChain(s).messageKeys = {}
ReceivingOK(s) ==
  \A k \in DOMAIN s.chains \ {s.ephemeralKeyPair} :
    /\ s.chains[k].chainType = "RECEIVING"
    /\ k = s.lastRemoteEphemeralKey =>
         s.rootKey = Append(s.chains[k].seed,
                            {s.lastRemoteEphemeralKey, s.ephemeralKeyPair})
ChainsOK(s) ==
  /\ Len(s.rootKey) >= 5
  /\ s.rootKey[Len(s.rootKey)] = {s.lastRemoteEphemeralKey, s.ephemeralKeyPair}
  /\ \A i \in DOMAIN s.oldRatchetList : s.oldRatchetList[i] # s.ephemeralKeyPair
  /\ SendingOK(s)
  /\ ReceivingOK(s)

SessionOK(K, p, q, s) == SessionOver(K, s) /\ KeysOK(p, q, s) /\ ChainsOK(s)

\* Closing and pruning keep the sessions sound.
LEMMA ThinnedOK ==
  ASSUME NEW K, NEW p, NEW q, NEW s, SessionOK(K, p, q, s),
         NEW t, Thinned(s, t), SessionOver(K, t)
  PROVE  SessionOK(K, p, q, t)
<1>1. /\ t.rootKey = s.rootKey
      /\ t.ephemeralKeyPair = s.ephemeralKeyPair
      /\ t.lastRemoteEphemeralKey = s.lastRemoteEphemeralKey
      /\ t.baseKeyType = s.baseKeyType
      /\ t.baseKey = s.baseKey
      /\ t.pendingPreKey = s.pendingPreKey
  BY DEF Thinned, SameBut, SessionFields
<1>2. KeysOK(p, q, t)
  BY <1>1 DEF SessionOK, KeysOK
<1>3. /\ DOMAIN t.chains \subseteq DOMAIN s.chains
      /\ \A k \in DOMAIN t.chains : t.chains[k] = s.chains[k]
  BY DEF Thinned
<1>4. \A i \in DOMAIN t.oldRatchetList : t.oldRatchetList[i] # t.ephemeralKeyPair
  BY <1>1 DEF Thinned, SessionOK, ChainsOK
<1>5. IsOpen(t) => t.ephemeralKeyPair \in DOMAIN t.chains
  BY <1>1 DEF Thinned, SessionOK, ChainsOK, SendingOK, IsOpen
<1>6. SendingOK(t)
  BY <1>1, <1>3, <1>5 DEF SessionOK, ChainsOK, SendingOK, SendingChain
<1>7. ReceivingOK(t)
  <2>1. ReceivingOK(s)
    BY DEF SessionOK, ChainsOK
  <2>2. DOMAIN t.chains \ {t.ephemeralKeyPair}
          \subseteq DOMAIN s.chains \ {s.ephemeralKeyPair}
    BY <1>1, <1>3
  <2>3. ASSUME NEW k \in DOMAIN t.chains \ {t.ephemeralKeyPair}
        PROVE  /\ t.chains[k].chainType = "RECEIVING"
               /\ k = t.lastRemoteEphemeralKey =>
                    t.rootKey = Append(t.chains[k].seed,
                                       {t.lastRemoteEphemeralKey, t.ephemeralKeyPair})
    <3>1. t.chains[k] = s.chains[k]
      BY <1>3
    <3> QED  BY <1>1, <2>1, <2>2, <3>1 DEF ReceivingOK
  <2> QED  BY <2>3 DEF ReceivingOK
<1> QED  BY <1>1, <1>2, <1>4, <1>6, <1>7 DEF SessionOK, ChainsOK

\* encrypt only moves the sending chain on.
LEMMA EncryptedOK ==
  ASSUME NEW K, NEW p, NEW q, NEW s, SessionOK(K, p, q, s),
         s.ephemeralKeyPair \in DOMAIN s.chains
  PROVE  SessionOK(K, p, q, Encrypted(s))
<1> DEFINE t == Encrypted(s)
           key == s.ephemeralKeyPair
<1>1. /\ SessionOver(K, t)
      /\ SameBut({"chains"}, s, t)
      /\ DOMAIN t.chains = DOMAIN s.chains
      /\ \A k \in DOMAIN s.chains \ {key} : t.chains[k] = s.chains[k]
      /\ t.chains[key].chainType = s.chains[key].chainType
      /\ t.chains[key].seed = s.chains[key].seed
      /\ t.chains[key].live = s.chains[key].live
      /\ t.chains[key].messageKeys = {}
  BY EncryptedIs DEF SessionOK, ChainsOK, SendingOK, SendingChain
<1> HIDE DEF t
<1>2. /\ t.rootKey = s.rootKey
      /\ t.ephemeralKeyPair = s.ephemeralKeyPair
      /\ t.lastRemoteEphemeralKey = s.lastRemoteEphemeralKey
      /\ t.baseKeyType = s.baseKeyType
      /\ t.baseKey = s.baseKey
      /\ t.pendingPreKey = s.pendingPreKey
      /\ t.oldRatchetList = s.oldRatchetList
      /\ t.closed = s.closed
  BY <1>1 DEF SameBut, SessionFields
<1>3. KeysOK(p, q, t)
  BY <1>2 DEF SessionOK, KeysOK
<1>4. SendingOK(t)
  BY <1>1, <1>2 DEF SessionOK, ChainsOK, SendingOK, SendingChain
<1>5. ReceivingOK(t)
  BY <1>1, <1>2 DEF SessionOK, ChainsOK, ReceivingOK
<1> QED  BY <1>1, <1>2, <1>3, <1>4, <1>5 DEF SessionOK, ChainsOK, t

\* A session whose ratchet can turn: a sound one, or the one processV3 makes.
Turnable(K, p, q, s) ==
  /\ SessionOver(K, s)
  /\ s.ephemeralKeyPair \in KeysOf(p)
  /\ s.lastRemoteEphemeralKey \in KeysOf(q)
  /\ s.baseKeyType = "OURS" => s.baseKey \in SessionKeys(p)
  /\ s.pendingPreKey # None => s.pendingPreKey.baseKey \in SessionKeys(p)
  /\ Len(s.rootKey) >= 3
  /\ \A k \in DOMAIN s.chains \ {s.ephemeralKeyPair} :
       s.chains[k].chainType = "RECEIVING"

\* The ratchet of a sound session can turn.
LEMMA SessionOKIsTurnable ==
  ASSUME NEW K, NEW p, NEW q, NEW s, SessionOK(K, p, q, s)
  PROVE  Turnable(K, p, q, s)
<1>1. Len(s.rootKey) \in Nat /\ Len(s.rootKey) >= 5
  BY DEF SessionOK, SessionOver, ChainsOK
<1>2. s.ephemeralKeyPair \in KeysOf(p)
  BY SessionKeysDistinct DEF SessionOK, KeysOK
<1> QED  BY <1>1, <1>2 DEF SessionOK, KeysOK, ChainsOK, ReceivingOK, Turnable

\* A turn of the ratchet leaves a sound session.
LEMMA TurnedOK ==
  ASSUME NEW K, NEW p, NEW q, p # q, NEW s, Turnable(K, p, q, s),
         NEW key \in K, key \in SessionKeys(q), key \notin DOMAIN s.chains,
         NEW previousCounter \in Int, NEW keyPair \in SessionKeys(p), keyPair \notin K
  PROVE  SessionOK(K \cup {keyPair}, p, q,
                   MaybeStepRatchet(s, key, previousCounter, keyPair))
<1> DEFINE t == MaybeStepRatchet(s, key, previousCounter, keyPair)
           last == s.lastRemoteEphemeralKey
           received == Append(s.rootKey, {key, s.ephemeralKeyPair})
           sending == Append(received, {key, keyPair})
<1>1. /\ key \in KeysOf(q)
      /\ key # s.ephemeralKeyPair
      /\ last # s.ephemeralKeyPair
  BY KeysApart, SessionKeysDistinct DEF Turnable
<1>2. SessionOver(K, s)
  BY DEF Turnable
<1>3. SessionOver(K \cup {keyPair}, t) /\ Turned(s, key, previousCounter, keyPair, t)
  BY <1>1, <1>2, MaybeStepRatchetIs
<1> HIDE DEF t
<1>4. /\ SameBut({"rootKey", "ephemeralKeyPair", "lastRemoteEphemeralKey",
                  "previousCounter", "oldRatchetList", "chains"}, s, t)
      /\ t.rootKey = sending
      /\ t.ephemeralKeyPair = keyPair
      /\ t.lastRemoteEphemeralKey = key
      /\ t.previousCounter = IF s.ephemeralKeyPair \in DOMAIN s.chains
                               THEN s.chains[s.ephemeralKeyPair].counter
                               ELSE s.previousCounter
      /\ t.oldRatchetList = IF last \in DOMAIN s.chains
                              THEN Append(s.oldRatchetList, last)
                              ELSE s.oldRatchetList
      /\ DOMAIN t.chains = (DOMAIN s.chains \ {s.ephemeralKeyPair})
                             \cup {key, keyPair}
      /\ t.chains[key] = NewChain(received, "RECEIVING")
      /\ t.chains[keyPair] = NewChain(sending, "SENDING")
      /\ last \in DOMAIN s.chains =>
           t.chains[last] = Retired(s.chains[last], previousCounter)
      /\ \A k \in DOMAIN s.chains \ {s.ephemeralKeyPair, last} :
           t.chains[k] = s.chains[k]
  BY <1>3 DEF Turned
<1>5. /\ t.closed = s.closed
      /\ t.baseKey = s.baseKey
      /\ t.baseKeyType = s.baseKeyType
      /\ t.pendingPreKey = s.pendingPreKey
  BY <1>4 DEF SameBut, SessionFields
<1>6. KeysOK(p, q, t)
  <2>1. t.ephemeralKeyPair \in SessionKeys(p)
    BY <1>4
  <2>2. t.lastRemoteEphemeralKey \in KeysOf(q)
    BY <1>1, <1>4
  <2> QED  BY <1>5, <2>1, <2>2 DEF Turnable, KeysOK
<1>7. /\ s.rootKey \in Seq(SUBSET K)
      /\ Len(s.rootKey) >= 3
      /\ DOMAIN s.chains \subseteq K
      /\ s.oldRatchetList \in Seq(K)
      /\ last \in K
      /\ s.ephemeralKeyPair \in K
  BY DEF Turnable, SessionOver, ChainsOver
<1>8. Len(t.rootKey) >= 5 /\ t.rootKey[Len(t.rootKey)] = {key, keyPair}
  <2>1. received \in Seq(SUBSET K) /\ Len(received) = Len(s.rootKey) + 1
    BY <1>7
  <2>2. {key, keyPair} \in SUBSET (K \cup {keyPair})
    OBVIOUS
  <2>3. received \in Seq(SUBSET (K \cup {keyPair}))
    BY <2>1, SeqMonotonic
  <2> HIDE DEF received
  <2>4. /\ Len(sending) = Len(received) + 1
        /\ sending[Len(received) + 1] = {key, keyPair}
    BY <2>2, <2>3
  <2>5. Len(s.rootKey) \in Nat
    BY <1>7
  <2> QED  BY <1>4, <1>7, <2>1, <2>4, <2>5
<1>9. \A i \in DOMAIN t.oldRatchetList : t.oldRatchetList[i] # keyPair
  <2>1. t.oldRatchetList \in Seq(K)
    BY <1>4, <1>7
  <2> QED  BY <2>1
<1>10. SendingOK(t)
  BY <1>4 DEF SendingOK, SendingChain, NewChain
<1>11. ReceivingOK(t)
  <2> SUFFICES ASSUME NEW k \in DOMAIN t.chains \ {keyPair}
               PROVE  /\ t.chains[k].chainType = "RECEIVING"
                      /\ k = key => t.rootKey = Append(t.chains[k].seed, {key, keyPair})
    BY <1>4 DEF ReceivingOK
  <2>1. CASE k = key
    <3> HIDE DEF received
    <3>1. t.chains[key].chainType = "RECEIVING" /\ t.chains[key].seed = received
      BY <1>4 DEF NewChain
    <3> QED  BY <1>4, <2>1, <3>1
  <2>2. CASE k # key /\ k = last
    <3>1. last \in DOMAIN s.chains \ {s.ephemeralKeyPair}
      BY <1>1, <1>4, <2>2
    <3>2. s.chains[last] \in ChainOver(K) /\ s.chains[last].chainType = "RECEIVING"
      BY <3>1 DEF Turnable, SessionOver, ChainsOver
    <3>3. Retired(s.chains[last], previousCounter).chainType = "RECEIVING"
      BY <3>2, RetiredIs
    <3> QED  BY <1>4, <2>2, <3>1, <3>3
  <2>3. CASE k # key /\ k # last
    <3>1. k \in DOMAIN s.chains \ {s.ephemeralKeyPair, last}
      BY <1>4, <2>3
    <3>2. t.chains[k] = s.chains[k]
      BY <1>4, <3>1
    <3> QED  BY <2>3, <3>1, <3>2 DEF Turnable
  <2> QED  BY <2>1, <2>2, <2>3
<1> QED  BY <1>4, <1>6, <1>8, <1>9, <1>10, <1>11, <1>3 DEF SessionOK, ChainsOK, t

\* So does the rest of doDecryptWhisperMessage, which works on a receiving chain.
LEMMA DecryptedOK ==
  ASSUME NEW K, NEW p, NEW q, NEW s, NEW message, NEW keyPair,
         SessionOK(K, p, q, Stepped(s, message, keyPair)),
         message.ephemeralKey \in DOMAIN Stepped(s, message, keyPair).chains,
         message.ephemeralKey # Stepped(s, message, keyPair).ephemeralKeyPair,
         message.counter \in Int
  PROVE  SessionOK(K, p, q, Decrypted(s, message, keyPair))
<1> DEFINE u == Stepped(s, message, keyPair)
           t == Decrypted(s, message, keyPair)
           key == message.ephemeralKey
<1>1. /\ SessionOver(K, t)
      /\ SameBut({"chains", "pendingPreKey"}, u, t)
      /\ t.pendingPreKey = None
      /\ DOMAIN t.chains = DOMAIN u.chains
      /\ t.chains[key] = Used(u.chains[key], message.counter)
      /\ \A k \in DOMAIN u.chains \ {key} : t.chains[k] = u.chains[k]
  BY DecryptedIs DEF SessionOK
<1> HIDE DEF t, u
<1>2. /\ t.rootKey = u.rootKey
      /\ t.ephemeralKeyPair = u.ephemeralKeyPair
      /\ t.lastRemoteEphemeralKey = u.lastRemoteEphemeralKey
      /\ t.baseKeyType = u.baseKeyType
      /\ t.baseKey = u.baseKey
      /\ t.oldRatchetList = u.oldRatchetList
      /\ t.closed = u.closed
  BY <1>1 DEF SameBut, SessionFields
<1>3. SessionOK(K, p, q, u) /\ key \in DOMAIN u.chains /\ key # u.ephemeralKeyPair
  BY DEF u
<1>4. KeysOK(p, q, t)
  BY <1>1, <1>2, <1>3 DEF SessionOK, KeysOK
<1>5. SendingOK(t)
  BY <1>1, <1>2, <1>3 DEF SessionOK, ChainsOK, SendingOK, SendingChain, IsOpen
<1>6. u.chains[key] \in ChainOver(K)
  BY <1>3 DEF SessionOK, SessionOver, ChainsOver
<1>7. t.chains[key].chainType = u.chains[key].chainType /\ t.chains[key].seed = u.chains[key].seed
  BY <1>1, <1>6, UsedIs
<1>8. ASSUME NEW k \in DOMAIN t.chains \ {t.ephemeralKeyPair}
      PROVE  /\ k \in DOMAIN u.chains \ {u.ephemeralKeyPair}
             /\ t.chains[k].chainType = u.chains[k].chainType
             /\ t.chains[k].seed = u.chains[k].seed
  <2>1. CASE k = key
    BY <1>1, <1>2, <1>7, <2>1
  <2>2. CASE k # key
    <3>1. t.chains[k] = u.chains[k] /\ k \in DOMAIN u.chains \ {u.ephemeralKeyPair}
      BY <1>1, <1>2, <2>2
    <3> QED  BY <3>1
  <2> QED  BY <2>1, <2>2
<1>9. ReceivingOK(t)
  <2> SUFFICES ASSUME NEW k \in DOMAIN t.chains \ {t.ephemeralKeyPair}
               PROVE  /\ t.chains[k].chainType = "RECEIVING"
                      /\ k = t.lastRemoteEphemeralKey =>
                           t.rootKey = Append(t.chains[k].seed,
                                              {t.lastRemoteEphemeralKey, t.ephemeralKeyPair})
    BY DEF ReceivingOK
  <2>1. ReceivingOK(u)
    BY <1>3 DEF SessionOK, ChainsOK
  <2> QED  BY <1>2, <1>8, <2>1 DEF ReceivingOK
<1> QED  BY <1>1, <1>2, <1>3, <1>4, <1>5, <1>9 DEF SessionOK, ChainsOK, t

\* The session processPreKey makes: an open one, with a sending chain alone,
\* from an agreement of all four secrets.
Pending(s, ourIdentity, baseKey, keyPair, device) ==
  LET agreed == SharedSecret(TRUE, ourIdentity, baseKey, baseKey,
                             device.identityKey, device.signedPreKey, device.preKey)
      rootKey == Append(agreed, {device.signedPreKey, keyPair})
  IN  /\ DOMAIN s = SessionFields
      /\ s.rootKey = rootKey
      /\ s.ephemeralKeyPair = keyPair
      /\ s.lastRemoteEphemeralKey = device.signedPreKey
      /\ s.closed = -1
      /\ s.baseKey = baseKey
      /\ s.baseKeyType = "OURS"
      /\ s.pendingPreKey = [preKeyId |-> device.preKeyId,
                            signedKeyId |-> device.signedKeyId,
                            baseKey |-> baseKey]
      /\ s.oldRatchetList = <<>>
      /\ DOMAIN s.chains = {keyPair}
      /\ s.chains[keyPair] = NewChain(s.rootKey, "SENDING")

\* initSession of the side that starts.
LEMMA PendingSessionIs ==
  ASSUME NEW K, NEW ourIdentity \in K, NEW baseKey \in K, NEW keyPair \in K,
         NEW device, None \notin K,
         {device.identityKey, device.signedPreKey, device.preKey} \subseteq K,
         device.preKeyId \in Nat, device.signedKeyId \in Nat
  PROVE  LET s == PendingSession(ourIdentity, baseKey, keyPair, device)
         IN  /\ SessionOver(K, s)
             /\ Pending(s, ourIdentity, baseKey, keyPair, device)
<1> DEFINE agreed == SharedSecret(TRUE, ourIdentity, baseKey, baseKey,
                                  device.identityKey, device.signedPreKey, device.preKey)
           rootKey == Append(agreed, {device.signedPreKey, keyPair})
           new == NewSession(agreed, keyPair, device.signedPreKey,
                             device.identityKey, baseKey, "OURS")
           initiator == WithSendingChain(new, device.signedPreKey)
           pending == [preKeyId |-> device.preKeyId,
                       signedKeyId |-> device.signedKeyId,
                       baseKey |-> baseKey]
           s == PendingSession(ourIdentity, baseKey, keyPair, device)
<1>1. s = [initiator EXCEPT !.pendingPreKey = pending]
  BY DEF PendingSession, InitiatorSession, WithSendingChain
<1>2. agreed \in Seq(SUBSET K)
  <2>1. {ourIdentity, baseKey, device.identityKey, device.signedPreKey} \subseteq K
    OBVIOUS
  <2>2. {baseKey, device.preKey} \subseteq K
    OBVIOUS
  <2>3. Agreed(K, agreed, ourIdentity, baseKey, baseKey,
               device.identityKey, device.signedPreKey, device.preKey)
    BY <2>1, <2>2, SharedSecretIs
  <2> QED  BY <2>3 DEF Agreed
<1>3. pending \in PendingOver(K)
  BY DEF PendingOver
<1> HIDE DEF agreed, pending
<1>4. ChainsOver(K, EmptyMap) /\ DOMAIN EmptyMap = {}
  BY FS_EmptySet DEF ChainsOver, EmptyMap
<1>5. /\ DOMAIN new = SessionFields
      /\ new.rootKey = agreed
      /\ new.ephemeralKeyPair = keyPair
      /\ new.lastRemoteEphemeralKey = device.signedPreKey
      /\ new.closed = -1
      /\ new.baseKey = baseKey
      /\ new.baseKeyType = "OURS"
      /\ new.oldRatchetList = <<>>
      /\ new.chains = EmptyMap
  BY DEF NewSession, SessionFields
<1>6. SessionOver(K, new)
  <2> HIDE DEF new
  <2>1. new = [rootKey |-> agreed, ephemeralKeyPair |-> keyPair,
               lastRemoteEphemeralKey |-> device.signedPreKey,
               previousCounter |-> 0, remoteIdentityKey |-> device.identityKey,
               closed |-> -1, baseKey |-> baseKey, baseKeyType |-> "OURS",
               oldRatchetList |-> <<>>, pendingPreKey |-> None,
               chains |-> EmptyMap]
    BY DEF new, NewSession
  <2>2. <<>> \in Seq(K)
    OBVIOUS
  <2> QED  BY <1>2, <1>4, <2>1, <2>2 DEF SessionOver
<1> HIDE DEF new
<1>7. /\ SessionOver(K, initiator)
      /\ SameBut({"chains", "rootKey"}, new, initiator)
      /\ initiator.rootKey = Append(new.rootKey, {device.signedPreKey, new.ephemeralKeyPair})
      /\ initiator.chains = Put(new.chains, new.ephemeralKeyPair,
           NewChain(Append(new.rootKey, {device.signedPreKey, new.ephemeralKeyPair}),
                    "SENDING"))
  <2>1. device.signedPreKey \in K
    OBVIOUS
  <2> QED  BY <1>6, <2>1, CalculateRatchetIs
<1> HIDE DEF initiator
<1>8. /\ SessionOver(K, s)
      /\ SameBut({"pendingPreKey"}, initiator, s)
      /\ s.pendingPreKey = pending
  BY <1>1, <1>3, <1>7 DEF SessionOver, SameBut, SessionFields
<1> HIDE DEF s
<1>9. /\ DOMAIN s = SessionFields
      /\ s.rootKey = rootKey
      /\ s.chains = Put(EmptyMap, keyPair, NewChain(rootKey, "SENDING"))
  BY <1>5, <1>7, <1>8 DEF SameBut, SessionFields
<1>10. /\ s.ephemeralKeyPair = keyPair
       /\ s.lastRemoteEphemeralKey = device.signedPreKey
       /\ s.closed = -1
       /\ s.baseKey = baseKey
       /\ s.baseKeyType = "OURS"
       /\ s.oldRatchetList = <<>>
  BY <1>5, <1>7, <1>8 DEF SameBut, SessionFields
<1>11. DOMAIN s.chains = {keyPair} /\ s.chains[keyPair] = NewChain(rootKey, "SENDING")
  BY <1>4, <1>9 DEF Put
<1>12. Pending(s, ourIdentity, baseKey, keyPair, device)
  BY <1>8, <1>9, <1>10, <1>11 DEF Pending, agreed, pending
<1> QED  BY <1>8, <1>12 DEF s

\* It is sound.
LEMMA PendingOK ==
  ASSUME NEW K, None \notin K, NEW p, NEW q, NEW s, NEW ourIdentity \in K,
         NEW baseKey \in SessionKeys(p) \cap K, NEW keyPair \in SessionKeys(p) \cap K,
         NEW device, {device.identityKey, device.signedPreKey, device.preKey} \subseteq K,
         device.signedPreKey \in KeysOf(q),
         SessionOver(K, s), Pending(s, ourIdentity, baseKey, keyPair, device)
  PROVE  SessionOK(K, p, q, s)
<1> DEFINE agreed == SharedSecret(TRUE, ourIdentity, baseKey, baseKey,
                                  device.identityKey, device.signedPreKey, device.preKey)
           last == {device.signedPreKey, keyPair}
<1>1. agreed \in Seq(SUBSET K) /\ Len(agreed) = 4
  <2>1. {ourIdentity, baseKey, device.identityKey, device.signedPreKey} \subseteq K
    OBVIOUS
  <2>2. {baseKey, device.preKey} \subseteq K
    OBVIOUS
  <2>3. baseKey # None /\ device.preKey # None
    OBVIOUS
  <2>4. Agreed(K, agreed, ourIdentity, baseKey, baseKey,
               device.identityKey, device.signedPreKey, device.preKey)
    BY <2>1, <2>2, SharedSecretIs
  <2> HIDE DEF agreed
  <2> QED  BY <2>3, <2>4 DEF Agreed
<1> HIDE DEF agreed
<1>2. Len(Append(agreed, last)) = 5 /\ Append(agreed, last)[5] = last
  <2>1. last \in SUBSET K
    OBVIOUS
  <2>2. /\ Len(Append(agreed, last)) = Len(agreed) + 1
        /\ Append(agreed, last)[Len(agreed) + 1] = last
    <3>1. agreed \in Seq(SUBSET K)
      BY <1>1
    <3> HIDE DEF last
    <3> QED  BY <2>1, <3>1, AppendProperties
  <2> HIDE DEF last
  <2> QED  BY <1>1, <2>2
<1>3. s.rootKey = Append(agreed, last)
  BY DEF Pending, agreed
<1>4. Len(s.rootKey) >= 5 /\ s.rootKey[Len(s.rootKey)] = last
  BY <1>2, <1>3
<1>5. KeysOK(p, q, s)
  <2>1. /\ s.ephemeralKeyPair = keyPair
        /\ s.lastRemoteEphemeralKey = device.signedPreKey
        /\ s.baseKey = baseKey
        /\ s.pendingPreKey.baseKey = baseKey
    BY DEF Pending
  <2> QED  BY <2>1 DEF KeysOK
<1>6. SendingOK(s)
  <2>1. SendingChain(s) = NewChain(s.rootKey, "SENDING")
    BY DEF Pending, SendingChain
  <2>2. s.ephemeralKeyPair \in DOMAIN s.chains
    BY DEF Pending
  <2> QED  BY <2>1, <2>2 DEF SendingOK, NewChain
<1>7. ReceivingOK(s)
  BY DEF Pending, ReceivingOK
<1>8. \A i \in DOMAIN s.oldRatchetList : s.oldRatchetList[i] # s.ephemeralKeyPair
  BY DEF Pending
<1>9. last = {s.lastRemoteEphemeralKey, s.ephemeralKeyPair}
  BY DEF Pending
<1> QED  BY <1>4, <1>5, <1>6, <1>7, <1>8, <1>9 DEF SessionOK, ChainsOK

\* The session processV3 makes: an open one without chains.
Answering(s, ourIdentity, preKey, signedPreKey, theirIdentity, baseKey) ==
  /\ DOMAIN s = SessionFields
  /\ s.ephemeralKeyPair = signedPreKey
  /\ s.lastRemoteEphemeralKey = baseKey
  /\ s.previousCounter = 0
  /\ s.closed = -1
  /\ s.baseKey = baseKey
  /\ s.baseKeyType = "THEIRS"
  /\ s.pendingPreKey = None
  /\ s.oldRatchetList = <<>>
  /\ DOMAIN s.chains = {}
  /\ Len(s.rootKey) = IF preKey = None THEN 3 ELSE 4
  /\ preKey # None => s.rootKey[4] = {baseKey, preKey}
  /\ \A i \in 1..Len(s.rootKey) :
       s.rootKey[i] \subseteq {ourIdentity, preKey, signedPreKey, theirIdentity, baseKey}

\* initSession of the side that answers.
LEMMA ResponderSessionIs ==
  ASSUME NEW K, None \notin K, NEW ourIdentity \in K, NEW preKey \in K \cup {None},
         NEW signedPreKey \in K, NEW theirIdentity \in K, NEW baseKey \in K
  PROVE  LET s == ResponderSession(ourIdentity, preKey, signedPreKey,
                                   theirIdentity, baseKey)
         IN  /\ SessionOver(K, s)
             /\ Answering(s, ourIdentity, preKey, signedPreKey, theirIdentity, baseKey)
<1> DEFINE agreed == SharedSecret(FALSE, ourIdentity, signedPreKey, preKey,
                                  theirIdentity, baseKey, baseKey)
           s == ResponderSession(ourIdentity, preKey, signedPreKey,
                                 theirIdentity, baseKey)
<1>1. /\ agreed \in Seq(SUBSET K)
      /\ preKey # None => Len(agreed) = 4 /\ agreed[4] = {baseKey, preKey}
      /\ preKey = None => Len(agreed) = 3
      /\ \A i \in 1..Len(agreed) :
           agreed[i] \subseteq {ourIdentity, signedPreKey, preKey,
                                theirIdentity, baseKey, baseKey}
  <2>1. {ourIdentity, signedPreKey, theirIdentity, baseKey} \subseteq K
    OBVIOUS
  <2>2. preKey # None /\ baseKey # None => {preKey, baseKey} \subseteq K
    OBVIOUS
  <2>3. baseKey # None
    OBVIOUS
  <2>4. Agreed(K, agreed, ourIdentity, signedPreKey, preKey,
               theirIdentity, baseKey, baseKey)
    BY <2>1, <2>2, SharedSecretIs
  <2> HIDE DEF agreed
  <2> QED  BY <2>3, <2>4 DEF Agreed
<1>2. s = [rootKey |-> agreed, ephemeralKeyPair |-> signedPreKey,
           lastRemoteEphemeralKey |-> baseKey,
           previousCounter |-> 0, remoteIdentityKey |-> theirIdentity,
           closed |-> -1, baseKey |-> baseKey, baseKeyType |-> "THEIRS",
           oldRatchetList |-> <<>>, pendingPreKey |-> None,
           chains |-> EmptyMap]
  BY DEF ResponderSession, NewSession
<1> HIDE DEF agreed, s
<1>3. ChainsOver(K, EmptyMap) /\ DOMAIN EmptyMap = {}
  BY FS_EmptySet DEF ChainsOver, EmptyMap
<1>4. <<>> \in Seq(K)
  OBVIOUS
<1>5. SessionOver(K, s)
  BY <1>1, <1>2, <1>3, <1>4 DEF SessionOver
<1>6. /\ DOMAIN s = SessionFields
      /\ s.rootKey = agreed
      /\ s.ephemeralKeyPair = signedPreKey
      /\ s.lastRemoteEphemeralKey = baseKey
      /\ s.previousCounter = 0
      /\ s.closed = -1
      /\ s.baseKey = baseKey
      /\ s.baseKeyType = "THEIRS"
      /\ s.pendingPreKey = None
      /\ s.oldRatchetList = <<>>
      /\ s.chains = EmptyMap
  BY <1>2 DEF SessionFields
<1>7. \A i \in 1..Len(agreed) :
        agreed[i] \subseteq {ourIdentity, preKey, signedPreKey, theirIdentity, baseKey}
  BY <1>1
<1>8. Answering(s, ourIdentity, preKey, signedPreKey, theirIdentity, baseKey)
  BY <1>1, <1>3, <1>6, <1>7 DEF Answering
<1> QED  BY <1>5, <1>8 DEF s

\* Its ratchet can turn.
LEMMA AnsweringIsTurnable ==
  ASSUME NEW K, NEW p, NEW q, NEW s, SessionOver(K, s),
         NEW ourIdentity, NEW preKey, NEW theirIdentity,
         NEW signedPreKey \in KeysOf(p), NEW baseKey \in KeysOf(q),
         Answering(s, ourIdentity, preKey, signedPreKey, theirIdentity, baseKey)
  PROVE  Turnable(K, p, q, s)
  BY DEF Answering, Turnable

-----------------------------------------------------------------------------
\* A record over a set of keys.
RecordOver(K, r) ==
  /\ r \in [identityKey : K, registrationId : Nat \cup {None},
            sessions : {r.sessions}]
  /\ DOMAIN r.sessions \subseteq K
  /\ r.sessions = [key \in DOMAIN r.sessions |-> r.sessions[key]]
  /\ \A key \in DOMAIN r.sessions : SessionOver(K, r.sessions[key])

\* t is s as a record keeps it: the same, or pruned.
Slimmed(K, s, t) == /\ Thinned(s, t)
                    /\ SessionOver(K, t)
                    /\ Len(t.oldRatchetList) <= MaxOldChains
Kept(K, s, t) == t = s \/ Slimmed(K, s, t)

\* t is the record r with the session s, and with no other that r has not.
RecordWith(K, r, s, t) ==
  /\ RecordOver(K, t)
  /\ DOMAIN t.sessions \subseteq DOMAIN r.sessions \cup {s.baseKey}
  /\ \A key \in DOMAIN t.sessions \ {s.baseKey} :
       Kept(K, r.sessions[key], t.sessions[key])
  /\ s.baseKey \in DOMAIN t.sessions => Slimmed(K, s, t.sessions[s.baseKey])

\* t is the record r with its sessions closed or pruned.
RecordWithout(K, r, t) ==
  /\ RecordOver(K, t)
  /\ DOMAIN t.sessions \subseteq DOMAIN r.sessions
  /\ \A key \in DOMAIN t.sessions : Kept(K, r.sessions[key], t.sessions[key])

\* A record over some keys is one over more keys.
LEMMA RecordOverMore ==
  ASSUME NEW K, NEW L, K \subseteq L, NEW r, RecordOver(K, r)
  PROVE  RecordOver(L, r)
<1>1. \A key \in DOMAIN r.sessions : SessionOver(L, r.sessions[key])
  BY SessionOverMore DEF RecordOver
<1> QED  BY <1>1 DEF RecordOver

\* What is kept twice is kept.
LEMMA KeptTwice ==
  ASSUME NEW K, NEW s, NEW t, NEW u, Kept(K, s, t), Kept(K, t, u)
  PROVE  Kept(K, s, u)
<1>1. CASE Slimmed(K, s, t) /\ Slimmed(K, t, u)
  BY <1>1, ThinnedTwice DEF Slimmed, Kept
<1> QED  BY <1>1 DEF Kept

\* updateSessionState
LEMMA UpdatedIs ==
  ASSUME NEW K, NEW record, RecordOver(K, record), NEW session, SessionOver(K, session),
         NEW id \in Nat \cup {None}
  PROVE  RecordWith(K, record, session, UpdateSessionState(record, session, id))
<1> DEFINE pruned == RemoveOldChains(session)
           key == session.baseKey
           put == Put(record.sessions, key, pruned)
           sessions == RemoveOldSessions(put)
           open == \E k \in DOMAIN sessions : IsOpen(sessions[k])
           newId == IF ~open THEN None
                    ELSE IF record.registrationId = None THEN id
                    ELSE record.registrationId
           updated == UpdateSessionState(record, session, id)
<1>1. key \in K
  BY DEF SessionOver
<1>2. Slimmed(K, session, pruned)
  BY RemoveOldChainsThins DEF Slimmed
<1>3. /\ DOMAIN put = DOMAIN record.sessions \cup {key}
      /\ put = [k \in DOMAIN put |-> put[k]]
      /\ \A k \in DOMAIN put \ {key} : put[k] = record.sessions[k]
      /\ put[key] = pruned
  BY DEF Put
<1>4. /\ DOMAIN sessions \subseteq DOMAIN put
      /\ \A k \in DOMAIN sessions : sessions[k] = put[k]
      /\ sessions = [k \in DOMAIN sessions |-> sessions[k]]
  <2> HIDE DEF put
  <2>1. put = [k \in DOMAIN put |-> put[k]]
    BY <1>3
  <2> QED  BY <2>1, RemoveOldSessionsKeeps DEF RemoveOldSessions, Delete
<1> HIDE DEF pruned, put
<1>5. updated = [[record EXCEPT !.sessions = sessions] EXCEPT !.registrationId = newId]
  BY DEF UpdateSessionState, SessionsWith, put, pruned
<1>6. newId \in Nat \cup {None}
  BY DEF RecordOver
<1> HIDE DEF sessions, newId, updated
<1> DEFINE moved == [record EXCEPT !.sessions = sessions]
<1>7. moved \in [identityKey : K, registrationId : Nat \cup {None}, sessions : {sessions}]
  BY DEF RecordOver
<1> HIDE DEF moved
<1>8. updated \in [identityKey : K, registrationId : Nat \cup {None}, sessions : {sessions}]
  BY <1>5, <1>6, <1>7 DEF moved
<1>9. updated.sessions = sessions
  BY <1>8
<1>10. \A k \in DOMAIN sessions : SessionOver(K, sessions[k])
  BY <1>2, <1>3, <1>4 DEF Slimmed, RecordOver
<1>11. DOMAIN sessions \subseteq K
  BY <1>1, <1>3, <1>4 DEF RecordOver
<1>12. RecordOver(K, updated)
  BY <1>4, <1>8, <1>9, <1>10, <1>11 DEF RecordOver
<1>13. \A k \in DOMAIN updated.sessions \ {key} :
         Kept(K, record.sessions[k], updated.sessions[k])
  BY <1>3, <1>4, <1>9 DEF Kept
<1>14. key \in DOMAIN updated.sessions => Slimmed(K, session, updated.sessions[key])
  BY <1>2, <1>3, <1>4, <1>9
<1> QED  BY <1>3, <1>4, <1>9, <1>12, <1>13, <1>14 DEF RecordWith, updated

\* archiveCurrentState
LEMMA ArchivedIs ==
  ASSUME NEW K, NEW record, RecordOver(K, record), RecordOK(record)
  PROVE  RecordWithout(K, record, ArchiveCurrentState(record))
<1>1. CASE OpenKeys(record) = {}
  <2>1. ArchiveCurrentState(record) = record
    BY <1>1 DEF ArchiveCurrentState
  <2> QED  BY <2>1 DEF RecordWithout, Kept
<1>2. CASE OpenKeys(record) # {}
  <2> DEFINE current == CHOOSE key \in OpenKeys(record) : TRUE
             session == record.sessions[current]
             closed == CloseSession(session, Now(record))
             archived == ArchiveCurrentState(record)
  <2>1. /\ current \in DOMAIN record.sessions
        /\ OpenSession(record) = session
    BY <1>2 DEF OpenSession, OpenKeys
  <2>2. archived = UpdateSessionState(record, closed, None)
    BY <1>2, <2>1 DEF ArchiveCurrentState
  <2> HIDE DEF current
  <2>3. SessionOver(K, session) /\ session.baseKey = current
    BY <2>1 DEF RecordOver, RecordOK
  <2> HIDE DEF session
  <2>4. SessionOver(K, closed) /\ Thinned(session, closed)
    BY <2>3, NowIsPositive, CloseSessionThins
  <2>5. closed.baseKey = current
    BY <2>3, <2>4 DEF Thinned, SameBut, SessionFields
  <2> HIDE DEF closed
  <2>6. RecordWith(K, record, closed, archived)
    BY <2>2, <2>4, UpdatedIs
  <2> HIDE DEF archived
  <2>7. DOMAIN archived.sessions \subseteq DOMAIN record.sessions
    BY <2>1, <2>5, <2>6 DEF RecordWith
  <2>8. ASSUME NEW key \in DOMAIN archived.sessions
        PROVE  Kept(K, record.sessions[key], archived.sessions[key])
    <3>1. CASE key = current
      <4>1. Slimmed(K, closed, archived.sessions[current])
        BY <2>5, <2>6, <3>1 DEF RecordWith
      <4>2. Thinned(session, archived.sessions[current])
        BY <2>4, <4>1, ThinnedTwice DEF Slimmed
      <4> QED  BY <3>1, <4>1, <4>2 DEF Kept, Slimmed, session
    <3>2. CASE key # current
      BY <2>5, <2>6, <3>2 DEF RecordWith
    <3> QED  BY <3>1, <3>2
  <2> QED  BY <2>6, <2>7, <2>8 DEF RecordWithout, RecordWith, archived
<1> QED  BY <1>1, <1>2

\* A session is added to an archived record, or replaces one it was made from.
LEMMA RecordWithAfter ==
  ASSUME NEW K, NEW r, NEW t, RecordWithout(K, r, t),
         NEW s, NEW u, RecordWith(K, t, s, u)
  PROVE  RecordWith(K, r, s, u)
<1>1. ASSUME NEW key \in DOMAIN u.sessions \ {s.baseKey}
      PROVE  Kept(K, r.sessions[key], u.sessions[key])
  <2>1. key \in DOMAIN t.sessions
    BY DEF RecordWith
  <2>2. Kept(K, r.sessions[key], t.sessions[key]) /\ Kept(K, t.sessions[key], u.sessions[key])
    BY <2>1 DEF RecordWith, RecordWithout
  <2> QED  BY <2>2, KeptTwice
<1>2. DOMAIN u.sessions \subseteq DOMAIN r.sessions \cup {s.baseKey}
  BY DEF RecordWith, RecordWithout
<1> QED  BY <1>1, <1>2 DEF RecordWith

\* A record that was given a session twice.
LEMMA RecordWithAgain ==
  ASSUME NEW K, NEW r, NEW s, NEW t, RecordWith(K, r, s, t),
         NEW v, v.baseKey = s.baseKey, NEW u, RecordWith(K, t, v, u)
  PROVE  RecordWith(K, r, v, u)
<1>1. ASSUME NEW key \in DOMAIN u.sessions \ {v.baseKey}
      PROVE  Kept(K, r.sessions[key], u.sessions[key])
  <2>1. key \in DOMAIN t.sessions \ {s.baseKey}
    BY DEF RecordWith
  <2>2. Kept(K, r.sessions[key], t.sessions[key]) /\ Kept(K, t.sessions[key], u.sessions[key])
    BY <2>1 DEF RecordWith
  <2> QED  BY <2>2, KeptTwice
<1>2. DOMAIN u.sessions \subseteq DOMAIN r.sessions \cup {v.baseKey}
  BY DEF RecordWith
<1> QED  BY <1>1, <1>2 DEF RecordWith

\* processPreKey and processV3 add a session.
LEMMA AddedIs ==
  ASSUME NEW K, NEW record, RecordOver(K, record), RecordOK(record),
         NEW session, SessionOver(K, session), NEW id \in Nat \cup {None}
  PROVE  RecordWith(K, record, session,
                    UpdateSessionState(ArchiveCurrentState(record), session, id))
<1> DEFINE archived == ArchiveCurrentState(record)
<1>1. RecordWithout(K, record, archived)
  BY ArchivedIs
<1> HIDE DEF archived
<1>2. RecordOver(K, archived)
  BY <1>1 DEF RecordWithout
<1>3. RecordWith(K, archived, session, UpdateSessionState(archived, session, id))
  BY <1>2, UpdatedIs
<1>4. RecordWith(K, record, session, UpdateSessionState(archived, session, id))
  BY <1>1, <1>3, RecordWithAfter
<1> QED  BY <1>4 DEF archived

\* The record a first session is put in.
LEMMA NewRecordOver ==
  ASSUME NEW K, NEW identityKey \in K, NEW registrationId \in Nat
  PROVE  RecordOver(K, NewRecord(identityKey, registrationId))
  BY DEF RecordOver, NewRecord, EmptyMap

-----------------------------------------------------------------------------
\* removeOldSessions keeps the limit: of more than one session it finds one
\* that is closed, because only one is open.
LEMMA RemoveOldSessionsFits ==
  ASSUME NEW sessions, IsFiniteSet(DOMAIN sessions),
         \A key \in DOMAIN sessions : sessions[key].closed \in Int,
         \A k1, k2 \in DOMAIN sessions :
           IsOpen(sessions[k1]) /\ IsOpen(sessions[k2]) => k1 = k2,
         Cardinality(DOMAIN sessions) <= MaxSessions + 1
  PROVE  Cardinality(DOMAIN RemoveOldSessions(sessions)) <= MaxSessions
<1> DEFINE keys == DOMAIN sessions
           closed == {key \in keys : ~IsOpen(sessions[key])}
           oldest == CHOOSE key \in closed :
                       \A other \in closed :
                         sessions[key].closed <= sessions[other].closed
           time == [key \in closed |-> 0 - sessions[key].closed]
<1>1. CASE Cardinality(keys) <= MaxSessions
  BY <1>1 DEF RemoveOldSessions
<1>2. CASE ~(Cardinality(keys) <= MaxSessions)
  <2>1. Cardinality(keys) \in Nat /\ MaxSessions \in Nat \ {0}
    BY FS_CardinalityType, RecordAssumption
  <2>2. closed # {}
    <3> SUFFICES ASSUME closed = {}  PROVE FALSE
      OBVIOUS
    <3>1. \A k1, k2 \in keys : k1 = k2
      OBVIOUS
    <3>2. keys # {}
      <4> SUFFICES ASSUME keys = {}  PROVE FALSE
        OBVIOUS
      <4>1. Cardinality(keys) = 0
        BY FS_EmptySet
      <4> QED  BY <1>2, <2>1, <4>1
    <3>3. PICK k \in keys : keys = {k}
      BY <3>1, <3>2
    <3>4. Cardinality(keys) = 1
      BY <3>3, FS_Singleton
    <3> QED  BY <1>2, <2>1, <3>4
  <2>3. IsFiniteSet(closed) /\ \A key \in closed : time[key] \in Int
    BY FS_Subset
  <2>4. PICK last \in closed : \A key \in closed : time[key] <= time[last]
    <3> HIDE DEF closed, time
    <3> QED  BY <2>2, <2>3, LatestExists
  <2>5. \A key \in closed : sessions[last].closed <= sessions[key].closed
    BY <2>4
  <2>6. oldest \in closed
    <3> HIDE DEF closed
    <3> QED  BY <2>4, <2>5
  <2>7. DOMAIN RemoveOldSessions(sessions) = keys \ {oldest}
    BY <1>2 DEF RemoveOldSessions, Delete
  <2>8. oldest \in keys
    BY <2>6
  <2> HIDE DEF oldest, closed
  <2>9. Cardinality(keys \ {oldest}) = Cardinality(keys) - 1
    BY <2>8, FS_RemoveElement
  <2> QED  BY <2>1, <2>7, <2>9
<1> QED  BY <1>1, <1>2

\* So does updateSessionState.
LEMMA UpdatedFits ==
  ASSUME NEW record, RecordOK(record), Cardinality(DOMAIN record.sessions) <= MaxSessions,
         NEW session, DOMAIN session = SessionFields, session.closed \in Int,
         IsOpen(session) => OpenKeys(record) \subseteq {session.baseKey}, NEW id
  PROVE  Cardinality(DOMAIN UpdateSessionState(record, session, id).sessions) <= MaxSessions
<1> DEFINE pruned == RemoveOldChains(session)
           key == session.baseKey
           keys == DOMAIN record.sessions
           put == Put(record.sessions, key, pruned)
<1>1. /\ DOMAIN put = keys \cup {key}
      /\ \A k \in keys \ {key} : put[k] = record.sessions[k]
      /\ put[key] = pruned
  BY DEF Put
<1>2. pruned.closed = session.closed
  BY RemoveOldChainsKeepsHead DEF SameHead
<1>3. UpdateSessionState(record, session, id).sessions = RemoveOldSessions(put)
  BY DEF UpdateSessionState, SessionsWith, RecordOK, RecordFields
<1> HIDE DEF pruned, put
<1>4. IsFiniteSet(keys) /\ Cardinality(keys) \in Nat
  BY FS_CardinalityType DEF RecordOK
<1>5. IsFiniteSet(keys \cup {key}) /\ Cardinality(keys \cup {key}) <= Cardinality(keys) + 1
  BY SMTT(30), <1>4, FS_AddElement
<1>6. Cardinality(keys \cup {key}) <= MaxSessions + 1
  <2>1. Cardinality(keys \cup {key}) \in Nat
    BY <1>5, FS_CardinalityType
  <2> QED  BY <1>4, <1>5, <2>1, RecordAssumption
<1>7. \A k \in DOMAIN put : put[k].closed \in Int
  BY <1>1, <1>2 DEF RecordOK
<1>8. \A k1, k2 \in DOMAIN put : IsOpen(put[k1]) /\ IsOpen(put[k2]) => k1 = k2
  <2> SUFFICES ASSUME NEW k1 \in DOMAIN put, NEW k2 \in DOMAIN put,
                      IsOpen(put[k1]), IsOpen(put[k2]), k1 # k2
               PROVE  FALSE
    OBVIOUS
  <2>1. \A k \in DOMAIN put : IsOpen(put[k]) /\ k # key => k \in OpenKeys(record)
    BY <1>1 DEF OpenKeys
  <2>2. IsOpen(put[key]) => IsOpen(session)
    BY <1>1, <1>2 DEF IsOpen
  <2> QED  BY <2>1, <2>2 DEF RecordOK
<1> QED  BY <1>1, <1>3, <1>5, <1>6, <1>7, <1>8, RemoveOldSessionsFits

\* So do archiveCurrentState, and a session added after it.
LEMMA ArchivedFits ==
  ASSUME NEW K, NEW record, RecordOver(K, record), RecordOK(record),
         Cardinality(DOMAIN record.sessions) <= MaxSessions
  PROVE  Cardinality(DOMAIN ArchiveCurrentState(record).sessions) <= MaxSessions
<1>1. CASE OpenKeys(record) = {}
  BY <1>1 DEF ArchiveCurrentState
<1>2. CASE OpenKeys(record) # {}
  <2> DEFINE session == OpenSession(record)
             closed == CloseSession(session, Now(record))
  <2>1. DOMAIN session = SessionFields /\ IsOpen(session)
    BY <1>2 DEF OpenSession, OpenKeys, RecordOK
  <2> HIDE DEF session
  <2>2. DOMAIN closed = SessionFields /\ closed.closed \in Int /\ ~IsOpen(closed)
    BY <2>1, CloseSessionCloses, NowIsPositive DEF IsOpen
  <2>3. ArchiveCurrentState(record) = UpdateSessionState(record, closed, None)
    BY <1>2 DEF ArchiveCurrentState, session
  <2> HIDE DEF closed
  <2> QED  BY <2>2, <2>3, UpdatedFits
<1> QED  BY <1>1, <1>2

\* A record archived and then given a session keeps within its limit.
LEMMA AddedFits ==
  ASSUME NEW K, NEW record, RecordOver(K, record), RecordOK(record), CanArchive(record),
         Cardinality(DOMAIN record.sessions) <= MaxSessions,
         NEW session, DOMAIN session = SessionFields, session.closed \in Int, NEW id
  PROVE  Cardinality(DOMAIN UpdateSessionState(ArchiveCurrentState(record),
                                               session, id).sessions) <= MaxSessions
<1> DEFINE archived == ArchiveCurrentState(record)
<1>1. RecordOK(archived) /\ OpenKeys(archived) = {}
  BY ArchiveCurrentStateKeeps
<1>2. Cardinality(DOMAIN archived.sessions) <= MaxSessions
  BY ArchivedFits
<1> HIDE DEF archived
<1>3. Cardinality(DOMAIN UpdateSessionState(archived, session, id).sessions) <= MaxSessions
  BY <1>1, <1>2, UpdatedFits
<1> QED  BY <1>3 DEF archived

-----------------------------------------------------------------------------
\* The chains of a session hold no more keys than the limit.
FewKeys(s) ==
  MessageKeysLimit # 0 =>
    \A k \in DOMAIN s.chains : Cardinality(s.chains[k].messageKeys) <= MessageKeysLimit
Limited(s) == Len(s.oldRatchetList) <= MaxOldChains /\ FewKeys(s)

\* A new chain is within the limit of message keys.
LEMMA NewChainFewKeys ==
  ASSUME NEW seed, NEW type
  PROVE  Cardinality(NewChain(seed, type).messageKeys) <= MessageKeysLimit
<1>1. Cardinality({}) = 0
  BY FS_EmptySet
<1> QED  BY <1>1, LimitAssumption DEF NewChain

\* A turn of the ratchet fills up the chain it retires, within the limit.
LEMMA TurnedFewKeys ==
  ASSUME NEW K, NEW s, SessionOver(K, s), FewKeys(s),
         NEW key, NEW previousCounter \in Int, NEW keyPair, NEW t,
         Turned(s, key, previousCounter, keyPair, t)
  PROVE  FewKeys(t)
<1> SUFFICES ASSUME MessageKeysLimit # 0, NEW k \in DOMAIN t.chains
             PROVE  Cardinality(t.chains[k].messageKeys) <= MessageKeysLimit
  BY DEF FewKeys
<1> DEFINE last == s.lastRemoteEphemeralKey
<1>1. /\ DOMAIN t.chains = (DOMAIN s.chains \ {s.ephemeralKeyPair}) \cup {key, keyPair}
      /\ \E seed, type : t.chains[key] = NewChain(seed, type)
      /\ \E seed, type : t.chains[keyPair] = NewChain(seed, type)
      /\ last \in DOMAIN s.chains =>
           t.chains[last] = Retired(s.chains[last], previousCounter)
      /\ \A j \in DOMAIN s.chains \ {s.ephemeralKeyPair, last} :
           t.chains[j] = s.chains[j]
  BY DEF Turned
<1>2. CASE k = key \/ k = keyPair
  BY <1>1, <1>2, NewChainFewKeys
<1>3. CASE k \in DOMAIN s.chains /\ k = last
  <2>1. /\ s.chains[last] \in ChainOver(K)
        /\ Cardinality(s.chains[last].messageKeys) <= MessageKeysLimit
    BY <1>3 DEF SessionOver, ChainsOver, FewKeys
  <2>2. Cardinality(FillMessageKeys(s.chains[last], previousCounter).messageKeys)
          <= MessageKeysLimit
    BY <2>1, FillMessageKeysIs
  <2>3. Retired(s.chains[last], previousCounter).messageKeys
          = FillMessageKeys(s.chains[last], previousCounter).messageKeys
    BY <2>1, RetiredIs
  <2> QED  BY <1>1, <1>3, <2>2, <2>3
<1>4. CASE k \in DOMAIN s.chains \ {s.ephemeralKeyPair, last}
  BY <1>1, <1>4 DEF FewKeys
<1> QED  BY <1>1, <1>2, <1>3, <1>4

\* So does the decryption, which then takes one key away.
LEMMA DecryptedFewKeys ==
  ASSUME NEW K, NEW s, NEW message, NEW keyPair, message.counter \in Int,
         SessionOver(K, Stepped(s, message, keyPair)),
         message.ephemeralKey \in DOMAIN Stepped(s, message, keyPair).chains,
         FewKeys(Stepped(s, message, keyPair))
  PROVE  FewKeys(Decrypted(s, message, keyPair))
<1> DEFINE u == Stepped(s, message, keyPair)
           t == Decrypted(s, message, keyPair)
           key == message.ephemeralKey
           chain == u.chains[key]
           filled == FillMessageKeys(chain, message.counter)
<1>1. /\ DOMAIN t.chains = DOMAIN u.chains
      /\ t.chains[key] = Used(chain, message.counter)
      /\ \A k \in DOMAIN u.chains \ {key} : t.chains[k] = u.chains[k]
  BY DecryptedIs
<1> HIDE DEF t, u
<1> SUFFICES ASSUME MessageKeysLimit # 0, NEW k \in DOMAIN t.chains
             PROVE  Cardinality(t.chains[k].messageKeys) <= MessageKeysLimit
  BY DEF FewKeys, t
<1>2. CASE k = key
  <2>1. /\ chain \in ChainOver(K)
        /\ Cardinality(chain.messageKeys) <= MessageKeysLimit
    BY DEF SessionOver, ChainsOver, FewKeys, u
  <2> HIDE DEF chain
  <2>2. filled \in ChainOver(K) /\ Cardinality(filled.messageKeys) <= MessageKeysLimit
    BY <2>1, FillMessageKeysIs
  <2>3. Used(chain, message.counter).messageKeys = filled.messageKeys \ {message.counter}
    BY <2>1, UsedIs
  <2> HIDE DEF filled
  <2>4. IsFiniteSet(filled.messageKeys)
    BY <2>2 DEF ChainOver, KeySets
  <2>5. /\ Cardinality(filled.messageKeys \ {message.counter})
             <= Cardinality(filled.messageKeys)
        /\ Cardinality(filled.messageKeys) \in Nat
        /\ Cardinality(filled.messageKeys \ {message.counter}) \in Nat
    BY <2>4, FS_Subset, FS_CardinalityType
  <2>6. t.chains[k].messageKeys = filled.messageKeys \ {message.counter}
    BY <1>1, <1>2, <2>3
  <2> QED  BY <2>2, <2>5, <2>6, LimitAssumption
<1>3. CASE k # key
  BY <1>1, <1>3 DEF FewKeys, u
<1> QED  BY <1>2, <1>3

\* Pruning keeps the limits.
LEMMA SlimmedLimited ==
  ASSUME NEW K, NEW s, FewKeys(s), NEW t, Slimmed(K, s, t)
  PROVE  Limited(t)
  BY DEF Slimmed, Thinned, Limited, FewKeys

-----------------------------------------------------------------------------
\* A session that is sound over some keys is sound over more.
LEMMA SessionOKMore ==
  ASSUME NEW K, NEW L, K \subseteq L, NEW p, NEW q, NEW s, SessionOK(K, p, q, s)
  PROVE  SessionOK(L, p, q, s)
  BY SessionOverMore DEF SessionOK

\* What is kept of it is sound.
LEMMA KeptOK ==
  ASSUME NEW K, NEW L, K \subseteq L, NEW p, NEW q, NEW s, SessionOK(K, p, q, s),
         NEW t, Kept(L, s, t)
  PROVE  SessionOK(L, p, q, t)
<1>1. SessionOK(L, p, q, s)
  BY SessionOKMore
<1> QED  BY <1>1, ThinnedOK DEF Kept, Slimmed

-----------------------------------------------------------------------------
\* A sequence that one secret was added to.
LEMMA AppendIs ==
  ASSUME NEW S, NEW seq \in Seq(S), NEW x \in S
  PROVE  LET longer == Append(seq, x)
         IN  /\ longer \in Seq(S)
             /\ Len(longer) = Len(seq) + 1
             /\ DOMAIN longer = 1..Len(longer)
             /\ \A i \in 1..Len(seq) : longer[i] = seq[i]
             /\ longer[Len(longer)] = x
  OBVIOUS

\* The message keys a chain still gives: those stored, and those to come.
Gives(chain, counter) == \/ counter \in chain.messageKeys
                         \/ chain.live /\ counter > chain.counter

\* The keys stored were passed by the counter.
Passed(chain) == \A n \in chain.messageKeys : n <= chain.counter

\* d is the chain c after it was advanced, to the counter at most: it gives no
\* key that c does not give.
Advanced(c, counter, d) ==
  /\ d.chainType = c.chainType
  /\ d.seed = c.seed
  /\ c.counter <= d.counter
  /\ Passed(d)
  /\ \A n \in Int : Gives(d, n) => Gives(c, n)
  /\ \A n \in d.messageKeys \cup {d.counter} :
       n \in c.messageKeys \cup {c.counter} \/ n <= counter

\* d is the chain c after a message was read from it.
ReadFrom(c, m, d) == /\ c.chainType = "RECEIVING"
                     /\ c.seed = m.mac.key.seed
                     /\ Gives(c, m.counter)
                     /\ ~Gives(d, m.counter)
                     /\ m.counter <= d.counter
                     /\ Advanced(c, m.counter, d)

\* fillMessageKeys advances a chain.
LEMMA FillAdvances ==
  ASSUME NEW K, NEW c \in ChainOver(K), NEW counter \in Int, CanFill(c, counter), Passed(c)
  PROVE  Advanced(c, counter, FillMessageKeys(c, counter))
<1> DEFINE d == FillMessageKeys(c, counter)
<1>1. /\ d \in ChainOver(K)
      /\ d.chainType = c.chainType
      /\ d.seed = c.seed
      /\ d.live = c.live
      /\ d.counter >= c.counter
      /\ d.counter > c.counter => d.counter <= counter /\ ~TooManyKeys(c)
      /\ d.messageKeys = c.messageKeys \cup (c.counter + 1)..d.counter
  BY FillMessageKeysIs
<1> HIDE DEF d
<1>2. /\ c.counter \in Int /\ d.counter \in Int
      /\ c.messageKeys \subseteq Nat /\ d.messageKeys \subseteq Nat
  BY <1>1 DEF ChainOver, Counters, KeySets
<1>3. ASSUME d.counter > c.counter
      PROVE  c.live /\ d.counter <= counter
  <2>1. c.counter < counter /\ ~TooManyKeys(c)
    BY <1>1, <1>2, <1>3
  <2> QED  BY <1>1, <1>3, <2>1 DEF CanFill
<1>4. Passed(d)
  <2> SUFFICES ASSUME NEW n \in d.messageKeys  PROVE n <= d.counter
    BY DEF Passed
  <2>1. CASE n \in c.messageKeys
    BY <1>1, <1>2, <2>1 DEF Passed
  <2>2. CASE n \in (c.counter + 1)..d.counter
    BY <1>2, <2>2
  <2> QED  BY <1>1, <2>1, <2>2
<1>5. ASSUME NEW n \in Int, Gives(d, n)
      PROVE  Gives(c, n)
  <2>1. CASE n \in c.messageKeys
    BY <2>1 DEF Gives
  <2>2. CASE n \in (c.counter + 1)..d.counter
    <3>1. n > c.counter /\ d.counter > c.counter
      BY <1>2, <2>2
    <3> QED  BY <1>3, <3>1 DEF Gives
  <2>3. CASE d.live /\ n > d.counter
    <3>1. n > c.counter
      BY <1>1, <1>2, <2>3
    <3> QED  BY <1>1, <2>3, <3>1 DEF Gives
  <2> QED  BY <1>1, <1>5, <2>1, <2>2, <2>3 DEF Gives
<1>6. ASSUME NEW n \in d.messageKeys \cup {d.counter}
      PROVE  n \in c.messageKeys \cup {c.counter} \/ n <= counter
  <2>1. CASE d.counter = c.counter
    <3>1. (c.counter + 1)..d.counter = {}
      BY <1>2, <2>1
    <3> QED  BY <1>1, <1>6, <2>1, <3>1
  <2>2. CASE d.counter > c.counter
    <3>1. d.counter <= counter
      BY <1>3, <2>2
    <3>2. n \in c.messageKeys \/ n <= d.counter
      BY <1>1, <1>2, <1>6
    <3>3. n \in Int
      BY <1>2, <1>6
    <3> QED  BY <1>2, <3>1, <3>2, <3>3
  <2> QED  BY <1>1, <1>2, <2>1, <2>2
<1> QED  BY <1>1, <1>4, <1>5, <1>6 DEF Advanced, d

\* A retired chain.
LEMMA RetiredAdvances ==
  ASSUME NEW K, NEW c \in ChainOver(K), NEW counter \in Int, CanFill(c, counter), Passed(c)
  PROVE  Advanced(c, counter, Retired(c, counter))
<1> DEFINE filled == FillMessageKeys(c, counter)
           d == Retired(c, counter)
<1>1. Advanced(c, counter, filled) /\ filled \in ChainOver(K)
  BY FillAdvances, FillMessageKeysIs
<1>2. /\ d.chainType = filled.chainType
      /\ d.seed = filled.seed
      /\ d.live = FALSE
      /\ d.counter = filled.counter
      /\ d.messageKeys = filled.messageKeys
  <2>1. d.chainType = c.chainType /\ d.seed = c.seed /\ filled.chainType = c.chainType
          /\ filled.seed = c.seed
    BY RetiredIs, FillMessageKeysIs
  <2>2. d.live = FALSE /\ d.counter = filled.counter /\ d.messageKeys = filled.messageKeys
    BY RetiredIs
  <2> QED  BY <2>1, <2>2
<1> HIDE DEF filled, d
<1>3. ASSUME NEW n \in Int, Gives(d, n)  PROVE Gives(filled, n)
  BY <1>2, <1>3 DEF Gives
<1>4. Passed(d)
  BY <1>1, <1>2 DEF Advanced, Passed
<1> QED  BY <1>1, <1>2, <1>3, <1>4 DEF Advanced, d

\* A chain a message was read from.
LEMMA UsedIsRead ==
  ASSUME NEW K, NEW c \in ChainOver(K), NEW m, m.counter \in Nat, Passed(c),
         CanFill(c, m.counter), c.chainType = "RECEIVING",
         c.seed = m.mac.key.seed,
         m.counter \in FillMessageKeys(c, m.counter).messageKeys
  PROVE  ReadFrom(c, m, Used(c, m.counter))
<1> DEFINE filled == FillMessageKeys(c, m.counter)
           d == Used(c, m.counter)
<1>1. m.counter \in Int
  OBVIOUS
<1>2. Advanced(c, m.counter, filled) /\ filled \in ChainOver(K)
  BY <1>1, FillAdvances, FillMessageKeysIs
<1>3. /\ d.chainType = filled.chainType
      /\ d.seed = filled.seed
      /\ d.live = filled.live
      /\ d.counter = filled.counter
      /\ d.messageKeys = filled.messageKeys \ {m.counter}
  <2>1. /\ d.chainType = c.chainType /\ d.seed = c.seed /\ d.live = c.live
        /\ d.counter = filled.counter
        /\ d.messageKeys = filled.messageKeys \ {m.counter}
    BY <1>1, UsedIs
  <2>2. filled.chainType = c.chainType /\ filled.seed = c.seed /\ filled.live = c.live
    BY <1>1, FillMessageKeysIs
  <2> QED  BY <2>1, <2>2
<1>4. m.counter \in filled.messageKeys
  OBVIOUS
<1> HIDE DEF filled, d
<1>5. ASSUME NEW n \in Int, Gives(d, n)  PROVE Gives(filled, n)
  BY <1>3, <1>5 DEF Gives
<1>6. Passed(d)
  BY <1>2, <1>3 DEF Advanced, Passed
<1>7. filled.counter \in Int /\ m.counter <= filled.counter
  BY <1>2, <1>4 DEF Advanced, Passed, ChainOver, Counters
<1>8. ~Gives(d, m.counter)
  BY <1>3, <1>7 DEF Gives
<1>9. Gives(c, m.counter)
  BY <1>1, <1>2, <1>4 DEF Advanced, Gives
<1>10. Advanced(c, m.counter, d)
  <2>1. \A n \in d.messageKeys \cup {d.counter} : n \in filled.messageKeys \cup {filled.counter}
    BY <1>3
  <2> QED  BY <1>2, <1>3, <1>5, <1>6, <2>1 DEF Advanced
<1>11. m.counter <= d.counter
  BY <1>3, <1>7
<1> QED  BY <1>8, <1>9, <1>10, <1>11 DEF ReadFrom, d

-----------------------------------------------------------------------------
\* What doDecryptWhisperMessage does to a session: the message is read from a
\* chain the session has ...
ReadInPlace(s, m, t) ==
  /\ m.ephemeralKey \in DOMAIN s.chains
  /\ SameBut({"chains", "pendingPreKey"}, s, t)
  /\ DOMAIN t.chains = DOMAIN s.chains
  /\ ReadFrom(s.chains[m.ephemeralKey], m, t.chains[m.ephemeralKey])
  /\ \A k \in DOMAIN s.chains \ {m.ephemeralKey} : t.chains[k] = s.chains[k]

\* ... or from the new one of a turn of the ratchet.
ReadAfterTurn(s, m, keyPair, t) ==
  LET key == m.ephemeralKey
      last == s.lastRemoteEphemeralKey
      received == Append(s.rootKey, {key, s.ephemeralKeyPair})
  IN  /\ key \notin DOMAIN s.chains
      /\ t.rootKey = Append(received, {key, keyPair})
      /\ t.ephemeralKeyPair = keyPair
      /\ t.closed = s.closed
      /\ t.previousCounter = IF s.ephemeralKeyPair \in DOMAIN s.chains
                               THEN s.chains[s.ephemeralKeyPair].counter
                               ELSE s.previousCounter
      /\ DOMAIN t.chains = (DOMAIN s.chains \ {s.ephemeralKeyPair})
                             \cup {key, keyPair}
      /\ key # keyPair
      /\ t.chains[keyPair] = NewChain(t.rootKey, "SENDING")
      /\ received = m.mac.key.seed
      /\ ReadFrom(NewChain(received, "RECEIVING"), m, t.chains[key])
      /\ last \in DOMAIN s.chains =>
           Advanced(s.chains[last], m.previousCounter, t.chains[last])
      /\ \A k \in DOMAIN s.chains \ {s.ephemeralKeyPair, last} :
           t.chains[k] = s.chains[k]

AllPassed(s) == \A k \in DOMAIN s.chains : Passed(s.chains[k])

\* These are what Decrypted does.
LEMMA ReadInPlaceIs ==
  ASSUME NEW K, NEW p, NEW q, p # q, NEW s, SessionOK(K, p, q, s),
         NEW m, m.ephemeralKey \in SessionKeys(q), m.counter \in Nat,
         m.ephemeralKey \in DOMAIN s.chains, NEW keyPair, NEW ourIdentity, AllPassed(s),
         Decrypts(s, m, ourIdentity, keyPair)
  PROVE  ReadInPlace(s, m, Decrypted(s, m, keyPair))
<1> DEFINE key == m.ephemeralKey
           c == s.chains[key]
           t == Decrypted(s, m, keyPair)
<1>1. Stepped(s, m, keyPair) = s
  BY DEF Stepped, MaybeStepRatchet
<1>2. SessionOver(K, s) /\ m.counter \in Int
  BY DEF SessionOK
<1>3. c \in ChainOver(K)
  BY <1>2 DEF SessionOver, ChainsOver
<1>4. /\ c.chainType = "RECEIVING"
      /\ CanFill(c, m.counter)
      /\ m.counter \in FillMessageKeys(c, m.counter).messageKeys
      /\ c.seed = m.mac.key.seed
  BY <1>1 DEF Decrypts, MAC, MessageKey
<1>5. /\ SameBut({"chains", "pendingPreKey"}, s, t)
      /\ DOMAIN t.chains = DOMAIN s.chains
      /\ t.chains[key] = Used(c, m.counter)
      /\ \A k \in DOMAIN s.chains \ {key} : t.chains[k] = s.chains[k]
  BY <1>1, <1>2, DecryptedIs
<1> HIDE DEF t
<1>6. Passed(c)
  BY DEF AllPassed
<1> HIDE DEF c
<1>7. ReadFrom(c, m, Used(c, m.counter))
  BY <1>3, <1>4, <1>6, UsedIsRead
<1> QED  BY <1>5, <1>7 DEF ReadInPlace, c, t

LEMMA ReadAfterTurnIs ==
  ASSUME NEW K, NEW p, NEW q, p # q, NEW s, Turnable(K, p, q, s),
         NEW m, m.ephemeralKey \in SessionKeys(q), m.ephemeralKey \in K, m.counter \in Nat,
         m.previousCounter \in Int, m.ephemeralKey \notin DOMAIN s.chains,
         NEW keyPair, keyPair \notin K, NEW ourIdentity, AllPassed(s),
         Decrypts(s, m, ourIdentity, keyPair)
  PROVE  ReadAfterTurn(s, m, keyPair, Decrypted(s, m, keyPair))
<1> DEFINE key == m.ephemeralKey
           last == s.lastRemoteEphemeralKey
           received == Append(s.rootKey, {key, s.ephemeralKeyPair})
           new == NewChain(received, "RECEIVING")
           u == Stepped(s, m, keyPair)
           t == Decrypted(s, m, keyPair)
<1>1. /\ SessionOver(K, s)
      /\ key # s.ephemeralKeyPair
      /\ last # s.ephemeralKeyPair
      /\ m.counter \in Int
      /\ key # keyPair
      /\ DOMAIN s.chains \subseteq K
  BY KeysApart, SessionKeysDistinct DEF Turnable, SessionOver, ChainsOver
<1>2. SessionOver(K \cup {keyPair}, u) /\ Turned(s, key, m.previousCounter, keyPair, u)
  BY <1>1, MaybeStepRatchetIs DEF Stepped
<1>3. /\ CanStepRatchet(s, key, m.previousCounter)
      /\ u.chains[key].chainType = "RECEIVING"
      /\ CanFill(u.chains[key], m.counter)
      /\ m.counter \in FillMessageKeys(u.chains[key], m.counter).messageKeys
      /\ u.chains[key].seed = m.mac.key.seed
  BY DEF Decrypts, MAC, MessageKey
<1> HIDE DEF u
<1>4. /\ SameBut({"rootKey", "ephemeralKeyPair", "lastRemoteEphemeralKey",
                  "previousCounter", "oldRatchetList", "chains"}, s, u)
      /\ u.rootKey = Append(received, {key, keyPair})
      /\ u.ephemeralKeyPair = keyPair
      /\ u.previousCounter = IF s.ephemeralKeyPair \in DOMAIN s.chains
                               THEN s.chains[s.ephemeralKeyPair].counter
                               ELSE s.previousCounter
      /\ DOMAIN u.chains = (DOMAIN s.chains \ {s.ephemeralKeyPair}) \cup {key, keyPair}
      /\ u.chains[key] = new
      /\ u.chains[keyPair] = NewChain(u.rootKey, "SENDING")
      /\ last \in DOMAIN s.chains =>
           u.chains[last] = Retired(s.chains[last], m.previousCounter)
      /\ \A k \in DOMAIN s.chains \ {s.ephemeralKeyPair, last} :
           u.chains[k] = s.chains[k]
  BY <1>2 DEF Turned
<1>5. /\ SameBut({"chains", "pendingPreKey"}, u, t)
      /\ DOMAIN t.chains = DOMAIN u.chains
      /\ t.chains[key] = Used(u.chains[key], m.counter)
      /\ \A k \in DOMAIN u.chains \ {key} : t.chains[k] = u.chains[k]
  <2>1. key \in DOMAIN u.chains
    BY <1>4
  <2> QED  BY <1>1, <1>2, <2>1, DecryptedIs DEF u
<1> HIDE DEF t
<1>6. /\ t.rootKey = u.rootKey
      /\ t.ephemeralKeyPair = u.ephemeralKeyPair
      /\ t.previousCounter = u.previousCounter
      /\ t.closed = s.closed
  BY <1>4, <1>5 DEF SameBut, SessionFields
<1>7. received = m.mac.key.seed
  BY <1>3, <1>4 DEF NewChain
<1>8. ReadFrom(new, m, t.chains[key])
  <2>1. u.chains[key] \in ChainOver(K \cup {keyPair})
    BY <1>2, <1>4 DEF SessionOver, ChainsOver
  <2>2. Passed(u.chains[key])
    BY <1>4 DEF NewChain, Passed
  <2> DEFINE c == u.chains[key]
  <2>3. c = new /\ t.chains[key] = Used(c, m.counter)
    BY <1>4, <1>5
  <2>4. ReadFrom(c, m, Used(c, m.counter))
    <3> HIDE DEF c
    <3> QED  BY <1>3, <2>1, <2>2, UsedIsRead DEF c
  <2> QED  BY <2>3, <2>4
<1>9. ASSUME last \in DOMAIN s.chains
      PROVE  Advanced(s.chains[last], m.previousCounter, t.chains[last])
  <2>1. s.chains[last] \in ChainOver(K) /\ Passed(s.chains[last])
    BY <1>1, <1>9 DEF SessionOver, ChainsOver, AllPassed
  <2>2. CanFill(s.chains[last], m.previousCounter)
    BY <1>3, <1>9 DEF CanStepRatchet
  <2>3. t.chains[last] = Retired(s.chains[last], m.previousCounter)
    <3>1. last # key /\ last \in DOMAIN u.chains
      BY <1>1, <1>4, <1>9
    <3> QED  BY <1>4, <1>5, <1>9, <3>1
  <2> QED  BY <2>1, <2>2, <2>3, RetiredAdvances
<1>10. \A k \in DOMAIN s.chains \ {s.ephemeralKeyPair, last} : t.chains[k] = s.chains[k]
  BY <1>4, <1>5
<1>11. t.chains[keyPair] = NewChain(t.rootKey, "SENDING")
  BY <1>1, <1>4, <1>5, <1>6
<1> HIDE DEF new, received
<1> QED  BY <1>1, <1>4, <1>5, <1>6, <1>7, <1>8, <1>9, <1>10, <1>11
         DEF ReadAfterTurn, t, new, received

\* To its keys, t is s pruned.
Quiet(s, t) == /\ t.rootKey = s.rootKey
               /\ t.ephemeralKeyPair = s.ephemeralKeyPair
               /\ t.previousCounter = s.previousCounter
               /\ IsOpen(t) => IsOpen(s)
               /\ DOMAIN t.chains \subseteq DOMAIN s.chains
               /\ \A i \in DOMAIN t.chains : t.chains[i] = s.chains[i]

\* A session that is kept keeps its keys.
LEMMA KeptIsQuiet ==
  ASSUME NEW K, NEW s, NEW t, Kept(K, s, t)
  PROVE  Quiet(s, t)
<1>1. CASE t = s
  BY <1>1 DEF Quiet
<1>2. CASE Thinned(s, t)
  BY <1>2 DEF Thinned, SameBut, SessionFields, Quiet, IsOpen
<1> QED  BY <1>1, <1>2 DEF Kept, Slimmed

\* A root key is new when the last secret in it is.
LEMMA NewRootKey ==
  ASSUME NEW K, NEW rootKey, NEW secret, Append(rootKey, secret) \in Seq(SUBSET K),
         NEW L, rootKey \in Seq(L)
  PROVE  secret \subseteq K
<1> DEFINE r == Append(rootKey, secret)
<1>1. Len(r) = Len(rootKey) + 1 /\ r[Len(rootKey) + 1] = secret /\ Len(rootKey) \in Nat
  OBVIOUS
<1> HIDE DEF r
<1>2. r \in Seq(SUBSET K)
  BY DEF r
<1> QED  BY <1>1, <1>2
=============================================================================
