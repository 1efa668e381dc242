--------------------------- MODULE SignalTypeProofs ---------------------------
(*****************************************************************************)
(* Proofs about SignalSession, for any parties, limits and bounds: what is   *)
(* stored and sent is made of the key pairs drawn so far, and every stored   *)
(* session is sound. Each step starts, prunes, sends from or reads in one    *)
(* session, and keeps the others; the rest follows from that and not from    *)
(* the operations again.                                                     *)
(*****************************************************************************)
EXTENDS SignalSessionProofs, RatchetProofs

\* The keys made so far: those of the installations, and those drawn for
\* sessions.
KeysMade(drawn, installed) ==
  {key \in Key : key[3] <= IF key[1] = "session" THEN drawn[key[2]]
                                                ELSE installed[key[2]]}
Drawn == KeysMade(fresh, install)

\* Which key pairs have been made.
LEMMA KeysMadeHas ==
  ASSUME NEW drawn \in [Parties -> Nat], NEW installed \in [Parties -> Nat],
         NEW p \in Parties, NEW n \in Nat, NEW id \in Nat
  PROVE  LET K == KeysMade(drawn, installed)
         IN  /\ SessionKey(p, n) \in K <=> n <= drawn[p]
             /\ IdentityKey(p, n) \in K <=> n <= installed[p]
             /\ SignedPreKey(p, n, id) \in K <=> n <= installed[p]
             /\ PreKey(p, n, id) \in K <=> n <= installed[p]
             /\ None \notin K
  BY KeyAssumption
  DEF KeysMade, Key, SessionKey, IdentityKey, SignedPreKey, PreKey

\* Keys are only added.
LEMMA KeysMadeGrows ==
  ASSUME NEW drawn \in [Parties -> Nat], NEW installed \in [Parties -> Nat],
         NEW drawn2 \in [Parties -> Nat], NEW installed2 \in [Parties -> Nat],
         \A p \in Parties : drawn[p] <= drawn2[p] /\ installed[p] <= installed2[p]
  PROVE  KeysMade(drawn, installed) \subseteq KeysMade(drawn2, installed2)
<1> SUFFICES ASSUME NEW key \in KeysMade(drawn, installed)
             PROVE  key \in KeysMade(drawn2, installed2)
  OBVIOUS
<1>1. key \in Key /\ key[2] \in Parties /\ key[3] \in Nat
  BY DEF KeysMade, Key
<1> QED  BY <1>1 DEF KeysMade

-----------------------------------------------------------------------------
\* Messages: their keys are the sender's, and their message key is one of a
\* chain that grew from an agreement and a step of the ratchet at least.
HeaderOver(K) == [identityKey : K, registrationId : Nat, preKeyId : Nat,
                  signedPreKeyId : Nat, baseKey : K]
MessageOver(K) ==
  [from : Parties, to : Parties, header : HeaderOver(K) \cup {None},
   ephemeralKey : K, counter : Nat, previousCounter : Int,
   mac : [key : [seed : Seq(SUBSET K), counter : Nat], sender : K, receiver : K],
   plaintext : Nat]
MessageOK(K, m) ==
  /\ m \in MessageOver(K)
  /\ m.from # m.to
  /\ m.ephemeralKey \in SessionKeys(m.from)
  /\ m.header # None => /\ m.header.baseKey \in SessionKeys(m.from)
                        /\ m.header.identityKey \in KeysOf(m.from)
  /\ Len(m.mac.key.seed) >= 5
  /\ m.mac.key.counter = m.counter

\* The session p has for the address of q under the base key k.
Has(p, q, k) == records[p][q] # None /\ k \in DOMAIN records[p][q].sessions
At(p, q, k) == records[p][q].sessions[k]

\* The inductive invariant of the types.
TablesTyped ==
  /\ install \in [Parties -> Nat]
  /\ fresh \in [Parties -> Nat]
  /\ trusted \in [Parties -> [Parties -> Drawn \cup {None}]]
  /\ preKeys \in [Parties -> SUBSET PreKeyIds]
  /\ signedPreKeys \in [Parties -> SUBSET SignedPreKeyIds]
  /\ published \in [Parties -> SignedPreKeyIds]
  /\ unissued \in [Parties -> SUBSET PreKeyIds]
  /\ leftover \subseteq Key
RecordsTyped ==
  \A p, q \in Parties : records[p][q] # None =>
    p # q /\ RecordOver(Drawn, records[p][q])
SessionsTyped ==
  \A p, q \in Parties : \A k : Has(p, q, k) => SessionOK(Drawn, p, q, At(p, q, k))
MessagesTyped ==
  /\ IsFiniteSet(network)
  /\ delivered \subseteq network
  /\ \A m \in network : MessageOK(Drawn, m)
TypeInv == /\ StorageInv
           /\ TablesTyped
           /\ RecordsTyped
           /\ SessionsTyped
           /\ MessagesTyped

\* A message that is sound over some keys is sound over more.
LEMMA MessageOKMore ==
  ASSUME NEW K, NEW L, K \subseteq L, NEW m, MessageOK(K, m)
  PROVE  MessageOK(L, m)
<1>1. Seq(SUBSET K) \subseteq Seq(SUBSET L)
  BY SeqMonotonic
<1>2. HeaderOver(K) \subseteq HeaderOver(L)
  BY DEF HeaderOver
<1>3. MessageOver(K) \subseteq MessageOver(L)
  BY <1>1, <1>2 DEF MessageOver
<1> QED  BY <1>3 DEF MessageOK

-----------------------------------------------------------------------------
\* What a step does to the sessions.  All but one of those after it were there
\* before, and are kept.
KeptBut(p, q, k) ==
  \A a, b \in Parties : \A j :
    Has(a, b, j)' /\ <<a, b, j>> # <<p, q, k>> =>
      Has(a, b, j) /\ Kept(Drawn', At(a, b, j), At(a, b, j)')
AllKept ==
  \A a, b \in Parties : \A j :
    Has(a, b, j)' => Has(a, b, j) /\ Kept(Drawn', At(a, b, j), At(a, b, j)')

\* The one session is s, pruned.
Becomes(p, q, k, s) == KeptBut(p, q, k) /\ (Has(p, q, k)' => Slimmed(Drawn', s, At(p, q, k)'))

Prunes ==
  /\ AllKept
  /\ UNCHANGED <<fresh, network, delivered>>
  /\ \A p \in Parties :
       \/ install'[p] = install[p] /\ preKeys'[p] = preKeys[p]
       \/ install'[p] = install[p] + 1 /\ \A q \in Parties : \A k : ~Has(p, q, k)'

Builds(p, q) ==
  \E id \in PreKeyIds : \E k :
    /\ k = SessionKey(p, fresh[p] + 1)
    /\ Becomes(p, q, k, PendingSession(Identity(p), k, SessionKey(p, fresh[p] + 2),
                                       Device(q, id)))
    /\ fresh' = [fresh EXCEPT ![p] = @ + 2]
    /\ UNCHANGED <<install, preKeys, network, delivered>>

\* The message encrypt makes from a session.
MessageFrom(p, q, s) ==
  LET whisper == WhisperMessage(s, Identity(p))
  IN  [from |-> p, to |-> q, header |-> Header(p, s),
       ephemeralKey |-> whisper.ephemeralKey,
       counter |-> whisper.counter,
       previousCounter |-> whisper.previousCounter,
       mac |-> whisper.mac,
       plaintext |-> Cardinality(Sent(p)) + 1]

Sends(p, q, k) ==
  /\ Has(p, q, k)
  /\ IsOpen(At(p, q, k))
  /\ Becomes(p, q, k, Encrypted(At(p, q, k)))
  /\ network' = network \cup {MessageFrom(p, q, At(p, q, k))}
  /\ UNCHANGED <<install, preKeys, fresh, delivered>>

Reads(p, k, m) ==
  /\ m \in network
  /\ m.to = p
  /\ Has(p, m.from, k)
  /\ SessionDecrypts(p, At(p, m.from, k), m)
  /\ Becomes(p, m.from, k, Decrypted(At(p, m.from, k), m, NextKey(p)))
  /\ fresh' = [fresh EXCEPT ![p] = DrawnAfter(p, At(p, m.from, k), m)]
  /\ delivered' = delivered \cup {m}
  /\ UNCHANGED <<install, preKeys, network>>

\* The one-time prekey of a header is removed, or was left behind.
UsesPreKey(p, id) == \/ preKeys' = [preKeys EXCEPT ![p] = @ \ {id}]
                     \/ preKeys' = preKeys /\ PreKey(p, install[p], id) \in leftover'

Receives(p, m) ==
  /\ m \in network
  /\ m.to = p
  /\ m.header # None
  /\ m.header.signedPreKeyId \in signedPreKeys[p]
  /\ Has(p, m.from, m.header.baseKey) =>
       At(p, m.from, m.header.baseKey).baseKeyType = "OURS"
  /\ SessionDecrypts(p, HeaderSession(p, m.header), m)
  /\ Becomes(p, m.from, m.header.baseKey,
             Decrypted(HeaderSession(p, m.header), m, NextKey(p)))
  /\ fresh' = [fresh EXCEPT ![p] = DrawnAfter(p, HeaderSession(p, m.header), m)]
  /\ UsesPreKey(p, m.header.preKeyId)
  /\ delivered' = delivered \cup {m}
  /\ UNCHANGED <<install, network>>

Step == /\ leftover \subseteq leftover'
        /\ \/ Prunes
           \/ \E p \in Parties : \E q \in Parties \ {p} :
                Builds(p, q) \/ \E k : Sends(p, q, k)
           \/ \E p \in Parties : \E m \in network :
                Receives(p, m) \/ \E k : Reads(p, k, m)

-----------------------------------------------------------------------------
\* A step that stores one record changes its sessions alone.
LEMMA StoredBecomes ==
  ASSUME TablesOK, NEW p \in Parties, NEW q \in Parties, NEW base,
         records[p][q] = None => DOMAIN base.sessions = {},
         records[p][q] # None => base = records[p][q],
         NEW s, NEW k, s.baseKey = k,
         NEW record, RecordWith(Drawn', base, s, record),
         records' = [records EXCEPT ![p][q] = record]
  PROVE  Becomes(p, q, k, s)
<1>1. records'[p][q] = record
  BY DEF TablesOK
<1>2. ASSUME NEW a \in Parties, NEW b \in Parties, NEW j,
             Has(a, b, j)', <<a, b, j>> # <<p, q, k>>
      PROVE  Has(a, b, j) /\ Kept(Drawn', At(a, b, j), At(a, b, j)')
  <2>1. CASE a = p /\ b = q
    <3>1. j \in DOMAIN record.sessions \ {k}
      BY <1>1, <1>2, <2>1 DEF Has
    <3>2. j \in DOMAIN base.sessions /\ Kept(Drawn', base.sessions[j], record.sessions[j])
      BY <3>1 DEF RecordWith
    <3>3. records[p][q] # None /\ base = records[p][q]
      BY <3>2
    <3> QED  BY <1>1, <2>1, <3>2, <3>3 DEF Has, At
  <2>2. CASE ~(a = p /\ b = q)
    <3>1. records'[a][b] = records[a][b]
      BY <2>2 DEF TablesOK
    <3> QED  BY <1>2, <3>1 DEF Has, At, Kept
  <2> QED  BY <2>1, <2>2
<1>3. Has(p, q, k)' => Slimmed(Drawn', s, At(p, q, k)')
  BY <1>1 DEF Has, At, RecordWith
<1> QED  BY <1>2, <1>3 DEF Becomes, KeptBut

\* The records stay typed.
LEMMA StoredTyped ==
  ASSUME TablesOK, RecordsTyped, Drawn \subseteq Drawn',
         NEW p \in Parties, NEW q \in Parties, p # q,
         NEW record, RecordOver(Drawn', record),
         records' = [records EXCEPT ![p][q] = record]
  PROVE  RecordsTyped'
<1> SUFFICES ASSUME NEW a \in Parties, NEW b \in Parties, records'[a][b] # None
             PROVE  a # b /\ RecordOver(Drawn', records'[a][b])
  BY DEF RecordsTyped
<1>1. CASE a = p /\ b = q
  BY <1>1 DEF TablesOK
<1>2. CASE ~(a = p /\ b = q)
  <2>1. records'[a][b] = records[a][b]
    BY <1>2 DEF TablesOK
  <2> QED  BY <2>1, RecordOverMore DEF RecordsTyped
<1> QED  BY <1>1, <1>2

\* The sessions after one became another session, or none did.
LEMMA BecomesTyped ==
  ASSUME SessionsTyped, Drawn \subseteq Drawn', NEW p, NEW q, NEW k, NEW s,
         Becomes(p, q, k, s), SessionOK(Drawn', p, q, s)
  PROVE  SessionsTyped'
<1> SUFFICES ASSUME NEW a \in Parties, NEW b \in Parties, NEW j, Has(a, b, j)'
             PROVE  SessionOK(Drawn', a, b, At(a, b, j)')
  BY DEF SessionsTyped
<1>1. CASE <<a, b, j>> = <<p, q, k>>
  <2>1. Slimmed(Drawn', s, At(a, b, j)')
    BY <1>1 DEF Becomes
  <2>2. SessionOK(Drawn', a, b, s)
    BY <1>1
  <2> QED  BY <2>1, <2>2, ThinnedOK DEF Slimmed
<1>2. CASE <<a, b, j>> # <<p, q, k>>
  <2>1. Has(a, b, j) /\ Kept(Drawn', At(a, b, j), At(a, b, j)')
    BY <1>2 DEF Becomes, KeptBut
  <2>2. SessionOK(Drawn, a, b, At(a, b, j))
    BY <2>1 DEF SessionsTyped
  <2> QED  BY <2>1, <2>2, KeptOK
<1> QED  BY <1>1, <1>2

\* The same when all are kept.
LEMMA AllKeptTyped ==
  ASSUME SessionsTyped, Drawn \subseteq Drawn', AllKept
  PROVE  SessionsTyped'
<1> SUFFICES ASSUME NEW a \in Parties, NEW b \in Parties, NEW j, Has(a, b, j)'
             PROVE  SessionOK(Drawn', a, b, At(a, b, j)')
  BY DEF SessionsTyped
<1>1. Has(a, b, j) /\ Kept(Drawn', At(a, b, j), At(a, b, j)')
  BY DEF AllKept
<1>2. SessionOK(Drawn, a, b, At(a, b, j))
  BY <1>1 DEF SessionsTyped
<1> QED  BY <1>1, <1>2, KeptOK

\* The messages, when none is sent.
LEMMA MessagesStayTyped ==
  ASSUME MessagesTyped, Drawn \subseteq Drawn', UNCHANGED network,
         delivered' \subseteq network
  PROVE  MessagesTyped'
  BY MessageOKMore DEF MessagesTyped

-----------------------------------------------------------------------------
\* Each operation is such a step, and keeps the types.
TypesStay == TablesTyped' /\ RecordsTyped' /\ SessionsTyped' /\ MessagesTyped'

\* The keys an installation hands out have been made.
LEMMA InstalledKeys ==
  ASSUME TablesTyped, NEW p \in Parties
  PROVE  /\ None \notin Drawn
         /\ Identity(p) \in Drawn
         /\ \A n \in Nat : SessionKey(p, n) \in Drawn => n <= fresh[p]
         /\ \A id \in PreKeyIds : PreKey(p, install[p], id) \in Drawn
         /\ \A id \in SignedPreKeyIds : SignedPreKey(p, install[p], id) \in Drawn
         /\ Identity(p) \in KeysOf(p)
         /\ \A id \in PreKeyIds : PreKey(p, install[p], id) \in KeysOf(p)
         /\ \A id \in SignedPreKeyIds : SignedPreKey(p, install[p], id) \in KeysOf(p)
         /\ published[p] \in SignedPreKeyIds
         /\ install[p] \in Nat
         /\ fresh[p] \in Nat
<1>1. /\ install \in [Parties -> Nat]
      /\ fresh \in [Parties -> Nat]
      /\ install[p] \in Nat
      /\ fresh[p] \in Nat
      /\ published[p] \in SignedPreKeyIds
  BY DEF TablesTyped
<1>2. \A n \in Nat : \A id \in Nat :
        /\ SessionKey(p, n) \in Drawn <=> n <= fresh[p]
        /\ IdentityKey(p, n) \in Drawn <=> n <= install[p]
        /\ SignedPreKey(p, n, id) \in Drawn <=> n <= install[p]
        /\ PreKey(p, n, id) \in Drawn <=> n <= install[p]
        /\ None \notin Drawn
  BY <1>1, KeysMadeHas DEF Drawn
<1>3. /\ install[p] <= install[p]
      /\ PreKeyIds \subseteq Nat
      /\ SignedPreKeyIds \subseteq Nat
      /\ 0 \in Nat
  BY <1>1, PartyAssumption
<1>4. /\ None \notin Drawn
      /\ Identity(p) \in Drawn
      /\ \A n \in Nat : SessionKey(p, n) \in Drawn => n <= fresh[p]
      /\ \A id \in PreKeyIds : PreKey(p, install[p], id) \in Drawn
      /\ \A id \in SignedPreKeyIds : SignedPreKey(p, install[p], id) \in Drawn
  BY <1>1, <1>2, <1>3 DEF Identity
<1>5. /\ Identity(p) \in KeysOf(p)
      /\ \A id \in PreKeyIds : PreKey(p, install[p], id) \in KeysOf(p)
      /\ \A id \in SignedPreKeyIds : SignedPreKey(p, install[p], id) \in KeysOf(p)
  BY <1>1, <1>3 DEF KeysOf, Identity
<1> QED  BY <1>1, <1>4, <1>5

\* A set of ids has a least one.
LEMMA LeastId ==
  ASSUME NEW ids \in SUBSET Nat, ids # {}
  PROVE  (CHOOSE i \in ids : \A k \in ids : i <= k) \in ids
<1>1. PICK n \in ids : TRUE
  OBVIOUS
<1> DEFINE low == {i \in ids : i <= n}
           time == [i \in low |-> 0 - i]
<1>2. IsFiniteSet(low)
  <2>1. low \subseteq 0..n
    <3> SUFFICES ASSUME NEW i \in low  PROVE i \in 0..n
      OBVIOUS
    <3>1. i \in Nat /\ n \in Nat /\ i <= n
      BY <1>1
    <3> QED  BY <3>1
  <2>2. n \in Nat /\ 0 \in Int /\ n \in Int
    OBVIOUS
  <2>3. IsFiniteSet(0..n)
    BY <2>2, FS_Interval
  <2> QED  BY <2>1, <2>3, FS_Subset
<1>3. low # {} /\ \A i \in low : time[i] \in Int
  BY <1>1
<1>4. PICK last \in low : \A i \in low : time[i] <= time[last]
  <2> HIDE DEF low, time
  <2> QED  BY <1>2, <1>3, LatestExists
<1>5. \A i \in low : last <= i
  BY <1>4
<1>6. last \in ids /\ \A i \in ids : last <= i
  BY <1>5
<1> QED  BY <1>6

\* The keys there are after a step.
LEMMA MoreDrawn ==
  ASSUME TablesTyped, NEW p \in Parties, NEW n \in Nat,
         fresh' = [fresh EXCEPT ![p] = @ + n], UNCHANGED install
  PROVE  /\ fresh' \in [Parties -> Nat]
         /\ Drawn \subseteq Drawn'
         /\ None \notin Drawn'
         /\ \A i \in 1..n : SessionKey(p, fresh[p] + i) \in Drawn' \ Drawn
<1>1. /\ install \in [Parties -> Nat]
      /\ fresh \in [Parties -> Nat]
      /\ fresh[p] \in Nat
  BY DEF TablesTyped
<1>2. /\ fresh' \in [Parties -> Nat]
      /\ fresh'[p] = fresh[p] + n
      /\ \A q \in Parties : fresh[q] <= fresh'[q]
      /\ install' = install
  <2>1. \A q \in Parties : fresh'[q] = IF q = p THEN fresh[p] + n ELSE fresh[q]
    BY <1>1
  <2>2. fresh' \in [Parties -> Nat]
    BY <1>1
  <2> QED  BY <1>1, <2>1, <2>2
<1>3. \A q \in Parties : fresh[q] <= fresh'[q] /\ install[q] <= install[q]
  BY <1>1, <1>2
<1>4. KeysMade(fresh, install) \subseteq KeysMade(fresh', install)
  <2> DEFINE drawn == fresh'
  <2>1. drawn \in [Parties -> Nat]
    BY <1>2
  <2>2. \A q \in Parties : fresh[q] <= drawn[q] /\ install[q] <= install[q]
    BY <1>3
  <2> HIDE DEF drawn
  <2>3. KeysMade(fresh, install) \subseteq KeysMade(drawn, install)
    BY <1>1, <2>1, <2>2, KeysMadeGrows
  <2> QED  BY <2>3 DEF drawn
<1>5. Drawn' = KeysMade(fresh', install)
  BY <1>2 DEF Drawn
<1>6. None \notin KeysMade(fresh', install)
  BY <1>1, <1>2, KeysMadeHas
<1>7. ASSUME NEW i \in 1..n
      PROVE  SessionKey(p, fresh[p] + i) \in Drawn' \ Drawn
  <2>1. fresh[p] + i \in Nat /\ fresh[p] + i <= fresh'[p] /\ ~(fresh[p] + i <= fresh[p])
    BY <1>1, <1>2
  <2> QED  BY <1>1, <1>2, <1>5, <2>1, KeysMadeHas DEF Drawn
<1> QED  BY <1>2, <1>4, <1>5, <1>6, <1>7 DEF Drawn

\* The record of a peer, or the one made for a peer without a record.
BaseOf(p, q, base) == /\ RecordOK(base)
                      /\ RecordOver(Drawn, base)
                      /\ records[p][q] = None => DOMAIN base.sessions = {}
                      /\ records[p][q] # None => base = records[p][q]

\* A stored record is one, and its sessions are sound.
LEMMA StoredBase ==
  ASSUME TypeInv, NEW p \in Parties, NEW q \in Parties, records[p][q] # None
  PROVE  /\ BaseOf(p, q, records[p][q])
         /\ \A k \in DOMAIN records[p][q].sessions :
              /\ Has(p, q, k)
              /\ At(p, q, k) = records[p][q].sessions[k]
              /\ SessionOK(Drawn, p, q, records[p][q].sessions[k])
              /\ records[p][q].sessions[k].baseKey = k
<1>1. StorageInv /\ RecordsTyped /\ SessionsTyped
  BY DEF TypeInv
<1>2. RecordOK(records[p][q])
  BY <1>1 DEF StorageInv, StoredOK
<1>3. RecordOver(Drawn, records[p][q])
  BY <1>1 DEF RecordsTyped
<1>4. BaseOf(p, q, records[p][q])
  BY <1>2, <1>3 DEF BaseOf
<1>5. ASSUME NEW k \in DOMAIN records[p][q].sessions
      PROVE  /\ Has(p, q, k)
             /\ At(p, q, k) = records[p][q].sessions[k]
             /\ SessionOK(Drawn, p, q, records[p][q].sessions[k])
             /\ records[p][q].sessions[k].baseKey = k
  <2>1. Has(p, q, k)
    BY DEF Has
  <2>2. At(p, q, k) = records[p][q].sessions[k]
    BY DEF At
  <2>3. SessionOK(Drawn, p, q, At(p, q, k))
    BY <1>1, <2>1 DEF SessionsTyped
  <2>4. records[p][q].sessions[k].baseKey = k
    BY <1>2 DEF RecordOK
  <2> QED  BY <2>1, <2>2, <2>3, <2>4
<1> QED  BY <1>4, <1>5

\* The session processPreKey makes from what the server hands out.
LEMMA BuiltSession ==
  ASSUME TypeInv, NEW p \in Parties, NEW q \in Parties \ {p}, NEW id \in PreKeyIds,
         NEW K, Drawn \subseteq K, None \notin K,
         SessionKey(p, fresh[p] + 1) \in K, SessionKey(p, fresh[p] + 2) \in K
  PROVE  LET baseKey == SessionKey(p, fresh[p] + 1)
             keyPair == SessionKey(p, fresh[p] + 2)
             device == Device(q, id)
             session == PendingSession(Identity(p), baseKey, keyPair, device)
         IN  /\ Pending(session, Identity(p), baseKey, keyPair, device)
             /\ SessionOK(K, p, q, session)
             /\ device.registrationId \in Nat
             /\ device.identityKey \in Drawn
<1> DEFINE device == Device(q, id)
           baseKey == SessionKey(p, fresh[p] + 1)
           keyPair == SessionKey(p, fresh[p] + 2)
           session == PendingSession(Identity(p), baseKey, keyPair, device)
<1>1. TablesTyped /\ id \in Nat
  BY PartyAssumption DEF TypeInv
<1>2. /\ device.identityKey \in Drawn
      /\ device.preKey \in Drawn
      /\ device.signedPreKey \in Drawn
      /\ device.signedPreKey \in KeysOf(q)
      /\ device.preKeyId = id
      /\ device.signedKeyId \in Nat
      /\ device.registrationId \in Nat
      /\ Identity(p) \in Drawn
  BY <1>1, InstalledKeys, PartyAssumption DEF Device
<1>3. baseKey \in SessionKeys(p) /\ keyPair \in SessionKeys(p)
  <2>1. fresh[p] + 1 \in Nat /\ fresh[p] + 2 \in Nat
    BY <1>1 DEF TablesTyped
  <2> QED  BY <2>1 DEF SessionKeys
<1> HIDE DEF device, baseKey, keyPair
<1>4. {device.identityKey, device.signedPreKey, device.preKey} \subseteq K
  BY <1>2
<1>5. /\ Identity(p) \in K
      /\ device.signedPreKey \in KeysOf(q)
      /\ device.preKeyId \in Nat
      /\ baseKey \in K
      /\ keyPair \in K
  BY <1>1, <1>2 DEF baseKey, keyPair
<1>6. SessionOver(K, session) /\ Pending(session, Identity(p), baseKey, keyPair, device)
  BY <1>2, <1>4, <1>5, PendingSessionIs
<1> HIDE DEF session
<1>7. SessionOK(K, p, q, session)
  BY <1>3, <1>4, <1>5, <1>6, PendingOK
<1> QED  BY <1>2, <1>6, <1>7 DEF session, device, baseKey, keyPair

\* What the server hands out, and the record it is added to.
LEMMA DeviceBase ==
  ASSUME TypeInv, NEW p \in Parties, NEW q \in Parties, NEW device,
         device.identityKey \in Drawn, device.registrationId \in Nat
  PROVE  BaseOf(p, q, RecordForDevice(records[p][q], device))
<1> DEFINE base == RecordForDevice(records[p][q], device)
<1>1. CASE records[p][q] = None
  <2>1. base = NewRecord(device.identityKey, device.registrationId)
    BY <1>1 DEF RecordForDevice
  <2>2. DOMAIN base.sessions = {}
    BY <2>1 DEF NewRecord, EmptyMap
  <2> QED  BY <1>1, <2>1, <2>2, NewRecordOK, NewRecordOver DEF BaseOf
<1>2. CASE records[p][q] # None
  BY <1>2, StoredBase DEF RecordForDevice
<1> QED  BY <1>1, <1>2

\* processPreKey makes one session and keeps the others.
LEMMA BuildSessionSteps ==
  ASSUME TypeInv, NEW p \in Parties, NEW q \in Parties \ {p}, BuildSession(p, q)
  PROVE  Builds(p, q) /\ TypesStay
<1>1. PICK id, baseKey :
        /\ id = CHOOSE i \in unissued[q] : \A k \in unissued[q] : i <= k
        /\ baseKey = SessionKey(p, fresh[p] + 1)
  OBVIOUS
<1> DEFINE device == Device(q, id)
           keyPair == SessionKey(p, fresh[p] + 2)
           base == RecordForDevice(records[p][q], device)
           session == PendingSession(Identity(p), baseKey, keyPair, device)
           record == ProcessPreKey(records[p][q], session, device)
<1>2. /\ records' = [records EXCEPT ![p][q] = record]
      /\ trusted' = [trusted EXCEPT ![p][q] = record.identityKey]
      /\ unissued' = [unissued EXCEPT ![q] = @ \ {id}]
      /\ fresh' = [fresh EXCEPT ![p] = @ + 2]
      /\ UNCHANGED <<install, preKeys, signedPreKeys, published, network,
                     delivered, leftover>>
  BY <1>1 DEF BuildSession
<1>3. /\ StorageInv /\ TablesTyped /\ RecordsTyped /\ SessionsTyped /\ MessagesTyped
      /\ TablesOK
  BY DEF TypeInv, StorageInv
<1>4. id \in PreKeyIds /\ id \in Nat
  <2>1. unissued[q] # {} /\ unissued[q] \subseteq PreKeyIds
    BY <1>3 DEF BuildSession, TablesTyped
  <2> QED  BY <1>1, <2>1, PartyAssumption, LeastId
<1>5. /\ fresh' \in [Parties -> Nat]
      /\ Drawn \subseteq Drawn'
      /\ None \notin Drawn'
      /\ baseKey \in Drawn'
      /\ keyPair \in Drawn'
  <2>1. /\ fresh' \in [Parties -> Nat]
        /\ Drawn \subseteq Drawn'
        /\ None \notin Drawn'
        /\ \A i \in 1..2 : SessionKey(p, fresh[p] + i) \in Drawn' \ Drawn
    BY <1>2, <1>3, MoreDrawn
  <2> QED  BY <1>1, <2>1
<1>6. /\ Pending(session, Identity(p), baseKey, keyPair, device)
      /\ SessionOK(Drawn', p, q, session)
      /\ device.registrationId \in Nat
      /\ device.identityKey \in Drawn
  BY <1>1, <1>4, <1>5, BuiltSession
<1> HIDE DEF device, keyPair
<1>7. BaseOf(p, q, base)
  BY <1>6, DeviceBase
<1>8. record = UpdateSessionState(ArchiveCurrentState(base), session,
                                   device.registrationId)
  BY DEF ProcessPreKey
<1> HIDE DEF session, base, record
<1>9. session.baseKey = baseKey
  BY <1>6 DEF Pending
<1>10. RecordOver(Drawn', base) /\ SessionOver(Drawn', session)
  BY <1>5, <1>6, <1>7, RecordOverMore DEF BaseOf, SessionOK
<1>11. RecordWith(Drawn', base, session, record)
  BY <1>6, <1>7, <1>8, <1>10, AddedIs DEF BaseOf
<1>12. Becomes(p, q, baseKey, session)
  BY <1>2, <1>3, <1>7, <1>9, <1>11, StoredBecomes DEF BaseOf
<1>13. SessionsTyped'
  BY <1>3, <1>5, <1>6, <1>12, BecomesTyped
<1>14. RecordOver(Drawn', record)
  BY <1>11 DEF RecordWith
<1>15. RecordsTyped'
  BY <1>2, <1>3, <1>5, <1>14, StoredTyped
<1>16. MessagesTyped'
  BY <1>2, <1>3, <1>5, MessagesStayTyped DEF MessagesTyped
<1>17. TablesTyped'
  <2>1. record.identityKey \in Drawn'
    BY <1>14 DEF RecordOver
  <2>2. trusted' \in [Parties -> [Parties -> Drawn' \cup {None}]]
    BY <1>2, <1>3, <1>5, <2>1 DEF TablesTyped
  <2>3. unissued' \in [Parties -> SUBSET PreKeyIds]
    BY <1>2, <1>3 DEF TablesTyped
  <2> QED  BY <1>2, <1>3, <1>5, <2>2, <2>3 DEF TablesTyped
<1>18. Builds(p, q)
  BY <1>1, <1>2, <1>4, <1>12 DEF Builds, keyPair, session, device
<1> QED  BY <1>13, <1>15, <1>16, <1>17, <1>18 DEF TypesStay

\* The message of a sound session is a sound one, whose message key is the next
\* of the chain that grew from the root key.
Carries(m, p, q, s) ==
  /\ m.from = p
  /\ m.to = q
  /\ m.ephemeralKey = s.ephemeralKeyPair
  /\ m.counter = SendingChain(s).counter + 1
  /\ m.previousCounter = s.previousCounter
  /\ m.mac.key = MessageKey(s.rootKey, SendingChain(s).counter + 1)

\* The message encrypt sends carries the next key of the sending chain.
LEMMA MessageFromIs ==
  ASSUME NEW K, NEW p \in Parties, NEW q \in Parties \ {p}, NEW s, SessionOK(K, p, q, s),
         s.ephemeralKeyPair \in DOMAIN s.chains,
         Identity(p) \in K, Identity(p) \in KeysOf(p), install[p] \in Nat,
         IsFiniteSet(network)
  PROVE  /\ Carries(MessageFrom(p, q, s), p, q, s)
         /\ MessageOK(K, MessageFrom(p, q, s))
<1> DEFINE chain == s.chains[s.ephemeralKeyPair]
           next == chain.counter + 1
           filled == FillMessageKeys(SendingChain(s), NextCounter(s))
           header == Header(p, s)
           mac == MAC(MessageKey(filled.seed, filled.counter),
                      Identity(p), s.remoteIdentityKey)
           n == Cardinality(Sent(p)) + 1
           m == [from |-> p, to |-> q, header |-> header,
                 ephemeralKey |-> s.ephemeralKeyPair,
                 counter |-> filled.counter,
                 previousCounter |-> s.previousCounter,
                 mac |-> mac,
                 plaintext |-> n]
<1>1. MessageFrom(p, q, s) = m
  BY DEF MessageFrom, WhisperMessage
<1>2. /\ SessionOver(K, s) /\ KeysOK(p, q, s) /\ ChainsOK(s) /\ SendingOK(s)
      /\ s.rootKey \in Seq(SUBSET K)
      /\ s.ephemeralKeyPair \in K
      /\ s.remoteIdentityKey \in K
      /\ s.previousCounter \in Int
      /\ s.pendingPreKey \in PendingOver(K) \cup {None}
      /\ Len(s.rootKey) >= 5
  BY DEF SessionOK, SessionOver, ChainsOK
<1>3. /\ chain \in ChainOver(K)
      /\ chain.messageKeys = {}
      /\ chain.seed = s.rootKey
      /\ SendingChain(s) = chain
      /\ NextCounter(s) = next
  BY <1>2 DEF SessionOver, ChainsOver, SendingOK, SendingChain, NextCounter
<1>4. next \in Nat
  BY <1>3 DEF ChainOver, Counters
<1>5. filled.counter = next
  BY <1>2, <1>3, EncryptedIs
<1>6. filled.seed = s.rootKey
  <2>1. next \in Int
    BY <1>4
  <2> QED  BY SMTT(30), <1>3, <2>1, FillMessageKeysIs
<1>7. header \in HeaderOver(K) \cup {None}
  BY <1>2 DEF Header, HeaderOver, PendingOver
<1>8. header # None => /\ header.baseKey \in SessionKeys(p)
                       /\ header.identityKey \in KeysOf(p)
  BY <1>2 DEF Header, KeysOK
<1>9. n \in Nat
  <2>1. IsFiniteSet(Sent(p))
    BY FS_Subset DEF Sent
  <2> QED  BY <2>1, FS_CardinalityType
<1>10. /\ mac = MAC(MessageKey(s.rootKey, next), Identity(p), s.remoteIdentityKey)
       /\ mac.key = MessageKey(s.rootKey, next)
       /\ mac \in [key : [seed : Seq(SUBSET K), counter : Nat], sender : K, receiver : K]
  BY <1>2, <1>4, <1>5, <1>6 DEF MAC, MessageKey
<1> HIDE DEF header, mac, n, filled, next, chain
<1>11. m \in MessageOver(K)
  BY <1>2, <1>4, <1>5, <1>7, <1>9, <1>10 DEF MessageOver
<1>12. Carries(m, p, q, s)
  BY <1>3, <1>5, <1>10 DEF Carries, next
<1>13. MessageOK(K, m)
  <2>1. m.from # m.to /\ m.ephemeralKey \in SessionKeys(m.from)
    BY <1>2 DEF KeysOK
  <2>2. Len(m.mac.key.seed) >= 5 /\ m.mac.key.counter = m.counter
    BY <1>2, <1>5, <1>10 DEF MessageKey
  <2> QED  BY <1>8, <1>11, <2>1, <2>2 DEF MessageOK
<1> QED  BY <1>1, <1>12, <1>13

\* encrypt sends from the open session and keeps the others.
LEMMA EncryptSteps ==
  ASSUME TypeInv, NEW p \in Parties, NEW q \in Parties \ {p}, Encrypt(p, q)
  PROVE  (\E k : Sends(p, q, k)) /\ TypesStay
<1>1. PICK current : current = CHOOSE key \in OpenKeys(records[p][q]) : TRUE
  OBVIOUS
<1> DEFINE record == records[p][q]
           session == OpenSession(record)
           after == Encrypted(session)
           stored == UpdateSessionState(record, after, None)
           message == MessageFrom(p, q, session)
<1>2. /\ record # None
      /\ OpenKeys(record) # {}
      /\ records' = [records EXCEPT ![p][q] = stored]
      /\ network' = network \cup {message}
      /\ UNCHANGED <<install, trusted, preKeys, signedPreKeys, published, unissued,
                     fresh, delivered, leftover>>
  BY DEF Encrypt, MessageFrom, server
<1>3. /\ StorageInv /\ TablesTyped /\ RecordsTyped /\ SessionsTyped /\ MessagesTyped
      /\ TablesOK
  BY DEF TypeInv, StorageInv
<1>4. /\ current \in DOMAIN record.sessions
      /\ session = record.sessions[current]
      /\ IsOpen(session)
  BY <1>1, <1>2 DEF OpenSession, OpenKeys
<1>5. Has(p, q, current) /\ session = At(p, q, current)
  BY <1>2, <1>4 DEF Has, At
<1>6. /\ RecordOK(record)
      /\ RecordOver(Drawn, record)
      /\ SessionOK(Drawn, p, q, session)
      /\ session.baseKey = current
  BY <1>2, <1>4, StoredBase DEF BaseOf
<1>7. session.ephemeralKeyPair \in DOMAIN session.chains
  BY <1>4, <1>6 DEF SessionOK, ChainsOK, SendingOK
<1>8. Drawn' = Drawn
  BY <1>2 DEF Drawn
<1> HIDE DEF session
<1>9. SessionOK(Drawn, p, q, after)
  BY <1>6, <1>7, EncryptedOK
<1>10. DOMAIN session = SessionFields /\ after.baseKey = current
  <2>1. DOMAIN session = SessionFields
    BY <1>4, <1>6 DEF RecordOK
  <2> QED  BY <1>6, <2>1, EncryptedKeepsHead DEF SameHead
<1> HIDE DEF after, record, stored
<1>11. RecordWith(Drawn, record, after, stored)
  BY <1>6, <1>9, UpdatedIs DEF SessionOK, stored
<1>12. Becomes(p, q, current, after)
  BY <1>2, <1>3, <1>8, <1>10, <1>11, StoredBecomes DEF record
<1>13. SessionsTyped'
  BY <1>3, <1>8, <1>9, <1>12, BecomesTyped
<1>14. RecordsTyped'
  BY <1>2, <1>3, <1>8, <1>11, StoredTyped DEF RecordWith
<1>15. MessagesTyped'
  <2>1. Identity(p) \in Drawn /\ Identity(p) \in KeysOf(p) /\ install[p] \in Nat
    BY <1>3, InstalledKeys
  <2>2. IsFiniteSet(network) /\ delivered \subseteq network
    BY <1>3 DEF MessagesTyped
  <2>3. MessageOK(Drawn, message)
    BY <1>6, <1>7, <2>1, <2>2, MessageFromIs
  <2> HIDE DEF message
  <2>4. IsFiniteSet(network \cup {message})
    BY <2>2, FS_AddElement
  <2> QED  BY <1>2, <1>3, <1>8, <2>2, <2>3, <2>4 DEF MessagesTyped
<1>16. TablesTyped'
  BY <1>2, <1>3, <1>8 DEF TablesTyped
<1>17. Sends(p, q, current)
  BY <1>2, <1>4, <1>5, <1>12 DEF Sends, after, message
<1> QED  BY <1>13, <1>14, <1>15, <1>16, <1>17 DEF TypesStay

\* A session p tries a message of q with: a sound one, or the one of its header.
Ready(p, q, s) == /\ Turnable(Drawn, p, q, s)
                  /\ DOMAIN s.chains # {} => SessionOK(Drawn, p, q, s)

\* What a decryption leaves is sound, over the keys there are then.
LEMMA DecryptedTyped ==
  ASSUME TablesTyped, NEW p \in Parties, NEW s, NEW m, MessageOK(Drawn, m), m.to = p,
         Ready(p, m.from, s),
         fresh' = [fresh EXCEPT ![p] = DrawnAfter(p, s, m)], UNCHANGED install
  PROVE  /\ SessionOK(Drawn', p, m.from, Decrypted(s, m, NextKey(p)))
         /\ fresh' \in [Parties -> Nat]
         /\ Drawn \subseteq Drawn'
         /\ None \notin Drawn'
<1> DEFINE q == m.from
           key == m.ephemeralKey
           keyPair == NextKey(p)
           after == Decrypted(s, m, keyPair)
           u == Stepped(s, m, keyPair)
<1>1. /\ q # p
      /\ key \in SessionKeys(q)
      /\ key \in Drawn
      /\ m.counter \in Nat
      /\ m.previousCounter \in Int
  BY DEF MessageOK, MessageOver
<1>2. fresh[p] \in Nat
  BY DEF TablesTyped
<1>3. /\ keyPair = SessionKey(p, fresh[p] + 1)
      /\ keyPair \in SessionKeys(p)
      /\ keyPair \notin Drawn
  <2>1. fresh[p] + 1 \in Nat /\ ~(fresh[p] + 1 <= fresh[p])
    BY <1>2
  <2>2. SessionKey(p, fresh[p] + 1) \notin Drawn
    BY <2>1, InstalledKeys
  <2> QED  BY <2>1, <2>2 DEF NextKey, SessionKeys
<1>4. CASE key \in DOMAIN s.chains
  <2>1. fresh' = [fresh EXCEPT ![p] = @ + 0]
    <3>1. fresh' = [fresh EXCEPT ![p] = fresh[p]]
      BY <1>4 DEF DrawnAfter
    <3>2. fresh[p] + 0 = fresh[p]
      BY <1>2
    <3> QED  BY <3>1, <3>2
  <2>2. fresh' \in [Parties -> Nat] /\ Drawn \subseteq Drawn' /\ None \notin Drawn'
    BY <2>1, MoreDrawn
  <2>3. u = s
    BY <1>4 DEF Stepped, MaybeStepRatchet
  <2>4. SessionOK(Drawn, p, q, s)
    BY <1>4 DEF Ready
  <2>5. key # s.ephemeralKeyPair
    BY <1>1, <2>4, KeysApart, SessionKeysDistinct DEF SessionOK, KeysOK
  <2>6. SessionOK(Drawn, p, q, after)
    BY <1>1, <1>4, <2>3, <2>4, <2>5, DecryptedOK
  <2> HIDE DEF after
  <2>7. SessionOK(Drawn', p, q, after)
    BY <2>2, <2>6, SessionOKMore
  <2> QED  BY <2>2, <2>7 DEF after
<1>5. CASE key \notin DOMAIN s.chains
  <2>1. fresh' = [fresh EXCEPT ![p] = @ + 1]
    BY <1>5 DEF DrawnAfter
  <2>2. /\ fresh' \in [Parties -> Nat]
        /\ Drawn \subseteq Drawn'
        /\ None \notin Drawn'
        /\ \A i \in 1..1 : SessionKey(p, fresh[p] + i) \in Drawn' \ Drawn
    BY <2>1, MoreDrawn
  <2>3. keyPair \in Drawn'
    BY <1>3, <2>2
  <2> DEFINE K == Drawn \cup {keyPair}
  <2>4. K \subseteq Drawn'
    BY <2>2, <2>3
  <2>5. Turnable(Drawn, p, q, s) /\ SessionOver(Drawn, s)
    BY DEF Ready, Turnable
  <2>6. u = MaybeStepRatchet(s, key, m.previousCounter, keyPair)
    BY DEF Stepped
  <2>7. SessionOK(K, p, q, u)
    BY <1>1, <1>3, <1>5, <2>5, <2>6, TurnedOK
  <2>8. key # s.ephemeralKeyPair /\ s.lastRemoteEphemeralKey # s.ephemeralKeyPair
    BY <1>1, <2>5, KeysApart, SessionKeysDistinct DEF Turnable
  <2>9. Turned(s, key, m.previousCounter, keyPair, u)
    BY <1>1, <1>3, <1>5, <2>5, <2>6, <2>8, MaybeStepRatchetIs
  <2> HIDE DEF u, K
  <2>10. key \in DOMAIN u.chains /\ u.ephemeralKeyPair = keyPair /\ key # keyPair
    BY <1>1, <1>3, <2>9 DEF Turned
  <2>11. SessionOK(K, p, q, after)
    BY <1>1, <2>7, <2>10, DecryptedOK DEF u
  <2> HIDE DEF after
  <2>12. SessionOK(Drawn', p, q, after)
    BY <2>4, <2>11, SessionOKMore
  <2> QED  BY <2>2, <2>12 DEF after
<1> QED  BY <1>4, <1>5

\* A decryption in a stored session reads from it and keeps the others.
LEMMA DecryptInStoredSessionSteps ==
  ASSUME TypeInv, NEW p \in Parties, NEW m \in network, m.to = p,
         records[p][m.from] # None,
         NEW k \in DOMAIN records[p][m.from].sessions,
         Accepts(p, records[p][m.from], records[p][m.from].sessions[k], m),
         StoreDecrypted(p, records[p][m.from], records[p][m.from].sessions[k], m),
         UNCHANGED <<trusted, preKeys, leftover>>
  PROVE  Reads(p, k, m) /\ TypesStay
<1> DEFINE q == m.from
           record == records[p][q]
           session == record.sessions[k]
           after == Decrypted(session, m, NextKey(p))
           stored == UpdateSessionState(record, after, None)
<1>1. /\ records' = [records EXCEPT ![p][q] = stored]
      /\ fresh' = [fresh EXCEPT ![p] = DrawnAfter(p, session, m)]
      /\ delivered' = delivered \cup {m}
      /\ UNCHANGED <<install, trusted, preKeys, signedPreKeys, published,
                     unissued, network, leftover>>
  BY DEF StoreDecrypted, server
<1>2. /\ StorageInv /\ TablesTyped /\ RecordsTyped /\ SessionsTyped /\ MessagesTyped
      /\ TablesOK
  BY DEF TypeInv, StorageInv
<1>3. /\ MessageOK(Drawn, m)
      /\ q \in Parties
      /\ q # p
      /\ delivered \subseteq network
  BY <1>2 DEF MessagesTyped, MessageOK, MessageOver
<1>4. /\ BaseOf(p, q, record)
      /\ RecordOK(record)
      /\ RecordOver(Drawn, record)
      /\ Has(p, q, k)
      /\ session = At(p, q, k)
      /\ SessionOK(Drawn, p, q, session)
      /\ session.baseKey = k
  BY SMTT(30), <1>3, StoredBase DEF BaseOf
<1>5. SessionDecrypts(p, session, m)
  BY DEF Accepts
<1>6. DOMAIN session = SessionFields
  BY <1>4 DEF RecordOK
<1> HIDE DEF session
<1>7. Ready(p, q, session)
  BY <1>4, SessionOKIsTurnable DEF Ready
<1>8. after.baseKey = k
  BY <1>4, <1>6, DecryptedKeepsHead DEF SameHead
<1>9. /\ SessionOK(Drawn', p, q, after)
      /\ fresh' \in [Parties -> Nat]
      /\ Drawn \subseteq Drawn'
      /\ None \notin Drawn'
  BY <1>1, <1>2, <1>3, <1>7, DecryptedTyped
<1> HIDE DEF after, record, stored
<1>10. RecordOver(Drawn', record)
  BY <1>4, <1>9, RecordOverMore
<1>11. RecordWith(Drawn', record, after, stored)
  BY <1>9, <1>10, UpdatedIs DEF SessionOK, stored
<1>12. Becomes(p, q, k, after)
  BY <1>1, <1>2, <1>3, <1>8, <1>11, StoredBecomes DEF record
<1>13. SessionsTyped'
  BY <1>2, <1>9, <1>12, BecomesTyped
<1>14. RecordsTyped'
  BY <1>1, <1>2, <1>3, <1>9, <1>11, StoredTyped DEF RecordWith
<1>15. MessagesTyped'
  BY <1>1, <1>2, <1>3, <1>9, MessagesStayTyped
<1>16. TablesTyped'
  <2>1. trusted' \in [Parties -> [Parties -> Drawn' \cup {None}]]
    BY <1>1, <1>2, <1>9 DEF TablesTyped
  <2> QED  BY <1>1, <1>2, <1>9, <2>1 DEF TablesTyped
<1>17. Reads(p, k, m)
  BY <1>1, <1>4, <1>5, <1>12 DEF Reads, after
<1> QED  BY <1>13, <1>14, <1>15, <1>16, <1>17 DEF TypesStay

\* decryptWhisperMessage is such a decryption ...
LEMMA DecryptWhisperMessageSteps ==
  ASSUME TypeInv, NEW p \in Parties, NEW m \in network, DecryptWhisperMessage(p, m)
  PROVE  (\E k : Reads(p, k, m)) /\ TypesStay
<1>1. PICK k \in DOMAIN records[p][m.from].sessions :
        /\ CanDecryptWhisper(p, m, k)
        /\ StoreDecrypted(p, records[p][m.from], records[p][m.from].sessions[k], m)
  BY DEF DecryptWhisperMessage, Decrypting
<1>2. Accepts(p, records[p][m.from], records[p][m.from].sessions[k], m)
  BY <1>1 DEF CanDecryptWhisper
<1>3. records[p][m.from] # None /\ m.to = p /\ UNCHANGED <<trusted, preKeys,
                                                           leftover>>
  BY DEF DecryptWhisperMessage, WhisperMessageArrives
<1> QED  BY <1>1, <1>2, <1>3, DecryptInStoredSessionSteps

\* ... and so is the first case of decryptPreKeyWhisperMessage.
LEMMA DecryptInKnownSessionSteps ==
  ASSUME TypeInv, NEW p \in Parties, NEW m \in network, DecryptInKnownSession(p, m)
  PROVE  (\E k : Reads(p, k, m)) /\ TypesStay
<1> DEFINE record == WorkingRecord(p, m)
           key == m.header.baseKey
<1>1. /\ key \in DOMAIN record.sessions
      /\ Accepts(p, record, record.sessions[key], m)
      /\ StoreDecrypted(p, record, record.sessions[key], m)
      /\ UNCHANGED <<trusted, preKeys, leftover>>
      /\ m.to = p
  BY DEF DecryptInKnownSession, CanDecryptInKnownSession, IsDuplicate,
         HasSessionByBaseKey, PreKeyMessageArrives
<1>2. records[p][m.from] # None /\ record = records[p][m.from]
  BY <1>1, WorkingRecordOK DEF TypeInv
<1> HIDE DEF record, key
<1> QED  BY <1>1, <1>2, DecryptInStoredSessionSteps

\* The record decryptPreKeyWhisperMessage works on.
LEMMA WorkingBase ==
  ASSUME TypeInv, NEW p \in Parties, NEW m \in network, m.header # None
  PROVE  BaseOf(p, m.from, WorkingRecord(p, m))
<1> DEFINE working == WorkingRecord(p, m)
<1>1. m.from \in Parties /\ m.header \in HeaderOver(Drawn)
  BY DEF TypeInv, MessagesTyped, MessageOK, MessageOver
<1>2. CASE records[p][m.from] = None
  <2>1. working = NewRecord(m.header.identityKey, m.header.registrationId)
    BY <1>2 DEF WorkingRecord
  <2>2. DOMAIN working.sessions = {}
    BY <2>1 DEF NewRecord, EmptyMap
  <2>3. m.header.identityKey \in Drawn /\ m.header.registrationId \in Nat
    BY <1>1 DEF HeaderOver
  <2> QED  BY <1>2, <2>1, <2>2, <2>3, NewRecordOK, NewRecordOver DEF BaseOf
<1>3. CASE records[p][m.from] # None
  BY <1>1, <1>3, StoredBase DEF WorkingRecord
<1> QED  BY <1>2, <1>3

\* The session processV3 makes from a header.
PreKeyFor(p, header) == IF header.preKeyId \in preKeys[p]
                          THEN PreKey(p, install[p], header.preKeyId) ELSE None

\* The session of a header: its root key and keys, and that a message can be
\* tried in it.
LEMMA HeaderSessionReady ==
  ASSUME TypeInv, NEW p \in Parties, NEW m \in network, m.to = p, m.header # None,
         m.header.signedPreKeyId \in signedPreKeys[p]
  PROVE  LET header == m.header
             signedPreKey == SignedPreKey(p, install[p], header.signedPreKeyId)
             session == HeaderSession(p, header)
         IN  /\ SessionOver(Drawn, session)
             /\ Answering(session, Identity(p), PreKeyFor(p, header), signedPreKey,
                          header.identityKey, header.baseKey)
             /\ Ready(p, m.from, session)
             /\ PreKeyFor(p, header) \in Drawn \cup {None}
             /\ None \notin Drawn
<1> DEFINE q == m.from
           header == m.header
           baseKey == header.baseKey
           session == HeaderSession(p, header)
           preKey == PreKeyFor(p, header)
           signedPreKey == SignedPreKey(p, install[p], header.signedPreKeyId)
<1>1. /\ MessageOK(Drawn, m)
      /\ q \in Parties
      /\ header \in HeaderOver(Drawn)
      /\ baseKey \in SessionKeys(q)
  BY DEF TypeInv, MessagesTyped, MessageOK, MessageOver
<1>2. /\ header.identityKey \in Drawn
      /\ baseKey \in Drawn
      /\ baseKey \in KeysOf(q)
  BY <1>1, SessionKeysDistinct DEF HeaderOver
<1>3. /\ Identity(p) \in Drawn
      /\ preKey \in Drawn \cup {None}
      /\ signedPreKey \in Drawn
      /\ signedPreKey \in KeysOf(p)
      /\ None \notin Drawn
  <2>1. TablesTyped
    BY DEF TypeInv
  <2>2. header.preKeyId \in preKeys[p] => header.preKeyId \in PreKeyIds
    BY <2>1 DEF TablesTyped
  <2>3. header.signedPreKeyId \in SignedPreKeyIds
    BY <2>1 DEF TablesTyped
  <2> QED  BY <2>1, <2>2, <2>3, InstalledKeys DEF PreKeyFor
<1>4. session = ResponderSession(Identity(p), preKey, signedPreKey,
                                 header.identityKey, baseKey)
  BY DEF HeaderSession, PreKeyFor
<1> HIDE DEF preKey, signedPreKey, session
<1>5. /\ SessionOver(Drawn, session)
      /\ Answering(session, Identity(p), preKey, signedPreKey, header.identityKey, baseKey)
  BY <1>2, <1>3, <1>4, ResponderSessionIs
<1>6. Ready(p, q, session)
  <2>1. Turnable(Drawn, p, q, session)
    BY <1>2, <1>3, <1>5, AnsweringIsTurnable
  <2>2. DOMAIN session.chains = {}
    BY <1>5 DEF Answering
  <2> QED  BY <2>1, <2>2 DEF Ready
<1> QED  BY <1>3, <1>5, <1>6 DEF preKey, signedPreKey, session

\* Its second case makes a session and uses up a one-time prekey, or leaves it.
LEMMA NewSessionSteps ==
  ASSUME TypeInv, NEW p \in Parties, NEW m \in network,
         DecryptInNewSession(p, m) \/ DecryptLeavingPreKey(p, m)
  PROVE  Receives(p, m) /\ TypesStay
<1> DEFINE q == m.from
           header == m.header
           baseKey == header.baseKey
           working == WorkingRecord(p, m)
           session == HeaderSession(p, header)
           record == RecordAfterV3(p, m)
           after == Decrypted(session, m, NextKey(p))
           stored == UpdateSessionState(record, after, None)
<1>1. /\ NewSessionArrives(p, m)
      /\ SessionDecrypts(p, session, m)
      /\ records' = [records EXCEPT ![p][q] = stored]
      /\ fresh' = [fresh EXCEPT ![p] = DrawnAfter(p, session, m)]
      /\ delivered' = delivered \cup {m}
      /\ trusted' = [trusted EXCEPT ![p][q] = header.identityKey]
      /\ UsesPreKey(p, header.preKeyId)
      /\ leftover' \subseteq leftover \cup {PreKey(p, install[p], header.preKeyId)}
      /\ UNCHANGED <<install, signedPreKeys, published, unissued, network>>
  <2>1. StoreNewSession(p, m)
    BY DEF DecryptInNewSession, DecryptLeavingPreKey
  <2>2. /\ UsesPreKey(p, header.preKeyId)
        /\ leftover' \subseteq leftover \cup {PreKey(p, install[p], header.preKeyId)}
    BY DEF DecryptInNewSession, DecryptLeavingPreKey, UsesPreKey
  <2> QED  BY <2>1, <2>2 DEF StoreNewSession, CanDecryptInNewSession, Accepts,
                             StoreDecrypted, server
<1>2. /\ StorageInv /\ TablesTyped /\ RecordsTyped /\ SessionsTyped /\ MessagesTyped
      /\ TablesOK
  BY DEF TypeInv, StorageInv
<1>3. /\ m.to = p
      /\ header # None
      /\ ~IsDuplicate(working, header)
      /\ header.signedPreKeyId \in signedPreKeys[p]
  BY <1>1 DEF NewSessionArrives, PreKeyMessageArrives
<1>4. /\ MessageOK(Drawn, m)
      /\ q \in Parties
      /\ q # p
      /\ delivered \subseteq network
      /\ header \in HeaderOver(Drawn)
      /\ baseKey \in SessionKeys(q)
      /\ m.ephemeralKey \in SessionKeys(q)
  BY <1>2, <1>3 DEF MessagesTyped, MessageOK, MessageOver
<1>5. /\ header.identityKey \in Drawn
      /\ baseKey \in Drawn
      /\ baseKey \in KeysOf(q)
      /\ header.registrationId \in Nat
      /\ header.preKeyId \in Nat
  BY <1>4, SessionKeysDistinct DEF HeaderOver
<1>6. BaseOf(p, q, working)
  BY <1>3, WorkingBase
<1>7. Has(p, q, baseKey) => At(p, q, baseKey).baseKeyType = "OURS"
  BY <1>3, <1>6 DEF BaseOf, Has, At, IsDuplicate, HasSessionByBaseKey
<1>8. /\ SessionOver(Drawn, session)
      /\ Ready(p, q, session)
      /\ Answering(session, Identity(p), PreKeyFor(p, header),
                   SignedPreKey(p, install[p], header.signedPreKeyId),
                   header.identityKey, header.baseKey)
  BY <1>3, HeaderSessionReady
<1> HIDE DEF session
<1>9. session.baseKey = baseKey /\ DOMAIN session = SessionFields
  BY <1>8 DEF Answering
<1>10. /\ SessionOK(Drawn', p, q, after)
       /\ fresh' \in [Parties -> Nat]
       /\ Drawn \subseteq Drawn'
       /\ None \notin Drawn'
  BY <1>1, <1>2, <1>3, <1>4, <1>8, DecryptedTyped
<1>11. after.baseKey = baseKey
  BY <1>9, DecryptedKeepsHead DEF SameHead
<1>12. record = UpdateSessionState(ArchiveCurrentState(working), session,
                                   header.registrationId)
  BY DEF RecordAfterV3, RecordWithNewSession, session
<1> HIDE DEF after, record, stored, working
<1>13. RecordWith(Drawn', working, after, stored)
  <2>1. RecordOver(Drawn', working) /\ SessionOver(Drawn', session)
    BY <1>6, <1>8, <1>10, RecordOverMore, SessionOverMore DEF BaseOf
  <2>2. RecordWith(Drawn', working, session, record)
    BY <1>5, <1>6, <1>12, <2>1, AddedIs DEF BaseOf
  <2>3. RecordWith(Drawn', record, after, stored)
    BY <1>10, <2>2, UpdatedIs DEF SessionOK, RecordWith, stored
  <2> QED  BY <1>9, <1>11, <2>2, <2>3, RecordWithAgain
<1>14. Becomes(p, q, baseKey, after)
  BY <1>1, <1>2, <1>4, <1>6, <1>11, <1>13, StoredBecomes DEF BaseOf
<1>15. SessionsTyped'
  BY <1>2, <1>10, <1>14, BecomesTyped
<1>16. RecordsTyped'
  BY <1>1, <1>2, <1>4, <1>10, <1>13, StoredTyped DEF RecordWith
<1>17. MessagesTyped'
  BY <1>1, <1>2, <1>4, <1>10, MessagesStayTyped
<1>18. TablesTyped'
  <2>1. trusted' \in [Parties -> [Parties -> Drawn' \cup {None}]]
    <3>1. trusted \in [Parties -> [Parties -> Drawn' \cup {None}]]
      BY <1>2, <1>10 DEF TablesTyped
    <3>2. header.identityKey \in Drawn'
      BY <1>5, <1>10
    <3> HIDE DEF header
    <3> QED  BY <1>1, <1>4, <3>1, <3>2
  <2>2. preKeys' \in [Parties -> SUBSET PreKeyIds]
    BY <1>1, <1>2 DEF TablesTyped, UsesPreKey
  <2>3. leftover' \subseteq Key
    <3>1. install[p] \in Nat /\ leftover \subseteq Key
      BY <1>2 DEF TablesTyped
    <3>2. PreKey(p, install[p], header.preKeyId) \in Key
      BY <1>5, <3>1 DEF PreKey, Key
    <3> QED  BY <1>1, <3>1, <3>2
  <2> QED  BY <1>1, <1>2, <1>10, <2>1, <2>2, <2>3 DEF TablesTyped
<1>19. Receives(p, m)
  BY <1>1, <1>3, <1>7, <1>14 DEF Receives, after, session
<1> QED  BY <1>15, <1>16, <1>17, <1>18, <1>19 DEF TypesStay

\* The other operations make no session: they keep some, pruned.
LEMMA NothingPruned ==
  ASSUME TypeInv,
         UNCHANGED <<install, preKeys, records, fresh, network, delivered>>
  PROVE  Prunes
  BY DEF Prunes, AllKept, Kept, Has, At

\* The sessions and messages after a step that only takes things away.
LEMMA SessionsPruned ==
  ASSUME TypeInv, Prunes, Drawn \subseteq Drawn'
  PROVE  SessionsTyped' /\ MessagesTyped'
<1>1. SessionsTyped'
  BY AllKeptTyped DEF TypeInv, Prunes
<1>2. MessagesTyped'
  BY MessagesStayTyped DEF TypeInv, Prunes, MessagesTyped
<1> QED  BY <1>1, <1>2

\* The other operations take sessions or chains away: a message that is not
\* read ...
LEMMA RejectNewSessionSteps ==
  ASSUME TypeInv, NEW p \in Parties, NEW m \in network, RejectNewSession(p, m)
  PROVE  Prunes /\ TypesStay
<1>1. /\ trusted' = [trusted EXCEPT ![p][m.from] = m.header.identityKey]
      /\ m.header # None
      /\ UNCHANGED <<install, preKeys, signedPreKeys, records, published, unissued,
                     fresh, network, delivered, leftover>>
  BY DEF RejectNewSession, NewSessionArrives, PreKeyMessageArrives, server
<1>2. Drawn' = Drawn
  BY <1>1 DEF Drawn
<1>3. Prunes
  BY <1>1, NothingPruned
<1>4. m.header.identityKey \in Drawn
  BY <1>1 DEF TypeInv, MessagesTyped, MessageOK, MessageOver, HeaderOver
<1>5. TablesTyped'
  BY <1>1, <1>2, <1>4 DEF TypeInv, TablesTyped
<1>6. RecordsTyped'
  BY <1>1, <1>2 DEF TypeInv, RecordsTyped
<1> QED  BY <1>2, <1>3, <1>5, <1>6, SessionsPruned DEF TypesStay

\* ... a session that is closed ...
LEMMA CloseOpenSessionSteps ==
  ASSUME TypeInv, NEW p \in Parties, NEW q \in Parties \ {p}, CloseOpenSession(p, q)
  PROVE  Prunes /\ TypesStay
<1> DEFINE record == records[p][q]
           archived == ArchiveCurrentState(record)
<1>1. /\ record # None
      /\ UNCHANGED <<install, trusted, preKeys, signedPreKeys, published, unissued,
                     fresh, network, delivered, leftover>>
  BY DEF CloseOpenSession, server
<1>2. /\ StorageInv /\ TablesTyped /\ RecordsTyped /\ TablesOK
  BY DEF TypeInv, StorageInv
<1>3. records' = [records EXCEPT ![p][q] = archived]
  BY <1>2 DEF CloseOpenSession, TablesOK
<1>4. Drawn' = Drawn
  BY <1>1 DEF Drawn
<1>5. RecordOK(record) /\ RecordOver(Drawn, record)
  BY <1>1, StoredBase DEF BaseOf
<1> HIDE DEF record, archived
<1>6. RecordWithout(Drawn, record, archived)
  BY <1>5, ArchivedIs DEF archived
<1>7. AllKept
  <2> SUFFICES ASSUME NEW a \in Parties, NEW b \in Parties, NEW k, Has(a, b, k)'
               PROVE  Has(a, b, k) /\ Kept(Drawn, At(a, b, k), At(a, b, k)')
    BY <1>4 DEF AllKept
  <2>1. CASE a = p /\ b = q
    <3>1. records'[a][b] = archived
      BY <1>2, <1>3, <2>1 DEF TablesOK
    <3> QED  BY <1>1, <1>6, <2>1, <3>1 DEF RecordWithout, Has, At, record
  <2>2. CASE ~(a = p /\ b = q)
    <3>1. records'[a][b] = records[a][b]
      BY <1>2, <1>3, <2>2 DEF TablesOK
    <3> QED  BY <3>1 DEF Has, At, Kept
  <2> QED  BY <2>1, <2>2
<1>8. Prunes
  BY <1>1, <1>7 DEF Prunes
<1>9. RecordsTyped'
  BY <1>2, <1>3, <1>4, <1>6, StoredTyped DEF RecordWithout
<1>10. TablesTyped'
  BY <1>1, <1>2, <1>4 DEF TablesTyped
<1> QED  BY <1>4, <1>8, <1>9, <1>10, SessionsPruned DEF TypesStay

\* ... a new signed prekey ...
LEMMA RotateSignedPreKeySteps ==
  ASSUME TypeInv, NEW p \in Parties, RotateSignedPreKey(p)
  PROVE  Prunes /\ TypesStay
<1>1. /\ published[p] + 1 \in SignedPreKeyIds
      /\ published' = [published EXCEPT ![p] = @ + 1]
      /\ UNCHANGED <<install, trusted, preKeys, records, unissued, fresh, network,
                     delivered, leftover>>
  BY DEF RotateSignedPreKey
<1>2. PICK kept \in SUBSET signedPreKeys[p] :
        signedPreKeys' = [signedPreKeys EXCEPT ![p] = kept \cup {published[p] + 1}]
  BY DEF RotateSignedPreKey
<1>3. Drawn' = Drawn
  BY <1>1 DEF Drawn
<1>4. Prunes
  BY <1>1, NothingPruned
<1>5. TablesTyped'
  BY <1>1, <1>2, <1>3 DEF TypeInv, TablesTyped
<1>6. RecordsTyped'
  BY <1>1, <1>3 DEF TypeInv, RecordsTyped
<1> QED  BY <1>3, <1>4, <1>5, <1>6, SessionsPruned DEF TypesStay

\* ... a new installation ...
LEMMA ReinstallSteps ==
  ASSUME TypeInv, NEW p \in Parties, Reinstall(p)
  PROVE  Prunes /\ TypesStay
<1>1. /\ install' = [install EXCEPT ![p] = @ + 1]
      /\ trusted' = [trusted EXCEPT ![p] = [q \in Parties |-> None]]
      /\ preKeys' = [preKeys EXCEPT ![p] = PreKeyIds]
      /\ signedPreKeys' = [signedPreKeys EXCEPT ![p] = {1}]
      /\ records' = [records EXCEPT ![p] = [q \in Parties |-> None]]
      /\ published' = [published EXCEPT ![p] = 1]
      /\ unissued' = [unissued EXCEPT ![p] = PreKeyIds]
      /\ UNCHANGED <<fresh, network, delivered, leftover>>
  BY DEF Reinstall
<1>2. /\ TablesTyped /\ RecordsTyped /\ TablesOK
      /\ install \in [Parties -> Nat]
      /\ fresh \in [Parties -> Nat]
  BY DEF TypeInv, StorageInv, TablesTyped
<1>3. install' \in [Parties -> Nat]
  BY <1>1, <1>2
<1>4. Drawn \subseteq Drawn'
  <2> DEFINE installed == install'
  <2>1. installed \in [Parties -> Nat]
    BY <1>3
  <2>2. \A q \in Parties : fresh[q] <= fresh[q] /\ install[q] <= installed[q]
    BY <1>1, <1>2
  <2> HIDE DEF installed
  <2>3. KeysMade(fresh, install) \subseteq KeysMade(fresh, installed)
    BY <1>2, <2>1, <2>2, KeysMadeGrows
  <2> QED  BY <1>1, <2>3 DEF installed, Drawn
<1>5. \A a, b \in Parties : records'[a][b] = IF a = p THEN None ELSE records[a][b]
  BY <1>1, <1>2 DEF TablesOK
<1>6. Prunes
  <2>1. AllKept
    BY <1>5 DEF AllKept, Kept, Has, At
  <2>2. \A q \in Parties : \A k : ~Has(p, q, k)'
    BY <1>5 DEF Has
  <2>3. \A a \in Parties \ {p} : install'[a] = install[a] /\ preKeys'[a] = preKeys[a]
    BY <1>1, <1>2 DEF TablesTyped
  <2>4. install'[p] = install[p] + 1
    BY <1>1, <1>2
  <2> QED  BY <1>1, <2>1, <2>2, <2>3, <2>4 DEF Prunes
<1>7. TablesTyped'
  <2>1. trusted' \in [Parties -> [Parties -> Drawn' \cup {None}]]
    BY <1>1, <1>2, <1>4 DEF TablesTyped
  <2>2. /\ preKeys' \in [Parties -> SUBSET PreKeyIds]
        /\ signedPreKeys' \in [Parties -> SUBSET SignedPreKeyIds]
        /\ published' \in [Parties -> SignedPreKeyIds]
        /\ unissued' \in [Parties -> SUBSET PreKeyIds]
    BY <1>1, <1>2, PartyAssumption DEF TablesTyped
  <2> QED  BY <1>1, <1>2, <1>3, <2>1, <2>2 DEF TablesTyped
<1>8. RecordsTyped'
  BY <1>2, <1>4, <1>5, RecordOverMore DEF RecordsTyped
<1> QED  BY <1>4, <1>6, <1>7, <1>8, SessionsPruned DEF TypesStay

\* ... and a new identity.
LEMMA AcceptIdentitySteps ==
  ASSUME TypeInv, NEW p \in Parties, NEW q \in Parties \ {p}, AcceptIdentity(p, q)
  PROVE  Prunes /\ TypesStay
<1>1. PICK record \in {records[p][q], None} :
        records' = [records EXCEPT ![p][q] = record]
  BY DEF AcceptIdentity
<1>2. /\ trusted' = [trusted EXCEPT ![p][q] = Identity(q)]
      /\ UNCHANGED <<install, preKeys, signedPreKeys, published, unissued, fresh,
                     network, delivered, leftover>>
  BY DEF AcceptIdentity, server
<1>3. TablesTyped /\ RecordsTyped /\ TablesOK
  BY DEF TypeInv, StorageInv
<1>4. Drawn' = Drawn
  BY <1>2 DEF Drawn
<1>5. \A a, b \in Parties : records'[a][b] = None \/ records'[a][b] = records[a][b]
  BY <1>1, <1>3 DEF TablesOK
<1>6. Prunes
  BY <1>2, <1>5 DEF Prunes, AllKept, Kept, Has, At
<1>7. TablesTyped'
  <2>1. Identity(q) \in Drawn
    BY <1>3, InstalledKeys
  <2> QED  BY <1>2, <1>3, <1>4, <2>1 DEF TablesTyped
<1>8. RecordsTyped'
  BY <1>3, <1>4, <1>5 DEF RecordsTyped
<1> QED  BY <1>4, <1>6, <1>7, <1>8, SessionsPruned DEF TypesStay

\* A prekey that was left behind is remembered.
LEMMA LeftoverGrows ==
  ASSUME [Next]_vars
  PROVE  leftover \subseteq leftover'
<1>1. ASSUME NEW p \in Parties, NEW m \in network, Decrypt(p, m) \/ RejectNewSession(p, m)
      PROVE  leftover \subseteq leftover'
  BY <1>1 DEF Decrypt, DecryptWhisperMessage, DecryptInKnownSession, DecryptInNewSession,
              DecryptLeavingPreKey, RejectNewSession
<1>2. ASSUME NEW p \in Parties, NEW q \in Parties \ {p},
             \/ BuildSession(p, q)
             \/ Encrypt(p, q)
             \/ CloseOpenSession(p, q)
             \/ AcceptIdentity(p, q)
      PROVE  leftover \subseteq leftover'
  BY <1>2 DEF BuildSession, Encrypt, CloseOpenSession, AcceptIdentity
<1>3. ASSUME NEW p \in Parties, RotateSignedPreKey(p) \/ Reinstall(p)
      PROVE  leftover \subseteq leftover'
  BY <1>3 DEF RotateSignedPreKey, Reinstall
<1> QED  BY <1>1, <1>2, <1>3 DEF Next, vars

\* So every step is one of those of Step, and keeps the types.
LEMMA NextSteps ==
  ASSUME TypeInv, [Next]_vars
  PROVE  Step /\ TypeInv'
<1>1. leftover \subseteq leftover'
  BY LeftoverGrows
<1>2. ASSUME UNCHANGED vars
      PROVE  Step /\ TypesStay
  <2>1. Prunes
    BY <1>2, NothingPruned DEF vars, storage
  <2>2. Drawn' = Drawn
    BY <1>2 DEF vars, storage, Drawn
  <2>3. TablesTyped' /\ RecordsTyped'
    BY <1>2, <2>2 DEF vars, storage, server, TypeInv, TablesTyped, RecordsTyped
  <2> QED  BY <1>1, <2>1, <2>2, <2>3, SessionsPruned DEF Step, TypesStay
<1>3. ASSUME NEW p \in Parties, NEW q \in Parties \ {p},
             \/ BuildSession(p, q)
             \/ Encrypt(p, q)
             \/ CloseOpenSession(p, q)
             \/ AcceptIdentity(p, q)
      PROVE  Step /\ TypesStay
  BY <1>1, <1>3, BuildSessionSteps, EncryptSteps, CloseOpenSessionSteps,
     AcceptIdentitySteps DEF Step
<1>4. ASSUME NEW p \in Parties, NEW m \in network,
             Decrypt(p, m) \/ RejectNewSession(p, m)
      PROVE  Step /\ TypesStay
  BY <1>1, <1>4, DecryptWhisperMessageSteps, DecryptInKnownSessionSteps,
     NewSessionSteps, RejectNewSessionSteps DEF Decrypt, Step
<1>5. ASSUME NEW p \in Parties, RotateSignedPreKey(p) \/ Reinstall(p)
      PROVE  Step /\ TypesStay
  BY <1>1, <1>5, RotateSignedPreKeySteps, ReinstallSteps DEF Step
<1>6. Step /\ TypesStay
  BY <1>2, <1>3, <1>4, <1>5 DEF Next
<1>7. StorageInv'
  BY NextStores, StorageStepKeepsInv DEF TypeInv
<1> QED  BY <1>6, <1>7 DEF TypeInv, TypesStay

-----------------------------------------------------------------------------
\* The types hold at first, and every step keeps them.
LEMMA InitTyped ==
  ASSUME Init
  PROVE  TypeInv
<1>1. TablesTyped
  BY PartyAssumption DEF Init, TablesTyped
<1>2. StorageInv
  BY DEF Init, StorageInv, TablesOK, SendersOK
<1>3. RecordsTyped /\ SessionsTyped
  BY DEF Init, RecordsTyped, SessionsTyped, Has
<1>4. MessagesTyped
  BY FS_EmptySet DEF Init, MessagesTyped
<1> QED  BY <1>1, <1>2, <1>3, <1>4 DEF TypeInv

\* Every session that is stored, and every message, is sound over the key
\* pairs made so far.
THEOREM TypeInvariant == Spec => []TypeInv
<1>1. Init => TypeInv
  BY InitTyped
<1>2. TypeInv /\ [Next]_vars => TypeInv'
  BY NextSteps
<1> QED  BY <1>1, <1>2, PTL DEF Spec

\* What is over keys that were made has its type: a session ...
LEMMA SessionOverTyped ==
  ASSUME NEW K \in SUBSET Key, NEW s, SessionOver(K, s)
  PROVE  IsSession(s)
<1>1. Seq(SUBSET K) \subseteq Secrets /\ Seq(K) \subseteq Seq(Key)
  BY SeqMonotonic DEF Secrets
<1>2. PendingOver(K) \subseteq PendingPreKey
  BY DEF PendingOver, PendingPreKey
<1>3. ChainOver(K) \subseteq Chain
  BY <1>1 DEF ChainOver, Chain, Counters, KeySets
<1>4. IsMap(s.chains, Chain)
  BY <1>3 DEF SessionOver, ChainsOver, IsMap
<1> QED  BY <1>1, <1>2, <1>4 DEF SessionOver, IsSession

\* ... a record ...
LEMMA RecordOverTyped ==
  ASSUME NEW K \in SUBSET Key, NEW r, RecordOver(K, r)
  PROVE  IsRecord(r)
  BY SessionOverTyped DEF RecordOver, IsRecord

\* ... and a message.
LEMMA MessageOverTyped ==
  ASSUME NEW K \in SUBSET Key, NEW m \in MessageOver(K)
  PROVE  m \in Message
<1>1. Seq(SUBSET K) \subseteq Secrets
  BY SeqMonotonic DEF Secrets
<1>2. HeaderOver(K) \subseteq MessageHeader
  BY DEF HeaderOver, MessageHeader
<1> QED  BY <1>1, <1>2 DEF MessageOver, Message

\* The state has its types in every reachable state: no field of a session, a
\* chain or a message is ever undefined where the code uses its value, and
\* none holds a value of another kind.
THEOREM SignalTypeOK == Spec => []TypeOK
<1>1. Drawn \subseteq Key
  BY DEF Drawn, KeysMade
<1>2. TypeInv => TypeOK
  <2> SUFFICES ASSUME TypeInv  PROVE TypeOK
    OBVIOUS
  <2>1. TablesTyped /\ TablesOK /\ RecordsTyped /\ MessagesTyped
    BY DEF TypeInv, StorageInv
  <2>2. trusted \in [Parties -> [Parties -> Key \cup {None}]]
    BY <1>1, <2>1 DEF TablesTyped
  <2>3. \A p, q \in Parties : records[p][q] # None => IsRecord(records[p][q])
    BY <1>1, <2>1, RecordOverTyped DEF RecordsTyped
  <2>4. network \subseteq Message
    BY <1>1, <2>1, MessageOverTyped DEF MessagesTyped, MessageOK
  <2> QED  BY <2>1, <2>2, <2>3, <2>4 DEF TablesTyped, TablesOK, MessagesTyped, TypeOK
<1> QED  BY <1>2, TypeInvariant, PTL

-----------------------------------------------------------------------------
\* A new session is put where none was: its key is new, or the peer's.
LEMMA NewKeyIsFree ==
  ASSUME TypeInv, NEW p \in Parties, NEW q \in Parties
  PROVE  ~Has(p, q, SessionKey(p, fresh[p] + 1))
<1>1. fresh[p] \in Nat /\ TablesTyped /\ RecordsTyped
  BY DEF TypeInv, TablesTyped
<1>2. fresh[p] + 1 \in Nat /\ ~(fresh[p] + 1 <= fresh[p])
  BY <1>1
<1>3. SessionKey(p, fresh[p] + 1) \notin Drawn
  BY <1>1, <1>2, InstalledKeys
<1> QED  BY <1>1, <1>3 DEF Has, RecordsTyped, RecordOver

\* The base key of a header is that of no stored session.
LEMMA HeaderKeyIsFree ==
  ASSUME TypeInv, NEW p \in Parties, NEW m \in network, Receives(p, m)
  PROVE  ~Has(p, m.from, m.header.baseKey)
<1> SUFFICES ASSUME Has(p, m.from, m.header.baseKey)
             PROVE  FALSE
  OBVIOUS
<1> DEFINE key == m.header.baseKey
           s == At(p, m.from, key)
<1>1. /\ MessageOK(Drawn, m)
      /\ m.to = p
      /\ m.header # None
      /\ s.baseKeyType = "OURS"
  BY DEF TypeInv, MessagesTyped, Receives
<1>2. m.from \in Parties /\ m.from # p /\ key \in SessionKeys(m.from)
  BY <1>1 DEF MessageOK, MessageOver
<1>3. SessionOK(Drawn, p, m.from, s) /\ s.baseKey = key
  BY <1>2, StoredBase DEF Has, At
<1>4. key \in SessionKeys(p)
  BY <1>1, <1>3 DEF SessionOK, KeysOK
<1> QED  BY <1>2, <1>4, KeysApart, SessionKeysDistinct

\* A session that is there before and after a step, and was closed, keeps the
\* time of its closing.
LEMMA StepKeepsClosed ==
  ASSUME TypeInv, Step, NEW a \in Parties, NEW b \in Parties, NEW k,
         Has(a, b, k), Has(a, b, k)', ~IsOpen(At(a, b, k))
  PROVE  At(a, b, k)'.closed = At(a, b, k).closed
<1> DEFINE s == At(a, b, k)
           t == At(a, b, k)'
<1>1. ASSUME Kept(Drawn', s, t)
      PROVE  t.closed = s.closed
  BY <1>1 DEF Kept, Slimmed, Thinned
<1>2. ASSUME NEW after, SameHead(s, after), Slimmed(Drawn', after, t)
      PROVE  t.closed = s.closed
  BY <1>2 DEF SameHead, Slimmed, Thinned, IsOpen
<1>3. DOMAIN s = SessionFields
  BY StoredBase DEF Has, At, SessionOK, SessionOver, SessionFields
<1> HIDE DEF s, t
<1>4. ASSUME Prunes
      PROVE  t.closed = s.closed
  BY <1>1, <1>4 DEF Prunes, AllKept, s, t
<1>5. ASSUME NEW p \in Parties, NEW q \in Parties \ {p}, Builds(p, q)
      PROVE  t.closed = s.closed
  <2>1. PICK j, after : j = SessionKey(p, fresh[p] + 1) /\ Becomes(p, q, j, after)
    BY <1>5 DEF Builds
  <2>2. <<a, b, k>> # <<p, q, j>>
    BY <2>1, NewKeyIsFree
  <2> QED  BY <1>1, <2>1, <2>2 DEF Becomes, KeptBut, s, t
<1>6. ASSUME NEW p \in Parties, NEW q \in Parties \ {p}, NEW j, Sends(p, q, j)
      PROVE  t.closed = s.closed
  <2>1. <<a, b, k>> # <<p, q, j>>
    BY <1>6 DEF Sends
  <2> QED  BY <1>1, <1>6, <2>1 DEF Sends, Becomes, KeptBut, s, t
<1>7. ASSUME NEW p \in Parties, NEW m \in network, Receives(p, m)
      PROVE  t.closed = s.closed
  <2>1. <<a, b, k>> # <<p, m.from, m.header.baseKey>>
    BY <1>7, HeaderKeyIsFree
  <2> QED  BY <1>1, <1>7, <2>1 DEF Receives, Becomes, KeptBut, s, t
<1>8. ASSUME NEW p \in Parties, NEW m \in network, NEW j, Reads(p, j, m)
      PROVE  t.closed = s.closed
  <2>1. Becomes(p, m.from, j, Decrypted(At(p, m.from, j), m, NextKey(p)))
    BY <1>8 DEF Reads
  <2>2. CASE <<a, b, k>> = <<p, m.from, j>>
    <3>1. SameHead(s, Decrypted(s, m, NextKey(p)))
      BY <1>3, DecryptedKeepsHead
    <3>2. Slimmed(Drawn', Decrypted(s, m, NextKey(p)), t)
      BY <2>1, <2>2 DEF Becomes, s, t
    <3> QED  BY <1>2, <3>1, <3>2
  <2>3. CASE <<a, b, k>> # <<p, m.from, j>>
    BY <1>1, <2>1, <2>3 DEF Becomes, KeptBut, s, t
  <2> QED  BY <2>2, <2>3
<1>9. t.closed = s.closed
  BY <1>4, <1>5, <1>6, <1>7, <1>8 DEF Step
<1> QED  BY <1>9 DEF s, t

\* A closed session keeps the time it was closed at for as long as it is
\* stored: no message of the peer, late, repeated or refused, re-opens it
\* (closeSession, updateSessionState, processV3).
THEOREM SignalClosedForever == Spec => ClosedForever
<1> DEFINE StayClosed ==
      \A p, q \in Parties :
        records[p][q] # None /\ records'[p][q] # None =>
          \A key \in DOMAIN records[p][q].sessions
                   \cap DOMAIN records'[p][q].sessions :
            ~IsOpen(records[p][q].sessions[key]) =>
              records'[p][q].sessions[key].closed
                = records[p][q].sessions[key].closed
<1>1. ASSUME TypeInv, [Next]_vars
      PROVE  StayClosed
  <2>1. Step
    BY <1>1, NextSteps
  <2> SUFFICES ASSUME NEW p \in Parties, NEW q \in Parties,
                      records[p][q] # None, records'[p][q] # None,
                      NEW key \in DOMAIN records[p][q].sessions
                                    \cap DOMAIN records'[p][q].sessions,
                      ~IsOpen(records[p][q].sessions[key])
               PROVE  records'[p][q].sessions[key].closed
                        = records[p][q].sessions[key].closed
    OBVIOUS
  <2>2. Has(p, q, key) /\ Has(p, q, key)' /\ ~IsOpen(At(p, q, key))
    BY DEF Has, At
  <2>3. At(p, q, key)'.closed = At(p, q, key).closed
    BY <1>1, <2>1, <2>2, StepKeepsClosed
  <2> QED  BY <2>3 DEF At
<1>2. TypeInv /\ [Next]_vars => [StayClosed]_vars
  BY <1>1
<1>3. Spec => [][StayClosed]_vars
  BY <1>2, TypeInvariant, PTL DEF Spec
<1> QED  BY <1>3 DEF ClosedForever

-----------------------------------------------------------------------------
\* An open session can encrypt: its sending chain is there and live, and has
\* no key left over, so that fillMessageKeys makes the next one; and its record
\* still has a registration id, so that updateSessionState does not throw.
THEOREM SignalOpenSessionCanSend == Spec => []OpenSessionCanSend
<1>1. TypeInv => OpenSessionCanSend
  <2> SUFFICES ASSUME TypeInv, NEW p \in Parties, NEW q \in Parties,
                      records[p][q] # None, NEW key \in OpenKeys(records[p][q])
               PROVE  /\ CanEncrypt(records[p][q].sessions[key])
                      /\ CanUpdateSessionState(records[p][q],
                           Encrypted(records[p][q].sessions[key]), None)
    BY DEF OpenSessionCanSend, Stored
  <2> DEFINE record == records[p][q]
             s == record.sessions[key]
             chain == s.chains[s.ephemeralKeyPair]
             filled == FillMessageKeys(chain, chain.counter + 1)
  <2>1. key \in DOMAIN record.sessions /\ IsOpen(s)
    BY DEF OpenKeys
  <2>2. SessionOK(Drawn, p, q, s) /\ StoredOK(record)
    BY <2>1, StoredBase DEF TypeInv, StorageInv
  <2> HIDE DEF s
  <2>3. /\ SessionOver(Drawn, s)
        /\ s.ephemeralKeyPair \in DOMAIN s.chains
        /\ SendingChain(s) = chain
        /\ chain.chainType = "SENDING"
        /\ chain.live
        /\ chain.messageKeys = {}
    BY <2>1, <2>2 DEF SessionOK, ChainsOK, SendingOK, SendingChain
  <2>4. chain \in ChainOver(Drawn)
    BY <2>3 DEF SessionOver, ChainsOver
  <2>5. chain.counter \in Int /\ chain.counter + 1 \in Int
    BY <2>4 DEF ChainOver, Counters
  <2>6. filled.counter = chain.counter + 1
    BY <2>3, EncryptedIs
  <2>7. filled.messageKeys = (chain.counter + 1)..filled.counter
    <3> DEFINE next == chain.counter + 1
               end == FillMessageKeys(chain, next)
    <3>1. chain \in ChainOver(Drawn) /\ next \in Int
      BY <2>4, <2>5
    <3> HIDE DEF chain, next
    <3>2. end.messageKeys = chain.messageKeys \cup (chain.counter + 1)..end.counter
      BY <3>1, FillMessageKeysIs
    <3> QED  BY <2>3, <3>2 DEF next
  <2>8. CanEncrypt(s)
    BY <2>3, <2>5, <2>6, <2>7 DEF CanEncrypt, CanFill
  <2>9. CanUpdateSessionState(record, Encrypted(s), None)
    <3>1. DOMAIN s = SessionFields
      BY <2>3 DEF SessionOver, SessionFields
    <3>2. Encrypted(s).remoteIdentityKey = s.remoteIdentityKey
      BY <3>1, EncryptedKeepsHead DEF SameHead
    <3>3. s.remoteIdentityKey = record.identityKey
      BY <2>1, <2>2 DEF s, StoredOK, RecordOK
    <3>4. record.registrationId # None
      BY <2>2 DEF StoredOK, HaveOpenSession
    <3> QED  BY <3>2, <3>3, <3>4 DEF CanUpdateSessionState
  <2> QED  BY <2>8, <2>9 DEF s
<1> QED  BY <1>1, TypeInvariant, PTL

-----------------------------------------------------------------------------
\* The limits.  The chains of a session hold no more keys than the limit.
SizesOK ==
  \A p, q \in Parties : records[p][q] # None =>
    Cardinality(DOMAIN records[p][q].sessions) <= MaxSessions
LimitsOK == \A p, q \in Parties : \A k : Has(p, q, k) => Limited(At(p, q, k))

\* Decrypting in a session that tries a message.
LEMMA ReadyFewKeys ==
  ASSUME TypeInv, NEW p \in Parties, NEW s, NEW m \in network, m.to = p,
         Ready(p, m.from, s), FewKeys(s)
  PROVE  FewKeys(Decrypted(s, m, NextKey(p)))
<1> DEFINE u == Stepped(s, m, NextKey(p))
           key == m.ephemeralKey
           keyPair == NextKey(p)
<1>1. /\ MessageOK(Drawn, m)
      /\ m.from # p
      /\ key \in SessionKeys(m.from)
      /\ key \in Drawn
      /\ m.counter \in Int
      /\ m.previousCounter \in Int
      /\ SessionOver(Drawn, s)
  BY DEF TypeInv, MessagesTyped, MessageOK, MessageOver, Ready, Turnable
<1>2. CASE key \in DOMAIN s.chains
  <2>1. u = s
    BY <1>2 DEF Stepped, MaybeStepRatchet
  <2> QED  BY <1>1, <1>2, <2>1, DecryptedFewKeys
<1>3. CASE key \notin DOMAIN s.chains
  <2>1. keyPair \notin Drawn
    <3>1. fresh[p] \in Nat /\ TablesTyped
      BY DEF TypeInv, TablesTyped
    <3>2. fresh[p] + 1 \in Nat /\ ~(fresh[p] + 1 <= fresh[p])
      BY <3>1
    <3> QED  BY <3>1, <3>2, InstalledKeys DEF NextKey
  <2>2. key # s.ephemeralKeyPair /\ s.lastRemoteEphemeralKey # s.ephemeralKeyPair
    BY <1>1, KeysApart, SessionKeysDistinct DEF Ready, Turnable
  <2>3. u = MaybeStepRatchet(s, key, m.previousCounter, keyPair)
    BY DEF Stepped
  <2>4. SessionOver(Drawn \cup {keyPair}, u) /\ Turned(s, key, m.previousCounter, keyPair, u)
    BY <1>1, <1>3, <2>1, <2>2, <2>3, MaybeStepRatchetIs
  <2> HIDE DEF u, keyPair
  <2>5. FewKeys(u)
    BY <1>1, <2>4, TurnedFewKeys
  <2>6. key \in DOMAIN u.chains
    BY <2>4 DEF Turned
  <2> QED  BY <1>1, <2>4, <2>5, <2>6, DecryptedFewKeys DEF u, keyPair
<1> QED  BY <1>2, <1>3

\* Building a session draws two keys.
LEMMA BuildsDraws ==
  ASSUME TypeInv, NEW p \in Parties, NEW q \in Parties \ {p}, Builds(p, q)
  PROVE  /\ Drawn \subseteq Drawn'
         /\ None \notin Drawn'
         /\ SessionKey(p, fresh[p] + 1) \in Drawn' \ Drawn
         /\ SessionKey(p, fresh[p] + 2) \in Drawn' \ Drawn
<1>1. /\ Drawn \subseteq Drawn'
      /\ None \notin Drawn'
      /\ \A i \in 1..2 : SessionKey(p, fresh[p] + i) \in Drawn' \ Drawn
  BY MoreDrawn DEF Builds, TypeInv
<1> QED  BY <1>1

\* Every session of the state after a step is within the limits.
LEMMA StepKeepsLimits ==
  ASSUME TypeInv, LimitsOK, Step
  PROVE  LimitsOK'
<1> SUFFICES ASSUME NEW a \in Parties, NEW b \in Parties, NEW k, Has(a, b, k)'
             PROVE  Limited(At(a, b, k)')
  BY DEF LimitsOK
<1> DEFINE s == At(a, b, k)
           t == At(a, b, k)'
<1>1. ASSUME Has(a, b, k), Kept(Drawn', s, t)
      PROVE  Limited(t)
  <2>1. Limited(s) /\ FewKeys(s)
    BY <1>1 DEF LimitsOK, Limited
  <2> QED  BY <1>1, <2>1, SlimmedLimited DEF Kept
<1>2. ASSUME NEW p, NEW q, NEW j, NEW after, Becomes(p, q, j, after), FewKeys(after)
      PROVE  Limited(t)
  <2>1. CASE <<a, b, k>> = <<p, q, j>>
    <3>1. Slimmed(Drawn', after, t)
      BY <1>2, <2>1 DEF Becomes
    <3> HIDE DEF t
    <3> QED  BY <1>2, <3>1, SlimmedLimited
  <2>2. CASE <<a, b, k>> # <<p, q, j>>
    BY <1>1, <1>2, <2>2 DEF Becomes, KeptBut
  <2> QED  BY <2>1, <2>2
<1> HIDE DEF s, t
<1>3. ASSUME Prunes
      PROVE  Limited(t)
  BY <1>1, <1>3 DEF Prunes, AllKept, s, t
<1>4. ASSUME NEW p \in Parties, NEW q \in Parties \ {p}, Builds(p, q)
      PROVE  Limited(t)
  <2>1. PICK id, baseKey :
          /\ id \in PreKeyIds
          /\ baseKey = SessionKey(p, fresh[p] + 1)
          /\ Becomes(p, q, baseKey,
                     PendingSession(Identity(p), baseKey, SessionKey(p, fresh[p] + 2),
                                    Device(q, id)))
    BY <1>4 DEF Builds
  <2> DEFINE keyPair == SessionKey(p, fresh[p] + 2)
             device == Device(q, id)
             session == PendingSession(Identity(p), baseKey, keyPair, device)
  <2>2. Pending(session, Identity(p), baseKey, keyPair, device)
    BY <1>4, <2>1, BuildsDraws, BuiltSession
  <2> HIDE DEF session
  <2>3. FewKeys(session)
    BY <2>2, NewChainFewKeys DEF Pending, FewKeys
  <2> QED  BY <1>2, <2>1, <2>3 DEF session
<1>5. ASSUME NEW p \in Parties, NEW q \in Parties \ {p}, NEW j, Sends(p, q, j)
      PROVE  Limited(t)
  <2> DEFINE r == At(p, q, j)
             key == r.ephemeralKeyPair
             after == Encrypted(r)
  <2>1. SessionOK(Drawn, p, q, r) /\ IsOpen(r) /\ Limited(r)
    BY <1>5 DEF Sends, TypeInv, SessionsTyped, LimitsOK
  <2>2. /\ key \in DOMAIN r.chains
        /\ r.chains[key].messageKeys = {}
        /\ SessionOver(Drawn, r)
    BY <2>1 DEF SessionOK, ChainsOK, SendingOK, SendingChain
  <2>3. Becomes(p, q, j, after)
    BY <1>5 DEF Sends
  <2> HIDE DEF r
  <2>4. /\ DOMAIN after.chains = DOMAIN r.chains
        /\ \A i \in DOMAIN r.chains \ {key} : after.chains[i] = r.chains[i]
        /\ after.chains[key].messageKeys = {}
    BY <2>2, EncryptedIs
  <2> HIDE DEF after
  <2>5. FewKeys(after)
    BY <2>1, <2>2, <2>4 DEF Limited, FewKeys
  <2> QED  BY <1>2, <2>3, <2>5
<1>6. ASSUME NEW p \in Parties, NEW m \in network, Receives(p, m)
      PROVE  Limited(t)
  <2> DEFINE r == HeaderSession(p, m.header)
  <2>1. m.to = p /\ Becomes(p, m.from, m.header.baseKey, Decrypted(r, m, NextKey(p)))
    BY <1>6 DEF Receives
  <2>2. Ready(p, m.from, r) /\ DOMAIN r.chains = {}
    BY <1>6, HeaderSessionReady DEF Receives, Answering
  <2> HIDE DEF r
  <2>3. FewKeys(r)
    BY <2>2 DEF FewKeys
  <2> QED  BY <1>2, <2>1, <2>2, <2>3, ReadyFewKeys
<1>7. ASSUME NEW p \in Parties, NEW m \in network, NEW j, Reads(p, j, m)
      PROVE  Limited(t)
  <2> DEFINE r == At(p, m.from, j)
  <2>1. /\ m.to = p
        /\ Has(p, m.from, j)
        /\ Becomes(p, m.from, j, Decrypted(r, m, NextKey(p)))
        /\ m.from \in Parties
    BY <1>7 DEF Reads, TypeInv, StorageInv, SendersOK
  <2>2. Ready(p, m.from, r) /\ FewKeys(r)
    BY <2>1, SessionOKIsTurnable DEF TypeInv, SessionsTyped, LimitsOK, Limited, Ready
  <2> HIDE DEF r
  <2> QED  BY <1>2, <2>1, <2>2, ReadyFewKeys
<1>8. Limited(t)
  BY <1>3, <1>4, <1>5, <1>6, <1>7 DEF Step
<1> QED  BY <1>8 DEF t

\* Every record of the state after a step is within the limit of sessions.
LEMMA OneRecordFits ==
  ASSUME TablesOK, SizesOK, NEW p, NEW q, NEW record,
         Cardinality(DOMAIN record.sessions) <= MaxSessions,
         records' = [records EXCEPT ![p][q] = record]
  PROVE  SizesOK'
<1> SUFFICES ASSUME NEW a \in Parties, NEW b \in Parties, records'[a][b] # None
             PROVE  Cardinality(DOMAIN records'[a][b].sessions) <= MaxSessions
  BY DEF SizesOK
<1>1. CASE a = p /\ b = q
  BY <1>1 DEF TablesOK
<1>2. CASE ~(a = p /\ b = q)
  <2>1. records'[a][b] = records[a][b]
    BY <1>2 DEF TablesOK
  <2> QED  BY <2>1 DEF SizesOK
<1> QED  BY <1>1, <1>2

\* The record an operation works on keeps within its limit.
LEMMA BaseFits ==
  ASSUME SizesOK, NEW p \in Parties, NEW q \in Parties, NEW base, BaseOf(p, q, base)
  PROVE  Cardinality(DOMAIN base.sessions) <= MaxSessions
<1>1. Cardinality({}) = 0
  BY FS_EmptySet
<1>2. CASE records[p][q] = None
  <2>1. DOMAIN base.sessions = {}
    BY <1>2 DEF BaseOf
  <2>2. 0 <= MaxSessions
    BY RecordAssumption
  <2> QED  BY <1>1, <2>1, <2>2
<1>3. CASE records[p][q] # None
  BY <1>3 DEF BaseOf, SizesOK
<1> QED  BY <1>2, <1>3

\* The operations keep the number of sessions within the limit.
LEMMA BuildSessionFits ==
  ASSUME TypeInv, SizesOK, NEW p \in Parties, NEW q \in Parties \ {p}, BuildSession(p, q)
  PROVE  SizesOK'
<1>1. PICK id : id = CHOOSE i \in unissued[q] : \A k \in unissued[q] : i <= k
  OBVIOUS
<1> DEFINE device == Device(q, id)
           base == RecordForDevice(records[p][q], device)
           session == PendingSession(Identity(p), SessionKey(p, fresh[p] + 1),
                                     SessionKey(p, fresh[p] + 2), device)
           record == ProcessPreKey(records[p][q], session, device)
<1>2. /\ CanProcessPreKey(records[p][q], trusted[p][q], session, device)
      /\ records' = [records EXCEPT ![p][q] = record]
  BY <1>1 DEF BuildSession
<1>3. id \in PreKeyIds
  <2>1. unissued[q] # {} /\ unissued[q] \subseteq PreKeyIds
    BY DEF BuildSession, TypeInv, TablesTyped
  <2> QED  BY <1>1, <2>1, PartyAssumption, LeastId
<1>4. device.registrationId \in Nat /\ device.identityKey \in Drawn
  BY <1>3, InstalledKeys, PartyAssumption DEF Device, TypeInv
<1>5. DOMAIN session = SessionFields /\ session.closed = -1
  BY PendingSessionMadeFor DEF MadeFor
<1> HIDE DEF session, device
<1>6. BaseOf(p, q, base)
  BY <1>4, DeviceBase
<1>7. CanArchive(base)
  BY <1>2 DEF CanProcessPreKey
<1>8. record = UpdateSessionState(ArchiveCurrentState(base), session,
                                  device.registrationId)
  BY DEF ProcessPreKey
<1> HIDE DEF base, record
<1>9. Cardinality(DOMAIN base.sessions) <= MaxSessions
  BY <1>6, BaseFits
<1>10. RecordOK(base) /\ RecordOver(Drawn, base) /\ session.closed \in Int
  BY <1>5, <1>6 DEF BaseOf
<1>11. Cardinality(DOMAIN record.sessions) <= MaxSessions
  BY <1>5, <1>7, <1>8, <1>9, <1>10, AddedFits
<1> QED  BY <1>2, <1>11, OneRecordFits DEF TypeInv, StorageInv

\* A session stored again fits.
LEMMA StoredAgainFits ==
  ASSUME NEW record, NEW session, Within(record, session),
         Cardinality(DOMAIN record.sessions) <= MaxSessions,
         NEW after, SameHead(session, after)
  PROVE  Cardinality(DOMAIN UpdateSessionState(record, after, None).sessions)
           <= MaxSessions
<1>1. /\ RecordOK(record)
      /\ DOMAIN after = SessionFields
      /\ after.closed \in Int
      /\ IsOpen(after) => OpenKeys(record) \subseteq {after.baseKey}
  BY DEF Within, SameHead, IsOpen
<1> QED  BY <1>1, UpdatedFits

LEMMA EncryptFits ==
  ASSUME TypeInv, SizesOK, NEW p \in Parties, NEW q \in Parties, Encrypt(p, q)
  PROVE  SizesOK'
<1> DEFINE record == records[p][q]
           session == OpenSession(record)
           stored == UpdateSessionState(record, Encrypted(session), None)
<1>1. /\ record # None
      /\ OpenKeys(record) # {}
      /\ records' = [records EXCEPT ![p][q] = stored]
  BY DEF Encrypt
<1>2. \E key \in DOMAIN record.sessions : session = record.sessions[key]
  BY <1>1 DEF OpenSession, OpenKeys
<1>3. RecordOK(record) /\ Cardinality(DOMAIN record.sessions) <= MaxSessions
  BY <1>1 DEF TypeInv, StorageInv, StoredOK, SizesOK
<1> HIDE DEF record, session
<1>4. Within(record, session)
  BY <1>2, <1>3, StoredSessionWithin
<1>5. SameHead(session, Encrypted(session))
  BY <1>4, EncryptedKeepsHead DEF Within
<1>6. Cardinality(DOMAIN stored.sessions) <= MaxSessions
  BY <1>3, <1>4, <1>5, StoredAgainFits
<1> QED  BY <1>1, <1>6, OneRecordFits DEF TypeInv, StorageInv

LEMMA DecryptedFits ==
  ASSUME TypeInv, SizesOK, NEW p, NEW message, NEW record, NEW session,
         Within(record, session), Cardinality(DOMAIN record.sessions) <= MaxSessions,
         StoreDecrypted(p, record, session, message)
  PROVE  SizesOK'
<1> DEFINE after == Decrypted(session, message, NextKey(p))
           stored == UpdateSessionState(record, after, None)
<1>1. records' = [records EXCEPT ![p][message.from] = stored]
  BY DEF StoreDecrypted
<1>2. SameHead(session, after)
  BY DecryptedKeepsHead DEF Within
<1> HIDE DEF after
<1>3. Cardinality(DOMAIN stored.sessions) <= MaxSessions
  BY <1>2, StoredAgainFits
<1> QED  BY <1>1, <1>3, OneRecordFits DEF TypeInv, StorageInv

LEMMA DecryptFits ==
  ASSUME TypeInv, SizesOK, NEW p \in Parties, NEW m \in network, Decrypt(p, m)
  PROVE  SizesOK'
<1>1. m.from \in Parties
  BY DEF TypeInv, StorageInv, SendersOK
<1>2. ASSUME records[p][m.from] # None, NEW key \in DOMAIN records[p][m.from].sessions,
             StoreDecrypted(p, records[p][m.from], records[p][m.from].sessions[key], m)
      PROVE  SizesOK'
  <2>1. /\ RecordOK(records[p][m.from])
        /\ Cardinality(DOMAIN records[p][m.from].sessions) <= MaxSessions
    BY <1>1, <1>2 DEF TypeInv, StorageInv, StoredOK, SizesOK
  <2>2. Within(records[p][m.from], records[p][m.from].sessions[key])
    BY <2>1, StoredSessionWithin
  <2> QED  BY <1>2, <2>1, <2>2, DecryptedFits
<1>3. CASE DecryptWhisperMessage(p, m)
  <2>1. records[p][m.from] # None
    BY <1>3 DEF DecryptWhisperMessage, WhisperMessageArrives
  <2>2. PICK key \in DOMAIN records[p][m.from].sessions :
          StoreDecrypted(p, records[p][m.from], records[p][m.from].sessions[key], m)
    BY <1>3 DEF DecryptWhisperMessage, Decrypting
  <2> QED  BY <1>2, <2>1, <2>2
<1>4. CASE DecryptInKnownSession(p, m)
  <2> DEFINE record == WorkingRecord(p, m)
             key == m.header.baseKey
  <2>1. /\ key \in DOMAIN record.sessions
        /\ StoreDecrypted(p, record, record.sessions[key], m)
    BY <1>4 DEF DecryptInKnownSession, CanDecryptInKnownSession, IsDuplicate,
                HasSessionByBaseKey
  <2>2. records[p][m.from] # None /\ record = records[p][m.from]
    BY <2>1, WorkingRecordOK DEF TypeInv
  <2> HIDE DEF record, key
  <2> QED  BY <1>2, <2>1, <2>2
<1>5. CASE DecryptInNewSession(p, m) \/ DecryptLeavingPreKey(p, m)
  <2> DEFINE working == WorkingRecord(p, m)
             session == HeaderSession(p, m.header)
             record == RecordAfterV3(p, m)
  <2>1. /\ CanArchive(working)
        /\ CanUpdateSessionState(ArchiveCurrentState(working), session,
                                 m.header.registrationId)
        /\ StoreDecrypted(p, record, session, m)
        /\ m.header # None
    BY <1>5 DEF DecryptInNewSession, DecryptLeavingPreKey, StoreNewSession,
                CanDecryptInNewSession, NewSessionArrives, PreKeyMessageArrives,
                CanAddSession
  <2>2. MadeFor(session, m.header.identityKey, m.header.baseKey)
    BY HeaderSessionMadeFor
  <2>3. BaseOf(p, m.from, working)
    BY <1>1, <2>1, WorkingBase
  <2>4. Cardinality(DOMAIN working.sessions) <= MaxSessions
    BY <1>1, <2>3, BaseFits
  <2>5. record = UpdateSessionState(ArchiveCurrentState(working), session,
                                    m.header.registrationId)
    BY DEF RecordAfterV3, RecordWithNewSession
  <2>6. RecordOK(working) /\ RecordOver(Drawn, working)
    BY <2>3 DEF BaseOf
  <2>7. DOMAIN session = SessionFields /\ session.closed \in Int
    BY <2>2 DEF MadeFor
  <2> HIDE DEF working, session, record
  <2>8. Cardinality(DOMAIN record.sessions) <= MaxSessions
    BY <2>1, <2>4, <2>5, <2>6, <2>7, AddedFits
  <2>9. StoredOK(record) /\ OpenKeys(record) \subseteq {m.header.baseKey}
    BY <2>1, <2>2, <2>5, <2>6, AddSessionKeeps
  <2>10. Within(record, session)
    BY <2>2, <2>9 DEF Within, MadeFor, StoredOK
  <2> QED  BY <2>1, <2>8, <2>10, DecryptedFits
<1> QED  BY <1>3, <1>4, <1>5 DEF Decrypt

LEMMA CloseOpenSessionFits ==
  ASSUME TypeInv, SizesOK, NEW p \in Parties, NEW q \in Parties, CloseOpenSession(p, q)
  PROVE  SizesOK'
<1> DEFINE record == records[p][q]
<1>1. record # None /\ records' = [records EXCEPT ![p][q] = ArchiveCurrentState(record)]
  BY DEF CloseOpenSession, TypeInv, StorageInv, TablesOK
<1>2. BaseOf(p, q, record)
  BY <1>1, StoredBase
<1>3. Cardinality(DOMAIN ArchiveCurrentState(record).sessions) <= MaxSessions
  BY <1>2, BaseFits, ArchivedFits DEF BaseOf
<1> QED  BY <1>1, <1>3, OneRecordFits DEF TypeInv, StorageInv

\* Every step keeps the number of sessions of every record within the limit.
LEMMA NextFits ==
  ASSUME TypeInv, SizesOK, [Next]_vars
  PROVE  SizesOK'
<1>1. TablesOK
  BY DEF TypeInv, StorageInv
<1>2. ASSUME UNCHANGED records
      PROVE  SizesOK'
  BY <1>2 DEF SizesOK
<1>3. ASSUME NEW p \in Parties, NEW q \in Parties \ {p}, AcceptIdentity(p, q)
      PROVE  SizesOK'
  <2>1. PICK record \in {records[p][q], None} :
          records' = [records EXCEPT ![p][q] = record]
    BY <1>3 DEF AcceptIdentity
  <2>2. \A a, b \in Parties : records'[a][b] \in {records[a][b], None}
    BY <1>1, <2>1 DEF TablesOK
  <2> QED  BY <2>2 DEF SizesOK
<1>4. ASSUME NEW p \in Parties, Reinstall(p)
      PROVE  SizesOK'
  <2>1. records' = [records EXCEPT ![p] = [q \in Parties |-> None]]
    BY <1>4 DEF Reinstall
  <2>2. \A a, b \in Parties : records'[a][b] \in {records[a][b], None}
    BY <1>1, <2>1 DEF TablesOK
  <2> QED  BY <2>2 DEF SizesOK
<1>5. CASE UNCHANGED vars
  BY <1>2, <1>5 DEF vars, storage
<1>6. ASSUME NEW p \in Parties, NEW q \in Parties \ {p},
             \/ BuildSession(p, q)
             \/ Encrypt(p, q)
             \/ CloseOpenSession(p, q)
      PROVE  SizesOK'
  BY <1>6, BuildSessionFits, EncryptFits, CloseOpenSessionFits
<1>7. ASSUME NEW p \in Parties, NEW m \in network,
             Decrypt(p, m) \/ RejectNewSession(p, m)
      PROVE  SizesOK'
  BY <1>2, <1>7, DecryptFits DEF RejectNewSession
<1>8. ASSUME NEW p \in Parties, RotateSignedPreKey(p)
      PROVE  SizesOK'
  BY <1>2, <1>8 DEF RotateSignedPreKey
<1> QED  BY <1>3, <1>4, <1>5, <1>6, <1>7, <1>8 DEF Next

\* The limits of the code hold in every stored record, for any values of them:
\* removeOldSessions leaves no more sessions than its limit because one of too
\* many is closed, removeOldChains no more retired chains, and fillMessageKeys
\* no more message keys of a chain.
THEOREM SignalWithinLimits == Spec => []WithinLimits
<1> DEFINE Inv == TypeInv /\ SizesOK /\ LimitsOK
<1>1. Init => Inv
  BY InitTyped DEF Init, SizesOK, LimitsOK, Has
<1>2. Inv /\ [Next]_vars => Inv'
  BY NextSteps, NextFits, StepKeepsLimits
<1>3. Inv => WithinLimits
  <2> SUFFICES ASSUME SizesOK, LimitsOK, NEW p \in Parties, NEW q \in Parties,
                      records[p][q] # None
               PROVE  /\ Cardinality(DOMAIN records[p][q].sessions) <= MaxSessions
                      /\ \A k \in DOMAIN records[p][q].sessions :
                           Limited(records[p][q].sessions[k])
    BY DEF WithinLimits, Stored, SessionsOf, ChainsOf, Limited, FewKeys
  <2> QED  BY DEF SizesOK, LimitsOK, Has, At
<1>4. Spec => []Inv
  BY <1>1, <1>2, PTL DEF Spec
<1> QED  BY <1>3, <1>4, PTL
=============================================================================
