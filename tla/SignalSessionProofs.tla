-------------------------- MODULE SignalSessionProofs --------------------------
(***************************************************************************)
(* Proofs about SignalSession, for any parties, limits, prekeys and bounds *)
(* on messages and installations: a stored record has one open session at  *)
(* most, its sessions are with one identity, and new sessions are made     *)
(* with trusted identities.                                                *)
(***************************************************************************)
EXTENDS SignalSession, SessionRecordProofs

\* A record as the operations store it.
StoredOK(record) == /\ RecordOK(record)
                    /\ HaveOpenSession(record) <=> OpenKeys(record) # {}

\* The storages are tables of parties.
TablesOK ==
  /\ DOMAIN records = Parties
  /\ DOMAIN trusted = Parties
  /\ \A p \in Parties : DOMAIN records[p] = Parties /\ DOMAIN trusted[p] = Parties

\* Messages are sent by parties.
SendersOK == \A message \in network : message.from \in Parties

\* The inductive invariant of the storages.
StorageInv ==
  /\ TablesOK
  /\ SendersOK
  /\ \A p, q \in Parties : records[p][q] # None => StoredOK(records[p][q])

-----------------------------------------------------------------------------
\* Both ways to make a session give one that is open, under its base key and
\* with the identity it was made for.
MadeFor(session, identityKey, baseKey) ==
  /\ DOMAIN session = SessionFields
  /\ session.closed = -1
  /\ session.baseKey = baseKey
  /\ session.remoteIdentityKey = identityKey

LEMMA PendingSessionMadeFor ==
  ASSUME NEW identity, NEW baseKey, NEW keyPair, NEW device
  PROVE  MadeFor(PendingSession(identity, baseKey, keyPair, device),
                 device.identityKey, baseKey)
<1> DEFINE root == SharedSecret(TRUE, identity, baseKey, baseKey,
                     device.identityKey, device.signedPreKey, device.preKey)
           new == NewSession(root, keyPair, device.signedPreKey,
                             device.identityKey, baseKey, "OURS")
           initiator == CalculateRatchet(new, device.signedPreKey, TRUE)
<1>1. MadeFor(new, device.identityKey, baseKey)
  BY DEF MadeFor, NewSession, SessionFields
<1>2. SameHead(new, initiator)
  BY <1>1, CalculateRatchetKeepsHead DEF MadeFor
<1>3. PendingSession(identity, baseKey, keyPair, device) =
        [initiator EXCEPT !.pendingPreKey = [preKeyId |-> device.preKeyId,
                                             signedKeyId |-> device.signedKeyId,
                                             baseKey |-> baseKey]]
  BY DEF PendingSession, InitiatorSession
<1> HIDE DEF new, initiator
<1> QED  BY <1>1, <1>2, <1>3 DEF MadeFor, SameHead, SessionFields

LEMMA HeaderSessionMadeFor ==
  ASSUME NEW p, NEW header
  PROVE  MadeFor(HeaderSession(p, header), header.identityKey, header.baseKey)
  BY DEF MadeFor, HeaderSession, ResponderSession, NewSession, SessionFields

-----------------------------------------------------------------------------
\* A record may be given an open session after its own was archived.
LEMMA AddSessionKeeps ==
  ASSUME NEW record, RecordOK(record), CanArchive(record),
         NEW session, NEW identityKey, NEW baseKey,
         MadeFor(session, identityKey, baseKey), NEW id,
         CanUpdateSessionState(ArchiveCurrentState(record), session, id)
  PROVE  LET added == UpdateSessionState(ArchiveCurrentState(record), session, id)
         IN  /\ StoredOK(added)
             /\ OpenKeys(added) \subseteq {baseKey}
             /\ DOMAIN added.sessions \subseteq DOMAIN record.sessions \cup {baseKey}
             /\ added.identityKey = identityKey
             /\ record.identityKey = identityKey
<1> DEFINE archived == ArchiveCurrentState(record)
           added == UpdateSessionState(archived, session, id)
<1>1. /\ RecordOK(archived)
      /\ OpenKeys(archived) = {}
      /\ archived.identityKey = record.identityKey
      /\ DOMAIN archived.sessions \subseteq DOMAIN record.sessions
  BY ArchiveCurrentStateKeeps
<1>2. /\ DOMAIN session = SessionFields
      /\ session.closed \in Int
      /\ session.baseKey = baseKey
      /\ session.remoteIdentityKey = identityKey
  BY DEF MadeFor
<1>3. archived.identityKey = identityKey
  BY <1>2 DEF CanUpdateSessionState
<1> HIDE DEF archived
<1>4. CanUpdateSessionState(archived, session, id)
  BY DEF archived
<1>5. /\ RecordOK(added)
      /\ added.identityKey = archived.identityKey
      /\ added.sessions = SessionsWith(archived, session)
      /\ HaveOpenSession(added) <=> OpenKeys(added) # {}
      /\ OpenKeys(added) \subseteq OpenKeys(archived) \cup {session.baseKey}
  BY <1>1, <1>2, <1>4, UpdateSessionStateKeeps
<1>6. DOMAIN added.sessions \subseteq DOMAIN archived.sessions \cup {baseKey}
  BY <1>2, <1>5, SessionsWithKeeps
<1> HIDE DEF added
<1>7. /\ StoredOK(added)
      /\ OpenKeys(added) \subseteq {baseKey}
      /\ DOMAIN added.sessions \subseteq DOMAIN record.sessions \cup {baseKey}
      /\ added.identityKey = identityKey
      /\ record.identityKey = identityKey
  BY <1>1, <1>2, <1>3, <1>5, <1>6 DEF StoredOK
<1> QED  BY <1>7 DEF added, archived

\* A session of a sound record, and an open one only if no other is open.
Within(record, session) ==
  /\ RecordOK(record)
  /\ DOMAIN session = SessionFields
  /\ session.closed \in Int
  /\ IsOpen(session) => OpenKeys(record) \subseteq {session.baseKey}

LEMMA StoredSessionWithin ==
  ASSUME NEW record, RecordOK(record), NEW key \in DOMAIN record.sessions
  PROVE  /\ Within(record, record.sessions[key])
         /\ record.sessions[key].baseKey = key
  BY DEF Within, RecordOK, OpenKeys

\* A session may be stored again after the ratchet worked on it.
LEMMA StoreAgainKeeps ==
  ASSUME NEW record, NEW session, Within(record, session),
         NEW after, SameHead(session, after),
         CanUpdateSessionState(record, after, None)
  PROVE  LET stored == UpdateSessionState(record, after, None)
         IN  /\ StoredOK(stored)
             /\ stored.identityKey = record.identityKey
             /\ DOMAIN stored.sessions
                  \subseteq DOMAIN record.sessions \cup {session.baseKey}
<1>1. /\ RecordOK(record)
      /\ DOMAIN after = SessionFields
      /\ after.closed \in Int
      /\ after.baseKey = session.baseKey
      /\ IsOpen(after) => OpenKeys(record) \subseteq {after.baseKey}
  BY DEF Within, SameHead, IsOpen
<1> DEFINE stored == UpdateSessionState(record, after, None)
<1>2. /\ RecordOK(stored)
      /\ stored.identityKey = record.identityKey
      /\ stored.sessions = SessionsWith(record, after)
      /\ HaveOpenSession(stored) <=> OpenKeys(stored) # {}
  BY <1>1, UpdateSessionStateKeeps
<1>3. DOMAIN stored.sessions \subseteq DOMAIN record.sessions \cup {session.baseKey}
  BY <1>1, <1>2, SessionsWithKeeps
<1> HIDE DEF stored
<1>4. StoredOK(stored)
  BY <1>2 DEF StoredOK
<1> QED  BY <1>2, <1>3, <1>4 DEF stored

-----------------------------------------------------------------------------
\* What a step may do to the storages: the tables stay tables, and each record
\* is the one before, or none, or a sound one all of whose new sessions are
\* with a trusted identity.
RecordStep(p, q) ==
  records'[p][q] # None =>
    \/ records'[p][q] = records[p][q]
    \/ /\ StoredOK(records'[p][q])
       /\ \A key \in DOMAIN records'[p][q].sessions :
            records[p][q] = None \/ key \notin DOMAIN records[p][q].sessions
              => NewSessionTrusted(p, q, records'[p][q].sessions[key])
StorageStep == /\ TablesOK'
               /\ SendersOK'
               /\ \A p, q \in Parties : RecordStep(p, q)

\* Such a step keeps the invariant.
LEMMA StorageStepKeepsInv ==
  ASSUME StorageInv, StorageStep
  PROVE  StorageInv'
  BY DEF StorageInv, StorageStep, RecordStep, StoredOK

\* A step that stores nothing.
LEMMA NothingStored ==
  ASSUME StorageInv, UNCHANGED <<records, trusted, network>>
  PROVE  StorageStep
  BY DEF StorageInv, StorageStep, RecordStep, TablesOK, SendersOK

\* A step that stores one record.
LEMMA OneRecordStored ==
  ASSUME StorageInv, SendersOK', NEW p, NEW q, NEW record, StoredOK(record),
         records' = [records EXCEPT ![p][q] = record],
         \/ UNCHANGED trusted
         \/ \E identityKey : trusted' = [trusted EXCEPT ![p][q] = identityKey],
         p \in Parties /\ q \in Parties =>
           \A key \in DOMAIN record.sessions :
             records[p][q] = None \/ key \notin DOMAIN records[p][q].sessions
               => NewSessionTrusted(p, q, record.sessions[key])
  PROVE  StorageStep
<1>1. TablesOK'
  BY DEF StorageInv, TablesOK
<1>2. ASSUME NEW x \in Parties, NEW y \in Parties
      PROVE  RecordStep(x, y)
  <2>1. CASE x = p /\ y = q
    <3>1. records'[x][y] = record
      BY <2>1 DEF StorageInv, TablesOK
    <3> QED  BY <2>1, <3>1 DEF RecordStep
  <2>2. CASE ~(x = p /\ y = q)
    BY <2>2 DEF StorageInv, TablesOK, RecordStep
  <2> QED  BY <2>1, <2>2
<1> QED  BY <1>1, <1>2 DEF StorageStep

-----------------------------------------------------------------------------
\* Each operation is a storage step.
LEMMA BuildSessionStores ==
  ASSUME StorageInv, NEW p \in Parties, NEW q \in Parties, BuildSession(p, q)
  PROVE  StorageStep /\ \A r, t \in Parties : TrustKept(r, t)
<1>1. PICK id : id = CHOOSE i \in unissued[q] : \A k \in unissued[q] : i <= k
  OBVIOUS
<1> DEFINE device == Device(q, id)
           base == RecordForDevice(records[p][q], device)
           session == PendingSession(Identity(p), SessionKey(p, fresh[p] + 1),
                                     SessionKey(p, fresh[p] + 2), device)
           record == ProcessPreKey(records[p][q], session, device)
<1>2. /\ CanProcessPreKey(records[p][q], trusted[p][q], session, device)
      /\ records' = [records EXCEPT ![p][q] = record]
      /\ trusted' = [trusted EXCEPT ![p][q] = record.identityKey]
      /\ UNCHANGED network
  BY <1>1 DEF BuildSession
<1>3. MadeFor(session, device.identityKey, SessionKey(p, fresh[p] + 1))
  BY PendingSessionMadeFor
<1> HIDE DEF session, device
<1>4. /\ RecordOK(base)
      /\ records[p][q] = None => DOMAIN base.sessions = {}
      /\ records[p][q] # None => base = records[p][q]
  BY NewRecordOK DEF RecordForDevice, StorageInv, StoredOK, EmptyMap
<1>5. /\ IsTrusted(trusted[p][q], device.identityKey)
      /\ CanArchive(base)
      /\ CanUpdateSessionState(ArchiveCurrentState(base), session,
                               device.registrationId)
  BY <1>2 DEF CanProcessPreKey
<1>6. record = UpdateSessionState(ArchiveCurrentState(base), session,
                                  device.registrationId)
  BY DEF ProcessPreKey
<1> HIDE DEF base, record
<1>7. /\ StoredOK(record)
      /\ record.identityKey = device.identityKey
      /\ DOMAIN record.sessions
           \subseteq DOMAIN base.sessions \cup {SessionKey(p, fresh[p] + 1)}
  BY <1>3, <1>4, <1>5, <1>6, AddSessionKeeps
<1>8. trusted'[p][q] = device.identityKey
  BY <1>2, <1>7 DEF StorageInv, TablesOK
<1>9. ASSUME NEW key \in DOMAIN record.sessions
      PROVE  NewSessionTrusted(p, q, record.sessions[key])
  BY <1>5, <1>7, <1>8 DEF NewSessionTrusted, StoredOK, RecordOK, IsTrusted
<1>10. SendersOK'
  BY <1>2 DEF StorageInv, SendersOK
<1>11. StorageStep
  BY <1>2, <1>7, <1>9, <1>10, OneRecordStored
<1>12. trusted' = [trusted EXCEPT ![p][q] = device.identityKey]
  BY <1>2, <1>7
<1>13. trusted[p][q] \in {None, device.identityKey}
  BY <1>5 DEF IsTrusted
<1>14. \A r, t \in Parties : TrustKept(r, t)
  BY <1>12, <1>13 DEF TrustKept, StorageInv, TablesOK
<1> QED  BY <1>11, <1>14

LEMMA EncryptStores ==
  ASSUME StorageInv, NEW p \in Parties, NEW q \in Parties, Encrypt(p, q)
  PROVE  StorageStep
<1> DEFINE record == records[p][q]
           current == CHOOSE key \in OpenKeys(record) : TRUE
           session == OpenSession(record)
           stored == UpdateSessionState(record, Encrypted(session), None)
<1>1. /\ record # None
      /\ OpenKeys(record) # {}
      /\ CanUpdateSessionState(record, Encrypted(session), None)
      /\ records' = [records EXCEPT ![p][q] = stored]
      /\ UNCHANGED trusted
  BY DEF Encrypt
<1>2. SendersOK'
  BY DEF Encrypt, StorageInv, SendersOK
<1>3. /\ current \in DOMAIN record.sessions
      /\ session = record.sessions[current]
  BY <1>1 DEF OpenSession, OpenKeys
<1>4. RecordOK(record)
  BY <1>1 DEF StorageInv, StoredOK
<1> HIDE DEF current
<1>5. Within(record, session) /\ session.baseKey = current
  BY <1>3, <1>4, StoredSessionWithin
<1>6. SameHead(session, Encrypted(session))
  BY <1>5, EncryptedKeepsHead DEF Within
<1> HIDE DEF record, session, stored
<1>7. /\ StoredOK(stored)
      /\ DOMAIN stored.sessions \subseteq DOMAIN record.sessions
  BY <1>1, <1>3, <1>5, <1>6, StoreAgainKeeps DEF stored
<1> QED  BY <1>1, <1>2, <1>7, OneRecordStored DEF record

\* The record that a decryption stores.
LEMMA DecryptedStored ==
  ASSUME NEW p, NEW message, NEW record, NEW session, Within(record, session),
         Accepts(p, record, session, message),
         StoreDecrypted(p, record, session, message)
  PROVE  /\ UNCHANGED network
         /\ \E stored :
              /\ records' = [records EXCEPT ![p][message.from] = stored]
              /\ StoredOK(stored)
              /\ stored.identityKey = record.identityKey
              /\ DOMAIN stored.sessions
                   \subseteq DOMAIN record.sessions \cup {session.baseKey}
<1> DEFINE after == Decrypted(session, message, NextKey(p))
           stored == UpdateSessionState(record, after, None)
<1>1. CanUpdateSessionState(record, after, None)
  BY DEF Accepts
<1>2. SameHead(session, after)
  BY DecryptedKeepsHead DEF Within
<1>3. /\ UNCHANGED network
      /\ records' = [records EXCEPT ![p][message.from] = stored]
  BY DEF StoreDecrypted
<1> HIDE DEF after
<1>4. /\ StoredOK(stored)
      /\ stored.identityKey = record.identityKey
      /\ DOMAIN stored.sessions
           \subseteq DOMAIN record.sessions \cup {session.baseKey}
  BY <1>1, <1>2, StoreAgainKeeps
<1> QED  BY <1>3, <1>4

\* A decryption in a session of the stored record adds none.
LEMMA DecryptInStoredSessionStores ==
  ASSUME StorageInv, NEW p \in Parties, NEW message \in network,
         records[p][message.from] # None,
         NEW key \in DOMAIN records[p][message.from].sessions,
         Accepts(p, records[p][message.from],
                 records[p][message.from].sessions[key], message),
         StoreDecrypted(p, records[p][message.from],
                        records[p][message.from].sessions[key], message),
         UNCHANGED trusted
  PROVE  StorageStep
<1> DEFINE record == records[p][message.from]
           session == record.sessions[key]
<1>1. message.from \in Parties
  BY DEF StorageInv, SendersOK
<1>2. RecordOK(record)
  BY <1>1 DEF StorageInv, StoredOK
<1>3. Within(record, session) /\ session.baseKey = key
  BY <1>2, StoredSessionWithin
<1>4. PICK stored :
        /\ records' = [records EXCEPT ![p][message.from] = stored]
        /\ StoredOK(stored)
        /\ DOMAIN stored.sessions \subseteq DOMAIN record.sessions
  BY SMTT(30), <1>3, DecryptedStored
<1>5. SendersOK'
  BY <1>3, DecryptedStored DEF StorageInv, SendersOK
<1> QED  BY <1>4, <1>5, OneRecordStored

LEMMA DecryptWhisperMessageStores ==
  ASSUME StorageInv, NEW p \in Parties, NEW message \in network,
         DecryptWhisperMessage(p, message)
  PROVE  StorageStep
<1>1. PICK key \in DOMAIN records[p][message.from].sessions :
        /\ CanDecryptWhisper(p, message, key)
        /\ StoreDecrypted(p, records[p][message.from],
                          records[p][message.from].sessions[key], message)
  BY DEF DecryptWhisperMessage, Decrypting
<1>2. Accepts(p, records[p][message.from],
              records[p][message.from].sessions[key], message)
  BY <1>1 DEF CanDecryptWhisper
<1>3. records[p][message.from] # None /\ UNCHANGED trusted
  BY DEF DecryptWhisperMessage, WhisperMessageArrives
<1> QED  BY <1>1, <1>2, <1>3, DecryptInStoredSessionStores

\* The record that decryptPreKeyWhisperMessage begins with is sound, and is the
\* stored one unless it is empty.
LEMMA WorkingRecordOK ==
  ASSUME StorageInv, NEW p \in Parties, NEW message \in network
  PROVE  /\ RecordOK(WorkingRecord(p, message))
         /\ records[p][message.from] = None
              => DOMAIN WorkingRecord(p, message).sessions = {}
         /\ records[p][message.from] # None
              => WorkingRecord(p, message) = records[p][message.from]
<1>1. message.from \in Parties
  BY DEF StorageInv, SendersOK
<1> QED  BY <1>1, NewRecordOK DEF WorkingRecord, StorageInv, StoredOK, EmptyMap

LEMMA DecryptInKnownSessionStores ==
  ASSUME StorageInv, NEW p \in Parties, NEW message \in network,
         DecryptInKnownSession(p, message)
  PROVE  StorageStep
<1> DEFINE record == WorkingRecord(p, message)
           key == message.header.baseKey
<1>1. /\ key \in DOMAIN record.sessions
      /\ Accepts(p, record, record.sessions[key], message)
      /\ StoreDecrypted(p, record, record.sessions[key], message)
      /\ UNCHANGED trusted
  BY DEF DecryptInKnownSession, CanDecryptInKnownSession, IsDuplicate,
         HasSessionByBaseKey
<1>2. records[p][message.from] # None /\ record = records[p][message.from]
  BY <1>1, WorkingRecordOK
<1> HIDE DEF record, key
<1> QED  BY <1>1, <1>2, DecryptInStoredSessionStores

LEMMA NewSessionStores ==
  ASSUME StorageInv, NEW p \in Parties, NEW message \in network,
         StoreNewSession(p, message)
  PROVE  StorageStep
<1> DEFINE working == WorkingRecord(p, message)
           session == HeaderSession(p, message.header)
           record == RecordAfterV3(p, message)
           identityKey == message.header.identityKey
           baseKey == message.header.baseKey
<1>1. /\ NewSessionArrives(p, message)
      /\ Accepts(p, record, session, message)
      /\ StoreDecrypted(p, record, session, message)
      /\ trusted' = [trusted EXCEPT ![p][message.from] = identityKey]
  BY DEF StoreNewSession, CanDecryptInNewSession
<1>2. /\ IsTrusted(trusted[p][message.from], identityKey)
      /\ CanArchive(working)
      /\ CanUpdateSessionState(ArchiveCurrentState(working), session,
                               message.header.registrationId)
  BY <1>1 DEF NewSessionArrives, PreKeyMessageArrives, CanAddSession
<1>3. record = UpdateSessionState(ArchiveCurrentState(working), session,
                                  message.header.registrationId)
  BY DEF RecordAfterV3, RecordWithNewSession
<1>4. MadeFor(session, identityKey, baseKey)
  BY HeaderSessionMadeFor
<1>5. /\ RecordOK(working)
      /\ records[p][message.from] = None => DOMAIN working.sessions = {}
      /\ records[p][message.from] # None => working = records[p][message.from]
  BY WorkingRecordOK
<1> HIDE DEF working, session, record, identityKey, baseKey
<1>6. /\ StoredOK(record)
      /\ OpenKeys(record) \subseteq {baseKey}
      /\ DOMAIN record.sessions \subseteq DOMAIN working.sessions \cup {baseKey}
      /\ record.identityKey = identityKey
  BY <1>2, <1>3, <1>4, <1>5, AddSessionKeeps
<1>7. Within(record, session) /\ session.baseKey = baseKey
  BY <1>4, <1>6 DEF Within, MadeFor, StoredOK
<1>8. PICK stored :
        /\ records' = [records EXCEPT ![p][message.from] = stored]
        /\ StoredOK(stored)
        /\ stored.identityKey = identityKey
        /\ DOMAIN stored.sessions \subseteq DOMAIN working.sessions \cup {baseKey}
  BY <1>1, <1>6, <1>7, DecryptedStored
<1>9. SendersOK'
  BY <1>1, <1>7, DecryptedStored DEF StorageInv, SendersOK
<1>10. message.from \in Parties
  BY DEF StorageInv, SendersOK
<1>11. trusted'[p][message.from] = identityKey
  BY <1>1, <1>10 DEF StorageInv, TablesOK
<1>12. ASSUME NEW key \in DOMAIN stored.sessions
       PROVE  NewSessionTrusted(p, message.from, stored.sessions[key])
  BY <1>2, <1>8, <1>11 DEF NewSessionTrusted, StoredOK, RecordOK, IsTrusted
<1> QED  BY <1>1, <1>8, <1>9, <1>12, OneRecordStored

LEMMA RejectNewSessionStores ==
  ASSUME StorageInv, NEW p \in Parties, NEW message \in network,
         RejectNewSession(p, message)
  PROVE  StorageStep
<1>1. UNCHANGED <<records, network>>
  BY DEF RejectNewSession
<1>2. trusted' = [trusted EXCEPT ![p][message.from] = message.header.identityKey]
  BY DEF RejectNewSession
<1> QED  BY <1>1, <1>2 DEF StorageInv, StorageStep, RecordStep, TablesOK, SendersOK

LEMMA CloseOpenSessionStores ==
  ASSUME StorageInv, NEW p \in Parties, NEW q \in Parties, CloseOpenSession(p, q)
  PROVE  StorageStep
<1> DEFINE record == records[p][q]
           archived == ArchiveCurrentState(record)
<1>1. /\ record # None
      /\ OpenKeys(record) # {}
      /\ CanArchive(record)
      /\ UNCHANGED <<trusted, network>>
  BY DEF CloseOpenSession
<1>2. records' = [records EXCEPT ![p][q] = archived]
  BY DEF CloseOpenSession, StorageInv, TablesOK
<1>3. RecordOK(record)
  BY <1>1 DEF StorageInv, StoredOK
<1>4. /\ RecordOK(archived)
      /\ OpenKeys(archived) = {}
      /\ ~HaveOpenSession(archived)
      /\ DOMAIN archived.sessions \subseteq DOMAIN record.sessions
  BY <1>1, <1>3, ArchiveCurrentStateKeeps
<1>5. StoredOK(archived)
  BY <1>4 DEF StoredOK
<1>6. SendersOK'
  BY <1>1 DEF StorageInv, SendersOK
<1> QED  BY <1>1, <1>2, <1>4, <1>5, <1>6, OneRecordStored

LEMMA ReinstallStores ==
  ASSUME StorageInv, NEW p \in Parties, Reinstall(p)
  PROVE  StorageStep
<1>1. /\ trusted' = [trusted EXCEPT ![p] = [q \in Parties |-> None]]
      /\ records' = [records EXCEPT ![p] = [q \in Parties |-> None]]
      /\ UNCHANGED network
  BY DEF Reinstall
<1> QED  BY <1>1 DEF StorageInv, StorageStep, RecordStep, TablesOK, SendersOK

LEMMA AcceptIdentityStores ==
  ASSUME StorageInv, NEW p \in Parties, NEW q \in Parties, AcceptIdentity(p, q)
  PROVE  StorageStep
<1>1. PICK record \in {records[p][q], None} :
        records' = [records EXCEPT ![p][q] = record]
  BY DEF AcceptIdentity
<1>2. /\ trusted' = [trusted EXCEPT ![p][q] = Identity(q)]
      /\ UNCHANGED network
  BY DEF AcceptIdentity
<1> QED  BY <1>1, <1>2 DEF StorageInv, StorageStep, RecordStep, TablesOK, SendersOK

\* So is every step of the specification.
LEMMA NextStores ==
  ASSUME StorageInv, [Next]_vars
  PROVE  StorageStep
<1>1. CASE UNCHANGED vars
  BY <1>1, NothingStored DEF vars, storage
<1>2. ASSUME NEW p \in Parties, NEW q \in Parties \ {p},
             \/ BuildSession(p, q)
             \/ Encrypt(p, q)
             \/ CloseOpenSession(p, q)
             \/ AcceptIdentity(p, q)
      PROVE  StorageStep
  BY <1>2, BuildSessionStores, EncryptStores, CloseOpenSessionStores,
     AcceptIdentityStores
<1>3. ASSUME NEW p \in Parties, NEW message \in network,
             Decrypt(p, message) \/ RejectNewSession(p, message)
      PROVE  StorageStep
  BY <1>3, DecryptWhisperMessageStores, DecryptInKnownSessionStores,
     NewSessionStores, RejectNewSessionStores
     DEF Decrypt, DecryptInNewSession, DecryptLeavingPreKey
<1>4. ASSUME NEW p \in Parties, RotateSignedPreKey(p)
      PROVE  StorageStep
  BY <1>4, NothingStored DEF RotateSignedPreKey
<1>5. ASSUME NEW p \in Parties, Reinstall(p)
      PROVE  StorageStep
  BY <1>5, ReinstallStores
<1> QED  BY <1>1, <1>2, <1>3, <1>4, <1>5 DEF Next

-----------------------------------------------------------------------------
\* The storages keep sound records: whatever the parties do and whatever the
\* network does with their messages.
THEOREM StorageInvariant == Spec => []StorageInv
<1>1. Init => StorageInv
  BY DEF Init, StorageInv, TablesOK, SendersOK
<1>2. StorageInv /\ [Next]_vars => StorageInv'
  BY NextStores, StorageStepKeepsInv
<1> QED  BY <1>1, <1>2, PTL DEF Spec

\* A stored record has one open session at most, and a registration id exactly
\* when it has one (updateSessionState, archiveCurrentState).
THEOREM SignalOneOpenSession == Spec => []OneOpenSession
<1>1. StorageInv => OneOpenSession
  BY DEF StorageInv, OneOpenSession, Stored, StoredOK, RecordOK
<1> QED  BY <1>1, StorageInvariant, PTL

\* The sessions of a record are all with the identity key of the record, which
\* updateSessionState compares and nothing else enforces.
THEOREM SignalOneIdentity == Spec => []OneIdentity
<1>1. StorageInv => OneIdentity
  BY DEF StorageInv, OneIdentity, Stored, SessionsOf, StoredOK, RecordOK
<1> QED  BY <1>1, StorageInvariant, PTL

\* The trusted key of a name changes only when the user accepts another one, or
\* the party installs again.
LEMMA NextTrusts ==
  ASSUME StorageInv, [Next]_vars, NEW p \in Parties, NEW q \in Parties
  PROVE  TrustKept(p, q)
<1>1. ASSUME UNCHANGED trusted
      PROVE  TrustKept(p, q)
  BY <1>1 DEF TrustKept
<1>2. ASSUME NEW r \in Parties, NEW t \in Parties, NEW key,
             trusted' = [trusted EXCEPT ![r][t] = key],
             trusted[r][t] \in {None, key}
      PROVE  TrustKept(p, q)
  BY <1>2 DEF TrustKept, StorageInv, TablesOK
<1>3. ASSUME NEW r \in Parties, NEW t \in Parties \ {r}, BuildSession(r, t)
      PROVE  TrustKept(p, q)
  BY <1>3, BuildSessionStores
<1>4. ASSUME NEW r \in Parties, NEW message \in network,
             Decrypt(r, message) \/ RejectNewSession(r, message)
      PROVE  TrustKept(p, q)
  <2>1. message.from \in Parties
    BY DEF StorageInv, SendersOK
  <2>2. \/ UNCHANGED trusted
        \/ /\ IsTrusted(trusted[r][message.from], message.header.identityKey)
           /\ trusted' = [trusted EXCEPT ![r][message.from] = message.header.identityKey]
    BY <1>4 DEF Decrypt, DecryptWhisperMessage, DecryptInKnownSession,
                DecryptInNewSession, DecryptLeavingPreKey, StoreNewSession,
                CanDecryptInNewSession, RejectNewSession, NewSessionArrives,
                PreKeyMessageArrives
  <2> QED  BY <1>1, <1>2, <2>1, <2>2 DEF IsTrusted
<1>5. ASSUME NEW r \in Parties, Reinstall(r)
      PROVE  TrustKept(p, q)
  BY <1>5 DEF Reinstall, TrustKept, StorageInv, TablesOK
<1>6. ASSUME NEW r \in Parties, NEW t \in Parties, AcceptIdentity(r, t)
      PROVE  TrustKept(p, q)
  <2>1. CASE r = p /\ t = q
    BY <1>6, <2>1 DEF TrustKept
  <2>2. CASE ~(r = p /\ t = q)
    BY <1>6, <2>2 DEF TrustKept, AcceptIdentity, StorageInv, TablesOK
  <2> QED  BY <2>1, <2>2
<1>7. ASSUME NEW r \in Parties, NEW t \in Parties \ {r},
             Encrypt(r, t) \/ CloseOpenSession(r, t)
      PROVE  UNCHANGED trusted
  BY <1>7 DEF Encrypt, CloseOpenSession
<1>8. ASSUME NEW r \in Parties, RotateSignedPreKey(r)
      PROVE  UNCHANGED trusted
  BY <1>8 DEF RotateSignedPreKey
<1> QED  BY <1>1, <1>3, <1>4, <1>5, <1>6, <1>7, <1>8 DEF Next, vars, storage

\* No step of processPreKey or processV3 makes a session with an identity key
\* that is not the trusted one (isTrustedIdentity, saveIdentity), and none of
\* them, nor a message that is rejected, replaces a trusted key.
THEOREM SignalNewSessionsTrusted == Spec => NewSessionsTrusted
<1> DEFINE Trusted ==
      \A p, q \in Parties :
        /\ records'[p][q] # None =>
             \A key \in DOMAIN records'[p][q].sessions :
               records[p][q] = None \/ key \notin DOMAIN records[p][q].sessions
                 => NewSessionTrusted(p, q, records'[p][q].sessions[key])
        /\ TrustKept(p, q)
<1>1. StorageInv /\ [Next]_vars => [Trusted]_vars
  <2>1. ASSUME StorageInv, [Next]_vars
        PROVE  StorageStep /\ \A p, q \in Parties : TrustKept(p, q)
    BY <2>1, NextStores, NextTrusts
  <2> QED  BY <2>1 DEF StorageStep, RecordStep
<1>2. Spec => [][Trusted]_vars
  BY <1>1, StorageInvariant, PTL DEF Spec
<1> QED  BY <1>2 DEF NewSessionsTrusted
=============================================================================
