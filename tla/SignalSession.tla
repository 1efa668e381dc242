---------------------------- MODULE SignalSession ----------------------------
(***************************************************************************)
(* Parties that run the library: each has its storage, makes sessions      *)
(* (SessionBuilder), encrypts, decrypts and closes sessions                *)
(* (SessionCipher).  An operation is one step: it runs as a job of its     *)
(* address's queue, which SessionLock shows to be serial, and stores its   *)
(* record at its end; an operation that throws stores nothing, except      *)
(* where the code stores before it throws.  The record of a new session is *)
(* stored before the one-time prekey is removed, and a refused removal or  *)
(* a stop leaves the prekey behind.  The other calls of the storage        *)
(* succeed here; SessionJobs has their failures, and the steps between.    *)
(*                                                                         *)
(* The network keeps every message ever sent and hands any of them to its  *)
(* addressee at any time, so messages are lost, repeated, delayed and      *)
(* reordered.  A server hands out the keys of a party's installation, each *)
(* one-time prekey once.                                                   *)
(***************************************************************************)
EXTENDS SessionBuilder

CONSTANTS Parties,
          PreKeyIds,        \* ids of the one-time prekeys of an installation
          SignedPreKeyIds,  \* ids of its signed prekeys, in order of their use
          MaxSend,          \* bound: messages a party sends
          MaxInstall,       \* bound: installations of a party
          MaxLeftover       \* bound: prekeys whose removal fails

ASSUME PartyAssumption == /\ None \notin Parties
                          /\ PreKeyIds \subseteq Nat
                          /\ SignedPreKeyIds \subseteq Nat
                          /\ 1 \in SignedPreKeyIds
                          /\ MaxSend \in Nat
                          /\ MaxInstall \in Nat
                          /\ MaxLeftover \in Nat

VARIABLES
  install,         \* the installation of a party: its identity, its keys and
                   \* its registration id are those of this installation
  trusted,         \* storage: identity key saved for a peer's name
  preKeys,         \* storage: ids of the one-time prekeys a party holds
  signedPreKeys,   \* storage: ids of the signed prekeys a party holds
  records,         \* storage: the record of each peer's address
  published,       \* server: id of the signed prekey it hands out
  unissued,        \* server: ids of the one-time prekeys it has left
  fresh,           \* number of key pairs a party has drawn for sessions
  network,         \* messages sent so far
  delivered,       \* messages read: decrypted, and the record stored
  leftover         \* history: one-time prekeys that were not removed when
                   \* a session made with them was stored

storage == <<install, trusted, preKeys, signedPreKeys, records>>
server == <<published, unissued>>
vars == <<storage, server, fresh, network, delivered, leftover>>

Identity(p) == IdentityKey(p, install[p])
Sent(p) == {message \in network : message.from = p}

Init == /\ install = [p \in Parties |-> 1]
        /\ trusted = [p \in Parties |-> [q \in Parties |-> None]]
        /\ preKeys = [p \in Parties |-> PreKeyIds]
        /\ signedPreKeys = [p \in Parties |-> {1}]
        /\ records = [p \in Parties |-> [q \in Parties |-> None]]
        /\ published = [p \in Parties |-> 1]
        /\ unissued = [p \in Parties |-> PreKeyIds]
        /\ fresh = [p \in Parties |-> 0]
        /\ network = {}
        /\ delivered = {}
        /\ leftover = {}

-----------------------------------------------------------------------------
\* What the server hands out for a party, with one of its one-time prekeys.
Device(p, id) ==
  [identityKey |-> Identity(p), registrationId |-> install[p],
   preKeyId |-> id, preKey |-> PreKey(p, install[p], id),
   signedKeyId |-> published[p],
   signedPreKey |-> SignedPreKey(p, install[p], published[p])]

\* processPreKey: p makes a session with q.
BuildSession(p, q) ==
  /\ unissued[q] # {}
  /\ LET id == CHOOSE i \in unissued[q] : \A k \in unissued[q] : i <= k
         device == Device(q, id)
         session == PendingSession(Identity(p), SessionKey(p, fresh[p] + 1),
                                   SessionKey(p, fresh[p] + 2), device)
         record == ProcessPreKey(records[p][q], session, device)
     IN  /\ CanProcessPreKey(records[p][q], trusted[p][q], session, device)
         /\ unissued' = [unissued EXCEPT ![q] = @ \ {id}]
         /\ records' = [records EXCEPT ![p][q] = record]
         /\ trusted' = [trusted EXCEPT ![p][q] = record.identityKey]
  /\ fresh' = [fresh EXCEPT ![p] = @ + 2]
  /\ UNCHANGED <<install, preKeys, signedPreKeys, published, network, delivered,
                 leftover>>

\* The PreKeyWhisperMessage that carries a message of a pending session.
Header(p, session) ==
  IF session.pendingPreKey = None THEN None
  ELSE [identityKey |-> Identity(p), registrationId |-> install[p],
        preKeyId |-> session.pendingPreKey.preKeyId,
        signedPreKeyId |-> session.pendingPreKey.signedKeyId,
        baseKey |-> session.pendingPreKey.baseKey]

\* encrypt: p stores the advanced session, then returns the message.
Encrypt(p, q) ==
  /\ Cardinality(Sent(p)) < MaxSend
  /\ records[p][q] # None
  /\ OpenKeys(records[p][q]) # {}
  /\ ~DuplicateOpenSessions(records[p][q])
  /\ LET record == records[p][q]
         session == OpenSession(record)
         whisper == WhisperMessage(session, Identity(p))
     IN  /\ CanEncrypt(session)
         /\ CanUpdateSessionState(record, Encrypted(session), None)
         /\ records' = [records EXCEPT ![p][q] =
                          UpdateSessionState(record, Encrypted(session), None)]
         /\ network' = network \cup
              {[from |-> p, to |-> q, header |-> Header(p, session),
                ephemeralKey |-> whisper.ephemeralKey,
                counter |-> whisper.counter,
                previousCounter |-> whisper.previousCounter,
                mac |-> whisper.mac,
                plaintext |-> Cardinality(Sent(p)) + 1]}
  /\ UNCHANGED <<install, trusted, preKeys, signedPreKeys, server, fresh,
                 delivered, leftover>>

\* The key pair createKeyPair returns to p when it steps a ratchet, and the
\* pairs drawn after a message was decrypted in a session.
NextKey(p) == SessionKey(p, fresh[p] + 1)
DrawnAfter(p, session, message) ==
  IF message.ephemeralKey \in DOMAIN session.chains THEN fresh[p]
                                                    ELSE fresh[p] + 1

SessionDecrypts(p, session, message) ==
  Decrypts(session, message, Identity(p), NextKey(p))

\* The message decrypts in the session, and the record can be updated with it.
Accepts(p, record, session, message) ==
  /\ SessionDecrypts(p, session, message)
  /\ CanUpdateSessionState(record, Decrypted(session, message, NextKey(p)), None)

\* The record with the session is stored and the plaintext returned.
StoreDecrypted(p, record, session, message) ==
  LET after == Decrypted(session, message, NextKey(p))
  IN  /\ records' = [records EXCEPT ![p][message.from] =
                       UpdateSessionState(record, after, None)]
      /\ fresh' = [fresh EXCEPT ![p] = DrawnAfter(p, session, message)]
      /\ delivered' = delivered \cup {message}
      /\ UNCHANGED <<install, signedPreKeys, server, network>>

\* The sessions of a record in which a message decrypts.
Decrypting(p, message) ==
  LET record == records[p][message.from]
  IN  {key \in DOMAIN record.sessions :
         SessionDecrypts(p, record.sessions[key], message)}

\* decryptWhisperMessage comes to the session under this key: of those that
\* decrypt the message it is tried first.
CanDecryptWhisper(p, message, key) ==
  LET record == records[p][message.from]
  IN  /\ key \in Decrypting(p, message)
      /\ \A other \in Decrypting(p, message) : ~TriedBefore(record, other, key)
      /\ Accepts(p, record, record.sessions[key], message)

WhisperMessageArrives(p, message) == /\ message \in network
                                     /\ message.to = p
                                     /\ message.header = None
                                     /\ records[p][message.from] # None

\* decryptWhisperMessage
DecryptWhisperMessage(p, message) ==
  /\ WhisperMessageArrives(p, message)
  /\ \E key \in Decrypting(p, message) :
       /\ CanDecryptWhisper(p, message, key)
       /\ StoreDecrypted(p, records[p][message.from],
                         records[p][message.from].sessions[key], message)
  /\ UNCHANGED <<trusted, preKeys, leftover>>

-----------------------------------------------------------------------------
\* decryptPreKeyWhisperMessage begins: the record it works on, and the checks
\* of processV3 that come first.
WorkingRecord(p, message) ==
  IF records[p][message.from] = None
    THEN NewRecord(message.header.identityKey, message.header.registrationId)
    ELSE records[p][message.from]

PreKeyMessageArrives(p, message) ==
  /\ message \in network
  /\ message.to = p
  /\ message.header # None
  /\ IsTrusted(trusted[p][message.from], message.header.identityKey)

\* The session of the header was made by an earlier message.
CanDecryptInKnownSession(p, message) ==
  LET record == WorkingRecord(p, message)
  IN  /\ PreKeyMessageArrives(p, message)
      /\ IsDuplicate(record, message.header)
      /\ Accepts(p, record, record.sessions[message.header.baseKey], message)

DecryptInKnownSession(p, message) ==
  /\ CanDecryptInKnownSession(p, message)
  /\ StoreDecrypted(p, WorkingRecord(p, message),
       WorkingRecord(p, message).sessions[message.header.baseKey], message)
  /\ UNCHANGED <<trusted, preKeys, leftover>>

\* Fault: the signed prekey in use is taken, not the one the header names.
HeaderSessionCurrentKey(p, header) ==
  ResponderSession(Identity(p),
    IF header.preKeyId \in preKeys[p]
      THEN PreKey(p, install[p], header.preKeyId) ELSE None,
    SignedPreKey(p, install[p], published[p]),
    header.identityKey, header.baseKey)

\* The session processV3 makes from a header; a one-time prekey the storage
\* does not have leaves the fourth secret out.
HeaderSession(p, header) ==
  ResponderSession(Identity(p),
    IF header.preKeyId \in preKeys[p]
      THEN PreKey(p, install[p], header.preKeyId) ELSE None,
    SignedPreKey(p, install[p], header.signedPreKeyId),
    header.identityKey, header.baseKey)

\* processV3 makes a new session, and puts it in the record it works on.
NewSessionArrives(p, message) ==
  /\ PreKeyMessageArrives(p, message)
  /\ ~IsDuplicate(WorkingRecord(p, message), message.header)
  /\ message.header.signedPreKeyId \in signedPreKeys[p]
  /\ CanAddSession(WorkingRecord(p, message), HeaderSession(p, message.header),
                   message.header)

RecordAfterV3(p, message) ==
  RecordWithNewSession(WorkingRecord(p, message),
                       HeaderSession(p, message.header), message.header)

CanDecryptInNewSession(p, message) ==
  /\ NewSessionArrives(p, message)
  /\ Accepts(p, RecordAfterV3(p, message), HeaderSession(p, message.header),
             message)

\* The record with the new session is stored, and the identity was saved.
StoreNewSession(p, message) ==
  /\ CanDecryptInNewSession(p, message)
  /\ StoreDecrypted(p, RecordAfterV3(p, message),
                    HeaderSession(p, message.header), message)
  /\ trusted' = [trusted EXCEPT ![p][message.from] = message.header.identityKey]

\* Fault: the one-time prekey is not removed.
DecryptInNewSessionKeepingPreKey(p, message) ==
  /\ StoreNewSession(p, message)
  /\ UNCHANGED <<preKeys, leftover>>

\* The record is stored, then the one-time prekey removed.
DecryptInNewSession(p, message) ==
  /\ StoreNewSession(p, message)
  /\ preKeys' = [preKeys EXCEPT ![p] = @ \ {message.header.preKeyId}]
  /\ UNCHANGED leftover

\* The record is stored, and the storage refuses to remove the prekey, or the
\* process stops before it does: the session is there and so is its prekey.
\* The plaintext is not returned, but the message is read and not read again.
DecryptLeavingPreKey(p, message) ==
  /\ Cardinality(leftover) < MaxLeftover
  /\ StoreNewSession(p, message)
  /\ leftover' = leftover \cup {PreKey(p, install[p], message.header.preKeyId)}
  /\ UNCHANGED preKeys

\* The message does not decrypt: the record is dropped, but processV3 has
\* saved the identity.
RejectNewSession(p, message) ==
  /\ NewSessionArrives(p, message)
  /\ ~Accepts(p, RecordAfterV3(p, message), HeaderSession(p, message.header),
              message)
  /\ trusted' = [trusted EXCEPT ![p][message.from] = message.header.identityKey]
  /\ UNCHANGED <<install, preKeys, signedPreKeys, records, server, fresh,
                 network, delivered, leftover>>

\* closeOpenSessionForDevice
CloseOpenSession(p, q) ==
  /\ records[p][q] # None
  /\ OpenKeys(records[p][q]) # {}
  /\ CanArchive(records[p][q])
  /\ records' = [records EXCEPT ![p][q] = ArchiveCurrentState(@)]
  /\ UNCHANGED <<install, trusted, preKeys, signedPreKeys, server, fresh,
                 network, delivered, leftover>>

-----------------------------------------------------------------------------
\* The application around the library.

\* A new signed prekey is made and published; the one before it is kept for
\* the messages under way, or removed.
RotateSignedPreKey(p) ==
  /\ published[p] + 1 \in SignedPreKeyIds
  /\ published' = [published EXCEPT ![p] = @ + 1]
  /\ \E kept \in SUBSET signedPreKeys[p] :
       signedPreKeys' = [signedPreKeys EXCEPT ![p] = kept \cup {published[p] + 1}]
  /\ UNCHANGED <<install, trusted, preKeys, records, unissued, fresh, network,
                 delivered, leftover>>

\* The party loses its storage and installs again, with new keys.
Reinstall(p) ==
  /\ install[p] < MaxInstall
  /\ install' = [install EXCEPT ![p] = @ + 1]
  /\ trusted' = [trusted EXCEPT ![p] = [q \in Parties |-> None]]
  /\ preKeys' = [preKeys EXCEPT ![p] = PreKeyIds]
  /\ signedPreKeys' = [signedPreKeys EXCEPT ![p] = {1}]
  /\ records' = [records EXCEPT ![p] = [q \in Parties |-> None]]
  /\ published' = [published EXCEPT ![p] = 1]
  /\ unissued' = [unissued EXCEPT ![p] = PreKeyIds]
  /\ UNCHANGED <<fresh, network, delivered, leftover>>

\* The user accepts a peer's new identity key: it is saved, and the record
\* bound to the old one is removed from the storage, or left there.
AcceptIdentity(p, q) ==
  /\ trusted[p][q] \notin {None, Identity(q)}
  /\ trusted' = [trusted EXCEPT ![p][q] = Identity(q)]
  /\ \E record \in {records[p][q], None} :
       records' = [records EXCEPT ![p][q] = record]
  /\ UNCHANGED <<install, preKeys, signedPreKeys, server, fresh, network,
                 delivered, leftover>>

\* A decryption that reads the message.
Decrypt(p, message) == \/ DecryptWhisperMessage(p, message)
                       \/ DecryptInKnownSession(p, message)
                       \/ DecryptInNewSession(p, message)
                       \/ DecryptLeavingPreKey(p, message)

Next == \E p \in Parties :
          \/ \E q \in Parties \ {p} : \/ BuildSession(p, q)
                                      \/ Encrypt(p, q)
                                      \/ CloseOpenSession(p, q)
                                      \/ AcceptIdentity(p, q)
          \/ \E message \in network : \/ Decrypt(p, message)
                                       \/ RejectNewSession(p, message)
          \/ RotateSignedPreKey(p)
          \/ Reinstall(p)

Spec == Init /\ [][Next]_vars

-----------------------------------------------------------------------------
\* The types of the state.  A map is a function on some of the keys.
Key == ({"identity", "session"} \X Parties \X Nat)
          \cup ({"signed", "prekey"} \X Parties \X Nat \X Nat)

\* undefined and null are not keys.
ASSUME KeyAssumption == None \notin Key

\* Nor are they numbers.
ASSUME NumberAssumption == None \notin Nat

Secrets == Seq(SUBSET Key)
Chain == [chainType : {"SENDING", "RECEIVING"}, seed : Secrets, counter : Int,
          live : BOOLEAN, messageKeys : SUBSET Nat]
PendingPreKey == [preKeyId : Nat, signedKeyId : Nat, baseKey : Key]
IsMap(map, Values) == /\ DOMAIN map \subseteq Key
                      /\ map \in [DOMAIN map -> Values]
IsSession(s) ==
  /\ s \in [rootKey : Secrets, ephemeralKeyPair : Key,
            lastRemoteEphemeralKey : Key, previousCounter : Int,
            remoteIdentityKey : Key, closed : Int, baseKey : Key,
            baseKeyType : {"OURS", "THEIRS"}, oldRatchetList : Seq(Key),
            pendingPreKey : PendingPreKey \cup {None}, chains : {s.chains}]
  /\ IsMap(s.chains, Chain)
IsRecord(r) ==
  /\ r \in [identityKey : Key, registrationId : Nat \cup {None},
            sessions : {r.sessions}]
  /\ DOMAIN r.sessions \subseteq Key
  /\ r.sessions = [key \in DOMAIN r.sessions |-> r.sessions[key]]
  /\ \A key \in DOMAIN r.sessions : IsSession(r.sessions[key])
MessageHeader == [identityKey : Key, registrationId : Nat, preKeyId : Nat,
                  signedPreKeyId : Nat, baseKey : Key]
Message == [from : Parties, to : Parties, header : MessageHeader \cup {None},
            ephemeralKey : Key, counter : Int, previousCounter : Int,
            mac : [key : [seed : Secrets, counter : Int], sender : Key,
                   receiver : Key],
            plaintext : Nat]

TypeOK ==
  /\ install \in [Parties -> Nat]
  /\ trusted \in [Parties -> [Parties -> Key \cup {None}]]
  /\ preKeys \in [Parties -> SUBSET PreKeyIds]
  /\ signedPreKeys \in [Parties -> SUBSET SignedPreKeyIds]
  /\ DOMAIN records = Parties
  /\ \A p \in Parties :
       /\ DOMAIN records[p] = Parties
       /\ \A q \in Parties : records[p][q] # None => IsRecord(records[p][q])
  /\ published \in [Parties -> SignedPreKeyIds]
  /\ unissued \in [Parties -> SUBSET PreKeyIds]
  /\ fresh \in [Parties -> Nat]
  /\ network \subseteq Message
  /\ delivered \subseteq network
  /\ leftover \subseteq Key

-----------------------------------------------------------------------------
Stored(p) == {records[p][q] : q \in {r \in Parties : records[p][r] # None}}
SessionsOf(record) == {record.sessions[key] : key \in DOMAIN record.sessions}
SessionsAt(p) == UNION {SessionsOf(record) : record \in Stored(p)}
ChainsOf(session) == {session.chains[key] : key \in DOMAIN session.chains}

\* A stored record has one open session at most, and a registration id exactly
\* when it has one: neither detectDuplicateOpenSessions nor the last branch
\* of updateSessionState can throw, and haveOpenSession tells the truth.
OneOpenSession ==
  \A p \in Parties : \A record \in Stored(p) :
    /\ \A k1, k2 \in OpenKeys(record) : k1 = k2
    /\ HaveOpenSession(record) <=> OpenKeys(record) # {}

\* An open session can always encrypt, whatever was received, closed, pruned
\* or refused before: its sending chain is there, live and of the right type.
OpenSessionCanSend ==
  \A p \in Parties : \A record \in Stored(p) :
    \A key \in OpenKeys(record) :
      /\ CanEncrypt(record.sessions[key])
      /\ CanUpdateSessionState(record, Encrypted(record.sessions[key]), None)

\* One of the secrets the message's session started from is a one-time prekey
\* that was left behind.
OfLeftoverPreKey(message) ==
  \E i \in DOMAIN message.mac.key.seed : message.mac.key.seed[i] \cap leftover # {}

\* A message that was read is never decrypted again, in any session and under
\* any later state: not after its chain or its session was pruned, nor after
\* the ratchet moved on.  Only calls of the storage that remove a prekey fail
\* here, and they make the exception: once a session whose prekey was left
\* behind is pruned, its PreKeyWhisperMessages make it again.
ReadOnce ==
  [][\A message \in delivered :
       Decrypt(message.to, message) => OfLeftoverPreKey(message)]_vars

\* No two messages are encrypted under one message key.
NoKeyReuse ==
  \A m1, m2 \in network : m1.mac.key = m2.mac.key => m1 = m2

\* What a stored session still lets its owner derive: the keys stored, the
\* later ones of a live chain, and the chains the current root key and key
\* pair lead to.
Derives(session, key) ==
  \/ \E chain \in ChainsOf(session) :
       /\ chain.seed = key.seed
       /\ \/ key.counter \in chain.messageKeys
          \/ chain.live /\ key.counter > chain.counter
  \/ \E secret \in {key.seed[i] : i \in DOMAIN key.seed} :
       /\ session.ephemeralKeyPair \in secret
       /\ key.seed = HKDF(session.rootKey, secret)

\* Forward secrecy: neither the sender nor a receiver that has read a message
\* keeps anything its key can be derived from.  The receiver may, once more,
\* where the prekey of the message's session could not be removed.
KeysErased ==
  \A message \in network :
    /\ \A session \in SessionsAt(message.from) :
         ~Derives(session, message.mac.key)
    /\ message \in delivered /\ ~OfLeftoverPreKey(message) =>
         \A session \in SessionsAt(message.to) :
           ~Derives(session, message.mac.key)

\* A receiving chain is never ahead of the messages sent on it: the counter
\* it stands at, and every key it stores, is that of a message of the peer.
\* So previousCounter never makes a receiver derive keys of messages that
\* do not exist, which would fill the chain up to the limit.
ReceiverNotAhead ==
  \A p \in Parties : \A session \in SessionsAt(p) :
    \A chain \in ChainsOf(session) :
      chain.chainType = "RECEIVING" =>
        \A counter \in chain.messageKeys \cup {chain.counter} :
          \E message \in network :
            /\ message.to = p
            /\ message.mac.key = MessageKey(chain.seed, counter)

\* One of the decryptions succeeds.
Readable(p, message) ==
  \/ /\ WhisperMessageArrives(p, message)
     /\ \E key \in Decrypting(p, message) : CanDecryptWhisper(p, message, key)
  \/ CanDecryptInKnownSession(p, message)
  \/ CanDecryptInNewSession(p, message)

\* The network hands over, in the end, some message its addressee has not
\* read yet, as long as there is one that it can read: weak fairness of
\* ReadSome, with its guard written out where the definition has ENABLED.
ReadSome(p) == \E message \in network \ delivered : Decrypt(p, message)
CanReadSome(p) ==
  \E message \in network \ delivered : message.to = p /\ Readable(p, message)
FairSpec == Spec /\ \A p \in Parties : \/ []<>~CanReadSome(p)
                                      \/ []<><<ReadSome(p)>>_vars

\* p still has what its end of a message's session was made from.
SameAgreement(session, message) ==
  SubSeq(session.rootKey, 1, 4) = SubSeq(message.mac.key.seed, 1, 4)
HoldsPreKeys(p, header) ==
  /\ header.preKeyId \in preKeys[p]
  /\ header.signedPreKeyId \in signedPreKeys[p]
AcceptsSender(p, message) ==
  /\ message.header # None =>
       IsTrusted(trusted[p][message.from], message.mac.sender)
  /\ records[p][message.from] # None =>
       records[p][message.from].identityKey = message.mac.sender

\* As long as no limit of the code binds, a message that was sent and not
\* read yet can be read, in whatever order messages arrive and whatever the
\* parties did meanwhile: both of them opening sessions at once, closing
\* them, building new ones, stepping ratchets.  Only a new installation, an
\* identity that is not accepted or a signed prekey that was removed lose it.
EveryMessageReadable ==
  \A message \in network \ delivered :
    LET p == message.to
    IN  /\ message.mac.receiver = Identity(p)
        /\ AcceptsSender(p, message)
        /\ \/ \E session \in SessionsAt(p) : SameAgreement(session, message)
           \/ message.header # None /\ HoldsPreKeys(p, message.header)
        => Readable(p, message)

\* The limits hold in every stored record: the message keys of a chain, the
\* retired chains of a session, the sessions of a record.  The last one
\* keeps the loop of removeOldSessions from running for ever.  The limit of
\* sessions is the code's ARCHIVED_STATES_MAX_LENGTH, 40, open one included;
\* the comment of removeOldSessions says "only the last 20 sessions".
WithinLimits ==
  \A p \in Parties : \A record \in Stored(p) :
    /\ Cardinality(DOMAIN record.sessions) <= MaxSessions
    /\ \A session \in SessionsOf(record) :
         /\ Len(session.oldRatchetList) <= MaxOldChains
         /\ MessageKeysLimit # 0 =>
              \A chain \in ChainsOf(session) :
                Cardinality(chain.messageKeys) <= MessageKeysLimit

\* All sessions of a record are with the identity key the record is bound to.
OneIdentity ==
  \A p \in Parties : \A record \in Stored(p) :
    \A session \in SessionsOf(record) :
      session.remoteIdentityKey = record.identityKey

\* The peer's name has no other trusted key than the session's before the
\* step, and this one after it.
NewSessionTrusted(p, q, session) ==
  /\ trusted[p][q] \in {None, session.remoteIdentityKey}
  /\ trusted'[p][q] = session.remoteIdentityKey

\* A message or a device never replaces the key trusted for a peer's name: only
\* the user does, and a new installation has none.
TrustKept(p, q) ==
  trusted[p][q] # None /\ trusted'[p][q] \notin {None, trusted[p][q]}
    => AcceptIdentity(p, q)

\* A session is made only with the identity key that is trusted for the
\* peer's name, or that becomes it in the same step.  processV3 saves the
\* identity of a message before it is decrypted, and so also that of one that
\* is rejected; what it saves is at most the first key of a name, never
\* another one in the place of a trusted key.
NewSessionsTrusted ==
  [][\A p, q \in Parties :
       /\ records'[p][q] # None =>
            \A key \in DOMAIN records'[p][q].sessions :
              records[p][q] = None \/ key \notin DOMAIN records[p][q].sessions
                => NewSessionTrusted(p, q, records'[p][q].sessions[key])
       /\ TrustKept(p, q)]_vars

\* A closed session stays closed as long as it is kept: no late message, no
\* duplicate of the message that made it, re-opens it.
ClosedForever ==
  [][\A p, q \in Parties :
       records[p][q] # None /\ records'[p][q] # None =>
         \A key \in DOMAIN records[p][q].sessions
                  \cap DOMAIN records'[p][q].sessions :
           ~IsOpen(records[p][q].sessions[key]) =>
             records'[p][q].sessions[key].closed
               = records[p][q].sessions[key].closed]_vars

\* With a network that does not lose messages for ever, every message sent is
\* read in the end.
EveryMessageRead == <>[](network = delivered)

\* The comment of closeSession: after it "we cannot send messages or step the
\* ratchet".  The code does step the ratchet of a closed session.
ClosedSessionDoesNotStep ==
  [][\A p, q \in Parties :
       records[p][q] # None /\ records'[p][q] # None =>
         \A key \in DOMAIN records[p][q].sessions
                  \cap DOMAIN records'[p][q].sessions :
           ~IsOpen(records[p][q].sessions[key]) =>
             records'[p][q].sessions[key].rootKey
               = records[p][q].sessions[key].rootKey]_vars

\* The comment of removeOldChains: receiving ratchets are added to the list,
\* of which all but the last five are removed.  Every chain on the list is
\* still there, unless the list names it twice.
ListedChainsKept ==
  \A p \in Parties : \A session \in SessionsAt(p) :
    ToSet(session.oldRatchetList) \subseteq DOMAIN session.chains
=============================================================================
