-------------------------- MODULE SessionRecordProofs --------------------------
(***************************************************************************)
(* Lemmas about the operators on sessions and records: what the ratchet    *)
(* leaves alone in a session, and what updateSessionState and              *)
(* archiveCurrentState do to a record.                                     *)
(***************************************************************************)
EXTENDS SessionBuilder, TLAPS, FiniteSetTheorems, WellFoundedInduction

SessionFields == {"rootKey", "ephemeralKeyPair", "lastRemoteEphemeralKey",
                  "previousCounter", "remoteIdentityKey", "closed", "baseKey",
                  "baseKeyType", "oldRatchetList", "pendingPreKey", "chains"}
RecordFields == {"identityKey", "registrationId", "sessions"}

\* What the record looks at in a session: t has it from s.
SameHead(s, t) == /\ DOMAIN s = SessionFields
                  /\ DOMAIN t = SessionFields
                  /\ t.closed = s.closed
                  /\ t.baseKey = s.baseKey
                  /\ t.remoteIdentityKey = s.remoteIdentityKey

-----------------------------------------------------------------------------
\* removeOldChains works on the chains only.
LEMMA RemoveOldChainsKeepsHead ==
  ASSUME NEW s, DOMAIN s = SessionFields
  PROVE  SameHead(s, RemoveOldChains(s))
  BY DEF SameHead, RemoveOldChains, SessionFields

\* calculateRatchet makes a chain and a root key.
LEMMA CalculateRatchetKeepsHead ==
  ASSUME NEW s, DOMAIN s = SessionFields, NEW key, NEW sending
  PROVE  SameHead(s, CalculateRatchet(s, key, sending))
  BY DEF SameHead, CalculateRatchet, SessionFields

\* The two halves of a turn of the ratchet.
LEMMA RetireKeepsHead ==
  ASSUME NEW s, DOMAIN s = SessionFields, NEW previousCounter
  PROVE  /\ SameHead(s, RetireReceivingChain(s, previousCounter))
         /\ SameHead(s, RetireSendingChain(s))
<1>1. SameHead(s, RetireReceivingChain(s, previousCounter))
  BY DEF SameHead, RetireReceivingChain, SessionFields
<1>2. SameHead(s, RetireSendingChain(s))
  BY DEF SameHead, RetireSendingChain, SessionFields
<1> QED  BY <1>1, <1>2

\* maybeStepRatchet changes neither the state of a session nor whose it is.
LEMMA MaybeStepRatchetKeepsHead ==
  ASSUME NEW s, DOMAIN s = SessionFields, NEW key, NEW previousCounter, NEW keyPair
  PROVE  SameHead(s, MaybeStepRatchet(s, key, previousCounter, keyPair))
<1>1. CASE key \in DOMAIN s.chains
  BY <1>1 DEF MaybeStepRatchet, SameHead
<1>2. CASE key \notin DOMAIN s.chains
  <2> DEFINE retired == RetireReceivingChain(s, previousCounter)
             received == CalculateRatchet(retired, key, FALSE)
             unsent == RetireSendingChain(received)
             swapped == [unsent EXCEPT !.ephemeralKeyPair = keyPair]
             sending == CalculateRatchet(swapped, key, TRUE)
  <2>1. SameHead(s, retired)
    BY RetireKeepsHead
  <2>2. SameHead(retired, received)
    BY ZenonT(40), <2>1, CalculateRatchetKeepsHead DEF SameHead
  <2>3. SameHead(received, unsent)
    BY <2>2, RetireKeepsHead DEF SameHead
  <2>4. SameHead(unsent, swapped)
    BY <2>3 DEF SameHead, SessionFields
  <2>5. SameHead(swapped, sending)
    BY ZenonT(40), <2>4, CalculateRatchetKeepsHead DEF SameHead
  <2>6. SameHead(s, sending)
    BY <2>1, <2>2, <2>3, <2>4, <2>5 DEF SameHead
  <2>7. SameHead(sending, [sending EXCEPT !.lastRemoteEphemeralKey = key])
    <3> HIDE DEF sending
    <3> QED  BY <2>6 DEF SameHead, SessionFields
  <2>8. MaybeStepRatchet(s, key, previousCounter, keyPair)
          = [sending EXCEPT !.lastRemoteEphemeralKey = key]
    BY <1>2 DEF MaybeStepRatchet
  <2> QED
    <3> HIDE DEF sending
    <3> QED  BY <2>6, <2>7, <2>8 DEF SameHead
<1> QED  BY <1>1, <1>2

\* Decrypting and encrypting change the chains, the keys and pendingPreKey.
LEMMA DecryptedKeepsHead ==
  ASSUME NEW s, DOMAIN s = SessionFields, NEW message, NEW keyPair
  PROVE  SameHead(s, Decrypted(s, message, keyPair))
<1> DEFINE stepped == Stepped(s, message, keyPair)
<1>1. SameHead(s, stepped)
  BY MaybeStepRatchetKeepsHead DEF Stepped
<1>2. SameHead(stepped, Decrypted(s, message, keyPair))
  <2> DEFINE chain == FillMessageKeys(stepped.chains[message.ephemeralKey],
                                      message.counter)
             after == [chain EXCEPT !.messageKeys = @ \ {message.counter}]
  <2>1. Decrypted(s, message, keyPair)
          = [stepped EXCEPT !.chains[message.ephemeralKey] = after,
                            !.pendingPreKey = None]
    BY DEF Decrypted
  <2> HIDE DEF stepped, after
  <2> QED  BY <1>1, <2>1 DEF SameHead, SessionFields
<1> QED  BY <1>1, <1>2 DEF SameHead

LEMMA EncryptedKeepsHead ==
  ASSUME NEW s, DOMAIN s = SessionFields
  PROVE  SameHead(s, Encrypted(s))
  BY DEF Encrypted, SameHead, SessionFields

-----------------------------------------------------------------------------
\* A finite set has an element of the greatest time, whatever gives the times.
LEMMA LatestExists ==
  ASSUME NEW S, IsFiniteSet(S), S # {}, NEW time, \A x \in S : time[x] \in Int
  PROVE  \E last \in S : \A x \in S : time[x] <= time[last]
<1> DEFINE HasLast(U) == \E last \in U : \A x \in U : time[x] <= time[last]
           Without == {U \in FiniteSubsetsOf(S) : U # {} /\ ~HasLast(U)}
<1>1. SUFFICES ASSUME ~HasLast(S)  PROVE FALSE
  OBVIOUS
<1>2. S \in Without
  BY <1>1 DEF FiniteSubsetsOf
<1>3. PICK U \in Without :
        \A V \in Without : <<V, U>> \notin StrictSubsetOrdering(S)
  <2>1. IsWellFoundedOn(StrictSubsetOrdering(S), FiniteSubsetsOf(S))
    BY FS_StrictSubsetOrderingWellFounded
  <2> QED  BY <1>2, <2>1, WFMin
<1>4. PICK y \in U : TRUE
  OBVIOUS
<1>5. U \ {y} \in FiniteSubsetsOf(S) /\ <<U \ {y}, U>> \in StrictSubsetOrdering(S)
  BY <1>4, FS_RemoveElement DEF FiniteSubsetsOf, StrictSubsetOrdering
<1>6. CASE U \ {y} = {}
  BY <1>4, <1>6 DEF FiniteSubsetsOf
<1>7. CASE U \ {y} # {}
  <2>1. PICK last \in U \ {y} : \A x \in U \ {y} : time[x] <= time[last]
    BY <1>3, <1>5, <1>7
  <2>2. U \subseteq S
    BY DEF FiniteSubsetsOf
  <2>3. CASE time[y] <= time[last]
    BY <2>1, <2>2, <2>3
  <2>4. CASE time[last] <= time[y]
    BY <1>4, <2>1, <2>2, <2>4
  <2> QED  BY <1>4, <2>1, <2>2, <2>3, <2>4
<1> QED  BY <1>6, <1>7

-----------------------------------------------------------------------------
\* A record that the operations keep sound: its sessions are finitely many,
\* each under its base key and with the identity of the record, and one of
\* them is open at most.
RecordOK(record) ==
  /\ DOMAIN record = RecordFields
  /\ IsFiniteSet(DOMAIN record.sessions)
  /\ \A key \in DOMAIN record.sessions :
       /\ DOMAIN record.sessions[key] = SessionFields
       /\ record.sessions[key].closed \in Int
       /\ record.sessions[key].baseKey = key
       /\ record.sessions[key].remoteIdentityKey = record.identityKey
  /\ \A k1, k2 \in OpenKeys(record) : k1 = k2

\* A new record has no sessions.
LEMMA NewRecordOK ==
  ASSUME NEW identityKey, NEW registrationId
  PROVE  /\ RecordOK(NewRecord(identityKey, registrationId))
         /\ NewRecord(identityKey, registrationId).sessions = EmptyMap
         /\ NewRecord(identityKey, registrationId).identityKey = identityKey
  BY FS_EmptySet
  DEF RecordOK, NewRecord, EmptyMap, OpenKeys, RecordFields

\* removeOldSessions deletes, and changes nothing it keeps.
LEMMA RemoveOldSessionsKeeps ==
  ASSUME NEW sessions
  PROVE  /\ DOMAIN RemoveOldSessions(sessions) \subseteq DOMAIN sessions
         /\ \A key \in DOMAIN RemoveOldSessions(sessions) :
              RemoveOldSessions(sessions)[key] = sessions[key]
  BY DEF RemoveOldSessions, Delete

\* What updateSessionState puts in the place of the sessions.
LEMMA SessionsWithKeeps ==
  ASSUME NEW record, NEW session, DOMAIN session = SessionFields
  PROVE  /\ DOMAIN SessionsWith(record, session)
              \subseteq DOMAIN record.sessions \cup {session.baseKey}
         /\ \A key \in DOMAIN SessionsWith(record, session) \ {session.baseKey} :
              SessionsWith(record, session)[key] = record.sessions[key]
         /\ session.baseKey \in DOMAIN SessionsWith(record, session) =>
              SameHead(session, SessionsWith(record, session)[session.baseKey])
<1> DEFINE sessions == Put(record.sessions, session.baseKey, RemoveOldChains(session))
<1>1. /\ DOMAIN sessions = DOMAIN record.sessions \cup {session.baseKey}
      /\ \A key \in DOMAIN sessions \ {session.baseKey} :
           sessions[key] = record.sessions[key]
      /\ sessions[session.baseKey] = RemoveOldChains(session)
  BY DEF Put
<1>2. SessionsWith(record, session) = RemoveOldSessions(sessions)
  BY DEF SessionsWith
<1> HIDE DEF sessions
<1> QED  BY <1>1, <1>2, RemoveOldSessionsKeeps, RemoveOldChainsKeepsHead

\* updateSessionState keeps a record sound when it replaces its open session,
\* adds a closed one or adds an open one to a record without one; whether
\* the record has a registration id then tells whether it has an open session.
LEMMA UpdateSessionStateKeeps ==
  ASSUME NEW record, RecordOK(record),
         NEW session, DOMAIN session = SessionFields, session.closed \in Int,
         NEW id, CanUpdateSessionState(record, session, id),
         IsOpen(session) => OpenKeys(record) \subseteq {session.baseKey}
  PROVE  LET updated == UpdateSessionState(record, session, id)
         IN  /\ RecordOK(updated)
             /\ updated.identityKey = record.identityKey
             /\ updated.sessions = SessionsWith(record, session)
             /\ HaveOpenSession(updated) <=> OpenKeys(updated) # {}
             /\ OpenKeys(updated) \subseteq OpenKeys(record) \cup {session.baseKey}
             /\ ~IsOpen(session) => session.baseKey \notin OpenKeys(updated)
<1> DEFINE sessions == SessionsWith(record, session)
           updated == UpdateSessionState(record, session, id)
           open == \E key \in DOMAIN sessions : IsOpen(sessions[key])
<1>1. /\ DOMAIN sessions \subseteq DOMAIN record.sessions \cup {session.baseKey}
      /\ \A key \in DOMAIN sessions \ {session.baseKey} :
           sessions[key] = record.sessions[key]
      /\ session.baseKey \in DOMAIN sessions =>
           SameHead(session, sessions[session.baseKey])
  BY SessionsWithKeeps
<1>2. /\ record.identityKey = session.remoteIdentityKey
      /\ record.registrationId = None /\ id = None => ~open
  BY DEF CanUpdateSessionState
<1>3. /\ DOMAIN updated = RecordFields
      /\ updated.sessions = sessions
      /\ updated.identityKey = record.identityKey
      /\ updated.registrationId = IF ~open THEN None
                                  ELSE IF record.registrationId = None THEN id
                                  ELSE record.registrationId
  BY DEF UpdateSessionState, RecordOK, RecordFields
<1> HIDE DEF sessions, updated
<1>4. OpenKeys(updated) \subseteq OpenKeys(record) \cup {session.baseKey}
  BY <1>1, <1>3 DEF OpenKeys
<1>5. ~IsOpen(session) => session.baseKey \notin OpenKeys(updated)
  BY <1>1, <1>3 DEF OpenKeys, IsOpen, SameHead
<1>6. HaveOpenSession(updated) <=> OpenKeys(updated) # {}
  BY <1>2, <1>3 DEF HaveOpenSession, OpenKeys
<1>7. RecordOK(updated)
  <2>1. IsFiniteSet(DOMAIN updated.sessions)
    <3>1. IsFiniteSet(DOMAIN record.sessions \cup {session.baseKey})
      BY FS_AddElement DEF RecordOK
    <3> QED  BY <1>1, <1>3, <3>1, FS_Subset
  <2>2. ASSUME NEW key \in DOMAIN updated.sessions
        PROVE  /\ DOMAIN updated.sessions[key] = SessionFields
               /\ updated.sessions[key].closed \in Int
               /\ updated.sessions[key].baseKey = key
               /\ updated.sessions[key].remoteIdentityKey = updated.identityKey
    <3>1. CASE key = session.baseKey
      BY <1>1, <1>2, <1>3, <3>1 DEF SameHead
    <3>2. CASE key # session.baseKey
      BY <1>1, <1>3, <3>2 DEF RecordOK
    <3> QED  BY <3>1, <3>2
  <2>3. \A k1, k2 \in OpenKeys(updated) : k1 = k2
    BY <1>4, <1>5 DEF RecordOK
  <2> QED  BY <1>3, <2>1, <2>2, <2>3 DEF RecordOK
<1> QED  BY <1>3, <1>4, <1>5, <1>6, <1>7 DEF sessions, updated

-----------------------------------------------------------------------------
\* The time of a closing is positive, so a session that is closed is not open.
LEMMA NowIsPositive ==
  ASSUME NEW record, RecordOK(record)
  PROVE  Now(record) \in Int /\ Now(record) >= 1
<1> DEFINE keys == DOMAIN record.sessions
           time == [key \in keys |-> record.sessions[key].closed]
           times == {record.sessions[key].closed : key \in keys}
           Later == {t + 1 : t \in times} \cup {1}
<1>1. times \subseteq Int /\ Later \subseteq Int
  BY DEF RecordOK
<1>2. \E now \in Later : now >= 1 /\ \A t \in times : t < now
  <2>1. CASE \A t \in times : t <= 0
    <3>1. 1 \in Later
      OBVIOUS
    <3>2. \A t \in times : t < 1
      <4> HIDE DEF times, Later
      <4> QED  BY <1>1, <2>1
    <3> HIDE DEF times, Later
    <3> QED  BY <3>1, <3>2
  <2>2. CASE \E t \in times : t > 0
    <3>1. PICK last \in keys : \A key \in keys : time[key] <= time[last]
      <4>1. IsFiniteSet(keys) /\ keys # {} /\ \A key \in keys : time[key] \in Int
        BY <2>2 DEF RecordOK
      <4> HIDE DEF keys, time
      <4> QED  BY <4>1, LatestExists
    <3>2. /\ time[last] \in times
          /\ time[last] + 1 \in Later
          /\ \A t \in times : t <= time[last]
      BY <3>1
    <3> HIDE DEF time, times, Later
    <3>3. PICK t \in times : t > 0
      BY <2>2
    <3>4. t \in Int /\ time[last] \in Int /\ t <= time[last]
      BY <1>1, <3>2, <3>3
    <3>5. time[last] + 1 >= 1
      BY <3>3, <3>4
    <3>6. ASSUME NEW u \in times  PROVE u < time[last] + 1
      <4>1. u \in Int /\ u <= time[last]
        BY <1>1, <3>2
      <4> QED  BY <3>4, <4>1
    <3> QED  BY <3>2, <3>5, <3>6
  <2>3. (\A t \in times : t <= 0) \/ (\E t \in times : t > 0)
    <3> HIDE DEF times
    <3> QED  BY <1>1
  <2> QED  BY <2>1, <2>2, <2>3
<1>3. Now(record) = CHOOSE now \in Later : now >= 1 /\ \A t \in times : t < now
  BY DEF Now
<1> HIDE DEF times, Later
<1> QED  BY <1>1, <1>2, <1>3

\* closeSession stamps an open session and leaves whose it is.
LEMMA CloseSessionCloses ==
  ASSUME NEW session, DOMAIN session = SessionFields, IsOpen(session), NEW now
  PROVE  /\ DOMAIN CloseSession(session, now) = SessionFields
         /\ CloseSession(session, now).closed = now
         /\ CloseSession(session, now).baseKey = session.baseKey
<1> DEFINE chains == Delete(session.chains, {session.ephemeralKeyPair})
           live == {key \in DOMAIN chains : chains[key].live}
           closed == [session EXCEPT
                        !.chains = chains,
                        !.oldRatchetList = @ \o SetToSeq(live),
                        !.closed = now]
<1>1. CloseSession(session, now) = RemoveOldChains(closed)
  BY DEF CloseSession
<1>2. /\ DOMAIN closed = SessionFields
      /\ closed.closed = now
      /\ closed.baseKey = session.baseKey
  BY DEF SessionFields
<1> HIDE DEF closed
<1> QED  BY <1>1, <1>2, RemoveOldChainsKeepsHead DEF SameHead

\* archiveCurrentState leaves a sound record without an open session.
LEMMA ArchiveCurrentStateKeeps ==
  ASSUME NEW record, RecordOK(record), CanArchive(record)
  PROVE  LET archived == ArchiveCurrentState(record)
         IN  /\ RecordOK(archived)
             /\ OpenKeys(archived) = {}
             /\ archived.identityKey = record.identityKey
             /\ DOMAIN archived.sessions \subseteq DOMAIN record.sessions
             /\ OpenKeys(record) # {} => ~HaveOpenSession(archived)
<1>1. CASE OpenKeys(record) = {}
  BY <1>1 DEF ArchiveCurrentState
<1>2. CASE OpenKeys(record) # {}
  <2> DEFINE current == CHOOSE key \in OpenKeys(record) : TRUE
             closed == CloseSession(OpenSession(record), Now(record))
             archived == ArchiveCurrentState(record)
  <2>1. /\ current \in OpenKeys(record)
        /\ OpenKeys(record) = {current}
        /\ OpenSession(record) = record.sessions[current]
    BY <1>2 DEF RecordOK, OpenSession
  <2>2. /\ DOMAIN OpenSession(record) = SessionFields
        /\ IsOpen(OpenSession(record))
        /\ OpenSession(record).baseKey = current
        /\ current \in DOMAIN record.sessions
    BY <2>1 DEF RecordOK, OpenKeys
  <2>3. /\ DOMAIN closed = SessionFields
        /\ closed.closed \in Int
        /\ ~IsOpen(closed)
        /\ closed.baseKey = current
    BY <2>2, CloseSessionCloses, NowIsPositive DEF IsOpen
  <2>4. /\ archived = UpdateSessionState(record, closed, None)
        /\ CanUpdateSessionState(record, closed, None)
    BY <1>2 DEF ArchiveCurrentState, CanArchive
  <2> HIDE DEF closed, archived, current
  <2>5. /\ RecordOK(archived)
        /\ archived.identityKey = record.identityKey
        /\ archived.sessions = SessionsWith(record, closed)
        /\ HaveOpenSession(archived) <=> OpenKeys(archived) # {}
        /\ OpenKeys(archived) \subseteq OpenKeys(record) \cup {closed.baseKey}
        /\ closed.baseKey \notin OpenKeys(archived)
    BY <2>3, <2>4, UpdateSessionStateKeeps
  <2>6. DOMAIN archived.sessions \subseteq DOMAIN record.sessions
    BY <2>2, <2>3, <2>5, SessionsWithKeeps
  <2> QED  BY <2>1, <2>3, <2>5, <2>6 DEF archived
<1> QED  BY <1>1, <1>2
=============================================================================
