---------------------------- MODULE SessionRecord ----------------------------
(***************************************************************************)
(* src/SessionRecord.js: the record a party stores for an address, as      *)
(* operators.  A record has                                                *)
(*   identityKey     the identity key the record is bound to               *)
(*   registrationId  None when the record has no open session              *)
(*   sessions        the sessions by base key                              *)
(* A session is open when closed is -1, and otherwise carries the time of  *)
(* its closing.  The times of one record are represented by their order:   *)
(* each closing is given a number above the earlier ones, and              *)
(* oldRatchetList keeps its entries in the order of their field added      *)
(* instead of the field.  This is what a clock that does not go back       *)
(* gives; of two chains with equal times the code deletes the first.       *)
(***************************************************************************)
EXTENDS Ratchet, FiniteSetsExt, SequencesExt

CONSTANTS MaxOldChains,   \* the 5 of removeOldChains
          MaxSessions     \* ARCHIVED_STATES_MAX_LENGTH, 40

ASSUME RecordAssumption == /\ MaxOldChains \in Nat
                           /\ MaxSessions \in Nat \ {0}

IsOpen(session) == session.closed = -1

OpenKeys(record) ==
  {key \in DOMAIN record.sessions : IsOpen(record.sessions[key])}

HaveOpenSession(record) == record.registrationId # None

\* detectDuplicateOpenSessions would throw.
DuplicateOpenSessions(record) ==
  \E k1, k2 \in OpenKeys(record) : k1 # k2

\* getOpenSession, when there is one.
OpenSession(record) == record.sessions[CHOOSE key \in OpenKeys(record) : TRUE]

\* getSessionByBaseKey finds a session: one whose base key the peer made.
HasSessionByBaseKey(record, baseKey) ==
  /\ baseKey \in DOMAIN record.sessions
  /\ record.sessions[baseKey].baseKeyType # "OURS"

NewRecord(identityKey, registrationId) ==
  [identityKey |-> identityKey, registrationId |-> registrationId,
   sessions |-> EmptyMap]

\* Fault: the loop ends one entry early.
RemoveOldChainsButOne(session) ==
  LET list == session.oldRatchetList
      excess == Len(list) - MaxOldChains - 1
  IN  IF excess <= 0 THEN session
      ELSE [session EXCEPT
              !.chains = Delete(@, {list[i] : i \in 1..excess}),
              !.oldRatchetList = SubSeq(@, excess + 1, Len(@))]

\* removeOldChains: the oldest entries of the list go until MaxOldChains are
\* left, and the chains they name with them.
RemoveOldChains(session) ==
  LET list == session.oldRatchetList
      excess == Len(list) - MaxOldChains
  IN  IF excess <= 0 THEN session
      ELSE [session EXCEPT
              !.chains = Delete(@, {list[i] : i \in 1..excess}),
              !.oldRatchetList = SubSeq(@, excess + 1, Len(@))]

\* removeOldSessions: the closed session with the earliest time goes.  The
\* loop of the code runs once: it never looks for a second one.
RemoveOldSessions(sessions) ==
  IF Cardinality(DOMAIN sessions) <= MaxSessions THEN sessions
  ELSE LET closed == {key \in DOMAIN sessions : ~IsOpen(sessions[key])}
           oldest == CHOOSE key \in closed :
                       \A other \in closed :
                         sessions[key].closed <= sessions[other].closed
       IN  Delete(sessions, {oldest})

\* The loop of removeOldSessions ends: it deletes one session at most, and
\* only a closed one.
RemoveOldSessionsEnds(sessions) ==
  \/ Cardinality(DOMAIN sessions) <= MaxSessions
  \/ /\ Cardinality(DOMAIN sessions) = MaxSessions + 1
     /\ \E key \in DOMAIN sessions : ~IsOpen(sessions[key])

SessionsWith(record, session) ==
  RemoveOldSessions(
    Put(record.sessions, session.baseKey, RemoveOldChains(session)))

\* Fault: the identity keys are not compared.
CanUpdateAnyIdentity(record, session, registrationId) ==
  LET sessions == SessionsWith(record, session)
  IN  record.registrationId = None /\ registrationId = None
        => \A key \in DOMAIN sessions : ~IsOpen(sessions[key])

\* updateSessionState does not throw.
CanUpdateSessionState(record, session, registrationId) ==
  /\ record.identityKey = session.remoteIdentityKey
  /\ LET sessions == SessionsWith(record, session)
     IN  record.registrationId = None /\ registrationId = None
           => \A key \in DOMAIN sessions : ~IsOpen(sessions[key])

\* updateSessionState(session, registrationId)
UpdateSessionState(record, session, registrationId) ==
  LET sessions == SessionsWith(record, session)
      open == \E key \in DOMAIN sessions : IsOpen(sessions[key])
  IN  [record EXCEPT
         !.sessions = sessions,
         !.registrationId = IF ~open THEN None
                            ELSE IF @ = None THEN registrationId
                            ELSE @]

\* The time of a closing: later than those before it.
Now(record) ==
  LET times == {record.sessions[key].closed : key \in DOMAIN record.sessions}
  IN  CHOOSE now \in {t + 1 : t \in times} \cup {1} :
        /\ now >= 1
        /\ \A t \in times : t < now

\* Fault: closing deletes the receiving chains too.
CloseSessionDroppingChains(session, now) ==
  IF ~IsOpen(session) THEN session
  ELSE [session EXCEPT !.chains = EmptyMap, !.closed = now]

\* closeSession: no sending chain, every live receiving chain marked for
\* deletion, and the time of closing.
CloseSession(session, now) ==
  IF ~IsOpen(session) THEN session
  ELSE LET chains == Delete(session.chains, {session.ephemeralKeyPair})
           live == {key \in DOMAIN chains : chains[key].live}
       IN  RemoveOldChains(
             [session EXCEPT !.chains = chains,
                             !.oldRatchetList = @ \o SetToSeq(live),
                             !.closed = now])

\* archiveCurrentState: the open session is closed and saved.
ArchiveCurrentState(record) ==
  IF OpenKeys(record) = {} THEN record
  ELSE UpdateSessionState(record,
         CloseSession(OpenSession(record), Now(record)), None)

CanArchive(record) ==
  /\ ~DuplicateOpenSessions(record)
  /\ OpenKeys(record) # {} =>
       CanUpdateSessionState(record,
         CloseSession(OpenSession(record), Now(record)), None)

\* getSessions lists the closed sessions by time, then the open one, and
\* decryptWithSessionList takes them from the end: key1 is tried before key2.
TriedBefore(record, key1, key2) ==
  LET closed1 == record.sessions[key1].closed
      closed2 == record.sessions[key2].closed
  IN  closed2 # -1 /\ (closed1 = -1 \/ closed1 > closed2)
=============================================================================
