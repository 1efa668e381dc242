---------------------------- MODULE SessionBuilder ----------------------------
(***************************************************************************)
(* src/SessionBuilder.js: how a session is made, as operators on a record. *)
(* The X3DH agreement of initSession, and the two ways into it:            *)
(* processPreKey, from the keys of a device that a server hands out, and   *)
(* processV3, from the header of a PreKeyWhisperMessage.                   *)
(***************************************************************************)
EXTENDS SessionRecord

\* The four slots of sharedSecret, the last one left out when a side has no
\* one-time key.  Both ends put the same agreements in the same slots.
SharedSecret(initiator, ourId, ourSigned, ourEph, theirId, theirSigned, theirEph) ==
  LET dh1 == ECDHE(theirSigned, ourId)
      dh2 == ECDHE(theirId, ourSigned)
      dh3 == ECDHE(theirSigned, ourSigned)
      dh4 == ECDHE(theirEph, ourEph)
  IN  (IF initiator THEN <<dh1, dh2>> ELSE <<dh2, dh1>>)
        \o <<dh3>>
        \o (IF ourEph # None /\ theirEph # None THEN <<dh4>> ELSE <<>>)

NewSession(rootKey, keyPair, lastRemoteKey, theirIdentity, baseKey, type) ==
  [rootKey |-> rootKey,
   ephemeralKeyPair |-> keyPair,
   lastRemoteEphemeralKey |-> lastRemoteKey,
   previousCounter |-> 0,
   remoteIdentityKey |-> theirIdentity,
   closed |-> -1,
   baseKey |-> baseKey,
   baseKeyType |-> type,
   oldRatchetList |-> <<>>,
   pendingPreKey |-> None,
   chains |-> EmptyMap]

\* initSession(true, ...): our base key stands for the signed key too, and
\* the first sending chain is made with a fresh key pair.
InitiatorSession(ourIdentity, baseKey, keyPair, device) ==
  CalculateRatchet(
    NewSession(
      SharedSecret(TRUE, ourIdentity, baseKey, baseKey,
                   device.identityKey, device.signedPreKey, device.preKey),
      keyPair, device.signedPreKey, device.identityKey, baseKey, "OURS"),
    device.signedPreKey, TRUE)

\* initSession(false, ...): their base key stands for their signed key too;
\* the first key pair is our signed prekey, without a chain.
ResponderSession(ourIdentity, preKey, signedPreKey, theirIdentity, baseKey) ==
  NewSession(
    SharedSecret(FALSE, ourIdentity, signedPreKey, preKey,
                 theirIdentity, baseKey, baseKey),
    signedPreKey, baseKey, theirIdentity, baseKey, "THEIRS")

-----------------------------------------------------------------------------
\* Fault: every identity key is trusted.
TrustAll(trusted, identityKey) == TRUE

\* The storage trusts the first identity key it sees for a name.
IsTrusted(trusted, identityKey) == trusted \in {None, identityKey}

\* The session processPreKey makes for a device.
PendingSession(ourIdentity, baseKey, keyPair, device) ==
  [InitiatorSession(ourIdentity, baseKey, keyPair, device) EXCEPT
     !.pendingPreKey = [preKeyId |-> device.preKeyId,
                        signedKeyId |-> device.signedKeyId,
                        baseKey |-> baseKey]]

\* The record processPreKey starts from.
RecordForDevice(stored, device) ==
  IF stored = None THEN NewRecord(device.identityKey, device.registrationId)
                   ELSE stored

CanProcessPreKey(stored, trusted, session, device) ==
  LET record == RecordForDevice(stored, device)
  IN  /\ IsTrusted(trusted, device.identityKey)
      /\ CanArchive(record)
      /\ CanUpdateSessionState(ArchiveCurrentState(record), session,
                               device.registrationId)

\* Fault: the open session is left open beside the new one.
ProcessPreKeyNoArchive(stored, session, device) ==
  UpdateSessionState(RecordForDevice(stored, device), session,
                     device.registrationId)

\* The record processPreKey stores.
ProcessPreKey(stored, session, device) ==
  UpdateSessionState(ArchiveCurrentState(RecordForDevice(stored, device)),
                     session, device.registrationId)

-----------------------------------------------------------------------------
\* processV3(record, message), without the loads: preKey and signedPreKey are
\* what the storage holds under the ids of the message.
IsDuplicate(record, message) == HasSessionByBaseKey(record, message.baseKey)

\* The record with the new session, which decryptPreKeyWhisperMessage goes on
\* with but does not store yet.
RecordWithNewSession(record, session, message) ==
  UpdateSessionState(ArchiveCurrentState(record), session,
                     message.registrationId)

CanAddSession(record, session, message) ==
  /\ CanArchive(record)
  /\ CanUpdateSessionState(ArchiveCurrentState(record), session,
                           message.registrationId)
=============================================================================
