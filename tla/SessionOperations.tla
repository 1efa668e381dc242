-------------------------- MODULE SessionOperations --------------------------
(***************************************************************************)
(* What each operation of SessionCipher and SessionBuilder makes of the    *)
(* record of its address, as one function from the record it finds to the  *)
(* records it may leave.                                                   *)
(***************************************************************************)
EXTENDS SessionBuilder

CONSTANT Us  \* the party whose database this is

OurIdentity == IdentityKey(Us, 1)
OurSignedPreKey(id) == SignedPreKey(Us, 1, id)
OurPreKey(id) == PreKey(Us, 1, id)

\* The key pairs drawn by one operation, a base key and a ratchet key: after
\* the three that the start of the database was made with.
BaseKey(draw) == SessionKey(Us, 2 * draw + 2)
RatchetKey(draw) == SessionKey(Us, 2 * draw + 3)

-----------------------------------------------------------------------------
SessionsIn(record) == {record.sessions[key] : key \in DOMAIN record.sessions}

\* A record that one of these sessions was put in.
Updates(record, sessions) ==
  {UpdateSessionState(record, session, None) :
     session \in {s \in sessions : CanUpdateSessionState(record, s, None)}}

\* encrypt
Encryptions(record) ==
  Updates(record,
    {Encrypted(s) : s \in {s \in SessionsIn(record) : IsOpen(s) /\ CanEncrypt(s)}})

\* A message decrypts in one session of these, which is put in the record.
Decryptions(record, sessions, message, draw) ==
  Updates(record,
    {Decrypted(s, message, RatchetKey(draw)) :
       s \in {s \in sessions : Decrypts(s, message, OurIdentity, RatchetKey(draw))}})

\* decryptPreKeyWhisperMessage: in the session the record has for the header,
\* or in a new one, made with the one-time prekey or without it.
WorkingRecord(record, header) ==
  IF record # None THEN record
                   ELSE NewRecord(header.identityKey, header.registrationId)

NewSessions(header) ==
  {ResponderSession(OurIdentity, preKey, OurSignedPreKey(header.signedPreKeyId),
                    header.identityKey, header.baseKey) :
     preKey \in {None, OurPreKey(header.preKeyId)}}

ReceivingRecords(record, header) ==
  IF IsDuplicate(record, header) THEN {record}
  ELSE {RecordWithNewSession(record, session, header) :
          session \in {s \in NewSessions(header) : CanAddSession(record, s, header)}}

Receptions(record, header, message, draw) ==
  UNION {Decryptions(r, {r.sessions[key] : key \in DOMAIN r.sessions \cap {header.baseKey}},
                     message, draw) : r \in ReceivingRecords(record, header)}

\* A call may leave this record where it finds the other one.
IsChange(record, after, call, draw) ==
  \/ /\ call.kind = "encrypt"
     /\ record # None
     /\ after \in Encryptions(record)
  \/ /\ call.kind = "decrypt"
     /\ record # None
     /\ after \in Decryptions(record, SessionsIn(record), call.message, draw)
  \/ /\ call.kind = "receive"
     /\ after \in Receptions(WorkingRecord(record, call.header), call.header,
                             call.message, draw)
  \/ LET session == PendingSession(OurIdentity, BaseKey(draw), RatchetKey(draw),
                                   call.device)
     IN  /\ call.kind = "processPreKey"
         /\ CanProcessPreKey(record, None, session, call.device)
         /\ after = ProcessPreKey(record, session, call.device)
  \/ /\ call.kind = "close"
     /\ record # None
     /\ OpenKeys(record) # {}
     /\ CanArchive(record)
     /\ after = ArchiveCurrentState(record)
=============================================================================
