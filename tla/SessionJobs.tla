----------------------------- MODULE SessionJobs -----------------------------
(***************************************************************************)
(* The operations of SessionCipher and SessionBuilder step by step, as the *)
(* jobs of the queues of one process: what each does between two calls of  *)
(* the storage is one step, and so is the answer to each call that writes. *)
(* A call that writes takes effect or is refused when it is answered; the  *)
(* process may stop at any time, and the storage keeps what it has.        *)
(*                                                                         *)
(* The queues are those of JobQueue, which SessionLock implements; the     *)
(* records, sessions and keys are those of SessionBuilder and below.  A    *)
(* load is answered in the step of the handler that uses it: only the      *)
(* trusted key and the prekeys are shared with the jobs of other devices,  *)
(* and the steps between their loads and writes are kept.                  *)
(***************************************************************************)
EXTENDS SessionOperations

CONSTANTS Jobs,           \* numbered from 1 in the order of their calls
          Addresses, Calls, Start,  \* as in SessionStore
          StartIdentity,  \* the identity key trusted for the peer's name
          StartKeys,      \* the ids of our one-time prekeys
          SignedKeys,     \* the ids of our signed prekeys
          Refusable,      \* the storage calls that may be refused
          MaxFaults       \* bound: refused calls and stops

ASSUME JobsAssumption == /\ Jobs \subseteq Nat
                         /\ None \notin Addresses
                         /\ \A c \in Calls : c.address \in Addresses
                         /\ Start = [a \in Addresses |-> Start[a]]

VARIABLES
  status, number, ticket, calls,  \* of the queues
  call,      \* the call of the application a job is for
  work,      \* what the closures of a job hold
  pending,   \* its calls that write to the storage and are not answered
  records, trusted, preKeys,      \* the storage
  faults     \* the refused calls and stops so far

queues == <<status, number, ticket, calls>>
storage == <<records, trusted, preKeys>>
vars == <<queues, call, work, pending, storage, faults>>

Lock == INSTANCE JobQueue WITH Numbers <- Addresses
Store == INSTANCE SessionStore WITH stored <- records, Draws <- Jobs

\* What the closures of a job hold: where its chain of promises is, the
\* record it works on, the key of the session it decrypts in, the prekey id
\* that processV3 returned, and what the promise will be fulfilled with.
Held(step, record, key, preKeyId) ==
  [step |-> step, record |-> record, key |-> key, preKeyId |-> preKeyId,
   result |-> None]
NoWork == Held("begin", None, None, None)

\* Those of a job that waits for its last call.
Done(result) == [step |-> "done", record |-> None, key |-> None,
                 preKeyId |-> None, result |-> result]

Init == /\ Lock!Init
        /\ call = [j \in Jobs |-> None]
        /\ work = [j \in Jobs |-> NoWork]
        /\ pending = [j \in Jobs |-> {}]
        /\ records = Start
        /\ trusted = StartIdentity
        /\ preKeys = StartKeys
        /\ faults = 0

Loaded(j) == records[number[j]]
Message(j) == call[j].message
Header(j) == call[j].header

\* The calls that write to the storage.
StoreSession(record) == [write |-> "storeSession", value |-> record]
SaveIdentity(key) == [write |-> "saveIdentity", value |-> key]
RemovePreKey(id) == [write |-> "removePreKey", value |-> id]

-----------------------------------------------------------------------------
\* The application calls an operation, which queues a job for the address.
Request(j, c) == /\ j = calls + 1
                 /\ c.kind # "delete"
                 /\ Lock!Enqueue(j, c.address)
                 /\ call' = [call EXCEPT ![j] = c]
                 /\ UNCHANGED <<work, pending, storage, faults>>

\* deleteAllSessionsForDevice: its first statement throws a ReferenceError.
DeleteAllSessions(j, c) ==
  /\ status[j] = "new"
  /\ j = calls + 1
  /\ c.kind = "delete"
  /\ calls' = calls + 1
  /\ status' = [status EXCEPT ![j] = "rejected"]
  /\ number' = [number EXCEPT ![j] = c.address]
  /\ ticket' = [ticket EXCEPT ![j] = calls + 1]
  /\ call' = [call EXCEPT ![j] = c]
  /\ UNCHANGED <<work, pending, storage, faults>>

Begin(j) == /\ Lock!Run(j)
            /\ UNCHANGED <<call, work, pending, storage, faults>>

\* The chain of promises of j is at this step, and its calls are answered.
At(j, kind, step) == /\ status[j] = "running"
                     /\ call[j].kind = kind
                     /\ work[j].step = step
                     /\ pending[j] = {}

\* A handler returns, with what the closures hold now and the calls it made.
Continue(j, held, writes) == /\ work' = [work EXCEPT ![j] = held]
                             /\ pending' = [pending EXCEPT ![j] = writes]
                             /\ UNCHANGED <<queues, call, storage, faults>>

Settle(j, outcome) == /\ Lock!Finish(j, outcome)
                      /\ UNCHANGED <<call, work, pending, storage, faults>>
Throw(j) == Settle(j, "rejected")

\* Fault: the promise is fulfilled while the record is being stored.
ReturnUnstored(j) == /\ status[j] = "running"
                     /\ work[j].step = "done"
                     /\ Settle(j, "fulfilled")

\* The last handler returns, which fulfils the promise.
Return(j) == /\ status[j] = "running"
             /\ work[j].step = "done"
             /\ pending[j] = {}
             /\ Settle(j, "fulfilled")

-----------------------------------------------------------------------------
\* encrypt: the message is made from the open session of the record, and
\* returned once the record is stored.
CanEncryptIn(record) ==
  /\ record # None
  /\ ~DuplicateOpenSessions(record)
  /\ OpenKeys(record) # {}
  /\ CanEncrypt(OpenSession(record))
  /\ CanUpdateSessionState(record, Encrypted(OpenSession(record)), None)

Encrypt(j) ==
  /\ At(j, "encrypt", "begin")
  /\ IF CanEncryptIn(Loaded(j))
       THEN LET session == OpenSession(Loaded(j))
            IN  Continue(j,
                  Done(WhisperMessage(session, OurIdentity)),
                  {StoreSession(UpdateSessionState(Loaded(j), Encrypted(session),
                                                   None))})
       ELSE Throw(j)

\* closeOpenSessionForDevice
Close(j) ==
  /\ At(j, "close", "begin")
  /\ IF Loaded(j) = None \/ OpenKeys(Loaded(j)) = {}
       THEN Settle(j, "fulfilled")
     ELSE IF ~CanArchive(Loaded(j)) THEN Throw(j)
     ELSE Continue(j, Done(None), {StoreSession(ArchiveCurrentState(Loaded(j)))})

-----------------------------------------------------------------------------
\* decryptWhisperMessage.  decryptWithSessionList decrypts in sessions of the
\* record of a first load, in the order of getSessions.  Those that fail may
\* have stepped their ratchet, filled the chain and used the message key up.
Decrypting(j) ==
  {key \in DOMAIN Loaded(j).sessions :
     Decrypts(Loaded(j).sessions[key], Message(j), OurIdentity, RatchetKey(j))}

Tried(j, session) ==
  LET key == Message(j).ephemeralKey
      counter == Message(j).counter
      stepped == Stepped(session, Message(j), RatchetKey(j))
      filled == FillMessageKeys(stepped.chains[key], counter)
  IN  IF ~CanStepRatchet(session, key, Message(j).previousCounter) THEN session
      ELSE IF \/ stepped.chains[key].chainType = "SENDING"
              \/ ~CanFill(stepped.chains[key], counter)
        THEN stepped
        ELSE [stepped EXCEPT !.chains[key] =
                [filled EXCEPT !.messageKeys = @ \ {counter}]]

\* That record, when the session under this key has decrypted the message.
FirstLoad(j, key) ==
  [identityKey |-> Loaded(j).identityKey,
   registrationId |-> Loaded(j).registrationId,
   sessions |->
     [k \in DOMAIN Loaded(j).sessions |->
        LET session == Loaded(j).sessions[k]
        IN  IF k = key THEN Decrypted(session, Message(j), RatchetKey(j))
            ELSE IF TriedBefore(Loaded(j), k, key) THEN Tried(j, session)
            ELSE session]]

TrySessions(j) ==
  /\ At(j, "decrypt", "begin")
  /\ IF Loaded(j) = None \/ Decrypting(j) = {} THEN Throw(j)
     ELSE \E key \in Decrypting(j) :
            /\ \A k \in Decrypting(j) : ~TriedBefore(Loaded(j), k, key)
            /\ Continue(j, Held("decrypted", FirstLoad(j, key), key, None), {})

\* Fault: the record of the first load is stored.
StoreFirstLoad(j) ==
  /\ At(j, "decrypt", "decrypted")
  /\ LET session == work[j].record.sessions[work[j].key]
     IN  IF CanUpdateSessionState(work[j].record, session, None)
           THEN Continue(j, Done(None),
                  {StoreSession(UpdateSessionState(work[j].record, session, None))})
           ELSE Throw(j)

\* Fault: the record that is loaded again is stored as it is.
StoreLoadedAgain(j) ==
  /\ At(j, "decrypt", "decrypted")
  /\ Continue(j, Done(None), {StoreSession(Loaded(j))})

\* The record is loaded again, and the session that decrypted put in it.
StoreSecondLoad(j) ==
  /\ At(j, "decrypt", "decrypted")
  /\ LET session == work[j].record.sessions[work[j].key]
     IN  IF CanUpdateSessionState(Loaded(j), session, None)
           THEN Continue(j, Done(None),
                  {StoreSession(UpdateSessionState(Loaded(j), session, None))})
           ELSE Throw(j)

-----------------------------------------------------------------------------
\* decryptPreKeyWhisperMessage: the record, and the check of the identity.
LoadRecord(j) ==
  /\ At(j, "receive", "begin")
  /\ IF IsTrusted(trusted, Header(j).identityKey)
       THEN Continue(j,
              Held("trusted", WorkingRecord(Loaded(j), Header(j)), None, None),
              {})
       ELSE Throw(j)

\* The session processV3 makes of the keys it loads.
HeaderSession(j) ==
  ResponderSession(OurIdentity,
    IF Header(j).preKeyId \in preKeys THEN OurPreKey(Header(j).preKeyId)
                                      ELSE None,
    OurSignedPreKey(Header(j).signedPreKeyId),
    Header(j).identityKey, Header(j).baseKey)

\* processV3 after its loads: a header that comes again, or a new session.
ProcessV3(j) ==
  /\ At(j, "receive", "trusted")
  /\ LET record == work[j].record
         baseKey == Header(j).baseKey
     IN  IF IsDuplicate(record, Header(j))
           THEN Continue(j, Held("processed", record, baseKey, None), {})
         ELSE IF /\ Header(j).signedPreKeyId \in SignedKeys
                 /\ CanAddSession(record, HeaderSession(j), Header(j))
           THEN Continue(j,
                  Held("processed",
                       RecordWithNewSession(record, HeaderSession(j), Header(j)),
                       baseKey, Header(j).preKeyId),
                  {SaveIdentity(Header(j).identityKey)})
         ELSE Throw(j)

\* Fault: the prekey is removed while the record is being stored.
DecryptFirstRemoving(j) ==
  /\ At(j, "receive", "processed")
  /\ LET session == work[j].record.sessions[work[j].key]
         after == Decrypted(session, Message(j), RatchetKey(j))
     IN  IF /\ HasSessionByBaseKey(work[j].record, work[j].key)
            /\ Decrypts(session, Message(j), OurIdentity, RatchetKey(j))
            /\ CanUpdateSessionState(work[j].record, after, None)
           THEN Continue(j, Done(None),
                  {StoreSession(UpdateSessionState(work[j].record, after, None)),
                   RemovePreKey(work[j].preKeyId)})
           ELSE Throw(j)

\* The message is decrypted, and the record stored.
DecryptFirst(j) ==
  /\ At(j, "receive", "processed")
  /\ LET session == work[j].record.sessions[work[j].key]
         after == Decrypted(session, Message(j), RatchetKey(j))
     IN  IF /\ HasSessionByBaseKey(work[j].record, work[j].key)
            /\ Decrypts(session, Message(j), OurIdentity, RatchetKey(j))
            /\ CanUpdateSessionState(work[j].record, after, None)
           THEN Continue(j,
                  IF work[j].preKeyId = None THEN Done(None)
                    ELSE Held("stored", None, None, work[j].preKeyId),
                  {StoreSession(UpdateSessionState(work[j].record, after, None))})
           ELSE Throw(j)

\* Fault: no call to remove the prekey is made.
KeepUsedPreKey(j) ==
  /\ At(j, "receive", "stored")
  /\ Continue(j, [work[j] EXCEPT !.step = "done"], {})

\* The one-time prekey of a new session is removed once it is stored.
RemoveUsedPreKey(j) ==
  /\ At(j, "receive", "stored")
  /\ Continue(j, [work[j] EXCEPT !.step = "done"],
              {RemovePreKey(work[j].preKeyId)})

-----------------------------------------------------------------------------
\* processPreKey: the check of the identity.
CheckIdentity(j) ==
  /\ At(j, "processPreKey", "begin")
  /\ IF IsTrusted(trusted, call[j].device.identityKey)
       THEN Continue(j, Held("trusted", None, None, None), {})
       ELSE Throw(j)

\* The session is made and put in the record.  The record and the identity
\* are written at the same time, and the trusted key is not looked at again.
ProcessDevice(j) ==
  /\ At(j, "processPreKey", "trusted")
  /\ LET device == call[j].device
         session == PendingSession(OurIdentity, BaseKey(j), RatchetKey(j),
                                   device)
         record == ProcessPreKey(Loaded(j), session, device)
     IN  IF CanProcessPreKey(Loaded(j), None, session, device)
           THEN Continue(j, Done(None),
                  {StoreSession(record), SaveIdentity(record.identityKey)})
           ELSE Throw(j)

-----------------------------------------------------------------------------
\* The storage answers a call, whose effect is there from now on.  The job
\* may have settled: Promise.all does not wait when one of its calls fails.
Answer(j, c) ==
  /\ c \in pending[j]
  /\ pending' = [pending EXCEPT ![j] = @ \ {c}]
  /\ records' = IF c.write = "storeSession"
                  THEN [records EXCEPT ![number[j]] = c.value] ELSE records
  /\ trusted' = IF c.write = "saveIdentity" THEN c.value ELSE trusted
  /\ preKeys' = IF c.write = "removePreKey" THEN preKeys \ {c.value} ELSE preKeys
  /\ UNCHANGED <<queues, call, work, faults>>

Fail(what) == /\ what \in Refusable
              /\ faults < MaxFaults
              /\ faults' = faults + 1

\* The storage fails a write: the promise of the job is rejected.
Refuse(j, c) ==
  /\ c \in pending[j]
  /\ Fail(c.write)
  /\ pending' = [pending EXCEPT ![j] = @ \ {c}]
  /\ IF status[j] = "running" THEN Lock!Finish(j, "rejected")
                              ELSE UNCHANGED queues
  /\ UNCHANGED <<call, work, storage>>

\* The storage fails a load.
RefuseLoad(j) == /\ status[j] = "running"
                 /\ work[j].step \notin {"stored", "done"}
                 /\ pending[j] = {}
                 /\ Fail("load")
                 /\ Lock!Finish(j, "rejected")
                 /\ UNCHANGED <<call, work, pending, storage>>

\* The process stops, and starts again with the storage as it is.
Stop == /\ Fail("stop")
        /\ \E j \in Jobs : status[j] = "running"
        /\ status' = [j \in Jobs |-> IF status[j] \in {"queued", "running"}
                                       THEN "rejected" ELSE status[j]]
        /\ pending' = [j \in Jobs |-> {}]
        /\ UNCHANGED <<number, ticket, calls, call, work, storage>>

Handler(j) == \/ Encrypt(j)
              \/ Close(j)
              \/ TrySessions(j)
              \/ StoreSecondLoad(j)
              \/ LoadRecord(j)
              \/ ProcessV3(j)
              \/ DecryptFirst(j)
              \/ RemoveUsedPreKey(j)
              \/ CheckIdentity(j)
              \/ ProcessDevice(j)
              \/ Return(j)

Next == \/ \E j \in Jobs : \/ \E c \in Calls : \/ Request(j, c)
                                               \/ DeleteAllSessions(j, c)
                           \/ Begin(j)
                           \/ Handler(j)
                           \/ \E c \in pending[j] : Answer(j, c) \/ Refuse(j, c)
                           \/ RefuseLoad(j)
        \/ Stop

Spec == Init /\ [][Next]_vars

-----------------------------------------------------------------------------

Fulfilled(kinds) == {j \in Jobs : /\ status[j] = "fulfilled"
                                  /\ call[j].kind \in kinds}

\* No two messages that encrypt has returned have one key, whatever calls
\* failed, overlapped or were cut off: the record is stored before the
\* message is handed out, and loaded again for the next one.
NoMessageKeyTwice ==
  \A j, k \in Fulfilled({"encrypt"}) :
    work[j].result.mac.key = work[k].result.mac.key => j = k

\* No message is handed to the application twice, by calls that were queued
\* together, or by a call that is made again after one that failed.
ReadAtMostOnce ==
  \A j, k \in Fulfilled({"decrypt", "receive"}) : Message(j) = Message(k) => j = k

\* A session made with this one-time prekey of ours is stored.
MadeWith(session, id) ==
  \E i \in DOMAIN session.rootKey : OurPreKey(id) \in session.rootKey[i]
HasMade(record, id) ==
  \E key \in DOMAIN record.sessions : MadeWith(record.sessions[key], id)
StoredWith(id) == \E a \in Addresses : records[a] # None /\ HasMade(records[a], id)

\* A one-time prekey is removed only when a session made with it is stored,
\* whatever calls failed, overlapped or were cut off: it is never lost without
\* its session.
PreKeyKept == \A id \in StartKeys \ preKeys : StoredWith(id)

\* A one-time prekey makes one session and is gone: when decryptPreKey-
\* WhisperMessage returns the plaintext it is removed, and while a session
\* made with it is stored and it is not removed, the call that stored the
\* session has that still to do, or was cut off before it, by a stop or by a
\* storage that refuses.
PreKeyOnce ==
  \A id \in preKeys :
    /\ \A j \in Fulfilled({"receive"}) : work[j].preKeyId # id
    /\ StoredWith(id) =>
         \E j \in Jobs : /\ work[j].preKeyId = id
                        /\ work[j].step \in {"stored", "done"}
                        /\ status[j] \in {"running", "rejected"}

\* Every record stored is one whole operation on the record stored before.
ImplementsStore == Store!Spec

\* The comment of SessionLock: the queues "serialize session io ops on the
\* database".  No job runs while a record that another job of its device
\* asked to store is not stored yet.  It holds as long as saveIdentity does
\* not fail, which settles a job while it stores its record.
SessionIOSerialized ==
  \A j, k \in Jobs :
    /\ number[j] = number[k]
    /\ status[k] = "running"
    /\ \E c \in pending[j] : c.write = "storeSession"
    => j = k

\* The comment of deleteAllSessionsForDevice: "Used in session reset
\* scenarios, where we really need to delete".  When the call is over, the
\* sessions of the device are gone.
DeleteAllDeletes ==
  [][\A j \in Jobs :
       /\ ~Lock!Settled(j)
       /\ Lock!Settled(j)'
       /\ call'[j].kind = "delete"
       /\ records'[number'[j]] # None
       => DOMAIN records'[number'[j]].sessions = {}]_vars
=============================================================================
