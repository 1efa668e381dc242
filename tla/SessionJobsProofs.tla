-------------------------- MODULE SessionJobsProofs --------------------------
(***************************************************************************)
(* Proofs about SessionJobs, for any jobs, devices, calls and storage in   *)
(* which saveIdentity does not fail: the database is used by one job of a  *)
(* device at a time, and changes by whole operations only, as SessionStore *)
(* says.  Other storage calls may fail, and the process stop, at any time. *)
(* From that, and from what RatchetProofs says of the operators on a       *)
(* session, no two messages that encrypt returns have one key, a one-time  *)
(* prekey is removed only when its session is stored, and no message is    *)
(* returned by two calls.                                                  *)
(***************************************************************************)
EXTENDS SessionJobs, RatchetProofs

CONSTANT Peer  \* the party our sessions are with

Called(j) == status[j] # "new"

TypesOK ==
  /\ status \in [Jobs -> {"new", "queued", "running", "fulfilled", "rejected"}]
  /\ number \in [Jobs -> Addresses \cup {None}]
  /\ ticket \in [Jobs -> Nat]
  /\ calls \in Nat
  /\ DOMAIN call = Jobs
  /\ DOMAIN work = Jobs
  /\ \A j \in Jobs : DOMAIN work[j] = DOMAIN NoWork
  /\ DOMAIN pending = Jobs
  /\ records = [a \in Addresses |-> records[a]]

\* A job that was called has its call, its queue and a ticket of its own.
CallsOK ==
  /\ \A j \in Jobs : Called(j) => /\ call[j] \in Calls
                                  /\ number[j] = call[j].address
                                  /\ ticket[j] \in 1..calls
  /\ \A j, k \in Jobs : Called(j) /\ Called(k) /\ ticket[j] = ticket[k] => j = k

\* When a job runs, those called before it for its device have settled.
OrderOK == \A j, k \in Jobs :
             status[j] = "running" /\ Lock!Ahead(k, j) => Lock!Settled(k)

\* A job has done nothing before it runs.
UnbegunOK == \A j \in Jobs : status[j] \in {"new", "queued"} =>
               work[j].step = "begin" /\ pending[j] = {}

\* What the closures of j hold was made of the record that is stored.
HoldsSession(record, held, message, draw) ==
  /\ record # None
  /\ held.key \in DOMAIN record.sessions
  /\ Decrypts(record.sessions[held.key], message, OurIdentity, RatchetKey(draw))
  /\ held.record.sessions[held.key]
       = Decrypted(record.sessions[held.key], message, RatchetKey(draw))

HoldsProcessed(record, held, header) ==
  /\ held.key = header.baseKey
  /\ held.record \in ReceivingRecords(record, header)

Holds(j, held) ==
  /\ call[j].kind = "decrypt" /\ held.step = "decrypted"
       => HoldsSession(Loaded(j), held, Message(j), j)
  /\ call[j].kind = "receive" /\ held.step = "trusted"
       => held.record = WorkingRecord(Loaded(j), Header(j))
  /\ call[j].kind = "receive" /\ held.step = "processed"
       => HoldsProcessed(WorkingRecord(Loaded(j), Header(j)), held, Header(j))

HeldOK == \A j \in Jobs : status[j] = "running" => Holds(j, work[j])

\* A record that j asks to store is one operation on the record that is
\* stored.  j runs, it is past its other steps, and no call is open beside
\* this one but that of saveIdentity.
Stores(j, held, writes) ==
  \A c \in writes : c.write = "storeSession" =>
    /\ held.step \in {"stored", "done"}
    /\ IsChange(Loaded(j), c.value, call[j], j)
    /\ \A d \in writes : d # c => d.write = "saveIdentity"

WritesOK == \A j \in Jobs :
              /\ Stores(j, work[j], pending[j])
              /\ (\E c \in pending[j] : c.write = "storeSession")
                   => status[j] = "running"

\* The inductive invariant.
JobsInv == TypesOK /\ CallsOK /\ OrderOK /\ UnbegunOK /\ HeldOK /\ WritesOK

\* Two jobs of a device do not run at the same time.
LEMMA OneRuns ==
  ASSUME JobsInv, NEW j \in Jobs, NEW k \in Jobs, number[j] = number[k],
         status[j] = "running", status[k] = "running"
  PROVE  j = k
<1>1. CASE ticket[j] = ticket[k]
  BY <1>1 DEF JobsInv, CallsOK, Called
<1>2. CASE ticket[k] < ticket[j]
  BY <1>2 DEF JobsInv, OrderOK, Lock!Ahead, Lock!Settled
<1>3. CASE ticket[j] < ticket[k]
  BY <1>3 DEF JobsInv, OrderOK, Lock!Ahead, Lock!Settled
<1> QED BY <1>1, <1>2, <1>3 DEF JobsInv, TypesOK

\* At the start no job was called.
LEMMA InitJobsInv == Init => JobsInv
<1> SUFFICES ASSUME Init PROVE JobsInv
  OBVIOUS
<1>1. TypesOK
  BY JobsAssumption DEF Init, Lock!Init, TypesOK
<1>2. CallsOK /\ OrderOK /\ HeldOK
  BY DEF Init, Lock!Init, CallsOK, Called, OrderOK, HeldOK
<1>3. UnbegunOK /\ WritesOK
  BY DEF Init, Lock!Init, UnbegunOK, NoWork, Held, WritesOK, Stores
<1> QED BY <1>1, <1>2, <1>3 DEF JobsInv

-----------------------------------------------------------------------------
\* A handler that returns keeps the invariant, when what it holds and writes
\* was made of the record that is stored.
LEMMA ContinueKeeps ==
  ASSUME JobsInv, NEW j \in Jobs, status[j] = "running",
         NEW held, DOMAIN held = DOMAIN NoWork, Holds(j, held),
         NEW writes, Stores(j, held, writes),
         Continue(j, held, writes)
  PROVE  JobsInv'
<1>1. /\ work' = [work EXCEPT ![j] = held]
      /\ pending' = [pending EXCEPT ![j] = writes]
      /\ UNCHANGED <<status, number, ticket, calls, call, records>>
  BY DEF Continue, queues, storage
<1>2. /\ DOMAIN work = Jobs /\ DOMAIN pending = Jobs
      /\ work'[j] = held /\ pending'[j] = writes
      /\ \A k \in Jobs \ {j} : work'[k] = work[k] /\ pending'[k] = pending[k]
  BY <1>1 DEF JobsInv, TypesOK
<1>3. TypesOK' /\ CallsOK' /\ OrderOK'
  BY <1>1, <1>2 DEF JobsInv, TypesOK, CallsOK, Called, OrderOK, Lock!Ahead, Lock!Settled
<1>4. UnbegunOK'
  BY <1>1, <1>2 DEF JobsInv, UnbegunOK
<1>5. ASSUME NEW k \in Jobs, NEW h
      PROVE  Holds(k, h)' <=> Holds(k, h)
  BY <1>1 DEF Holds, Loaded, Message, Header
<1>6. HeldOK'
  BY <1>1, <1>2, <1>5 DEF JobsInv, HeldOK
<1>7. WritesOK'
  BY <1>1, <1>2 DEF JobsInv, WritesOK, Stores, Loaded
<1> QED BY <1>3, <1>4, <1>6, <1>7 DEF JobsInv

\* So does a job that settles with nothing being stored for it.
LEMMA SettleKeeps ==
  ASSUME JobsInv, NEW j \in Jobs,
         NEW outcome \in {"fulfilled", "rejected"}, Lock!Finish(j, outcome),
         UNCHANGED <<call, work, records>>,
         DOMAIN pending' = Jobs,
         \A k \in Jobs : pending'[k] \subseteq pending[k],
         \A c \in pending'[j] : c.write # "storeSession"
  PROVE  JobsInv'
<1>1. /\ status[j] = "running"
      /\ status' = [status EXCEPT ![j] = outcome]
      /\ UNCHANGED <<number, ticket, calls>>
  BY DEF Lock!Finish
<1>2. /\ status'[j] = outcome
      /\ \A k \in Jobs \ {j} : status'[k] = status[k]
  BY <1>1 DEF JobsInv, TypesOK
<1>3. TypesOK'
  BY <1>1 DEF JobsInv, TypesOK
<1>4. CallsOK'
  BY <1>1, <1>2 DEF JobsInv, CallsOK, Called
<1>5. OrderOK'
  BY <1>1, <1>2 DEF JobsInv, OrderOK, Lock!Ahead, Lock!Settled
<1>6. UnbegunOK'
  BY <1>1, <1>2 DEF JobsInv, UnbegunOK
<1>7. HeldOK'
  BY <1>1, <1>2 DEF JobsInv, HeldOK, Holds, Loaded, Message, Header
<1>8. WritesOK'
  BY <1>1, <1>2 DEF JobsInv, WritesOK, Stores, Loaded
<1> QED BY <1>3, <1>4, <1>5, <1>6, <1>7, <1>8 DEF JobsInv

\* A handler that throws, or returns, with every call answered.
LEMMA SettledKeeps ==
  ASSUME JobsInv, NEW j \in Jobs, pending[j] = {},
         NEW outcome \in {"fulfilled", "rejected"}, Settle(j, outcome)
  PROVE  JobsInv'
<1>1. /\ Lock!Finish(j, outcome)
      /\ UNCHANGED <<call, work, records, pending>>
  BY DEF Settle, storage
<1>2. DOMAIN pending = Jobs
  BY DEF JobsInv, TypesOK
<1>3. /\ \A k \in Jobs : pending'[k] \subseteq pending[k]
      /\ \A c \in pending'[j] : c.write # "storeSession"
  BY <1>1
<1> QED BY <1>1, <1>2, <1>3, SettleKeeps

-----------------------------------------------------------------------------
\* A call of the application queues a job behind the others.
LEMMA CallKeeps ==
  ASSUME JobsInv, NEW j \in Jobs, NEW c \in Calls, status[j] = "new",
         NEW s \in {"queued", "rejected"},
         status' = [status EXCEPT ![j] = s],
         number' = [number EXCEPT ![j] = c.address],
         ticket' = [ticket EXCEPT ![j] = calls + 1],
         calls' = calls + 1,
         call' = [call EXCEPT ![j] = c],
         UNCHANGED <<work, pending, records>>
  PROVE  JobsInv'
<1>1. /\ status'[j] = s /\ number'[j] = c.address
      /\ ticket'[j] = calls + 1 /\ call'[j] = c
      /\ \A k \in Jobs \ {j} : /\ status'[k] = status[k]
                               /\ number'[k] = number[k]
                               /\ ticket'[k] = ticket[k]
                               /\ call'[k] = call[k]
  BY DEF JobsInv, TypesOK
<1>2. TypesOK'
  BY JobsAssumption DEF JobsInv, TypesOK
<1>3. CallsOK'
  BY <1>1 DEF JobsInv, TypesOK, CallsOK, Called
<1>4. OrderOK'
  <2>1. SUFFICES ASSUME NEW k \in Jobs, NEW i \in Jobs, status'[k] = "running",
                        Lock!Ahead(i, k)'
                 PROVE  Lock!Settled(i)'
    BY DEF OrderOK
  <2>2. k # j /\ status[k] = "running" /\ ticket[k] \in 1..calls
    BY <1>1, <2>1 DEF JobsInv, CallsOK, Called
  <2>3. i # j
    BY <1>1, <2>1, <2>2 DEF Lock!Ahead, JobsInv, TypesOK
  <2> QED BY <1>1, <2>1, <2>2, <2>3 DEF JobsInv, OrderOK, Lock!Ahead, Lock!Settled
<1>5. UnbegunOK'
  BY <1>1 DEF JobsInv, UnbegunOK
<1>6. HeldOK'
  BY <1>1 DEF JobsInv, HeldOK, Holds, Loaded, Message, Header
<1>7. pending[j] = {}
  BY DEF JobsInv, UnbegunOK
<1>8. WritesOK'
  BY <1>1, <1>7 DEF JobsInv, WritesOK, Stores, Loaded
<1> QED BY <1>2, <1>3, <1>4, <1>5, <1>6, <1>8 DEF JobsInv

\* Each call of the application, and the start of a job, keeps the invariant.
LEMMA RequestKeeps ==
  ASSUME JobsInv, NEW j \in Jobs, NEW c \in Calls, Request(j, c)
  PROVE  JobsInv'
<1>1. /\ status[j] = "new"
      /\ status' = [status EXCEPT ![j] = "queued"]
      /\ number' = [number EXCEPT ![j] = c.address]
      /\ ticket' = [ticket EXCEPT ![j] = calls + 1]
      /\ calls' = calls + 1
      /\ call' = [call EXCEPT ![j] = c]
      /\ UNCHANGED <<work, pending, records>>
  BY DEF Request, Lock!Enqueue, storage
<1> QED BY <1>1, CallKeeps

LEMMA DeleteKeeps ==
  ASSUME JobsInv, NEW j \in Jobs, NEW c \in Calls, DeleteAllSessions(j, c)
  PROVE  JobsInv'
<1>1. /\ status[j] = "new"
      /\ status' = [status EXCEPT ![j] = "rejected"]
      /\ number' = [number EXCEPT ![j] = c.address]
      /\ ticket' = [ticket EXCEPT ![j] = calls + 1]
      /\ calls' = calls + 1
      /\ call' = [call EXCEPT ![j] = c]
      /\ UNCHANGED <<work, pending, records>>
  BY DEF DeleteAllSessions, storage
<1> QED BY <1>1, CallKeeps

\* The queue lets a job run when the ones before it have settled.
LEMMA BeginKeeps ==
  ASSUME JobsInv, NEW j \in Jobs, Begin(j)
  PROVE  JobsInv'
<1>1. /\ status[j] = "queued"
      /\ \A k \in Jobs : Lock!Ahead(k, j) => Lock!Settled(k)
      /\ status' = [status EXCEPT ![j] = "running"]
      /\ UNCHANGED <<number, ticket, calls, call, work, pending, records>>
  BY DEF Begin, Lock!Run, storage
<1>2. /\ status'[j] = "running"
      /\ \A k \in Jobs \ {j} : status'[k] = status[k]
  BY <1>1 DEF JobsInv, TypesOK
<1>3. TypesOK' /\ CallsOK'
  BY <1>1, <1>2 DEF JobsInv, TypesOK, CallsOK, Called
<1>4. OrderOK'
  BY <1>1, <1>2 DEF JobsInv, OrderOK, Lock!Ahead, Lock!Settled
<1>5. UnbegunOK'
  BY <1>1, <1>2 DEF JobsInv, UnbegunOK
<1>6. work[j].step = "begin" /\ pending[j] = {}
  BY <1>1 DEF JobsInv, UnbegunOK
<1>7. HeldOK'
  BY <1>1, <1>2, <1>6 DEF JobsInv, HeldOK, Holds, Loaded, Message, Header
<1>8. WritesOK'
  BY <1>1, <1>2, <1>6 DEF JobsInv, WritesOK, Stores, Loaded
<1> QED BY <1>3, <1>4, <1>5, <1>7, <1>8 DEF JobsInv

-----------------------------------------------------------------------------
\* The session encrypt takes is the open one of the record.
LEMMA OpenSessionIs ==
  ASSUME NEW record, CanEncryptIn(record)
  PROVE  LET session == OpenSession(record)
         IN  /\ record # None /\ session \in SessionsIn(record)
             /\ IsOpen(session) /\ CanEncrypt(session)
             /\ CanUpdateSessionState(record, Encrypted(session), None)
<1> DEFINE session == OpenSession(record)
           open == CHOOSE key \in OpenKeys(record) : TRUE
<1>1. /\ record # None /\ OpenKeys(record) # {} /\ CanEncrypt(session)
      /\ CanUpdateSessionState(record, Encrypted(session), None)
  BY DEF CanEncryptIn
<1>2. open \in OpenKeys(record)
  BY <1>1
<1>3. session = record.sessions[open]
  BY DEF OpenSession
<1> HIDE DEF open
<1>4. open \in DOMAIN record.sessions /\ IsOpen(record.sessions[open])
  BY <1>2 DEF OpenKeys
<1> QED BY <1>1, <1>3, <1>4 DEF SessionsIn

\* The handlers.  Each holds and stores what it made of the stored record.
LEMMA EncryptKeeps ==
  ASSUME JobsInv, NEW j \in Jobs, Encrypt(j)
  PROVE  JobsInv'
<1> DEFINE record == Loaded(j)
           session == OpenSession(record)
           held == Done(WhisperMessage(session, OurIdentity))
           after == UpdateSessionState(record, Encrypted(session), None)
<1>1. status[j] = "running" /\ pending[j] = {} /\ call[j].kind = "encrypt"
  BY DEF Encrypt, At
<1>2. CASE CanEncryptIn(record)
  <2>1. Continue(j, held, {StoreSession(after)})
    BY <1>2 DEF Encrypt
  <2>2. /\ record # None /\ session \in SessionsIn(record)
        /\ IsOpen(session) /\ CanEncrypt(session)
        /\ CanUpdateSessionState(record, Encrypted(session), None)
    BY <1>2, OpenSessionIs
  <2>3. after \in Encryptions(record)
    BY <2>2 DEF Encryptions, Updates
  <2>4. IsChange(record, after, call[j], j)
    BY <1>1, <2>2, <2>3 DEF IsChange
  <2>5. DOMAIN held = DOMAIN NoWork /\ held.step = "done"
    BY DEF NoWork, Held, Done
  <2> HIDE DEF held, after
  <2>6. Holds(j, held)
    BY <1>1 DEF Holds
  <2>7. Stores(j, held, {StoreSession(after)})
    BY <2>4, <2>5 DEF Stores, StoreSession
  <2> QED BY <1>1, <2>1, <2>5, <2>6, <2>7, ContinueKeeps
<1>3. CASE ~CanEncryptIn(record)
  BY <1>1, <1>3, SettledKeeps DEF Encrypt, Throw
<1> QED BY <1>2, <1>3

\* A job that has made its record asks to store it, and has nothing else to do.
LEMMA DoneKeeps ==
  ASSUME JobsInv, NEW j \in Jobs, status[j] = "running",
         NEW writes, Continue(j, Done(None), writes),
         NEW after, IsChange(Loaded(j), after, call[j], j),
         \A c \in writes : c = StoreSession(after) \/ c.write = "saveIdentity"
  PROVE  JobsInv'
<1>1. DOMAIN Done(None) = DOMAIN NoWork /\ Done(None).step = "done"
  BY DEF NoWork, Held, Done
<1>2. Holds(j, Done(None))
  BY <1>1 DEF Holds
<1>3. Stores(j, Done(None), writes)
  BY <1>1 DEF Stores, StoreSession
<1> QED BY <1>1, <1>2, <1>3, ContinueKeeps

\* Each of the other handlers keeps the invariant.
LEMMA CloseKeeps ==
  ASSUME JobsInv, NEW j \in Jobs, Close(j)
  PROVE  JobsInv'
<1> DEFINE record == Loaded(j)
           after == ArchiveCurrentState(record)
<1>1. status[j] = "running" /\ pending[j] = {} /\ call[j].kind = "close"
  BY DEF Close, At
<1>2. CASE record = None \/ OpenKeys(record) = {} \/ ~CanArchive(record)
  BY <1>1, <1>2, SettledKeeps DEF Close, Throw
<1>3. CASE ~(record = None \/ OpenKeys(record) = {} \/ ~CanArchive(record))
  <2>1. Continue(j, Done(None), {StoreSession(after)})
    BY <1>3 DEF Close
  <2>2. IsChange(record, after, call[j], j)
    BY <1>1, <1>3 DEF IsChange
  <2> HIDE DEF after
  <2> QED BY <1>1, <2>1, <2>2, DoneKeeps
<1> QED BY <1>2, <1>3

LEMMA TrySessionsKeeps ==
  ASSUME JobsInv, NEW j \in Jobs, TrySessions(j)
  PROVE  JobsInv'
<1> DEFINE record == Loaded(j)
<1>1. status[j] = "running" /\ pending[j] = {} /\ call[j].kind = "decrypt"
  BY DEF TrySessions, At
<1>2. CASE record = None \/ Decrypting(j) = {}
  BY <1>1, <1>2, SettledKeeps DEF TrySessions, Throw
<1>3. CASE ~(record = None \/ Decrypting(j) = {})
  <2>1. PICK key \in Decrypting(j) :
          Continue(j, Held("decrypted", FirstLoad(j, key), key, None), {})
    BY <1>3 DEF TrySessions
  <2> DEFINE held == Held("decrypted", FirstLoad(j, key), key, None)
  <2>2. /\ DOMAIN held = DOMAIN NoWork /\ held.step = "decrypted"
        /\ held.key = key /\ held.record = FirstLoad(j, key)
    BY DEF NoWork, Held
  <2>3. /\ key \in DOMAIN record.sessions
        /\ Decrypts(record.sessions[key], Message(j), OurIdentity, RatchetKey(j))
    BY DEF Decrypting
  <2>4. FirstLoad(j, key).sessions[key]
          = Decrypted(record.sessions[key], Message(j), RatchetKey(j))
    BY <2>3 DEF FirstLoad
  <2> HIDE DEF held
  <2>5. Holds(j, held)
    BY <1>1, <1>3, <2>2, <2>3, <2>4 DEF Holds, HoldsSession
  <2>6. Stores(j, held, {})
    BY DEF Stores
  <2> QED BY <1>1, <2>1, <2>2, <2>5, <2>6, ContinueKeeps DEF held
<1> QED BY <1>2, <1>3

LEMMA StoreSecondLoadKeeps ==
  ASSUME JobsInv, NEW j \in Jobs, StoreSecondLoad(j)
  PROVE  JobsInv'
<1> DEFINE record == Loaded(j)
           found == record.sessions[work[j].key]
           session == work[j].record.sessions[work[j].key]
           after == UpdateSessionState(record, session, None)
<1>1. /\ status[j] = "running" /\ pending[j] = {} /\ call[j].kind = "decrypt"
      /\ work[j].step = "decrypted"
  BY DEF StoreSecondLoad, At
<1>2. CASE CanUpdateSessionState(record, session, None)
  <2>1. Continue(j, Done(None), {StoreSession(after)})
    BY <1>2 DEF StoreSecondLoad
  <2>2. HoldsSession(record, work[j], Message(j), j)
    BY <1>1 DEF JobsInv, HeldOK, Holds
  <2>3. /\ record # None /\ found \in SessionsIn(record)
        /\ Decrypts(found, Message(j), OurIdentity, RatchetKey(j))
        /\ session = Decrypted(found, Message(j), RatchetKey(j))
    BY <2>2 DEF HoldsSession, SessionsIn
  <2>4. after \in Decryptions(record, SessionsIn(record), Message(j), j)
    BY <1>2, <2>3 DEF Decryptions, Updates
  <2>5. IsChange(record, after, call[j], j)
    BY <1>1, <2>3, <2>4 DEF IsChange, Message
  <2> HIDE DEF after
  <2> QED BY <1>1, <2>1, <2>5, DoneKeeps
<1>3. CASE ~CanUpdateSessionState(record, session, None)
  BY <1>1, <1>3, SettledKeeps DEF StoreSecondLoad, Throw
<1> QED BY <1>2, <1>3

LEMMA LoadRecordKeeps ==
  ASSUME JobsInv, NEW j \in Jobs, LoadRecord(j)
  PROVE  JobsInv'
<1> DEFINE held == Held("trusted", WorkingRecord(Loaded(j), Header(j)), None, None)
<1>1. status[j] = "running" /\ pending[j] = {} /\ call[j].kind = "receive"
  BY DEF LoadRecord, At
<1>2. CASE IsTrusted(trusted, Header(j).identityKey)
  <2>1. Continue(j, held, {})
    BY <1>2 DEF LoadRecord
  <2>2. /\ DOMAIN held = DOMAIN NoWork /\ held.step = "trusted"
        /\ held.record = WorkingRecord(Loaded(j), Header(j))
    BY DEF NoWork, Held
  <2> HIDE DEF held
  <2>3. Holds(j, held) /\ Stores(j, held, {})
    BY <1>1, <2>2 DEF Holds, Stores
  <2> QED BY <1>1, <2>1, <2>2, <2>3, ContinueKeeps
<1>3. CASE ~IsTrusted(trusted, Header(j).identityKey)
  BY <1>1, <1>3, SettledKeeps DEF LoadRecord, Throw
<1> QED BY <1>2, <1>3

LEMMA ProcessV3Keeps ==
  ASSUME JobsInv, NEW j \in Jobs, ProcessV3(j)
  PROVE  JobsInv'
<1> DEFINE record == WorkingRecord(Loaded(j), Header(j))
           held == Held("processed", record, Header(j).baseKey, None)
           new == Held("processed",
                       RecordWithNewSession(record, HeaderSession(j), Header(j)),
                       Header(j).baseKey, Header(j).preKeyId)
<1>1. /\ status[j] = "running" /\ pending[j] = {} /\ call[j].kind = "receive"
      /\ work[j].step = "trusted"
  BY DEF ProcessV3, At
<1>2. work[j].record = record
  BY <1>1 DEF JobsInv, HeldOK, Holds
<1>3. /\ DOMAIN held = DOMAIN NoWork /\ held.step = "processed"
      /\ held.key = Header(j).baseKey
      /\ held.record = record
  BY DEF NoWork, Held
<1>4. /\ DOMAIN new = DOMAIN NoWork /\ new.step = "processed"
      /\ new.key = Header(j).baseKey
      /\ new.record = RecordWithNewSession(record, HeaderSession(j), Header(j))
  BY DEF NoWork, Held
<1>5. \/ Throw(j)
      \/ IsDuplicate(record, Header(j)) /\ Continue(j, held, {})
      \/ /\ ~IsDuplicate(record, Header(j))
         /\ CanAddSession(record, HeaderSession(j), Header(j))
         /\ Continue(j, new, {SaveIdentity(Header(j).identityKey)})
  BY <1>2 DEF ProcessV3
<1> HIDE DEF record, held, new
<1>6. CASE Throw(j)
  BY <1>1, <1>6, SettledKeeps DEF Throw
<1>7. CASE IsDuplicate(record, Header(j)) /\ Continue(j, held, {})
  <2>1. Holds(j, held)
    BY <1>1, <1>3, <1>7 DEF Holds, HoldsProcessed, ReceivingRecords, record
  <2>2. Stores(j, held, {})
    BY DEF Stores
  <2> QED BY <1>1, <1>3, <1>7, <2>1, <2>2, ContinueKeeps
<1>8. CASE /\ ~IsDuplicate(record, Header(j))
           /\ CanAddSession(record, HeaderSession(j), Header(j))
           /\ Continue(j, new, {SaveIdentity(Header(j).identityKey)})
  <2>1. HeaderSession(j) \in NewSessions(Header(j))
    BY DEF HeaderSession, NewSessions
  <2>2. Holds(j, new)
    <3>1. new.record \in ReceivingRecords(record, Header(j))
      BY <1>4, <1>8, <2>1 DEF ReceivingRecords
    <3> QED BY <1>1, <1>4, <3>1 DEF Holds, HoldsProcessed, record
  <2>3. Stores(j, new, {SaveIdentity(Header(j).identityKey)})
    BY DEF Stores, SaveIdentity
  <2> QED BY <1>1, <1>4, <1>8, <2>2, <2>3, ContinueKeeps
<1> QED BY <1>5, <1>6, <1>7, <1>8

LEMMA DecryptFirstKeeps ==
  ASSUME JobsInv, NEW j \in Jobs, DecryptFirst(j)
  PROVE  JobsInv'
<1> DEFINE record == work[j].record
           session == record.sessions[work[j].key]
           decrypted == Decrypted(session, Message(j), RatchetKey(j))
           after == UpdateSessionState(record, decrypted, None)
           can == /\ HasSessionByBaseKey(record, work[j].key)
                  /\ Decrypts(session, Message(j), OurIdentity, RatchetKey(j))
                  /\ CanUpdateSessionState(record, decrypted, None)
           held == IF work[j].preKeyId = None THEN Done(None)
                   ELSE Held("stored", None, None, work[j].preKeyId)
<1>1. /\ status[j] = "running" /\ pending[j] = {} /\ call[j].kind = "receive"
      /\ work[j].step = "processed"
  BY DEF DecryptFirst, At
<1>2. CASE can
  <2>1. Continue(j, held, {StoreSession(after)})
    BY <1>2 DEF DecryptFirst
  <2>2. HoldsProcessed(WorkingRecord(Loaded(j), Header(j)), work[j], Header(j))
    BY <1>1 DEF JobsInv, HeldOK, Holds
  <2> DEFINE found == {record.sessions[k] : k \in DOMAIN record.sessions
                                                   \cap {Header(j).baseKey}}
  <2>3. session \in found
    BY <1>2, <2>2 DEF HasSessionByBaseKey, HoldsProcessed
  <2>4. after \in Decryptions(record, found, Message(j), j)
    <3> HIDE DEF found
    <3> QED BY <1>2, <2>3 DEF Decryptions, Updates
  <2> HIDE DEF after
  <2>5. after \in Receptions(WorkingRecord(Loaded(j), Header(j)), Header(j),
                             Message(j), j)
    BY <2>2, <2>4 DEF HoldsProcessed, Receptions
  <2>6. /\ Header(j) = call[j].header
        /\ Message(j) = call[j].message
    BY DEF Header, Message
  <2>7. IsChange(Loaded(j), after, call[j], j)
    BY <1>1, <2>5, <2>6 DEF IsChange
  <2>8. DOMAIN held = DOMAIN NoWork /\ held.step \in {"stored", "done"}
    BY DEF NoWork, Held, Done
  <2> HIDE DEF held
  <2>9. Holds(j, held)
    BY <2>8 DEF Holds
  <2>10. Stores(j, held, {StoreSession(after)})
    BY <2>7, <2>8 DEF Stores, StoreSession
  <2> QED BY <1>1, <2>1, <2>8, <2>9, <2>10, ContinueKeeps
<1>3. CASE ~can
  BY <1>1, <1>3, SettledKeeps DEF DecryptFirst, Throw
<1> QED BY <1>2, <1>3

LEMMA RemoveUsedPreKeyKeeps ==
  ASSUME JobsInv, NEW j \in Jobs, RemoveUsedPreKey(j)
  PROVE  JobsInv'
<1> DEFINE writes == {RemovePreKey(work[j].preKeyId)}
           held == [work[j] EXCEPT !.step = "done"]
<1>1. status[j] = "running" /\ Continue(j, held, writes)
  BY DEF RemoveUsedPreKey, At
<1>2. DOMAIN held = DOMAIN NoWork /\ held.step = "done"
  BY DEF NoWork, Held, JobsInv, TypesOK
<1> HIDE DEF held
<1>3. Holds(j, held) /\ Stores(j, held, writes)
  BY <1>2 DEF Holds, Stores, RemovePreKey
<1> QED BY <1>1, <1>2, <1>3, ContinueKeeps

LEMMA CheckIdentityKeeps ==
  ASSUME JobsInv, NEW j \in Jobs, CheckIdentity(j)
  PROVE  JobsInv'
<1> DEFINE held == Held("trusted", None, None, None)
<1>1. status[j] = "running" /\ pending[j] = {} /\ call[j].kind = "processPreKey"
  BY DEF CheckIdentity, At
<1>2. CASE Continue(j, held, {})
  <2>1. DOMAIN held = DOMAIN NoWork
    BY DEF NoWork, Held
  <2>2. Holds(j, held) /\ Stores(j, held, {})
    BY <1>1 DEF Holds, Stores
  <2> QED BY <1>1, <1>2, <2>1, <2>2, ContinueKeeps
<1>3. CASE Throw(j)
  BY <1>1, <1>3, SettledKeeps DEF Throw
<1> QED BY <1>2, <1>3 DEF CheckIdentity

LEMMA ProcessDeviceKeeps ==
  ASSUME JobsInv, NEW j \in Jobs, ProcessDevice(j)
  PROVE  JobsInv'
<1> DEFINE device == call[j].device
           session == PendingSession(OurIdentity, BaseKey(j), RatchetKey(j), device)
           after == ProcessPreKey(Loaded(j), session, device)
           writes == {StoreSession(after), SaveIdentity(after.identityKey)}
<1>1. status[j] = "running" /\ pending[j] = {} /\ call[j].kind = "processPreKey"
  BY DEF ProcessDevice, At
<1>2. CASE CanProcessPreKey(Loaded(j), None, session, device)
  <2>1. Continue(j, Done(None), writes)
    BY <1>2 DEF ProcessDevice
  <2>2. IsChange(Loaded(j), after, call[j], j)
    BY <1>1, <1>2 DEF IsChange
  <2> HIDE DEF after
  <2>3. \A c \in writes : c = StoreSession(after) \/ c.write = "saveIdentity"
    BY DEF SaveIdentity
  <2> HIDE DEF writes
  <2> QED BY <1>1, <2>1, <2>2, <2>3, DoneKeeps
<1>3. CASE ~CanProcessPreKey(Loaded(j), None, session, device)
  BY <1>1, <1>3, SettledKeeps DEF ProcessDevice, Throw
<1> QED BY <1>2, <1>3

LEMMA HandlerKeeps ==
  ASSUME JobsInv, NEW j \in Jobs, Handler(j)
  PROVE  JobsInv'
<1>1. ASSUME Return(j) PROVE JobsInv'
  BY <1>1, SettledKeeps DEF Return
<1> QED BY <1>1, EncryptKeeps, CloseKeeps, TrySessionsKeeps, StoreSecondLoadKeeps,
           LoadRecordKeeps, ProcessV3Keeps, DecryptFirstKeeps, RemoveUsedPreKeyKeeps,
           CheckIdentityKeeps, ProcessDeviceKeeps DEF Handler

-----------------------------------------------------------------------------
\* A call of j is over, and has not changed a record.
LEMMA CallOverKeeps ==
  ASSUME JobsInv, NEW j \in Jobs, NEW c \in pending[j],
         pending' = [pending EXCEPT ![j] = @ \ {c}],
         UNCHANGED <<status, number, ticket, calls, call, work, records>>
  PROVE  JobsInv'
<1>1. /\ pending'[j] = pending[j] \ {c}
      /\ \A k \in Jobs \ {j} : pending'[k] = pending[k]
  BY DEF JobsInv, TypesOK
<1>2. TypesOK' /\ CallsOK' /\ OrderOK'
  BY DEF JobsInv, TypesOK, CallsOK, Called, OrderOK, Lock!Ahead, Lock!Settled
<1>3. UnbegunOK'
  BY <1>1 DEF JobsInv, UnbegunOK
<1>4. HeldOK'
  BY DEF JobsInv, HeldOK, Holds, Loaded, Message, Header
<1>5. WritesOK'
  BY <1>1 DEF JobsInv, WritesOK, Stores, Loaded
<1> QED BY <1>2, <1>3, <1>4, <1>5 DEF JobsInv

\* The queue of a job that was called is that of a device.
LEMMA NumberIsAddress ==
  ASSUME JobsInv, NEW j \in Jobs, status[j] = "running"
  PROVE  number[j] \in Addresses
BY JobsAssumption DEF JobsInv, CallsOK, Called

\* When a record is stored nobody else works on the one it replaces.
LEMMA AnswerKeeps ==
  ASSUME JobsInv, NEW j \in Jobs, NEW c \in pending[j], Answer(j, c)
  PROVE  JobsInv'
<1>1. /\ pending' = [pending EXCEPT ![j] = @ \ {c}]
      /\ UNCHANGED <<status, number, ticket, calls, call, work>>
  BY DEF Answer, queues
<1>2. CASE c.write # "storeSession"
  BY <1>1, <1>2, CallOverKeeps DEF Answer
<1>3. CASE c.write = "storeSession"
  <2>1. records' = [records EXCEPT ![number[j]] = c.value]
    BY <1>3 DEF Answer
  <2>2. /\ status[j] = "running"
        /\ work[j].step \in {"stored", "done"}
        /\ \A d \in pending[j] : d # c => d.write = "saveIdentity"
    BY <1>3 DEF JobsInv, WritesOK, Stores
  <2>3. /\ pending'[j] = pending[j] \ {c}
        /\ \A k \in Jobs \ {j} : pending'[k] = pending[k]
    BY <1>1 DEF JobsInv, TypesOK
  <2>4. ASSUME NEW k \in Jobs \ {j}, status[k] = "running"
        PROVE  Loaded(k)' = Loaded(k)
    <3>1. number[k] # number[j]
      BY <2>2, <2>4, OneRuns
    <3>2. number[k] \in Addresses /\ number[j] \in Addresses
      BY <2>2, <2>4, NumberIsAddress
    <3>3. records = [a \in Addresses |-> records[a]]
      BY DEF JobsInv, TypesOK
    <3> QED BY <1>1, <2>1, <3>1, <3>2, <3>3 DEF Loaded
  <2>5. TypesOK' /\ CallsOK' /\ OrderOK'
    BY <1>1, <2>1 DEF JobsInv, TypesOK, CallsOK, Called, OrderOK, Lock!Ahead,
                      Lock!Settled
  <2>6. UnbegunOK'
    BY <1>1, <2>3 DEF JobsInv, UnbegunOK
  <2>7. HeldOK'
    <3>1. Holds(j, work[j])'
      BY <1>1, <2>2 DEF Holds
    <3>2. ASSUME NEW k \in Jobs \ {j}, status[k] = "running"
          PROVE  Holds(k, work[k])'
      BY <1>1, <2>4, <3>2 DEF JobsInv, HeldOK, Holds, Message, Header
    <3> QED BY <1>1, <3>1, <3>2 DEF HeldOK
  <2>8. WritesOK'
    <3>1. \A d \in pending'[j] : d.write # "storeSession"
      BY <2>2, <2>3
    <3>2. ASSUME NEW k \in Jobs \ {j}
          PROVE  /\ Stores(k, work[k], pending[k])'
                 /\ (\E d \in pending'[k] : d.write = "storeSession")
                      => status'[k] = "running"
      BY <1>1, <2>3, <2>4 DEF JobsInv, WritesOK, Stores
    <3> QED BY <3>1, <3>2 DEF WritesOK, Stores
  <2> QED BY <2>5, <2>6, <2>7, <2>8 DEF JobsInv
<1> QED BY <1>2, <1>3

\* When a write fails nothing else is being stored for its job: a job that
\* stores a record has no other call open but that of saveIdentity.
LEMMA RefuseKeeps ==
  ASSUME JobsInv, "saveIdentity" \notin Refusable,
         NEW j \in Jobs, NEW c \in pending[j], Refuse(j, c)
  PROVE  JobsInv'
<1>1. /\ pending' = [pending EXCEPT ![j] = @ \ {c}]
      /\ c.write # "saveIdentity"
      /\ UNCHANGED <<call, work, records>>
  BY DEF Refuse, Fail, storage
<1>2. CASE status[j] = "running"
  <2>1. Lock!Finish(j, "rejected")
    BY <1>2 DEF Refuse
  <2>2. /\ pending'[j] = pending[j] \ {c}
        /\ \A k \in Jobs \ {j} : pending'[k] = pending[k]
        /\ DOMAIN pending' = Jobs
    BY <1>1 DEF JobsInv, TypesOK
  <2>3. \A d \in pending'[j] : d.write # "storeSession"
    BY <1>1, <2>2 DEF JobsInv, WritesOK, Stores
  <2>4. \A k \in Jobs : pending'[k] \subseteq pending[k]
    BY <2>2
  <2> QED BY <1>1, <2>1, <2>2, <2>3, <2>4, SettleKeeps
<1>3. CASE status[j] # "running"
  <2>1. UNCHANGED <<status, number, ticket, calls>>
    BY <1>3 DEF Refuse, queues
  <2> QED BY <1>1, <2>1, CallOverKeeps
<1> QED BY <1>2, <1>3

\* When a load fails its job has no call open.
LEMMA RefuseLoadKeeps ==
  ASSUME JobsInv, NEW j \in Jobs, RefuseLoad(j)
  PROVE  JobsInv'
<1>1. /\ Lock!Finish(j, "rejected") /\ pending[j] = {}
      /\ UNCHANGED <<call, work, records, pending>>
  BY DEF RefuseLoad, storage
<1>2. DOMAIN pending = Jobs
  BY DEF JobsInv, TypesOK
<1>3. /\ \A k \in Jobs : pending'[k] \subseteq pending[k]
      /\ \A c \in pending'[j] : c.write # "storeSession"
  BY <1>1
<1> QED BY <1>1, <1>2, <1>3, SettleKeeps

\* After a stop no job runs and no call is open.
LEMMA StopKeeps ==
  ASSUME JobsInv, Stop
  PROVE  JobsInv'
<1>1. /\ status' = [j \in Jobs |-> IF status[j] \in {"queued", "running"}
                                     THEN "rejected" ELSE status[j]]
      /\ pending' = [j \in Jobs |-> {}]
      /\ UNCHANGED <<number, ticket, calls, call, work, records>>
  BY DEF Stop, storage
<1>2. \A j \in Jobs : /\ status'[j] # "running" /\ status'[j] # "queued"
                      /\ status'[j] = "new" <=> status[j] = "new"
                      /\ pending'[j] = {}
  BY <1>1
<1>3. TypesOK'
  BY <1>1 DEF JobsInv, TypesOK
<1>4. CallsOK'
  BY <1>1, <1>2 DEF JobsInv, CallsOK, Called
<1>5. OrderOK' /\ HeldOK'
  BY <1>2 DEF OrderOK, HeldOK
<1>6. UnbegunOK'
  BY <1>1, <1>2 DEF JobsInv, UnbegunOK
<1>7. WritesOK'
  BY <1>2 DEF WritesOK, Stores
<1> QED BY <1>3, <1>4, <1>5, <1>6, <1>7 DEF JobsInv

\* Every step keeps the invariant.
LEMMA NextKeeps ==
  ASSUME JobsInv, "saveIdentity" \notin Refusable, [Next]_vars
  PROVE  JobsInv'
<1>1. ASSUME NEW j \in Jobs, NEW c \in Calls,
             Request(j, c) \/ DeleteAllSessions(j, c)
      PROVE  JobsInv'
  BY <1>1, RequestKeeps, DeleteKeeps
<1>2. ASSUME NEW j \in Jobs, Begin(j) \/ Handler(j) \/ RefuseLoad(j)
      PROVE  JobsInv'
  BY <1>2, BeginKeeps, HandlerKeeps, RefuseLoadKeeps
<1>3. ASSUME NEW j \in Jobs, NEW c \in pending[j], Answer(j, c) \/ Refuse(j, c)
      PROVE  JobsInv'
  BY <1>3, AnswerKeeps, RefuseKeeps
<1>4. CASE UNCHANGED vars
  <2>1. UNCHANGED <<status, number, ticket, calls, call, work, pending, records>>
    BY <1>4 DEF vars, queues, storage
  <2> QED BY <2>1 DEF JobsInv, TypesOK, CallsOK, Called, OrderOK, UnbegunOK, HeldOK,
                  Holds, WritesOK, Stores, Loaded, Message, Header, Lock!Ahead,
                  Lock!Settled
<1> QED BY <1>1, <1>2, <1>3, <1>4, StopKeeps DEF Next

\* The invariant holds in every behaviour.
LEMMA AlwaysJobsInv ==
  ASSUME "saveIdentity" \notin Refusable
  PROVE  Spec => []JobsInv
<1>1. JobsInv /\ [Next]_vars => JobsInv'
  BY NextKeeps
<1> QED BY <1>1, InitJobsInv, PTL DEF Spec

-----------------------------------------------------------------------------
\* The queues serialize the use of the database: no job of a device runs
\* while a record another one asked to store is not stored yet.  This is for
\* storage in which saveIdentity does not fail; the run serial_storage shows
\* what its failure does.
THEOREM JobsSerialized ==
  ASSUME "saveIdentity" \notin Refusable
  PROVE  Spec => []SessionIOSerialized
<1>1. JobsInv => SessionIOSerialized
  BY OneRuns DEF JobsInv, WritesOK, SessionIOSerialized
<1> QED BY <1>1, AlwaysJobsInv, PTL

\* A step of a job is one operation on the record of its device, or changes
\* no record.
LEMMA StepImplementsStore ==
  ASSUME JobsInv, [Next]_vars
  PROVE  [Store!Next]_records
<1>1. CASE UNCHANGED records
  BY <1>1
<1>2. CASE ~UNCHANGED records
  <2>1. PICK j \in Jobs : \E c \in pending[j] : Answer(j, c)
    <3>1. ASSUME NEW j \in Jobs, Handler(j)
          PROVE  UNCHANGED records
      <4>1. ASSUME NEW held, NEW writes, Continue(j, held, writes)
            PROVE  UNCHANGED records
        BY <4>1 DEF Continue, storage
      <4>2. ASSUME NEW outcome, Settle(j, outcome)
            PROVE  UNCHANGED records
        BY <4>2 DEF Settle, storage
      <4>3. Encrypt(j) \/ Close(j) \/ TrySessions(j) \/ StoreSecondLoad(j) \/ Return(j)
              => UNCHANGED records
        BY <4>1, <4>2 DEF Encrypt, Close, TrySessions, StoreSecondLoad, Return, Throw
      <4>4. LoadRecord(j) \/ ProcessV3(j) \/ DecryptFirst(j) \/ RemoveUsedPreKey(j)
              => UNCHANGED records
        BY <4>1, <4>2 DEF LoadRecord, ProcessV3, DecryptFirst, RemoveUsedPreKey, Throw
      <4>5. CheckIdentity(j) \/ ProcessDevice(j) => UNCHANGED records
        BY <4>1, <4>2 DEF CheckIdentity, ProcessDevice, Throw
      <4> QED BY <3>1, <4>3, <4>4, <4>5 DEF Handler
    <3>2. ASSUME NEW j \in Jobs, NEW c, Request(j, c) \/ DeleteAllSessions(j, c) \/ Refuse(j, c)
          PROVE  UNCHANGED records
      BY <3>2 DEF Request, DeleteAllSessions, Refuse, storage
    <3>3. ASSUME NEW j \in Jobs, Begin(j) \/ RefuseLoad(j)
          PROVE  UNCHANGED records
      BY <3>3 DEF Begin, RefuseLoad, storage
    <3>4. UNCHANGED vars \/ Stop => UNCHANGED records
      BY DEF Stop, vars, storage
    <3> QED BY <1>2, <3>1, <3>2, <3>3, <3>4 DEF Next
  <2>2. PICK c \in pending[j] : Answer(j, c)
    BY <2>1
  <2>3. c.write = "storeSession" /\ records' = [records EXCEPT ![number[j]] = c.value]
    BY <1>2, <2>2 DEF Answer
  <2>4. status[j] = "running" /\ IsChange(Loaded(j), c.value, call[j], j)
    BY <2>3 DEF JobsInv, WritesOK, Stores
  <2>5. call[j] \in Calls /\ number[j] = call[j].address
    BY <2>4 DEF JobsInv, CallsOK, Called
  <2>6. number[j] \in Addresses
    BY <2>4, NumberIsAddress
  <2>7. records = [a \in Addresses |-> records[a]]
    BY DEF JobsInv, TypesOK
  <2>8. records'[number[j]] = c.value
    BY <2>3, <2>6, <2>7
  <2>9. c.value # Loaded(j)
    BY <1>2, <2>3, <2>6, <2>7 DEF Loaded
  <2>10. Store!Operation(call[j], j)
    BY <2>3, <2>4, <2>5, <2>8, <2>9 DEF Store!Operation, Loaded
  <2> QED BY <2>5, <2>10 DEF Store!Next
<1> QED BY <1>1, <1>2

\* The step-by-step operations implement the database of SessionStore: what
\* is stored is always the whole of one operation on what was stored before,
\* although each job loads and stores at different times, jobs of different
\* devices interleave, calls of the storage fail and the process stops.
THEOREM JobsImplementStore ==
  ASSUME "saveIdentity" \notin Refusable
  PROVE  Spec => ImplementsStore
<1>1. Init => Store!Init
  BY DEF Init, Store!Init
<1>2. JobsInv /\ [Next]_vars => [Store!Next]_records
  BY StepImplementsStore
<1> QED BY <1>1, <1>2, AlwaysJobsInv, PTL DEF Spec, ImplementsStore, Store!Spec

-----------------------------------------------------------------------------
\* The key pairs a job may draw, for its session and for its ratchet.
JobKeys(j) == {BaseKey(j), RatchetKey(j)}
BothKeys == KeysOf(Us) \cup KeysOf(Peer)
JobsKeys == UNION {JobKeys(j) : j \in Jobs}

\* A record of ours with the peer, over the keys K.
SoundRecord(K, record) ==
  /\ RecordOK(record)
  /\ RecordOver(K, record)
  /\ \A key \in DOMAIN record.sessions : SessionOK(K, Us, Peer, record.sessions[key])

Sending(s) == s.ephemeralKeyPair \in DOMAIN s.chains

\* t sends on the chain of s, where s was or later.
Follows(s, t) == /\ Sending(s)
                 /\ t.rootKey = s.rootKey
                 /\ SendingChain(t).counter >= SendingChain(s).counter

\* The session under this key sends on the chain of the one that was there.
KeepsSending(record, after, key) ==
  Sending(after.sessions[key]) =>
    /\ key \in DOMAIN record.sessions
    /\ Follows(record.sessions[key], after.sessions[key])

\* What the peer says is what a peer can say: its keys are its own.
MessageOK(K, m) == /\ m.ephemeralKey \in SessionKeys(Peer) \cap K
                   /\ m.counter \in Nat
                   /\ m.previousCounter \in Int
HeaderOK(K, h) == /\ h.identityKey \in K
                  /\ h.registrationId \in Nat
                  /\ h.preKeyId \in Nat
                  /\ h.signedPreKeyId \in Nat
                  /\ h.baseKey \in KeysOf(Peer) \cap K
DeviceOK(K, d) == /\ {d.identityKey, d.preKey} \subseteq K
                  /\ d.signedPreKey \in KeysOf(Peer) \cap K
                  /\ d.registrationId \in Nat
                  /\ d.preKeyId \in Nat
                  /\ d.signedKeyId \in Nat
CallOK(K, c) == /\ c.kind \in {"decrypt", "receive"} => MessageOK(K, c.message)
                /\ c.kind = "receive" => HeaderOK(K, c.header)
                /\ c.kind = "processPreKey" => DeviceOK(K, c.device)

\* The counter of a sending chain is a number.
LEMMA CounterIsInt ==
  ASSUME NEW K, NEW s, SessionOver(K, s), Sending(s)
  PROVE  SendingChain(s).counter \in Int
BY DEF SessionOver, ChainsOver, ChainOver, Counters, Sending, SendingChain

\* A session that is kept sends on as it did.
LEMMA KeptFollows ==
  ASSUME NEW K, NEW L, NEW s, NEW t, SessionOK(K, Us, Peer, s), Kept(L, s, t), Sending(t)
  PROVE  Follows(s, t)
<1>1. Quiet(s, t)
  BY KeptIsQuiet
<1>2. Sending(s) /\ SendingChain(t) = SendingChain(s)
  BY <1>1 DEF Quiet, Sending, SendingChain
<1>3. SendingChain(s).counter \in Int
  BY <1>2, CounterIsInt DEF SessionOK
<1> QED BY <1>1, <1>2, <1>3 DEF Follows, Quiet

\* A record that was given a session: it sends on as before.
Given(L, record, s, after) ==
  /\ SoundRecord(L, after)
  /\ \A key \in DOMAIN after.sessions \ {s.baseKey} : KeepsSending(record, after, key)
  /\ s.baseKey \in DOMAIN after.sessions /\ Sending(after.sessions[s.baseKey]) =>
       /\ Sending(s)
       /\ after.sessions[s.baseKey].rootKey = s.rootKey
       /\ SendingChain(after.sessions[s.baseKey]) = SendingChain(s)

\* What updateSessionState makes of a sound record is such a record.
LEMMA GivenIs ==
  ASSUME NEW K, NEW L, K \subseteq L, NEW record, SoundRecord(K, record),
         NEW s, SessionOK(L, Us, Peer, s), NEW after, RecordOK(after),
         RecordWith(L, record, s, after)
  PROVE  Given(L, record, s, after)
<1>1. ASSUME NEW key \in DOMAIN after.sessions \ {s.baseKey}
      PROVE  /\ SessionOK(L, Us, Peer, after.sessions[key])
             /\ KeepsSending(record, after, key)
  <2> DEFINE old == record.sessions[key]
             t == after.sessions[key]
  <2>1. key \in DOMAIN record.sessions /\ Kept(L, old, t)
    BY <1>1 DEF RecordWith
  <2>2. SessionOK(K, Us, Peer, old)
    BY <2>1 DEF SoundRecord
  <2> HIDE DEF old, t
  <2>3. SessionOK(L, Us, Peer, t) /\ (Sending(t) => Follows(old, t))
    BY <2>1, <2>2, KeptOK, KeptFollows
  <2> QED BY <2>1, <2>3 DEF KeepsSending, old, t
<1>2. ASSUME s.baseKey \in DOMAIN after.sessions
      PROVE  /\ SessionOK(L, Us, Peer, after.sessions[s.baseKey])
             /\ Quiet(s, after.sessions[s.baseKey])
  <2>1. Slimmed(L, s, after.sessions[s.baseKey])
    BY <1>2 DEF RecordWith
  <2>2. Kept(L, s, after.sessions[s.baseKey])
    BY <2>1 DEF Kept
  <2> QED BY <2>1, <2>2, KeptIsQuiet, ThinnedOK DEF Slimmed
<1>3. SoundRecord(L, after)
  BY <1>1, <1>2 DEF SoundRecord, RecordWith
<1>4. s.baseKey \in DOMAIN after.sessions /\ Sending(after.sessions[s.baseKey]) =>
        /\ Sending(s)
        /\ after.sessions[s.baseKey].rootKey = s.rootKey
        /\ SendingChain(after.sessions[s.baseKey]) = SendingChain(s)
  BY <1>2 DEF Quiet, Sending, SendingChain
<1> QED BY <1>1, <1>3, <1>4 DEF Given

\* A message read: the session is sound, and it sends on the chain it had or
\* has a new root key.
ReadTo(K, L, r, t) == /\ SessionOK(L, Us, Peer, t)
                      /\ t.baseKey = r.baseKey
                      /\ t.closed = r.closed
                      /\ \/ t.rootKey \notin Seq(SUBSET K)
                         \/ Sending(t) => Follows(r, t)

\* decrypt reads in a session as ReadTo says, on a chain it has or by a turn.
LEMMA ReadIs ==
  ASSUME Us # Peer, NEW K, NEW r, Turnable(K, Us, Peer, r),
         DOMAIN r.chains # {} => SessionOK(K, Us, Peer, r),
         NEW m, MessageOK(K, m), NEW keyPair \in SessionKeys(Us), keyPair \notin K,
         NEW L, K \cup {keyPair} \subseteq L
  PROVE  ReadTo(K, L, r, Decrypted(r, m, keyPair))
<1> DEFINE key == m.ephemeralKey
           u == Stepped(r, m, keyPair)
           t == Decrypted(r, m, keyPair)
           M == K \cup {keyPair}
<1>1. /\ key \in SessionKeys(Peer)
      /\ key \in K
      /\ m.counter \in Int
      /\ m.previousCounter \in Int
  BY DEF MessageOK
<1>2. /\ SessionOver(K, r)
      /\ r.rootKey \in Seq(SUBSET K)
      /\ key # r.ephemeralKeyPair
      /\ r.lastRemoteEphemeralKey # r.ephemeralKeyPair
  BY <1>1, KeysApart, SessionKeysDistinct DEF Turnable, SessionOver
<1>3. t.baseKey = r.baseKey /\ t.closed = r.closed
  BY <1>2, DecryptedKeepsHead DEF SessionOver, SameHead, SessionFields
<1>4. CASE key \in DOMAIN r.chains
  <2>1. u = r
    BY <1>4 DEF Stepped, MaybeStepRatchet
  <2>2. SessionOK(K, Us, Peer, r)
    BY <1>4
  <2>3. SessionOK(K, Us, Peer, t)
    BY <1>1, <1>2, <1>4, <2>1, <2>2, DecryptedOK
  <2>4. /\ SameBut({"chains", "pendingPreKey"}, r, t)
        /\ DOMAIN t.chains = DOMAIN r.chains
        /\ \A k \in DOMAIN r.chains \ {key} : t.chains[k] = r.chains[k]
    BY <1>1, <1>2, <1>4, <2>1, DecryptedIs
  <2> HIDE DEF t
  <2>5. t.rootKey = r.rootKey /\ t.ephemeralKeyPair = r.ephemeralKeyPair
    BY <2>4 DEF SameBut, SessionFields
  <2>6. ASSUME Sending(t) PROVE Follows(r, t)
    <3>1. Sending(r) /\ SendingChain(t) = SendingChain(r)
      BY <1>2, <2>4, <2>5, <2>6 DEF Sending, SendingChain
    <3>2. SendingChain(r).counter \in Int
      BY <1>2, <3>1, CounterIsInt
    <3> QED BY <2>5, <3>1, <3>2 DEF Follows
  <2>7. SessionOK(L, Us, Peer, t)
    BY <2>3, SessionOKMore
  <2> QED BY <1>3, <2>6, <2>7 DEF ReadTo, t
<1>5. CASE key \notin DOMAIN r.chains
  <2>1. u = MaybeStepRatchet(r, key, m.previousCounter, keyPair)
    BY DEF Stepped
  <2>2. SessionOK(M, Us, Peer, u)
    BY <1>1, <1>5, <2>1, TurnedOK
  <2>3. Turned(r, key, m.previousCounter, keyPair, u)
    BY <1>1, <1>2, <1>5, <2>1, MaybeStepRatchetIs
  <2> HIDE DEF u, M
  <2>4. /\ key \in DOMAIN u.chains /\ u.ephemeralKeyPair = keyPair /\ key # keyPair
        /\ u.rootKey = Append(Append(r.rootKey, {key, r.ephemeralKeyPair}), {key, keyPair})
    BY <1>1, <2>3 DEF Turned
  <2>5. SessionOK(M, Us, Peer, t)
    BY <1>1, <2>2, <2>4, DecryptedOK DEF u
  <2>6. t.rootKey = u.rootKey
    <3>1. SameBut({"chains", "pendingPreKey"}, u, t)
      BY <1>1, <2>2, <2>4, DecryptedIs DEF u, SessionOK
    <3> HIDE DEF t
    <3> QED BY <3>1 DEF SameBut, SessionFields
  <2> DEFINE received == Append(r.rootKey, {key, r.ephemeralKeyPair})
             S == SUBSET M
  <2>7. received \in Seq(S)
    <3>1. r.rootKey \in Seq(SUBSET K) /\ {key, r.ephemeralKeyPair} \in SUBSET K
      BY <1>1, <1>2 DEF SessionOver
    <3>2. received \in Seq(SUBSET K)
      BY <3>1
    <3>3. SUBSET K \subseteq S
      BY DEF M
    <3> HIDE DEF received, S
    <3> QED BY <3>2, <3>3, SeqMonotonic
  <2>8. t.rootKey = Append(received, {key, keyPair})
    BY <2>4, <2>6
  <2> HIDE DEF received, S, t
  <2>9. t.rootKey \notin Seq(SUBSET K)
    BY <2>7, <2>8, NewRootKey
  <2>10. SessionOK(L, Us, Peer, t)
    BY <2>5, SessionOKMore DEF M
  <2> QED BY <1>3, <2>9, <2>10 DEF ReadTo, t
<1> QED BY <1>4, <1>5

\* An operation on a record: what it leaves is sound over the keys L, and
\* every session of it sends on as before, but one that may have a root key
\* that was not over the keys K.
Changed(K, L, record, after) ==
  /\ SoundRecord(L, after)
  /\ \E key : /\ \A k \in DOMAIN after.sessions \ {key} : KeepsSending(record, after, k)
              /\ key \in DOMAIN after.sessions =>
                   \/ KeepsSending(record, after, key)
                   \/ after.sessions[key].rootKey \notin Seq(SUBSET K)

\* What was put in a record is in it, when it sends on or has a new root key.
LEMMA GivenChanges ==
  ASSUME NEW K, NEW L, K \subseteq L, NEW record, SoundRecord(K, record),
         NEW s, SessionOK(L, Us, Peer, s), NEW after, RecordOK(after),
         RecordWith(L, record, s, after),
         \/ s.rootKey \notin Seq(SUBSET K)
         \/ Sending(s) => /\ s.baseKey \in DOMAIN record.sessions
                          /\ Follows(record.sessions[s.baseKey], s)
  PROVE  Changed(K, L, record, after)
<1> DEFINE key == s.baseKey
           t == after.sessions[key]
<1>1. /\ SoundRecord(L, after)
      /\ \A k \in DOMAIN after.sessions \ {key} : KeepsSending(record, after, k)
      /\ key \in DOMAIN after.sessions /\ Sending(t) =>
           Sending(s) /\ t.rootKey = s.rootKey /\ SendingChain(t) = SendingChain(s)
  <2>1. Given(L, record, s, after)
    BY GivenIs
  <2> QED BY <2>1 DEF Given
<1>2. key \in DOMAIN after.sessions => t.rootKey = s.rootKey
  <2> SUFFICES ASSUME key \in DOMAIN after.sessions PROVE t.rootKey = s.rootKey
    OBVIOUS
  <2>1. Thinned(s, t)
    BY DEF RecordWith, Slimmed
  <2> HIDE DEF t
  <2> QED BY <2>1 DEF Thinned, SameBut, SessionFields
<1>3. ASSUME key \in DOMAIN after.sessions, Sending(t),
             key \in DOMAIN record.sessions, Follows(record.sessions[key], s)
      PROVE  KeepsSending(record, after, key)
  BY <1>1, <1>3 DEF KeepsSending, Follows
<1> HIDE DEF t
<1>4. key \in DOMAIN after.sessions =>
        KeepsSending(record, after, key) \/ t.rootKey \notin Seq(SUBSET K)
  BY <1>1, <1>2, <1>3 DEF KeepsSending, t
<1> QED BY <1>1, <1>4 DEF Changed, t

\* updateSessionState of a sound record.
LEMMA UpdatesSound ==
  ASSUME NEW K, NEW L, K \subseteq L, NEW record, SoundRecord(K, record),
         NEW s, SessionOver(L, s), NEW id \in Nat \cup {None},
         CanUpdateSessionState(record, s, id),
         IsOpen(s) => OpenKeys(record) \subseteq {s.baseKey}
  PROVE  LET after == UpdateSessionState(record, s, id)
         IN  RecordOK(after) /\ RecordWith(L, record, s, after)
<1>1. RecordOver(L, record)
  BY RecordOverMore DEF SoundRecord
<1>2. RecordWith(L, record, s, UpdateSessionState(record, s, id))
  BY <1>1, UpdatedIs
<1>3. DOMAIN s = SessionFields /\ s.closed \in Int
  BY DEF SessionOver, SessionFields
<1>4. RecordOK(UpdateSessionState(record, s, id))
  BY <1>3, UpdateSessionStateKeeps DEF SoundRecord
<1> QED BY <1>2, <1>4

\* A session added to a sound record whose open session is closed first.
LEMMA AddsSound ==
  ASSUME NEW K, NEW L, K \subseteq L, NEW record, SoundRecord(K, record),
         NEW s, SessionOver(L, s), NEW id \in Nat \cup {None}, CanArchive(record),
         CanUpdateSessionState(ArchiveCurrentState(record), s, id)
  PROVE  LET after == UpdateSessionState(ArchiveCurrentState(record), s, id)
         IN  /\ RecordOK(after)
             /\ RecordWith(L, record, s, after)
             /\ OpenKeys(after) \subseteq {s.baseKey}
<1> DEFINE archived == ArchiveCurrentState(record)
<1>1. RecordOver(L, record) /\ RecordOK(record)
  BY RecordOverMore DEF SoundRecord
<1>2. RecordWith(L, record, s, UpdateSessionState(archived, s, id))
  BY <1>1, AddedIs
<1>3. DOMAIN s = SessionFields /\ s.closed \in Int
  BY DEF SessionOver, SessionFields
<1>4. RecordOK(archived) /\ OpenKeys(archived) = {}
  BY <1>1, ArchiveCurrentStateKeeps
<1> HIDE DEF archived
<1>5. /\ RecordOK(UpdateSessionState(archived, s, id))
      /\ OpenKeys(UpdateSessionState(archived, s, id))
           \subseteq OpenKeys(archived) \cup {s.baseKey}
  BY <1>3, <1>4, UpdateSessionStateKeeps DEF archived
<1> QED BY <1>2, <1>4, <1>5 DEF archived

\* A session of a sound record.
LEMMA SessionIn ==
  ASSUME NEW K, NEW record, SoundRecord(K, record), NEW key \in DOMAIN record.sessions
  PROVE  LET s == record.sessions[key]
         IN  /\ SessionOK(K, Us, Peer, s)
             /\ Turnable(K, Us, Peer, s)
             /\ s.baseKey = key
             /\ IsOpen(s) => OpenKeys(record) \subseteq {s.baseKey}
<1> DEFINE s == record.sessions[key]
<1>1. SessionOK(K, Us, Peer, s) /\ s.baseKey = key
  BY DEF SoundRecord, RecordOK
<1>2. IsOpen(s) => OpenKeys(record) \subseteq {key}
  BY DEF SoundRecord, RecordOK, OpenKeys
<1>3. Turnable(K, Us, Peer, s)
  BY <1>1, SessionOKIsTurnable
<1> QED BY <1>1, <1>2, <1>3

\* A message read in a session of a sound record.
LEMMA DecryptionChanges ==
  ASSUME Us # Peer, NEW K, NEW record, SoundRecord(K, record),
         NEW sessions \in SUBSET SessionsIn(record), NEW m, MessageOK(K, m),
         NEW draw, RatchetKey(draw) \in SessionKeys(Us), RatchetKey(draw) \notin K,
         NEW L, K \cup {RatchetKey(draw)} \subseteq L,
         NEW after \in Decryptions(record, sessions, m, draw)
  PROVE  Changed(K, L, record, after)
<1>1. PICK r \in sessions :
        LET s == Decrypted(r, m, RatchetKey(draw))
        IN  /\ CanUpdateSessionState(record, s, None)
            /\ after = UpdateSessionState(record, s, None)
  BY DEF Decryptions, Updates
<1>2. PICK key \in DOMAIN record.sessions : r = record.sessions[key]
  BY <1>1 DEF SessionsIn
<1> DEFINE s == Decrypted(r, m, RatchetKey(draw))
<1>3. /\ SessionOK(K, Us, Peer, r)
      /\ Turnable(K, Us, Peer, r)
      /\ r.baseKey = key
      /\ IsOpen(r) => OpenKeys(record) \subseteq {r.baseKey}
  BY <1>2, SessionIn
<1>4. /\ SessionOK(L, Us, Peer, s)
      /\ s.baseKey = r.baseKey
      /\ s.closed = r.closed
      /\ s.rootKey \notin Seq(SUBSET K) \/ (Sending(s) => Follows(r, s))
  <2>1. ReadTo(K, L, r, s)
    BY <1>3, ReadIs
  <2> QED BY <2>1 DEF ReadTo
<1> HIDE DEF s
<1>5. IsOpen(s) => OpenKeys(record) \subseteq {s.baseKey}
  BY <1>3, <1>4 DEF IsOpen
<1>6. RecordOK(after) /\ RecordWith(L, record, s, after)
  <2>1. SessionOver(L, s) /\ K \subseteq L
    BY <1>4 DEF SessionOK
  <2>2. CanUpdateSessionState(record, s, None) /\ after = UpdateSessionState(record, s, None)
    BY <1>1 DEF s
  <2> QED BY <1>5, <2>1, <2>2, UpdatesSound
<1>7. \/ s.rootKey \notin Seq(SUBSET K)
      \/ Sending(s) => /\ s.baseKey \in DOMAIN record.sessions
                       /\ Follows(record.sessions[s.baseKey], s)
  BY <1>2, <1>3, <1>4
<1> QED BY <1>4, <1>6, <1>7, GivenChanges

\* encrypt: the open session gave one more key.
EncryptedIn(record, after, s) ==
  /\ s \in SessionsIn(record)
  /\ Sending(s)
  /\ \A k \in DOMAIN after.sessions \ {s.baseKey} : KeepsSending(record, after, k)
  /\ s.baseKey \in DOMAIN after.sessions /\ Sending(after.sessions[s.baseKey]) =>
       /\ after.sessions[s.baseKey].rootKey = s.rootKey
       /\ SendingChain(after.sessions[s.baseKey]).counter = SendingChain(s).counter + 1

\* encrypt keeps the record sound, and its session gave one more key.
LEMMA EncryptionChanges ==
  ASSUME NEW K, NEW record, SoundRecord(K, record),
         NEW s \in SessionsIn(record), IsOpen(s),
         CanUpdateSessionState(record, Encrypted(s), None),
         NEW L, K \subseteq L
  PROVE  LET after == UpdateSessionState(record, Encrypted(s), None)
         IN  /\ Changed(K, L, record, after)
             /\ EncryptedIn(record, after, s)
<1> DEFINE t == Encrypted(s)
           after == UpdateSessionState(record, t, None)
<1>1. PICK key \in DOMAIN record.sessions : s = record.sessions[key]
  BY DEF SessionsIn
<1>2. /\ SessionOK(K, Us, Peer, s)
      /\ s.baseKey = key
      /\ OpenKeys(record) \subseteq {s.baseKey}
  BY <1>1, SessionIn
<1>3. /\ SessionOver(K, s)
      /\ Sending(s)
      /\ SendingChain(s).messageKeys = {}
      /\ SendingChain(s).counter \in Int
  <2>1. SessionOver(K, s) /\ Sending(s) /\ SendingChain(s).messageKeys = {}
    BY <1>2 DEF SessionOK, ChainsOK, SendingOK, Sending
  <2> QED BY <2>1, CounterIsInt
<1>4. /\ SameBut({"chains"}, s, t)
      /\ DOMAIN t.chains = DOMAIN s.chains
      /\ t.chains[s.ephemeralKeyPair].counter = s.chains[s.ephemeralKeyPair].counter + 1
  BY <1>3, EncryptedIs DEF Sending, SendingChain
<1>5. SessionOK(L, Us, Peer, t)
  <2>1. SessionOK(K, Us, Peer, t)
    BY <1>2, <1>3, EncryptedOK DEF Sending
  <2> HIDE DEF t
  <2> QED BY <2>1, SessionOKMore
<1> HIDE DEF t
<1>6. /\ t.baseKey = s.baseKey
      /\ t.rootKey = s.rootKey
      /\ t.ephemeralKeyPair = s.ephemeralKeyPair
  BY <1>4 DEF SameBut, SessionFields
<1>7. RecordOK(after) /\ RecordWith(L, record, t, after)
  <2>1. SessionOver(L, t)
    BY <1>5 DEF SessionOK
  <2>2. CanUpdateSessionState(record, t, None)
    BY DEF t
  <2> QED BY <1>2, <1>6, <2>1, <2>2, UpdatesSound
<1> HIDE DEF after
<1>8. Sending(t) /\ SendingChain(t).counter = SendingChain(s).counter + 1
  BY <1>3, <1>4, <1>6 DEF Sending, SendingChain
<1>9. Follows(s, t)
  BY <1>3, <1>6, <1>8 DEF Follows
<1>10. Changed(K, L, record, after)
  BY <1>1, <1>2, <1>5, <1>6, <1>7, <1>9, GivenChanges
<1>11. Given(L, record, t, after)
  BY <1>5, <1>7, GivenIs
<1>12. EncryptedIn(record, after, s)
  BY <1>3, <1>6, <1>8, <1>11 DEF Given, EncryptedIn
<1> QED BY <1>10, <1>12 DEF after, t

\* A record that was given a session, over more keys.
LEMMA RecordWithMore ==
  ASSUME NEW K, NEW L, K \subseteq L, NEW r, NEW s, NEW t, RecordWith(K, r, s, t)
  PROVE  RecordWith(L, r, s, t)
<1>1. RecordOver(L, t)
  BY RecordOverMore DEF RecordWith
<1>2. ASSUME NEW u, NEW v, Slimmed(K, u, v)
      PROVE  Slimmed(L, u, v)
  BY <1>2, SessionOverMore DEF Slimmed
<1> QED BY <1>1, <1>2 DEF RecordWith, Kept

\* The record an operation starts from: the one it finds, or a new one.
StartsFrom(record, base) == /\ record # None => base = record
                            /\ record = None => DOMAIN base.sessions = {}

\* A new record is sound.
LEMMA NewRecordSound ==
  ASSUME NEW K, NEW identityKey \in K, NEW registrationId \in Nat
  PROVE  LET record == NewRecord(identityKey, registrationId)
         IN  SoundRecord(K, record) /\ DOMAIN record.sessions = {}
<1> DEFINE record == NewRecord(identityKey, registrationId)
<1>1. RecordOver(K, record)
  BY NewRecordOver
<1>2. RecordOK(record) /\ record.sessions = EmptyMap
  BY NewRecordOK
<1> HIDE DEF record
<1>3. DOMAIN record.sessions = {}
  BY <1>2 DEF EmptyMap
<1>4. SoundRecord(K, record)
  BY <1>1, <1>2, <1>3 DEF SoundRecord
<1> QED BY <1>3, <1>4 DEF record

\* decryptPreKeyWhisperMessage in a new session.
LEMMA ReceptionChanges ==
  ASSUME Us # Peer, NEW K, None \notin K, NEW record, SoundRecord(K, record),
         NEW header, HeaderOK(K, header), NEW m, MessageOK(K, m),
         OurIdentity \in K, OurPreKey(header.preKeyId) \in K,
         OurSignedPreKey(header.signedPreKeyId) \in KeysOf(Us) \cap K,
         NEW draw, RatchetKey(draw) \in SessionKeys(Us), RatchetKey(draw) \notin K,
         NEW L, K \cup {RatchetKey(draw)} \subseteq L,
         NEW session \in NewSessions(header), CanAddSession(record, session, header),
         NEW found, found = RecordWithNewSession(record, session, header),
         NEW sessions,
         sessions = {found.sessions[k] : k \in DOMAIN found.sessions \cap {header.baseKey}},
         NEW after \in Decryptions(found, sessions, m, draw)
  PROVE  Changed(K, L, record, after)
<1>1. PICK preKey \in {None, OurPreKey(header.preKeyId)} :
        session = ResponderSession(OurIdentity, preKey,
                    OurSignedPreKey(header.signedPreKeyId),
                    header.identityKey, header.baseKey)
  BY DEF NewSessions
<1>2. /\ SessionOver(K, session)
      /\ Answering(session, OurIdentity, preKey, OurSignedPreKey(header.signedPreKeyId),
                   header.identityKey, header.baseKey)
  BY <1>1, ResponderSessionIs DEF HeaderOK
<1>3. session.baseKey = header.baseKey /\ DOMAIN session.chains = {}
  BY <1>2 DEF Answering
<1>4. Turnable(K, Us, Peer, session)
  BY <1>2, AnsweringIsTurnable DEF HeaderOK
<1>5. /\ RecordOK(found)
      /\ RecordWith(K, record, session, found)
      /\ OpenKeys(found) \subseteq {session.baseKey}
  <2>1. header.registrationId \in Nat \cup {None}
    BY DEF HeaderOK
  <2> QED BY <1>2, <2>1, AddsSound DEF RecordWithNewSession, CanAddSession
<1>6. PICK r \in sessions :
        LET s == Decrypted(r, m, RatchetKey(draw))
        IN  /\ CanUpdateSessionState(found, s, None)
            /\ after = UpdateSessionState(found, s, None)
  BY DEF Decryptions, Updates
<1>7. header.baseKey \in DOMAIN found.sessions /\ r = found.sessions[header.baseKey]
  BY <1>6
<1>8. Slimmed(K, session, r)
  BY <1>3, <1>5, <1>7 DEF RecordWith
<1>9. Turnable(K, Us, Peer, r) /\ DOMAIN r.chains = {} /\ r.baseKey = header.baseKey
  <2>1. /\ r.baseKey = session.baseKey
        /\ DOMAIN r.chains = {}
        /\ r.ephemeralKeyPair = session.ephemeralKeyPair
        /\ r.lastRemoteEphemeralKey = session.lastRemoteEphemeralKey
        /\ r.baseKeyType = session.baseKeyType
        /\ r.pendingPreKey = session.pendingPreKey
        /\ r.rootKey = session.rootKey
    BY <1>3, <1>8 DEF Slimmed, Thinned, SameBut, SessionFields
  <2>2. SessionOver(K, r)
    BY <1>8 DEF Slimmed
  <2> QED BY <1>3, <1>4, <2>1, <2>2 DEF Turnable
<1> DEFINE s == Decrypted(r, m, RatchetKey(draw))
<1>10. /\ SessionOK(L, Us, Peer, s)
       /\ s.baseKey = r.baseKey
       /\ s.rootKey \notin Seq(SUBSET K) \/ (Sending(s) => Follows(r, s))
  <2>1. Turnable(K, Us, Peer, r) /\ (DOMAIN r.chains # {} => SessionOK(K, Us, Peer, r))
    BY <1>9
  <2>2. ReadTo(K, L, r, s)
    BY <2>1, ReadIs
  <2> QED BY <2>2 DEF ReadTo
<1>11. CanUpdateSessionState(found, s, None) /\ after = UpdateSessionState(found, s, None)
  BY <1>6
<1> HIDE DEF s
<1>12. ~Sending(r)
  BY <1>9 DEF Sending
<1>13. SessionOver(L, s) /\ s.closed \in Int /\ DOMAIN s = SessionFields
  BY <1>10 DEF SessionOK, SessionOver, SessionFields
<1>14. RecordOK(after)
  <2>1. OpenKeys(found) \subseteq {s.baseKey}
    BY <1>3, <1>5, <1>9, <1>10
  <2> QED BY <1>5, <1>11, <1>13, <2>1, UpdateSessionStateKeeps
<1>15. RecordWith(L, record, s, after)
  <2>1. RecordOver(L, found) /\ RecordOver(K, found)
    BY <1>5, RecordOverMore DEF RecordWith
  <2>2. RecordWith(L, found, s, after)
    BY <1>11, <1>13, <2>1, UpdatedIs
  <2>3. RecordWith(L, record, session, found)
    BY <1>2, <1>5, <2>1, RecordWithMore
  <2> QED BY <1>3, <1>9, <1>10, <2>2, <2>3, RecordWithAgain
<1> QED BY <1>10, <1>12, <1>14, <1>15, GivenChanges DEF Follows

\* processPreKey: the new session has our two new key pairs.
LEMMA DeviceChanges ==
  ASSUME NEW K, NEW record, SoundRecord(K, record), NEW device, DeviceOK(K, device),
         OurIdentity \in K, NEW draw, RatchetKey(draw) \notin K,
         JobKeys(draw) \subseteq SessionKeys(Us),
         NEW L, K \cup JobKeys(draw) \subseteq L, None \notin L,
         NEW session,
         session = PendingSession(OurIdentity, BaseKey(draw), RatchetKey(draw), device),
         CanArchive(record),
         CanUpdateSessionState(ArchiveCurrentState(record), session, device.registrationId)
  PROVE  Changed(K, L, record, UpdateSessionState(ArchiveCurrentState(record), session,
                                                  device.registrationId))
<1> DEFINE after == UpdateSessionState(ArchiveCurrentState(record), session,
                                       device.registrationId)
           keyPair == RatchetKey(draw)
           baseKey == BaseKey(draw)
           agreed == SharedSecret(TRUE, OurIdentity, baseKey, baseKey,
                       device.identityKey, device.signedPreKey, device.preKey)
<1>1. /\ baseKey \in SessionKeys(Us) \cap L
      /\ keyPair \in SessionKeys(Us) \cap L
      /\ OurIdentity \in L
      /\ {device.identityKey, device.signedPreKey, device.preKey} \subseteq L
      /\ device.signedPreKey \in KeysOf(Peer)
      /\ device.preKeyId \in Nat /\ device.signedKeyId \in Nat
      /\ device.registrationId \in Nat \cup {None}
  BY DEF DeviceOK, JobKeys
<1>2. /\ SessionOver(L, session)
      /\ Pending(session, OurIdentity, baseKey, keyPair, device)
  BY <1>1, PendingSessionIs
<1>3. SessionOK(L, Us, Peer, session)
  BY <1>1, <1>2, PendingOK
<1>4. RecordOK(after) /\ RecordWith(L, record, session, after)
  BY <1>1, <1>2, AddsSound
<1>5. agreed \in Seq(SUBSET L)
  <2>1. Agreed(L, agreed, OurIdentity, baseKey, baseKey,
               device.identityKey, device.signedPreKey, device.preKey)
    BY <1>1, SharedSecretIs
  <2> QED BY <2>1 DEF Agreed
<1>6. session.rootKey = Append(agreed, {device.signedPreKey, keyPair})
  BY <1>2 DEF Pending
<1> HIDE DEF agreed, after
<1>7. session.rootKey \notin Seq(SUBSET K)
  <2> SUFFICES ASSUME session.rootKey \in Seq(SUBSET K) PROVE FALSE
    OBVIOUS
  <2> DEFINE secret == {device.signedPreKey, keyPair}
             S == SUBSET L
  <2>1. agreed \in Seq(S) /\ Append(agreed, secret) \in Seq(SUBSET K)
    BY <1>5, <1>6
  <2>2. keyPair \in secret
    OBVIOUS
  <2> HIDE DEF secret, S
  <2> QED BY <2>1, <2>2, NewRootKey
<1>8. Changed(K, L, record, after)
  BY <1>3, <1>4, <1>7, GivenChanges
<1> QED BY <1>8 DEF after

\* closeOpenSessionForDevice
LEMMA ClosingChanges ==
  ASSUME NEW K, NEW L, K \subseteq L, NEW record, SoundRecord(K, record),
         CanArchive(record)
  PROVE  Changed(K, L, record, ArchiveCurrentState(record))
<1> DEFINE after == ArchiveCurrentState(record)
<1>1. RecordOver(L, record) /\ RecordOK(record)
  BY RecordOverMore DEF SoundRecord
<1>2. RecordWithout(L, record, after) /\ RecordOK(after)
  BY <1>1, ArchivedIs, ArchiveCurrentStateKeeps
<1> HIDE DEF after
<1>3. ASSUME NEW key \in DOMAIN after.sessions
      PROVE  /\ SessionOK(L, Us, Peer, after.sessions[key])
             /\ KeepsSending(record, after, key)
  <2> DEFINE old == record.sessions[key]
             t == after.sessions[key]
  <2>1. key \in DOMAIN record.sessions /\ Kept(L, old, t)
    BY <1>2, <1>3 DEF RecordWithout
  <2>2. SessionOK(K, Us, Peer, old)
    BY <2>1 DEF SoundRecord
  <2> HIDE DEF old, t
  <2>3. SessionOK(L, Us, Peer, t) /\ (Sending(t) => Follows(old, t))
    BY <2>1, <2>2, KeptOK, KeptFollows
  <2> QED BY <2>1, <2>3 DEF KeepsSending, old, t
<1>4. SoundRecord(L, after)
  BY <1>2, <1>3 DEF SoundRecord, RecordWithout
<1>5. Changed(K, L, record, after)
  BY <1>3, <1>4 DEF Changed
<1> QED BY <1>5 DEF after

\* The keys of ours a call uses that its job did not draw.
OurKeysIn(K) == /\ OurIdentity \in K
                /\ \A id \in Nat : /\ OurPreKey(id) \in K
                                   /\ OurSignedPreKey(id) \in KeysOf(Us) \cap K

\* What a call makes of the record of its device.
LEMMA ChangeIs ==
  ASSUME Us # Peer, NEW K, None \notin K, OurKeysIn(K),
         NEW record, record # None => SoundRecord(K, record), NEW c, CallOK(K, c),
         NEW draw, RatchetKey(draw) \notin K, JobKeys(draw) \subseteq SessionKeys(Us),
         NEW L, K \cup JobKeys(draw) \subseteq L, None \notin L,
         NEW after, IsChange(record, after, c, draw)
  PROVE  \E base : StartsFrom(record, base) /\ Changed(K, L, base, after)
<1>1. /\ RatchetKey(draw) \in SessionKeys(Us)
      /\ K \cup {RatchetKey(draw)} \subseteq L
      /\ K \subseteq L
  BY DEF JobKeys
<1>2. CASE c.kind = "encrypt" /\ record # None /\ after \in Encryptions(record)
  <2>1. PICK s \in SessionsIn(record) :
          /\ IsOpen(s) /\ CanUpdateSessionState(record, Encrypted(s), None)
          /\ after = UpdateSessionState(record, Encrypted(s), None)
    BY <1>2 DEF Encryptions, Updates
  <2>2. Changed(K, L, record, after)
    BY <1>1, <1>2, <2>1, EncryptionChanges
  <2> QED BY <1>2, <2>2 DEF StartsFrom
<1>3. CASE /\ c.kind = "decrypt" /\ record # None
           /\ after \in Decryptions(record, SessionsIn(record), c.message, draw)
  <2>1. MessageOK(K, c.message) /\ SessionsIn(record) \in SUBSET SessionsIn(record)
    BY <1>3 DEF CallOK
  <2>2. Changed(K, L, record, after)
    BY <1>1, <1>3, <2>1, DecryptionChanges
  <2> QED BY <1>3, <2>2 DEF StartsFrom
<1>4. CASE /\ c.kind = "receive"
           /\ after \in Receptions(WorkingRecord(record, c.header), c.header,
                                   c.message, draw)
  <2> DEFINE base == WorkingRecord(record, c.header)
             found(r) == {r.sessions[k] : k \in DOMAIN r.sessions \cap {c.header.baseKey}}
  <2>1. MessageOK(K, c.message) /\ HeaderOK(K, c.header)
    BY <1>4 DEF CallOK
  <2>2. StartsFrom(record, base) /\ SoundRecord(K, base)
    BY <2>1, NewRecordSound DEF WorkingRecord, StartsFrom, HeaderOK
  <2> HIDE DEF base
  <2>3. PICK r \in ReceivingRecords(base, c.header) :
          after \in Decryptions(r, found(r), c.message, draw)
    BY <1>4 DEF Receptions, base
  <2>4. CASE r = base
    <3>1. found(base) \in SUBSET SessionsIn(base)
      BY DEF SessionsIn
    <3> HIDE DEF found
    <3>2. Changed(K, L, base, after)
      BY <1>1, <2>1, <2>2, <2>3, <2>4, <3>1, DecryptionChanges
    <3> QED BY <2>2, <3>2
  <2>5. CASE r # base
    <3>1. PICK session \in NewSessions(c.header) :
            /\ CanAddSession(base, session, c.header)
            /\ r = RecordWithNewSession(base, session, c.header)
      BY <2>3, <2>5 DEF ReceivingRecords
    <3>2. /\ OurIdentity \in K
          /\ OurPreKey(c.header.preKeyId) \in K
          /\ OurSignedPreKey(c.header.signedPreKeyId) \in KeysOf(Us) \cap K
      BY <2>1 DEF HeaderOK, OurKeysIn
    <3>3. found(r) = {r.sessions[k] : k \in DOMAIN r.sessions \cap {c.header.baseKey}}
      OBVIOUS
    <3> HIDE DEF found
    <3>4. Changed(K, L, base, after)
      BY <1>1, <2>1, <2>2, <2>3, <3>1, <3>2, <3>3, ReceptionChanges
    <3> QED BY <2>2, <3>4
  <2> QED BY <2>4, <2>5
<1>5. CASE LET session == PendingSession(OurIdentity, BaseKey(draw), RatchetKey(draw),
                                         c.device)
           IN  /\ c.kind = "processPreKey"
               /\ CanProcessPreKey(record, None, session, c.device)
               /\ after = ProcessPreKey(record, session, c.device)
  <2> DEFINE base == RecordForDevice(record, c.device)
             session == PendingSession(OurIdentity, BaseKey(draw), RatchetKey(draw), c.device)
  <2>1. DeviceOK(K, c.device) /\ OurIdentity \in K
    BY <1>5 DEF CallOK, OurKeysIn
  <2>2. StartsFrom(record, base) /\ SoundRecord(K, base)
    BY <2>1, NewRecordSound DEF RecordForDevice, StartsFrom, DeviceOK
  <2>3. /\ CanArchive(base)
        /\ CanUpdateSessionState(ArchiveCurrentState(base), session, c.device.registrationId)
        /\ after = UpdateSessionState(ArchiveCurrentState(base), session,
                                      c.device.registrationId)
    BY <1>5 DEF CanProcessPreKey, ProcessPreKey
  <2>4. session = PendingSession(OurIdentity, BaseKey(draw), RatchetKey(draw), c.device)
    OBVIOUS
  <2> HIDE DEF base, session
  <2>5. Changed(K, L, base, after)
    BY <2>1, <2>2, <2>3, <2>4, DeviceChanges
  <2> QED BY <2>2, <2>5
<1>6. CASE /\ c.kind = "close" /\ record # None /\ CanArchive(record)
           /\ after = ArchiveCurrentState(record)
  <2>1. Changed(K, L, record, after)
    BY <1>1, <1>6, ClosingChanges
  <2> QED BY <1>6, <2>1 DEF StartsFrom
<1> QED BY <1>2, <1>3, <1>4, <1>5, <1>6 DEF IsChange

-----------------------------------------------------------------------------
\* The keys a record or a message may be made of: those the jobs draw come
\* with the record they store.
NotYet(j) == \/ work[j].step \notin {"stored", "done"}
             \/ \E c \in pending[j] : c.write = "storeSession"
InUse == BothKeys \ UNION {JobKeys(j) : j \in {k \in Jobs : NotYet(k)}}
Fixed == BothKeys \ JobsKeys

\* encrypt has stored its record, and returns its message or has returned it.
SentBy(j) == /\ status[j] \in {"running", "fulfilled"}
             /\ call[j].kind = "encrypt"
             /\ work[j].step = "done"
             /\ pending[j] = {}
KeyOf(j) == work[j].result.mac.key

SendingSlot(a, key) == /\ records[a] # None
                       /\ key \in DOMAIN records[a].sessions
                       /\ Sending(records[a].sessions[key])
Slot(a, key) == records[a].sessions[key]

\* The records are sound, and no two sessions send with one root key.
RecordsSound == \A a \in Addresses : records[a] # None => SoundRecord(InUse, records[a])
SeedsApart ==
  \A a, b \in Addresses : \A k, l :
    /\ SendingSlot(a, k)
    /\ SendingSlot(b, l)
    /\ Slot(a, k).rootKey = Slot(b, l).rootKey
    => a = b /\ k = l

\* No session is at a lower counter than a message it gave the key of.
Behind(key) == \A a \in Addresses : \A k :
                 SendingSlot(a, k) /\ Slot(a, k).rootKey = key.seed
                   => SendingChain(Slot(a, k)).counter >= key.counter
SentOK == \A j \in Jobs : SentBy(j) => /\ KeyOf(j).seed \in Seq(SUBSET InUse)
                                       /\ KeyOf(j).counter \in Int
                                       /\ Behind(KeyOf(j))
SentApart == \A j, k \in Jobs : SentBy(j) /\ SentBy(k) /\ KeyOf(j) = KeyOf(k) => j = k

\* encrypt stores the session it makes its message from, and nothing else.
MadeFrom(record, s, after, message) ==
  /\ s \in SessionsIn(record)
  /\ IsOpen(s)
  /\ CanUpdateSessionState(record, Encrypted(s), None)
  /\ after = UpdateSessionState(record, Encrypted(s), None)
  /\ message = WhisperMessage(s, OurIdentity)
EncryptingJob(j) ==
  status[j] = "running" /\ call[j].kind = "encrypt" =>
    \A c \in pending[j] : /\ c.write = "storeSession"
                          /\ Loaded(j) # None
                          /\ \E s : MadeFrom(Loaded(j), s, c.value, work[j].result)
FulfilledJob(j) == status[j] = "fulfilled" /\ call[j].kind = "encrypt" => SentBy(j)

KeyJobs == \A j \in Jobs : EncryptingJob(j) /\ FulfilledJob(j)
KeyInv == RecordsSound /\ SeedsApart /\ SentOK /\ SentApart /\ KeyJobs

\* A sound record stays one over more keys.
LEMMA SoundMore ==
  ASSUME NEW K, NEW L, K \subseteq L, NEW record, SoundRecord(K, record)
  PROVE  SoundRecord(L, record)
<1>1. RecordOver(L, record)
  BY RecordOverMore DEF SoundRecord
<1>2. \A key \in DOMAIN record.sessions : SessionOK(L, Us, Peer, record.sessions[key])
  BY SessionOKMore DEF SoundRecord
<1> QED BY <1>1, <1>2 DEF SoundRecord

\* A step in which no record is stored.
LEMMA QuietStepKeepsKeys ==
  ASSUME KeyInv, UNCHANGED records,
         \A k \in Jobs : /\ NotYet(k)' => NotYet(k)
                         /\ SentBy(k)' => SentBy(k) /\ UNCHANGED KeyOf(k)
                         /\ EncryptingJob(k)' /\ FulfilledJob(k)'
  PROVE  KeyInv'
<1>1. InUse \subseteq InUse'
  BY DEF InUse
<1>2. RecordsSound'
  BY <1>1, SoundMore DEF KeyInv, RecordsSound
<1>3. SeedsApart'
  BY DEF KeyInv, SeedsApart, SendingSlot, Slot
<1>4. SentApart'
  BY DEF KeyInv, SentApart
<1>5. SentOK'
  <2>1. Seq(SUBSET InUse) \subseteq Seq(SUBSET InUse')
    BY <1>1, SeqMonotonic
  <2>2. ASSUME NEW k \in Jobs, SentBy(k)'
        PROVE  /\ KeyOf(k)'.seed \in Seq(SUBSET InUse')
               /\ KeyOf(k)'.counter \in Int
               /\ Behind(KeyOf(k))'
    <3>1. SentBy(k) /\ KeyOf(k)' = KeyOf(k)
      BY <2>2
    <3>2. Behind(KeyOf(k)) /\ KeyOf(k).seed \in Seq(SUBSET InUse) /\ KeyOf(k).counter \in Int
      BY <3>1 DEF KeyInv, SentOK
    <3>3. Behind(KeyOf(k))'
      BY <3>1, <3>2 DEF Behind, SendingSlot, Slot
    <3> QED BY <2>1, <3>1, <3>2, <3>3
  <2> QED BY <2>2 DEF SentOK
<1>6. KeyJobs'
  BY DEF KeyJobs
<1> QED BY <1>2, <1>3, <1>4, <1>5, <1>6 DEF KeyInv

\* A step in which only j changes, and no record is stored.
Same(k) == UNCHANGED <<status[k], number[k], call[k], work[k], pending[k]>>

\* Such a step keeps the keys of j, when j gives no key in it.
LEMMA JobKeepsKeys ==
  ASSUME KeyInv, NEW j \in Jobs, UNCHANGED records, \A k \in Jobs \ {j} : Same(k),
         NotYet(j)' => NotYet(j),
         SentBy(j)' => SentBy(j) /\ UNCHANGED KeyOf(j),
         EncryptingJob(j)', FulfilledJob(j)'
  PROVE  KeyInv'
<1>1. ASSUME NEW k \in Jobs \ {j}
      PROVE  /\ NotYet(k)' => NotYet(k)
             /\ SentBy(k)' => SentBy(k) /\ UNCHANGED KeyOf(k)
             /\ EncryptingJob(k)' /\ FulfilledJob(k)'
  BY DEF NotYet, SentBy, KeyOf, Same, KeyInv, KeyJobs, EncryptingJob, FulfilledJob, Loaded
<1> QED BY <1>1, QuietStepKeepsKeys

-----------------------------------------------------------------------------
\* The handlers.  A job that is not encrypt may go on, when the keys it drew
\* do not come back to be drawn.
LEMMA ContinueKeepsKeys ==
  ASSUME JobsInv, KeyInv, NEW j \in Jobs, call[j].kind # "encrypt",
         NEW held, NEW writes, Continue(j, held, writes),
         \/ work[j].step \notin {"stored", "done"}
         \/ /\ held.step \in {"stored", "done"}
            /\ \A c \in writes : c.write # "storeSession"
  PROVE  KeyInv'
<1>1. /\ work' = [work EXCEPT ![j] = held]
      /\ pending' = [pending EXCEPT ![j] = writes]
      /\ UNCHANGED <<status, number, call, records>>
      /\ DOMAIN work = Jobs /\ DOMAIN pending = Jobs
  BY DEF Continue, queues, storage, JobsInv, TypesOK
<1>2. \A k \in Jobs \ {j} : Same(k)
  BY <1>1 DEF Same
<1>3. NotYet(j)' => NotYet(j)
  BY <1>1 DEF NotYet
<1>4. ~SentBy(j)' /\ EncryptingJob(j)' /\ FulfilledJob(j)'
  BY <1>1 DEF SentBy, EncryptingJob, FulfilledJob
<1> QED BY <1>1, <1>2, <1>3, <1>4, JobKeepsKeys

\* A job settles: encrypt is fulfilled only when its record is stored.
LEMMA SettleKeepsKeys ==
  ASSUME JobsInv, KeyInv, NEW j \in Jobs, NEW outcome \in {"fulfilled", "rejected"},
         Lock!Finish(j, outcome), UNCHANGED <<call, work, records>>,
         DOMAIN pending' = Jobs,
         \A k \in Jobs \ {j} : pending'[k] = pending[k],
         pending'[j] \subseteq pending[j],
         outcome = "fulfilled" /\ call[j].kind = "encrypt" =>
           SentBy(j) /\ pending'[j] = pending[j]
  PROVE  KeyInv'
<1>1. /\ status' = [status EXCEPT ![j] = outcome]
      /\ UNCHANGED <<number, call, work, records>>
      /\ DOMAIN status = Jobs
  BY DEF Lock!Finish, JobsInv, TypesOK
<1>2. \A k \in Jobs \ {j} : Same(k)
  BY <1>1 DEF Same
<1>3. NotYet(j)' => NotYet(j)
  BY <1>1 DEF NotYet
<1>4. SentBy(j)' => SentBy(j) /\ UNCHANGED KeyOf(j)
  BY <1>1 DEF SentBy, KeyOf
<1>5. EncryptingJob(j)' /\ FulfilledJob(j)'
  BY <1>1 DEF EncryptingJob, FulfilledJob, SentBy
<1> QED BY <1>1, <1>2, <1>3, <1>4, <1>5, JobKeepsKeys

\* A handler that throws or returns keeps the keys.
LEMMA SettledKeepsKeys ==
  ASSUME JobsInv, KeyInv, NEW j \in Jobs, NEW outcome \in {"fulfilled", "rejected"},
         Settle(j, outcome),
         outcome = "fulfilled" /\ call[j].kind = "encrypt" => SentBy(j)
  PROVE  KeyInv'
<1>1. /\ Lock!Finish(j, outcome)
      /\ UNCHANGED <<call, work, pending, records>>
      /\ DOMAIN pending = Jobs
  BY DEF Settle, storage, JobsInv, TypesOK
<1> QED BY <1>1, SettleKeepsKeys

\* A call of the application, and a job that begins.
LEMMA CallKeepsKeys ==
  ASSUME JobsInv, KeyInv, NEW j \in Jobs, NEW c \in Calls,
         Request(j, c) \/ DeleteAllSessions(j, c)
  PROVE  KeyInv'
<1>1. /\ status[j] = "new"
      /\ UNCHANGED <<work, pending, records>>
      /\ \E s \in {"queued", "rejected"} : status' = [status EXCEPT ![j] = s]
      /\ number' = [number EXCEPT ![j] = c.address]
      /\ call' = [call EXCEPT ![j] = c]
      /\ DOMAIN status = Jobs /\ DOMAIN number = Jobs /\ DOMAIN call = Jobs
  BY DEF Request, DeleteAllSessions, Lock!Enqueue, storage, JobsInv, TypesOK
<1>2. \A k \in Jobs \ {j} : Same(k)
  BY <1>1 DEF Same
<1>3. NotYet(j)' => NotYet(j)
  BY <1>1 DEF NotYet
<1>4. ~SentBy(j)' /\ EncryptingJob(j)' /\ FulfilledJob(j)'
  BY <1>1 DEF SentBy, EncryptingJob, FulfilledJob
<1> QED BY <1>1, <1>2, <1>3, <1>4, JobKeepsKeys

\* A job that begins has made no message.
LEMMA BeginKeepsKeys ==
  ASSUME JobsInv, KeyInv, NEW j \in Jobs, Begin(j)
  PROVE  KeyInv'
<1>1. /\ status[j] = "queued"
      /\ status' = [status EXCEPT ![j] = "running"]
      /\ UNCHANGED <<number, call, work, pending, records>>
      /\ DOMAIN status = Jobs
      /\ work[j].step = "begin" /\ pending[j] = {}
  BY DEF Begin, Lock!Run, storage, JobsInv, TypesOK, UnbegunOK
<1>2. \A k \in Jobs \ {j} : Same(k)
  BY <1>1 DEF Same
<1>3. NotYet(j)' => NotYet(j)
  BY <1>1 DEF NotYet
<1>4. ~SentBy(j)' /\ EncryptingJob(j)' /\ FulfilledJob(j)'
  BY <1>1 DEF SentBy, EncryptingJob, FulfilledJob
<1> QED BY <1>1, <1>2, <1>3, <1>4, JobKeepsKeys

\* encrypt makes its message, and asks to store the session it made it from.
LEMMA EncryptKeepsKeys ==
  ASSUME JobsInv, KeyInv, NEW j \in Jobs, Encrypt(j)
  PROVE  KeyInv'
<1> DEFINE record == Loaded(j)
           session == OpenSession(record)
           message == WhisperMessage(session, OurIdentity)
           after == UpdateSessionState(record, Encrypted(session), None)
<1>1. /\ status[j] = "running" /\ work[j].step = "begin"
      /\ pending[j] = {} /\ call[j].kind = "encrypt"
  BY DEF Encrypt, At
<1>2. CASE CanEncryptIn(record)
  <2>1. MadeFrom(record, session, after, message) /\ record # None
    BY <1>2, OpenSessionIs DEF MadeFrom
  <2>2. Continue(j, Done(message), {StoreSession(after)})
    BY <1>2 DEF Encrypt
  <2> HIDE DEF session, message, after
  <2>3. /\ work' = [work EXCEPT ![j] = Done(message)]
        /\ pending' = [pending EXCEPT ![j] = {StoreSession(after)}]
        /\ UNCHANGED <<status, number, call, records>>
        /\ DOMAIN work = Jobs /\ DOMAIN pending = Jobs
    BY <2>2 DEF Continue, queues, storage, JobsInv, TypesOK
  <2>4. \A k \in Jobs \ {j} : Same(k)
    BY <2>3 DEF Same
  <2>5. NotYet(j) /\ ~SentBy(j)' /\ FulfilledJob(j)'
    BY <1>1, <2>3 DEF NotYet, SentBy, FulfilledJob
  <2>6. EncryptingJob(j)'
    <3>1. pending'[j] = {StoreSession(after)} /\ work'[j].result = message
      BY <2>3 DEF Done
    <3>2. Loaded(j)' = record
      BY <2>3 DEF Loaded
    <3> HIDE DEF record
    <3> QED BY <2>1, <3>1, <3>2 DEF EncryptingJob, StoreSession
  <2> QED BY <2>3, <2>4, <2>5, <2>6, JobKeepsKeys
<1>3. CASE ~CanEncryptIn(record)
  BY <1>3, SettledKeepsKeys DEF Encrypt, Throw
<1> QED BY <1>2, <1>3

\* Every handler keeps the keys: none of them stores a record.
LEMMA HandlerKeepsKeys ==
  ASSUME JobsInv, KeyInv, NEW j \in Jobs, Handler(j)
  PROVE  KeyInv'
<1>1. CASE Encrypt(j)
  BY <1>1, EncryptKeepsKeys
<1>2. CASE Return(j)
  <2>1. Settle(j, "fulfilled") /\ (call[j].kind = "encrypt" => SentBy(j))
    BY <1>2 DEF Return, SentBy
  <2> QED BY <2>1, SettledKeepsKeys
<1>3. ASSUME call[j].kind # "encrypt", Throw(j) \/ Settle(j, "fulfilled")
      PROVE  KeyInv'
  BY <1>3, SettledKeepsKeys DEF Throw
<1>4. ASSUME call[j].kind # "encrypt", work[j].step \notin {"stored", "done"},
             NEW held, NEW writes, Continue(j, held, writes)
      PROVE  KeyInv'
  BY <1>4, ContinueKeepsKeys
<1>5. CASE Close(j)
  BY <1>3, <1>4, <1>5 DEF Close, At
<1>6. CASE TrySessions(j)
  BY <1>3, <1>4, <1>6 DEF TrySessions, At
<1>7. CASE StoreSecondLoad(j)
  BY <1>3, <1>4, <1>7 DEF StoreSecondLoad, At
<1>8. CASE LoadRecord(j)
  BY <1>3, <1>4, <1>8 DEF LoadRecord, At
<1>9. CASE ProcessV3(j)
  BY <1>3, <1>4, <1>9 DEF ProcessV3, At
<1>10. CASE DecryptFirst(j)
  BY <1>3, <1>4, <1>10 DEF DecryptFirst, At
<1>11. CASE RemoveUsedPreKey(j)
  <2> DEFINE held == [work[j] EXCEPT !.step = "done"]
             writes == {RemovePreKey(work[j].preKeyId)}
  <2>1. call[j].kind # "encrypt" /\ Continue(j, held, writes)
    BY <1>11 DEF RemoveUsedPreKey, At
  <2>2. held.step = "done" /\ \A c \in writes : c.write # "storeSession"
    BY DEF RemovePreKey, JobsInv, TypesOK, NoWork, Held
  <2> HIDE DEF held, writes
  <2> QED BY <2>1, <2>2, ContinueKeepsKeys
<1>12. CASE CheckIdentity(j)
  BY <1>3, <1>4, <1>12 DEF CheckIdentity, At
<1>13. CASE ProcessDevice(j)
  BY <1>3, <1>4, <1>13 DEF ProcessDevice, At
<1> QED BY <1>1, <1>2, <1>5, <1>6, <1>7, <1>8, <1>9, <1>10, <1>11, <1>12, <1>13 DEF Handler

\* A call to the storage fails, or stores something else; and a stop.
LEMMA OtherAnswerKeepsKeys ==
  ASSUME JobsInv, KeyInv, NEW j \in Jobs, NEW c \in pending[j], Answer(j, c),
         c.write # "storeSession"
  PROVE  KeyInv'
<1>1. /\ pending' = [pending EXCEPT ![j] = @ \ {c}]
      /\ UNCHANGED <<status, number, call, work, records>>
      /\ DOMAIN pending = Jobs
  BY DEF Answer, queues, JobsInv, TypesOK
<1>2. \A k \in Jobs \ {j} : Same(k)
  BY <1>1 DEF Same
<1>3. NotYet(j)' => NotYet(j)
  BY <1>1 DEF NotYet
<1>4. ~SentBy(j)'
  BY <1>1 DEF SentBy, KeyInv, KeyJobs, EncryptingJob, FulfilledJob
<1>5. EncryptingJob(j)' /\ FulfilledJob(j)'
  BY <1>1 DEF EncryptingJob, FulfilledJob, SentBy, KeyInv, KeyJobs
<1> QED BY <1>1, <1>2, <1>3, <1>4, <1>5, JobKeepsKeys

\* A job whose write fails does not return a message.
LEMMA RefuseKeepsKeys ==
  ASSUME JobsInv, KeyInv, NEW j \in Jobs, NEW c \in pending[j], Refuse(j, c)
  PROVE  KeyInv'
<1>1. /\ pending' = [pending EXCEPT ![j] = @ \ {c}]
      /\ UNCHANGED <<call, work, records>>
      /\ DOMAIN pending = Jobs
      /\ pending'[j] \subseteq pending[j]
  BY DEF Refuse, storage, JobsInv, TypesOK
<1>2. CASE status[j] = "running"
  BY <1>1, <1>2, SettleKeepsKeys DEF Refuse
<1>3. CASE status[j] # "running"
  <2>1. UNCHANGED <<status, number>>
    BY <1>3 DEF Refuse, queues
  <2>2. \A k \in Jobs \ {j} : Same(k)
    BY <1>1, <2>1 DEF Same
  <2>3. NotYet(j)' => NotYet(j)
    BY <1>1 DEF NotYet
  <2>4. ~SentBy(j)' /\ EncryptingJob(j)' /\ FulfilledJob(j)'
    BY <1>1, <1>3, <2>1 DEF SentBy, KeyInv, KeyJobs, EncryptingJob, FulfilledJob
  <2> QED BY <1>1, <2>2, <2>3, <2>4, JobKeepsKeys
<1> QED BY <1>2, <1>3

\* Nor does one whose load fails.
LEMMA RefuseLoadKeepsKeys ==
  ASSUME JobsInv, KeyInv, NEW j \in Jobs, RefuseLoad(j)
  PROVE  KeyInv'
<1>1. /\ Lock!Finish(j, "rejected")
      /\ UNCHANGED <<call, work, pending, records>>
      /\ DOMAIN pending = Jobs
  BY DEF RefuseLoad, storage, JobsInv, TypesOK
<1> QED BY <1>1, SettleKeepsKeys

\* A stop leaves the messages that were returned, and the records.
LEMMA StopKeepsKeys ==
  ASSUME JobsInv, KeyInv, Stop
  PROVE  KeyInv'
<1>1. /\ status' = [j \in Jobs |-> IF status[j] \in {"queued", "running"}
                                     THEN "rejected" ELSE status[j]]
      /\ pending' = [j \in Jobs |-> {}]
      /\ UNCHANGED <<number, call, work, records>>
  BY DEF Stop, storage
<1>2. ASSUME NEW k \in Jobs
      PROVE  /\ NotYet(k)' => NotYet(k)
             /\ SentBy(k)' => SentBy(k) /\ UNCHANGED KeyOf(k)
             /\ EncryptingJob(k)' /\ FulfilledJob(k)'
  <2>1. pending'[k] = {} /\ (status'[k] # "rejected" => status'[k] = status[k])
        /\ status'[k] # "running"
    BY <1>1
  <2>2. NotYet(k)' => NotYet(k)
    BY <1>1, <2>1 DEF NotYet
  <2>3. SentBy(k)' => SentBy(k)
    BY <1>1, <2>1 DEF SentBy, KeyInv, KeyJobs, FulfilledJob
  <2>4. UNCHANGED KeyOf(k)
    BY <1>1 DEF KeyOf
  <2>5. EncryptingJob(k)' /\ FulfilledJob(k)'
    BY <1>1, <2>1 DEF EncryptingJob, FulfilledJob, SentBy, KeyInv, KeyJobs
  <2> QED BY <2>2, <2>3, <2>4, <2>5
<1> QED BY <1>1, <1>2, QuietStepKeepsKeys

-----------------------------------------------------------------------------
\* The keys of different jobs are different, and not those of anything else.
LEMMA JobKeysApart ==
  /\ \A j \in Jobs : JobKeys(j) \subseteq SessionKeys(Us)
  /\ \A j, k \in Jobs : j # k => JobKeys(j) \cap JobKeys(k) = {}
<1>1. ASSUME NEW j \in Jobs
      PROVE  2 * j + 2 \in Nat /\ 2 * j + 3 \in Nat
  BY JobsAssumption
<1>2. \A j \in Jobs : JobKeys(j) \subseteq SessionKeys(Us)
  BY <1>1 DEF JobKeys, BaseKey, RatchetKey, SessionKeys
<1>3. ASSUME NEW m \in Nat, NEW n \in Nat, SessionKey(Us, m) = SessionKey(Us, n)
      PROVE  m = n
  BY <1>3 DEF SessionKey
<1>4. ASSUME NEW j \in Jobs, NEW k \in Jobs, j # k
      PROVE  /\ 2 * j + 2 # 2 * k + 2 /\ 2 * j + 2 # 2 * k + 3
             /\ 2 * j + 3 # 2 * k + 2 /\ 2 * j + 3 # 2 * k + 3
  BY <1>4, JobsAssumption
<1>5. ASSUME NEW j \in Jobs, NEW k \in Jobs, j # k
      PROVE  JobKeys(j) \cap JobKeys(k) = {}
  BY <1>1, <1>3, <1>4, <1>5 DEF JobKeys, BaseKey, RatchetKey
<1> QED BY <1>2, <1>5

\* Our identity key and prekeys are not drawn by a job.
LEMMA OurKeysFixed == OurKeysIn(Fixed)
<1>1. JobsKeys \subseteq SessionKeys(Us)
  BY JobKeysApart DEF JobsKeys
<1>2. /\ OurIdentity \in KeysOf(Us)
      /\ \A id \in Nat : OurPreKey(id) \in KeysOf(Us) /\ OurSignedPreKey(id) \in KeysOf(Us)
  BY DEF KeysOf, OurIdentity, OurPreKey, OurSignedPreKey
<1>3. /\ OurIdentity \notin SessionKeys(Us)
      /\ \A id \in Nat : /\ OurPreKey(id) \notin SessionKeys(Us)
                         /\ OurSignedPreKey(id) \notin SessionKeys(Us)
  BY DEF SessionKeys, SessionKey, OurIdentity, OurPreKey, OurSignedPreKey,
         IdentityKey, PreKey, SignedPreKey
<1> QED BY <1>1, <1>2, <1>3 DEF OurKeysIn, Fixed, BothKeys

\* Those a job of ours finds are in use.
LEMMA FixedInUse ==
  ASSUME None \notin BothKeys, \A c \in Calls : CallOK(Fixed, c)
  PROVE  /\ None \notin InUse
         /\ OurKeysIn(InUse)
         /\ \A c \in Calls : CallOK(InUse, c)
<1>1. Fixed \subseteq InUse
  BY DEF Fixed, InUse, JobsKeys
<1>2. None \notin InUse
  BY DEF InUse
<1>3. OurKeysIn(InUse)
  BY <1>1, OurKeysFixed DEF OurKeysIn
<1>4. ASSUME NEW c \in Calls
      PROVE  CallOK(InUse, c)
  <2>1. CallOK(Fixed, c)
    OBVIOUS
  <2>2. c.kind \in {"decrypt", "receive"} => MessageOK(InUse, c.message)
    BY <1>1, <2>1 DEF CallOK, MessageOK
  <2>3. c.kind = "receive" => HeaderOK(InUse, c.header)
    BY <1>1, <2>1 DEF CallOK, HeaderOK
  <2>4. c.kind = "processPreKey" => DeviceOK(InUse, c.device)
    BY <1>1, <2>1 DEF CallOK, DeviceOK
  <2> QED BY <2>2, <2>3, <2>4 DEF CallOK
<1> QED BY <1>2, <1>3, <1>4

\* A record is stored.  Each session that sends was there and sent with the
\* same root key, but one whose root key was made with new keys.
Carried(a, key) == SendingSlot(a, key) /\ Follows(Slot(a, key), Slot(a, key)')
Fresh(a, key) == Slot(a, key)'.rootKey \notin Seq(SUBSET InUse)

\* A record that is stored is one that its operation left, as Changed says.
LEMMA StoringCarries ==
  ASSUME KeyInv, records = [b \in Addresses |-> records[b]], NEW a \in Addresses,
         NEW after, records' = [records EXCEPT ![a] = after], InUse \subseteq InUse',
         NEW base, StartsFrom(records[a], base), Changed(InUse, InUse', base, after)
  PROVE  /\ RecordsSound'
         /\ \E key : \A b \in Addresses : \A k :
              SendingSlot(b, k)' => Carried(b, k) \/ (b = a /\ k = key /\ Fresh(b, k))
<1>1. /\ records'[a] = after
      /\ \A b \in Addresses \ {a} : records'[b] = records[b]
  OBVIOUS
<1>2. RecordsSound'
  <2>1. \A b \in Addresses : records[b] # None => SoundRecord(InUse', records[b])
    BY SoundMore DEF KeyInv, RecordsSound
  <2>2. SoundRecord(InUse', after)
    BY DEF Changed
  <2> QED BY <1>1, <2>1, <2>2 DEF RecordsSound
<1>3. PICK key :
        /\ \A k \in DOMAIN after.sessions \ {key} : KeepsSending(base, after, k)
        /\ key \in DOMAIN after.sessions =>
             \/ KeepsSending(base, after, key)
             \/ after.sessions[key].rootKey \notin Seq(SUBSET InUse)
  BY DEF Changed
<1>4. ASSUME NEW b \in Addresses \ {a}, NEW k, SendingSlot(b, k)'
      PROVE  Carried(b, k)
  <2>1. SendingSlot(b, k) /\ Slot(b, k)' = Slot(b, k)
    BY <1>1, <1>4 DEF SendingSlot, Slot
  <2>2. SessionOver(InUse, Slot(b, k))
    BY <2>1 DEF KeyInv, RecordsSound, SoundRecord, SessionOK, SendingSlot, Slot
  <2>3. SendingChain(Slot(b, k)).counter \in Int
    BY <2>1, <2>2, CounterIsInt DEF SendingSlot, Slot
  <2> QED BY <2>1, <2>3 DEF Carried, Follows, SendingSlot, Slot
<1>5. ASSUME NEW k, SendingSlot(a, k)'
      PROVE  Carried(a, k) \/ (k = key /\ Fresh(a, k))
  <2>1. /\ k \in DOMAIN after.sessions
        /\ Sending(after.sessions[k])
        /\ Slot(a, k)' = after.sessions[k]
    BY <1>1, <1>5 DEF SendingSlot, Slot
  <2>2. CASE KeepsSending(base, after, k)
    <3>1. k \in DOMAIN base.sessions /\ Follows(base.sessions[k], after.sessions[k])
      BY <2>1, <2>2 DEF KeepsSending
    <3>2. records[a] # None /\ base = records[a]
      BY <3>1 DEF StartsFrom
    <3>3. Sending(base.sessions[k])
      BY <3>1 DEF Follows
    <3> QED BY <2>1, <3>1, <3>2, <3>3 DEF Carried, SendingSlot, Slot
  <2>3. CASE k = key /\ after.sessions[k].rootKey \notin Seq(SUBSET InUse)
    BY <2>1, <2>3 DEF Fresh
  <2> QED BY <1>3, <2>1, <2>2, <2>3
<1> QED BY <1>2, <1>4, <1>5

\* So root keys stay apart, and counters do not fall behind.
LEMMA StoringKeeps ==
  ASSUME KeyInv, RecordsSound', NEW a, NEW key,
         \A b \in Addresses : \A k :
           SendingSlot(b, k)' => Carried(b, k) \/ (b = a /\ k = key /\ Fresh(b, k))
  PROVE  /\ SeedsApart'
         /\ \A j \in Jobs : SentBy(j) /\ UNCHANGED KeyOf(j) => Behind(KeyOf(j))'
<1>1. ASSUME NEW b \in Addresses, NEW k, SendingSlot(b, k)', Carried(b, k)
      PROVE  /\ SendingSlot(b, k)
             /\ Slot(b, k)'.rootKey = Slot(b, k).rootKey
             /\ SendingChain(Slot(b, k)').counter >= SendingChain(Slot(b, k)).counter
             /\ SessionOver(InUse, Slot(b, k))
             /\ Slot(b, k).rootKey \in Seq(SUBSET InUse)
  <2>1. /\ SendingSlot(b, k)
        /\ Slot(b, k)'.rootKey = Slot(b, k).rootKey
        /\ SendingChain(Slot(b, k)').counter >= SendingChain(Slot(b, k)).counter
    BY <1>1 DEF Carried, Follows
  <2>2. SessionOver(InUse, Slot(b, k))
    BY <2>1 DEF KeyInv, RecordsSound, SoundRecord, SessionOK, SendingSlot, Slot
  <2>3. Slot(b, k).rootKey \in Seq(SUBSET InUse)
    BY <2>2 DEF SessionOver
  <2> QED BY <2>1, <2>2, <2>3
<1>2. SeedsApart'
  <2> SUFFICES ASSUME NEW b \in Addresses, NEW c \in Addresses, NEW k, NEW l,
                      SendingSlot(b, k)', SendingSlot(c, l)',
                      Slot(b, k)'.rootKey = Slot(c, l)'.rootKey
               PROVE  b = c /\ k = l
    BY DEF SeedsApart
  <2>1. CASE Carried(b, k) /\ Carried(c, l)
    BY <1>1, <2>1 DEF KeyInv, SeedsApart
  <2>2. CASE Carried(b, k) /\ ~Carried(c, l)
    BY <1>1, <2>2 DEF Fresh
  <2>3. CASE ~Carried(b, k) /\ Carried(c, l)
    BY <1>1, <2>3 DEF Fresh
  <2>4. CASE ~Carried(b, k) /\ ~Carried(c, l)
    BY <2>4
  <2> QED BY <2>1, <2>2, <2>3, <2>4
<1>3. ASSUME NEW j \in Jobs, SentBy(j), UNCHANGED KeyOf(j)
      PROVE  Behind(KeyOf(j))'
  <2> SUFFICES ASSUME NEW b \in Addresses, NEW k, SendingSlot(b, k)',
                      Slot(b, k)'.rootKey = KeyOf(j).seed
               PROVE  SendingChain(Slot(b, k)').counter >= KeyOf(j).counter
    BY <1>3 DEF Behind
  <2>1. /\ KeyOf(j).seed \in Seq(SUBSET InUse)
        /\ KeyOf(j).counter \in Int
        /\ Behind(KeyOf(j))
    BY <1>3 DEF KeyInv, SentOK
  <2>2. Carried(b, k)
    BY <2>1 DEF Fresh
  <2>3. SendingChain(Slot(b, k)).counter >= KeyOf(j).counter
    BY <1>1, <2>1, <2>2 DEF Behind
  <2>4. SendingChain(Slot(b, k)).counter \in Int
    BY <1>1, <2>2, CounterIsInt DEF SendingSlot, Slot
  <2>5. SendingChain(Slot(b, k)').counter \in Int
    <3>1. SendingSlot(b, k)'
      OBVIOUS
    <3>2. SessionOver(InUse', Slot(b, k)')
      BY <3>1 DEF RecordsSound, SoundRecord, SessionOK, SendingSlot, Slot
    <3> QED BY <3>1, <3>2, CounterIsInt DEF SendingSlot, Slot
  <2> QED BY <1>1, <2>1, <2>2, <2>3, <2>4, <2>5
<1> QED BY <1>2, <1>3

\* The message of encrypt has the key after the counter of its session.
LEMMA MessageKeyIs ==
  ASSUME NEW K, NEW s, SessionOK(K, Us, Peer, s), Sending(s)
  PROVE  WhisperMessage(s, OurIdentity).mac.key
           = MessageKey(s.rootKey, SendingChain(s).counter + 1)
<1> DEFINE chain == SendingChain(s)
           next == chain.counter + 1
           filled == FillMessageKeys(chain, next)
<1>1. /\ SessionOver(K, s) /\ SendingOK(s)
      /\ s.ephemeralKeyPair \in DOMAIN s.chains
  BY DEF SessionOK, ChainsOK, Sending
<1>2. /\ chain \in ChainOver(K)
      /\ chain.messageKeys = {}
      /\ chain.seed = s.rootKey
      /\ chain = s.chains[s.ephemeralKeyPair]
  BY <1>1 DEF SessionOver, ChainsOver, SendingOK, SendingChain
<1>3. next \in Int
  BY <1>2 DEF ChainOver, Counters
<1>4. filled.counter = next
  BY <1>1, <1>2, EncryptedIs
<1>5. filled.seed = s.rootKey
  BY SMTT(30), <1>2, <1>3, FillMessageKeysIs
<1>6. WhisperMessage(s, OurIdentity).mac.key = MessageKey(filled.seed, filled.counter)
  BY DEF WhisperMessage, MAC, NextCounter
<1> HIDE DEF filled
<1> QED BY <1>4, <1>5, <1>6

\* The storage has stored the record of a job.
LEMMA StoreKeepsUse ==
  ASSUME JobsInv, NEW j \in Jobs, NEW c \in pending[j], Answer(j, c),
         c.write = "storeSession"
  PROVE  InUse \cup JobKeys(j) \subseteq InUse' /\ JobKeys(j) \cap InUse = {}
<1>1. /\ pending' = [pending EXCEPT ![j] = @ \ {c}]
      /\ UNCHANGED work
      /\ DOMAIN pending = Jobs
  BY DEF Answer, JobsInv, TypesOK
<1>2. /\ work[j].step \in {"stored", "done"}
      /\ \A d \in pending[j] : d # c => d.write = "saveIdentity"
  BY DEF JobsInv, WritesOK, Stores
<1>3. NotYet(j) /\ ~NotYet(j)'
  BY <1>1, <1>2 DEF NotYet
<1>4. \A k \in Jobs : NotYet(k)' => NotYet(k)
  BY <1>1 DEF NotYet
<1>5. JobKeys(j) \subseteq BothKeys
  BY JobKeysApart, SessionKeysDistinct DEF BothKeys
<1>6. JobKeys(j) \subseteq InUse'
  BY <1>3, <1>5, JobKeysApart DEF InUse
<1> QED BY <1>3, <1>4, <1>6 DEF InUse

\* encrypt has: its key was not given before, and its session is past it.
LEMMA EncryptedKeepsKeys ==
  ASSUME JobsInv, KeyInv, NEW j \in Jobs, NEW c \in pending[j], Answer(j, c),
         c.write = "storeSession", status[j] = "running", call[j].kind = "encrypt",
         NEW a \in Addresses, a = number[j], RecordsSound', InUse \subseteq InUse',
         records'[a] = c.value, \A b \in Addresses \ {a} : records'[b] = records[b]
  PROVE  /\ KeyOf(j).seed \in Seq(SUBSET InUse)
         /\ KeyOf(j).counter \in Int
         /\ Behind(KeyOf(j))'
         /\ \A k \in Jobs : SentBy(k) => KeyOf(k) # KeyOf(j)
<1>1. PICK s : MadeFrom(records[a], s, c.value, work[j].result) /\ records[a] # None
  BY DEF KeyInv, KeyJobs, EncryptingJob, Loaded
<1>2. SoundRecord(InUse, records[a]) /\ s \in SessionsIn(records[a])
  BY <1>1 DEF KeyInv, RecordsSound, MadeFrom
<1>3. PICK key \in DOMAIN records[a].sessions : s = records[a].sessions[key]
  BY <1>2 DEF SessionsIn
<1>4. SessionOK(InUse, Us, Peer, s) /\ s.baseKey = key
  BY <1>2, <1>3, SessionIn
<1>5. EncryptedIn(records[a], c.value, s)
  <2>1. /\ IsOpen(s) /\ CanUpdateSessionState(records[a], Encrypted(s), None)
        /\ c.value = UpdateSessionState(records[a], Encrypted(s), None)
    BY <1>1 DEF MadeFrom
  <2> QED BY <1>2, <2>1, EncryptionChanges
<1>6. /\ SendingSlot(a, key) /\ Slot(a, key) = s
      /\ s.rootKey \in Seq(SUBSET InUse)
      /\ SendingChain(s).counter \in Int
  <2>1. SessionOver(InUse, s) /\ s.rootKey \in Seq(SUBSET InUse)
    BY <1>4 DEF SessionOK, SessionOver
  <2>2. Sending(s)
    BY <1>5 DEF EncryptedIn
  <2>3. SendingChain(s).counter \in Int
    BY <2>1, <2>2, CounterIsInt
  <2> QED BY <1>1, <1>3, <2>1, <2>2, <2>3 DEF SendingSlot, Slot
<1>7. KeyOf(j) = MessageKey(s.rootKey, SendingChain(s).counter + 1)
  <2>1. work[j].result = WhisperMessage(s, OurIdentity) /\ Sending(s)
    BY <1>1, <1>5 DEF MadeFrom, EncryptedIn
  <2> QED BY <1>4, <2>1, MessageKeyIs DEF KeyOf
<1>8. KeyOf(j).seed = s.rootKey /\ KeyOf(j).counter = SendingChain(s).counter + 1
  BY <1>7 DEF MessageKey
<1>9. ASSUME NEW k \in Jobs, SentBy(k), KeyOf(k) = KeyOf(j)
      PROVE  FALSE
  <2>1. Behind(KeyOf(k))
    BY <1>9 DEF KeyInv, SentOK
  <2>2. SendingChain(s).counter >= KeyOf(k).counter
    BY <1>6, <1>8, <1>9, <2>1 DEF Behind
  <2> QED BY <1>6, <1>8, <1>9, <2>2
<1>10. ASSUME NEW b \in Addresses, NEW k, SendingSlot(b, k)',
              Slot(b, k)'.rootKey = s.rootKey
       PROVE  SendingChain(Slot(b, k)').counter >= KeyOf(j).counter
  <2>1. CASE b # a
    <3>1. SendingSlot(b, k) /\ Slot(b, k)' = Slot(b, k)
      BY <1>10, <2>1 DEF SendingSlot, Slot
    <3>2. b = a
      BY <1>6, <1>10, <3>1 DEF KeyInv, SeedsApart
    <3> QED BY <2>1, <3>2
  <2>2. CASE b = a /\ k # key
    <3>1. /\ k \in DOMAIN c.value.sessions /\ Sending(c.value.sessions[k])
          /\ Slot(b, k)' = c.value.sessions[k]
      BY <1>10, <2>2 DEF SendingSlot, Slot
    <3>2. /\ k \in DOMAIN records[a].sessions
          /\ Follows(records[a].sessions[k], c.value.sessions[k])
      BY <1>4, <1>5, <2>2, <3>1 DEF EncryptedIn, KeepsSending
    <3>3. SendingSlot(a, k) /\ Slot(a, k).rootKey = s.rootKey
      BY <1>1, <1>10, <3>1, <3>2 DEF Follows, SendingSlot, Slot
    <3>4. k = key
      BY <1>6, <3>3 DEF KeyInv, SeedsApart
    <3> QED BY <2>2, <3>4
  <2>3. CASE b = a /\ k = key
    <3>1. /\ s.baseKey \in DOMAIN c.value.sessions
          /\ Sending(c.value.sessions[s.baseKey])
          /\ Slot(b, k)' = c.value.sessions[s.baseKey]
      BY <1>4, <1>10, <2>3 DEF SendingSlot, Slot
    <3>2. SendingChain(Slot(b, k)').counter = SendingChain(s).counter + 1
      BY <1>5, <3>1 DEF EncryptedIn
    <3> QED BY <1>6, <1>8, <3>2
  <2> QED BY <2>1, <2>2, <2>3
<1>11. Behind(KeyOf(j))'
  <2>1. KeyOf(j)' = KeyOf(j)
    BY DEF Answer, KeyOf
  <2> QED BY <1>8, <1>10, <2>1 DEF Behind
<1> QED BY <1>6, <1>8, <1>9, <1>11

\* What the theorem assumes of the application and of the database at the
\* start: calls and records are made of keys that no job draws, the peer's
\* are the peer's, and no two sessions send with one root key.
KeyAssumptions ==
  /\ Us # Peer
  /\ None \notin BothKeys
  /\ "saveIdentity" \notin Refusable
  /\ \A c \in Calls : CallOK(Fixed, c)
  /\ \A a \in Addresses : Start[a] # None => SoundRecord(Fixed, Start[a])
  /\ \A a, b \in Addresses :
       Start[a] # None /\ Start[b] # None =>
         \A k \in DOMAIN Start[a].sessions : \A l \in DOMAIN Start[b].sessions :
           /\ Sending(Start[a].sessions[k])
           /\ Sending(Start[b].sessions[l])
           /\ Start[a].sessions[k].rootKey = Start[b].sessions[l].rootKey
           => a = b /\ k = l

\* When a record is stored, the key of its message is new, and behind its session.
LEMMA StoreKeepsKeys ==
  ASSUME KeyAssumptions, JobsInv, KeyInv, NEW j \in Jobs, NEW c \in pending[j],
         Answer(j, c), c.write = "storeSession"
  PROVE  KeyInv'
<1> DEFINE a == number[j]
<1>1. status[j] = "running" /\ IsChange(Loaded(j), c.value, call[j], j)
  BY DEF JobsInv, WritesOK, Stores
<1>2. a \in Addresses /\ call[j] \in Calls
  BY <1>1, NumberIsAddress DEF JobsInv, CallsOK, Called
<1>3. records = [b \in Addresses |-> records[b]]
  BY DEF JobsInv, TypesOK
<1>4. /\ records' = [records EXCEPT ![a] = c.value]
      /\ pending' = [pending EXCEPT ![j] = @ \ {c}]
      /\ UNCHANGED <<status, number, call, work>>
      /\ DOMAIN pending = Jobs
  BY DEF Answer, queues, JobsInv, TypesOK
<1>5. InUse \cup JobKeys(j) \subseteq InUse' /\ JobKeys(j) \cap InUse = {}
  BY StoreKeepsUse
<1>6. /\ None \notin InUse /\ OurKeysIn(InUse) /\ CallOK(InUse, call[j])
      /\ None \notin InUse'
      /\ RatchetKey(j) \notin InUse
      /\ JobKeys(j) \subseteq SessionKeys(Us)
  <2>1. None \notin InUse /\ OurKeysIn(InUse) /\ CallOK(InUse, call[j])
    BY <1>2, FixedInUse DEF KeyAssumptions
  <2>2. None \notin InUse'
    BY DEF KeyAssumptions, InUse
  <2>3. RatchetKey(j) \notin InUse /\ JobKeys(j) \subseteq SessionKeys(Us)
    BY <1>5, JobKeysApart DEF JobKeys
  <2> QED BY <2>1, <2>2, <2>3
<1>7. records[a] # None => SoundRecord(InUse, records[a])
  BY <1>2 DEF KeyInv, RecordsSound
<1>8. PICK base : StartsFrom(records[a], base) /\ Changed(InUse, InUse', base, c.value)
  <2>1. IsChange(records[a], c.value, call[j], j) /\ Us # Peer
    BY <1>1 DEF Loaded, KeyAssumptions
  <2> HIDE DEF a
  <2> QED BY <1>5, <1>6, <1>7, <2>1, ChangeIs
<1>9. /\ RecordsSound'
      /\ \E key : \A b \in Addresses : \A k :
           SendingSlot(b, k)' => Carried(b, k) \/ (b = a /\ k = key /\ Fresh(b, k))
  <2>1. InUse \subseteq InUse'
    BY <1>5
  <2> HIDE DEF a
  <2> QED BY <1>2, <1>3, <1>4, <1>8, <2>1, StoringCarries
<1>10. /\ SeedsApart'
       /\ \A k \in Jobs : SentBy(k) /\ UNCHANGED KeyOf(k) => Behind(KeyOf(k))'
  <2> HIDE DEF a
  <2>1. PICK key : \A b \in Addresses : \A k :
           SendingSlot(b, k)' => Carried(b, k) \/ (b = a /\ k = key /\ Fresh(b, k))
    BY <1>9
  <2> QED BY <1>9, <2>1, StoringKeeps
<1>11. ASSUME call[j].kind = "encrypt"
       PROVE  /\ KeyOf(j).seed \in Seq(SUBSET InUse)
              /\ KeyOf(j).counter \in Int
              /\ Behind(KeyOf(j))'
              /\ \A k \in Jobs : SentBy(k) => KeyOf(k) # KeyOf(j)
  <2>1. records'[a] = c.value /\ \A b \in Addresses \ {a} : records'[b] = records[b]
    BY <1>2, <1>3, <1>4
  <2>2. InUse \subseteq InUse' /\ a = number[j]
    BY <1>5
  <2> HIDE DEF a
  <2> QED BY <1>1, <1>2, <1>9, <1>11, <2>1, <2>2, EncryptedKeepsKeys
<1>12. \A k \in Jobs : KeyOf(k)' = KeyOf(k)
  BY <1>4 DEF KeyOf
<1>13. \A k \in Jobs : SentBy(k)' => SentBy(k) \/ (k = j /\ call[j].kind = "encrypt")
  BY <1>4 DEF SentBy
<1>14. SentOK'
  <2>1. Seq(SUBSET InUse) \subseteq Seq(SUBSET InUse')
    BY <1>5, SeqMonotonic
  <2>2. ASSUME NEW k \in Jobs, SentBy(k)'
        PROVE  /\ KeyOf(k).seed \in Seq(SUBSET InUse)
               /\ KeyOf(k).counter \in Int
               /\ Behind(KeyOf(k))'
    <3>1. CASE SentBy(k)
      BY <1>10, <1>12, <3>1 DEF KeyInv, SentOK
    <3>2. CASE k = j /\ call[j].kind = "encrypt"
      BY <1>11, <3>2
    <3> QED BY <1>13, <2>2, <3>1, <3>2
  <2> QED BY <1>12, <2>1, <2>2 DEF SentOK
<1>15. SentApart'
  BY <1>11, <1>12, <1>13 DEF KeyInv, SentApart
<1>16. ASSUME NEW k \in Jobs
       PROVE  EncryptingJob(k)' /\ FulfilledJob(k)'
  <2>1. EncryptingJob(k) /\ FulfilledJob(k)
    BY DEF KeyInv, KeyJobs
  <2>2. FulfilledJob(k)'
    BY <1>4, <2>1 DEF FulfilledJob, SentBy
  <2>3. EncryptingJob(k)'
    <3>1. CASE k = j
      <4>1. call[j].kind = "encrypt" => \A d \in pending[j] : d = c
        BY <1>1, <2>1, <3>1 DEF EncryptingJob, JobsInv, WritesOK, Stores
      <4> QED BY <1>4, <3>1, <4>1 DEF EncryptingJob
    <3>2. CASE k # j
      <4>1. status[k] = "running" => number[k] # a
        BY <1>1, <3>2, OneRuns
      <4>2. status[k] = "running" => Loaded(k)' = Loaded(k)
        BY <1>3, <1>4, <4>1, NumberIsAddress DEF Loaded
      <4> QED BY <1>4, <2>1, <3>2, <4>2 DEF EncryptingJob
    <3> QED BY <3>1, <3>2
  <2> QED BY <2>2, <2>3
<1> QED BY <1>9, <1>10, <1>14, <1>15, <1>16 DEF KeyInv, KeyJobs

\* Every step keeps the keys.
LEMMA NextKeepsKeys ==
  ASSUME KeyAssumptions, JobsInv, KeyInv, [Next]_vars
  PROVE  KeyInv'
<1>1. ASSUME NEW j \in Jobs, NEW c \in Calls,
             Request(j, c) \/ DeleteAllSessions(j, c)
      PROVE  KeyInv'
  BY <1>1, CallKeepsKeys
<1>2. ASSUME NEW j \in Jobs, Begin(j) \/ Handler(j) \/ RefuseLoad(j)
      PROVE  KeyInv'
  BY <1>2, BeginKeepsKeys, HandlerKeepsKeys, RefuseLoadKeepsKeys
<1>3. ASSUME NEW j \in Jobs, NEW c \in pending[j], Answer(j, c) \/ Refuse(j, c)
      PROVE  KeyInv'
  BY <1>3, StoreKeepsKeys, OtherAnswerKeepsKeys, RefuseKeepsKeys
<1>4. CASE UNCHANGED vars
  <2>1. UNCHANGED <<status, number, call, work, pending, records>>
    BY <1>4 DEF vars, queues, storage
  <2>2. ASSUME NEW k \in Jobs
        PROVE  /\ NotYet(k)' => NotYet(k)
               /\ SentBy(k)' => SentBy(k) /\ UNCHANGED KeyOf(k)
               /\ EncryptingJob(k)' /\ FulfilledJob(k)'
    BY <2>1 DEF NotYet, SentBy, KeyOf, KeyInv, KeyJobs, EncryptingJob, FulfilledJob, Loaded
  <2> QED BY <2>1, <2>2, QuietStepKeepsKeys
<1> QED BY <1>1, <1>2, <1>3, <1>4, StopKeepsKeys DEF Next

\* At the start no key was given.
LEMMA InitKeyInv ==
  ASSUME KeyAssumptions, Init
  PROVE  KeyInv
<1>1. /\ records = Start
      /\ \A j \in Jobs : /\ status[j] = "new"
                         /\ work[j].step = "begin"
                         /\ pending[j] = {}
  BY DEF Init, Lock!Init, NoWork, Held
<1>2. InUse = Fixed
  BY <1>1 DEF InUse, Fixed, JobsKeys, NotYet
<1>3. RecordsSound
  BY <1>1, <1>2 DEF RecordsSound, KeyAssumptions
<1>4. SeedsApart
  BY <1>1 DEF SeedsApart, SendingSlot, Slot, KeyAssumptions
<1>5. SentOK /\ SentApart /\ KeyJobs
  BY <1>1 DEF SentOK, SentApart, KeyJobs, SentBy, EncryptingJob, FulfilledJob
<1> QED BY <1>3, <1>4, <1>5 DEF KeyInv

\* No two messages that encrypt has returned have one key, whatever calls
\* overlapped, failed or were cut off by a stop: a key is given when the
\* record that is past it is stored, and the next job makes its message from
\* that record.  The start and the calls are made of keys that no job draws.
THEOREM JobsNoMessageKeyTwice ==
  ASSUME KeyAssumptions
  PROVE  Spec => []NoMessageKeyTwice
<1>1. KeyInv /\ JobsInv /\ [Next]_vars => KeyInv'
  BY NextKeepsKeys
<1>2. Init => KeyInv
  BY InitKeyInv
<1>3. KeyInv => NoMessageKeyTwice
  BY DEF KeyInv, KeyJobs, FulfilledJob, SentApart, KeyOf, NoMessageKeyTwice, Fulfilled
<1>4. "saveIdentity" \notin Refusable
  BY DEF KeyAssumptions
<1>5. Spec => []JobsInv
  BY <1>4, AlwaysJobsInv
<1> QED BY <1>1, <1>2, <1>3, <1>5, PTL DEF Spec
-----------------------------------------------------------------------------
\* t has the secrets of the root key of s.
RootGrows(s, t) ==
  \A i \in DOMAIN s.rootKey : i \in DOMAIN t.rootKey /\ t.rootKey[i] = s.rootKey[i]

\* The sessions of the record are still in the other one, and grew.
KeepsSessions(record, after) ==
  \A k \in DOMAIN record.sessions :
    k \in DOMAIN after.sessions /\ RootGrows(record.sessions[k], after.sessions[k])

\* The record has room for one more session.
HasRoom(record) == Cardinality(DOMAIN record.sessions) < MaxSessions

\* A record that an operation works on, over the keys K, and nothing to remove.
Fits(K, record) == /\ RecordOK(record)
                   /\ RecordOver(K, record)
                   /\ Cardinality(DOMAIN record.sessions) <= MaxSessions

\* Sessions that are kept twice are kept.
LEMMA KeepsTwice ==
  ASSUME NEW r, NEW s, NEW t, KeepsSessions(r, s), KeepsSessions(s, t)
  PROVE  KeepsSessions(r, t)
  BY DEF KeepsSessions, RootGrows

\* The record r, with the session s in it, has become the record t.
PutIn(r, s, t) == /\ DOMAIN t.sessions = DOMAIN r.sessions \cup {s.baseKey}
                  /\ t.sessions[s.baseKey].rootKey = s.rootKey
                  /\ KeepsSessions(r, t)

\* updateSessionState removes no session while there is room.
LEMMA PutKeeps ==
  ASSUME NEW record, RecordOK(record), NEW K, NEW s, SessionOver(K, s),
         Cardinality(DOMAIN record.sessions \cup {s.baseKey}) <= MaxSessions,
         s.baseKey \in DOMAIN record.sessions =>
           RootGrows(record.sessions[s.baseKey], s),
         NEW id
  PROVE  PutIn(record, s, UpdateSessionState(record, s, id))
<1> DEFINE after == UpdateSessionState(record, s, id)
           put == Put(record.sessions, s.baseKey, RemoveOldChains(s))
<1>1. after.sessions = SessionsWith(record, s)
  BY DEF UpdateSessionState, RecordOK, RecordFields
<1>2. /\ DOMAIN put = DOMAIN record.sessions \cup {s.baseKey}
      /\ put[s.baseKey] = RemoveOldChains(s)
      /\ \A k \in DOMAIN record.sessions \ {s.baseKey} : put[k] = record.sessions[k]
  BY DEF Put
<1>3. after.sessions = put
  BY <1>1, <1>2 DEF SessionsWith, RemoveOldSessions
<1>4. RemoveOldChains(s).rootKey = s.rootKey
  <2>1. Thinned(s, RemoveOldChains(s))
    BY RemoveOldChainsThins
  <2> QED  BY <2>1 DEF Thinned, SameBut, SessionFields
<1> HIDE DEF put, after
<1>5. KeepsSessions(record, after)
  <2> SUFFICES ASSUME NEW k \in DOMAIN record.sessions
               PROVE  /\ k \in DOMAIN after.sessions
                      /\ RootGrows(record.sessions[k], after.sessions[k])
    BY DEF KeepsSessions
  <2>1. CASE k = s.baseKey
    BY <1>2, <1>3, <1>4, <2>1 DEF RootGrows
  <2>2. CASE k # s.baseKey
    BY <1>2, <1>3, <2>2 DEF RootGrows
  <2> QED  BY <2>1, <2>2
<1> QED  BY <1>2, <1>3, <1>4, <1>5 DEF PutIn, after

\* archiveCurrentState removes none.
LEMMA ArchiveKeeps ==
  ASSUME NEW K, NEW record, Fits(K, record)
  PROVE  LET after == ArchiveCurrentState(record)
         IN  DOMAIN after.sessions = DOMAIN record.sessions /\ KeepsSessions(record, after)
<1>1. CASE OpenKeys(record) = {}
  BY <1>1 DEF ArchiveCurrentState, KeepsSessions, RootGrows
<1>2. CASE OpenKeys(record) # {}
  <2>1. PICK key \in OpenKeys(record) : OpenSession(record) = record.sessions[key]
    BY <1>2 DEF OpenSession
  <2>2. PICK s : s = record.sessions[key]
    OBVIOUS
  <2>3. key \in DOMAIN record.sessions /\ SessionOver(K, s) /\ s.baseKey = key
    BY <2>1, <2>2 DEF OpenKeys, Fits, RecordOK, RecordOver
  <2>4. PICK t : t = CloseSession(s, Now(record))
    OBVIOUS
  <2>5. Now(record) \in Int /\ Now(record) >= 1
    BY NowIsPositive DEF Fits
  <2>6. SessionOver(K, t) /\ Thinned(s, t)
    BY <2>3, <2>4, <2>5, CloseSessionThins
  <2>7. t.baseKey = key /\ t.rootKey = s.rootKey
    BY <2>3, <2>6 DEF Thinned, SameBut, SessionFields
  <2>8. DOMAIN record.sessions \cup {t.baseKey} = DOMAIN record.sessions
    BY <2>3, <2>7
  <2>9. RootGrows(record.sessions[t.baseKey], t)
    BY <2>2, <2>7 DEF RootGrows
  <2>10. ArchiveCurrentState(record) = UpdateSessionState(record, t, None)
    BY <1>2, <2>1, <2>2, <2>4 DEF ArchiveCurrentState
  <2>11. PutIn(record, t, UpdateSessionState(record, t, None))
    BY <2>6, <2>8, <2>9, PutKeeps DEF Fits
  <2> QED  BY <2>8, <2>10, <2>11 DEF PutIn
<1> QED  BY <1>1, <1>2

\* A session that is added takes the place of none.
LEMMA AddKeeps ==
  ASSUME NEW K, NEW record, Fits(K, record), HasRoom(record), CanArchive(record),
         NEW L, NEW s, SessionOver(L, s), s.baseKey \notin DOMAIN record.sessions, NEW id
  PROVE  PutIn(record, s, UpdateSessionState(ArchiveCurrentState(record), s, id))
<1>1. PICK a : a = ArchiveCurrentState(record)
  OBVIOUS
<1>2. DOMAIN a.sessions = DOMAIN record.sessions /\ KeepsSessions(record, a)
  BY <1>1, ArchiveKeeps
<1>3. RecordOK(a)
  BY <1>1, ArchiveCurrentStateKeeps DEF Fits
<1>4. Cardinality(DOMAIN a.sessions \cup {s.baseKey}) <= MaxSessions
  <2>1. /\ IsFiniteSet(DOMAIN record.sessions)
        /\ Cardinality(DOMAIN record.sessions) \in Nat
    BY FS_CardinalityType DEF Fits, RecordOK
  <2>2. Cardinality(DOMAIN record.sessions \cup {s.baseKey})
          = Cardinality(DOMAIN record.sessions) + 1
    BY <2>1, FS_AddElement
  <2> QED  BY <1>2, <2>1, <2>2, RecordAssumption DEF HasRoom
<1>5. PICK t : t = UpdateSessionState(a, s, id)
  OBVIOUS
<1>6. PutIn(a, s, t)
  BY <1>2, <1>3, <1>4, <1>5, PutKeeps
<1>7. KeepsSessions(record, t)
  BY <1>2, <1>6, KeepsTwice DEF PutIn
<1> QED  BY <1>1, <1>2, <1>5, <1>6, <1>7 DEF PutIn

\* A message is read in a session whose ratchet can turn: its root key grows.
LEMMA ReadGrows ==
  ASSUME Us # Peer, NEW K, NEW r, Turnable(K, Us, Peer, r),
         NEW m, MessageOK(K, m), NEW keyPair, keyPair \notin K
  PROVE  LET t == Decrypted(r, m, keyPair)
         IN  /\ SessionOver(K \cup {keyPair}, t)
             /\ t.baseKey = r.baseKey
             /\ t.baseKeyType = r.baseKeyType
             /\ RootGrows(r, t)
<1>1. PICK key, L : key = m.ephemeralKey /\ L = K \cup {keyPair}
  OBVIOUS
<1>2. /\ key \in SessionKeys(Peer) \cap K
      /\ m.counter \in Int
      /\ m.previousCounter \in Int
  BY <1>1 DEF MessageOK
<1>3. /\ SessionOver(K, r)
      /\ r.rootKey \in Seq(SUBSET K)
      /\ key # r.ephemeralKeyPair
      /\ r.lastRemoteEphemeralKey # r.ephemeralKeyPair
  BY <1>2, KeysApart, SessionKeysDistinct DEF Turnable, SessionOver
<1>4. PICK u : u = Stepped(r, m, keyPair)
  OBVIOUS
<1>5. PICK t : t = Decrypted(r, m, keyPair)
  OBVIOUS
<1>6. t.baseKey = r.baseKey
  BY <1>3, <1>5, DecryptedKeepsHead DEF SessionOver, SameHead, SessionFields
<1>7. CASE key \in DOMAIN r.chains
  <2>1. u = r
    BY <1>1, <1>4, <1>7 DEF Stepped, MaybeStepRatchet
  <2>2. SessionOver(L, r)
    BY <1>1, <1>3, SessionOverMore
  <2>3. SessionOver(L, t) /\ SameBut({"chains", "pendingPreKey"}, r, t)
    <3>1. /\ SessionOver(L, Stepped(r, m, keyPair))
          /\ m.ephemeralKey \in DOMAIN Stepped(r, m, keyPair).chains
      BY <1>1, <1>4, <1>7, <2>1, <2>2
    <3>2. SessionOver(L, t) /\ SameBut({"chains", "pendingPreKey"}, u, t)
      BY <1>2, <1>4, <1>5, <3>1, DecryptedIs
    <3> QED  BY <2>1, <3>2
  <2>4. t.rootKey = r.rootKey /\ t.baseKeyType = r.baseKeyType
    BY <2>3 DEF SameBut, SessionFields
  <2> QED  BY <1>1, <1>5, <1>6, <2>3, <2>4 DEF RootGrows
<1>8. CASE key \notin DOMAIN r.chains
  <2>1. u = MaybeStepRatchet(r, key, m.previousCounter, keyPair)
    BY <1>1, <1>4 DEF Stepped
  <2>2. SessionOver(L, u) /\ Turned(r, key, m.previousCounter, keyPair, u)
    BY <1>1, <1>2, <1>3, <1>8, <2>1, MaybeStepRatchetIs
  <2>3. /\ key \in DOMAIN u.chains
        /\ u.rootKey = Append(Append(r.rootKey, {key, r.ephemeralKeyPair}), {key, keyPair})
    BY <2>2 DEF Turned
  <2>4. SessionOver(L, t) /\ SameBut({"chains", "pendingPreKey"}, u, t)
    BY <1>1, <1>2, <1>4, <1>5, <2>2, <2>3, DecryptedIs
  <2>5. t.rootKey = u.rootKey /\ t.baseKeyType = r.baseKeyType
    BY <2>2, <2>4 DEF Turned, SameBut, SessionFields
  <2>6. RootGrows(r, t)
    <3>1. PICK a, b, T : /\ a = {key, r.ephemeralKeyPair}
                         /\ b = {key, keyPair}
                         /\ T = SUBSET L
      OBVIOUS
    <3>2. r.rootKey \in Seq(T) /\ a \in T /\ b \in T
      <4>1. r.ephemeralKeyPair \in K /\ SUBSET K \subseteq SUBSET L
        BY <1>1, <1>3 DEF SessionOver
      <4>2. Seq(SUBSET K) \subseteq Seq(SUBSET L)
        BY <4>1, SeqMonotonic
      <4> QED  BY <1>1, <1>2, <1>3, <3>1, <4>1, <4>2
    <3>3. Append(r.rootKey, a) \in Seq(T)
      BY <3>2
    <3> QED  BY <2>3, <2>5, <3>1, <3>2, <3>3, AppendIs DEF RootGrows
  <2> QED  BY <1>1, <1>5, <1>6, <2>4, <2>5, <2>6
<1> QED  BY <1>7, <1>8

\* The session that read a message is put back in its place.
LEMMA ReadKeeps ==
  ASSUME Us # Peer, NEW K, NEW record, Fits(K, record),
         NEW key \in DOMAIN record.sessions,
         Turnable(K, Us, Peer, record.sessions[key]),
         NEW m, MessageOK(K, m), NEW keyPair, keyPair \notin K, NEW id
  PROVE  KeepsSessions(record,
           UpdateSessionState(record, Decrypted(record.sessions[key], m, keyPair), id))
<1>1. PICK r, t, L : /\ r = record.sessions[key]
                     /\ t = Decrypted(r, m, keyPair)
                     /\ L = K \cup {keyPair}
  OBVIOUS
<1>2. SessionOver(L, t) /\ t.baseKey = r.baseKey /\ RootGrows(r, t)
  BY <1>1, ReadGrows
<1>3. r.baseKey = key
  BY <1>1 DEF Fits, RecordOK
<1>4. /\ DOMAIN record.sessions \cup {t.baseKey} = DOMAIN record.sessions
      /\ record.sessions[t.baseKey] = r
  BY <1>1, <1>2, <1>3
<1>5. PutIn(record, t, UpdateSessionState(record, t, id))
  BY <1>2, <1>4, PutKeeps DEF Fits
<1> QED  BY <1>1, <1>5 DEF PutIn

\* A sound record is one an operation can work on.
LEMMA SoundFits ==
  ASSUME NEW K, NEW record, SoundRecord(K, record), HasRoom(record)
  PROVE  Fits(K, record)
<1>1. Cardinality(DOMAIN record.sessions) \in Nat
  BY FS_CardinalityType DEF SoundRecord, RecordOK
<1> QED  BY <1>1, RecordAssumption DEF SoundRecord, Fits, HasRoom

-----------------------------------------------------------------------------
\* What processV3 leaves to decrypt in: each session is still there, the
\* record is within its limit, and the ratchet of the session can turn.
ReceivesIn(K, record, header, found) ==
  /\ Fits(K, found)
  /\ KeepsSessions(record, found)
  /\ header.baseKey \in DOMAIN found.sessions =>
       Turnable(K, Us, Peer, found.sessions[header.baseKey])

\* The new session, and what it is put in.
LEMMA AddedReceives ==
  ASSUME Us # Peer, NEW K, None \notin K, OurKeysIn(K), NEW record, SoundRecord(K, record),
         HasRoom(record), NEW header, HeaderOK(K, header), ~IsDuplicate(record, header),
         NEW s \in NewSessions(header), CanAddSession(record, s, header)
  PROVE  /\ ReceivesIn(K, record, header, RecordWithNewSession(record, s, header))
         /\ PutIn(record, s, RecordWithNewSession(record, s, header))
         /\ s.baseKey = header.baseKey
         /\ s.baseKey \notin DOMAIN record.sessions
<1>1. PICK preKey \in {None, OurPreKey(header.preKeyId)} :
        s = ResponderSession(OurIdentity, preKey,
              OurSignedPreKey(header.signedPreKeyId), header.identityKey, header.baseKey)
  BY DEF NewSessions
<1>2. /\ OurIdentity \in K
      /\ preKey \in K \cup {None}
      /\ OurSignedPreKey(header.signedPreKeyId) \in KeysOf(Us) \cap K
      /\ header.identityKey \in K
      /\ header.baseKey \in KeysOf(Peer) \cap K
      /\ header.registrationId \in Nat \cup {None}
  BY <1>1 DEF HeaderOK, OurKeysIn
<1>3. /\ SessionOver(K, s)
      /\ Answering(s, OurIdentity, preKey, OurSignedPreKey(header.signedPreKeyId),
                   header.identityKey, header.baseKey)
  BY <1>1, <1>2, ResponderSessionIs
<1>4. s.baseKey = header.baseKey
  BY <1>3 DEF Answering
<1>5. Turnable(K, Us, Peer, s)
  BY <1>2, <1>3, AnsweringIsTurnable
<1>6. s.baseKey \notin DOMAIN record.sessions
  <2> SUFFICES ASSUME header.baseKey \in DOMAIN record.sessions PROVE FALSE
    BY <1>4
  <2>1. PICK old : old = record.sessions[header.baseKey]
    OBVIOUS
  <2>2. old.baseKeyType = "OURS"
    BY <2>1 DEF IsDuplicate, HasSessionByBaseKey
  <2>3. Turnable(K, Us, Peer, old) /\ old.baseKey = header.baseKey
    BY <2>1, SessionIn
  <2>4. header.baseKey \in SessionKeys(Us)
    BY <2>2, <2>3 DEF Turnable
  <2> QED  BY <1>2, <2>4, KeysApart, SessionKeysDistinct
<1>7. PICK found : found = RecordWithNewSession(record, s, header)
  OBVIOUS
<1>8. Fits(K, record)
  BY SoundFits
<1>9. PutIn(record, s, found)
  BY <1>3, <1>6, <1>7, <1>8, AddKeeps DEF CanAddSession, RecordWithNewSession
<1>10. RecordOK(found) /\ RecordWith(K, record, s, found)
  BY <1>2, <1>3, <1>7, AddsSound DEF CanAddSession, RecordWithNewSession
<1>11. Fits(K, found)
  <2>1. /\ IsFiniteSet(DOMAIN record.sessions)
        /\ Cardinality(DOMAIN record.sessions) \in Nat
    BY FS_CardinalityType DEF SoundRecord, RecordOK
  <2>2. Cardinality(DOMAIN found.sessions) = Cardinality(DOMAIN record.sessions) + 1
    BY <1>6, <1>9, <2>1, FS_AddElement DEF PutIn
  <2>3. Cardinality(DOMAIN found.sessions) <= MaxSessions
    BY <2>1, <2>2, RecordAssumption DEF HasRoom
  <2> QED  BY <1>10, <2>3 DEF Fits, RecordWith
<1>12. PICK r : r = found.sessions[s.baseKey]
  OBVIOUS
<1>13. Slimmed(K, s, r)
  BY <1>9, <1>10, <1>12 DEF RecordWith, PutIn
<1>14. Turnable(K, Us, Peer, r)
  <2>1. /\ r.baseKey = s.baseKey
        /\ r.ephemeralKeyPair = s.ephemeralKeyPair
        /\ r.lastRemoteEphemeralKey = s.lastRemoteEphemeralKey
        /\ r.baseKeyType = s.baseKeyType
        /\ r.pendingPreKey = s.pendingPreKey
        /\ r.rootKey = s.rootKey
        /\ DOMAIN r.chains \subseteq DOMAIN s.chains
        /\ \A k \in DOMAIN r.chains : r.chains[k] = s.chains[k]
    BY <1>13 DEF Slimmed, Thinned, SameBut, SessionFields
  <2>2. SessionOver(K, r)
    BY <1>13 DEF Slimmed
  <2> QED  BY <1>5, <2>1, <2>2 DEF Turnable
<1> QED  BY <1>4, <1>6, <1>7, <1>9, <1>11, <1>12, <1>14 DEF ReceivesIn, PutIn

\* Either record processV3 goes on with.
LEMMA FoundReceives ==
  ASSUME Us # Peer, NEW K, None \notin K, OurKeysIn(K), NEW record, SoundRecord(K, record),
         HasRoom(record), NEW header, HeaderOK(K, header),
         NEW found \in ReceivingRecords(record, header)
  PROVE  ReceivesIn(K, record, header, found)
<1>1. CASE IsDuplicate(record, header)
  <2>1. found = record
    BY <1>1 DEF ReceivingRecords
  <2>2. header.baseKey \in DOMAIN record.sessions
    BY <1>1 DEF IsDuplicate, HasSessionByBaseKey
  <2>3. Fits(K, record) /\ KeepsSessions(record, record)
    BY SoundFits DEF KeepsSessions, RootGrows
  <2> QED  BY <2>1, <2>2, <2>3, SessionIn DEF ReceivesIn
<1>2. CASE ~IsDuplicate(record, header)
  <2>1. PICK s \in NewSessions(header) : /\ CanAddSession(record, s, header)
                                         /\ found = RecordWithNewSession(record, s, header)
    BY <1>2 DEF ReceivingRecords
  <2> QED  BY <1>2, <2>1, AddedReceives
<1> QED  BY <1>1, <1>2

\* A new record has room.
LEMMA NewRecordHasRoom ==
  ASSUME NEW identityKey, NEW registrationId
  PROVE  HasRoom(NewRecord(identityKey, registrationId))
<1>1. DOMAIN NewRecord(identityKey, registrationId).sessions = {}
  BY DEF NewRecord, EmptyMap
<1> QED  BY <1>1, FS_EmptySet, RecordAssumption DEF HasRoom

\* decryptPreKeyWhisperMessage, from the record it has in hand.
LEMMA ReceivedKeeps ==
  ASSUME Us # Peer, NEW K, NEW record, NEW header, NEW found,
         ReceivesIn(K, record, header, found),
         NEW m, MessageOK(K, m), NEW draw, RatchetKey(draw) \notin K,
         NEW sessions,
         sessions = {found.sessions[k] : k \in DOMAIN found.sessions \cap {header.baseKey}},
         NEW after \in Decryptions(found, sessions, m, draw)
  PROVE  KeepsSessions(found, after)
<1>1. PICK r \in sessions :
        after = UpdateSessionState(found, Decrypted(r, m, RatchetKey(draw)), None)
  BY DEF Decryptions, Updates
<1>2. PICK key \in DOMAIN found.sessions : key = header.baseKey /\ r = found.sessions[key]
  BY <1>1
<1> QED  BY <1>1, <1>2, ReadKeeps DEF ReceivesIn

\* Every operation keeps the sessions of a record that has room for one more.
LEMMA ChangeKeeps ==
  ASSUME Us # Peer, NEW K, None \notin K, OurKeysIn(K),
         NEW record, record # None, SoundRecord(K, record), HasRoom(record),
         NEW c, CallOK(K, c), NEW draw, JobKeys(draw) \subseteq SessionKeys(Us),
         JobKeys(draw) \cap K = {}, None \notin JobKeys(draw),
         NEW after, IsChange(record, after, c, draw)
  PROVE  KeepsSessions(record, after)
<1>1. RatchetKey(draw) \notin K /\ BaseKey(draw) \notin K
  BY DEF JobKeys
<1>2. Fits(K, record)
  BY SoundFits
<1>3. CASE c.kind = "encrypt" /\ after \in Encryptions(record)
  <2>1. PICK s \in SessionsIn(record) :
          /\ IsOpen(s) /\ CanUpdateSessionState(record, Encrypted(s), None)
          /\ after = UpdateSessionState(record, Encrypted(s), None)
    BY <1>3 DEF Encryptions, Updates
  <2>2. PICK key \in DOMAIN record.sessions : s = record.sessions[key]
    BY <2>1 DEF SessionsIn
  <2>3. SessionOK(K, Us, Peer, s) /\ s.baseKey = key
    BY <2>2, SessionIn
  <2>4. PICK t : t = Encrypted(s)
    OBVIOUS
  <2>5. SessionOver(K, t) /\ SameBut({"chains"}, s, t)
    <3>1. /\ SessionOver(K, s)
          /\ s.ephemeralKeyPair \in DOMAIN s.chains
          /\ SendingChain(s).messageKeys = {}
      BY <2>1, <2>3 DEF SessionOK, ChainsOK, SendingOK
    <3> QED  BY <2>4, <3>1, EncryptedIs DEF SendingChain
  <2>6. t.baseKey = key /\ t.rootKey = s.rootKey
    BY <2>3, <2>5 DEF SameBut, SessionFields
  <2>7. /\ DOMAIN record.sessions \cup {t.baseKey} = DOMAIN record.sessions
        /\ RootGrows(record.sessions[t.baseKey], t)
    BY <2>2, <2>6 DEF RootGrows
  <2>8. PutIn(record, t, UpdateSessionState(record, t, None))
    BY <1>2, <2>5, <2>7, PutKeeps DEF Fits
  <2> QED  BY <2>1, <2>4, <2>8 DEF PutIn
<1>4. CASE /\ c.kind = "decrypt"
           /\ after \in Decryptions(record, SessionsIn(record), c.message, draw)
  <2>1. PICK r \in SessionsIn(record) :
          after = UpdateSessionState(record, Decrypted(r, c.message, RatchetKey(draw)), None)
    BY <1>4 DEF Decryptions, Updates
  <2>2. PICK key \in DOMAIN record.sessions : r = record.sessions[key]
    BY <2>1 DEF SessionsIn
  <2>3. Turnable(K, Us, Peer, r) /\ MessageOK(K, c.message)
    BY <1>4, <2>2, SessionIn DEF CallOK
  <2> QED  BY <1>1, <1>2, <2>1, <2>2, <2>3, ReadKeeps
<1>5. CASE /\ c.kind = "receive"
           /\ after \in Receptions(WorkingRecord(record, c.header), c.header, c.message, draw)
  <2>1. WorkingRecord(record, c.header) = record
    BY DEF WorkingRecord
  <2>2. MessageOK(K, c.message) /\ HeaderOK(K, c.header)
    BY <1>5 DEF CallOK
  <2>3. PICK found \in ReceivingRecords(record, c.header) :
          after \in Decryptions(found,
            {found.sessions[k] : k \in DOMAIN found.sessions \cap {c.header.baseKey}},
            c.message, draw)
    BY <1>5, <2>1 DEF Receptions
  <2>4. ReceivesIn(K, record, c.header, found)
    BY <2>2, <2>3, FoundReceives
  <2>5. KeepsSessions(found, after)
    BY <1>1, <2>2, <2>3, <2>4, ReceivedKeeps
  <2> QED  BY <2>4, <2>5, KeepsTwice DEF ReceivesIn
<1>6. CASE c.kind = "processPreKey"
  <2>1. PICK s : s = PendingSession(OurIdentity, BaseKey(draw), RatchetKey(draw), c.device)
    OBVIOUS
  <2>2. /\ CanProcessPreKey(record, None, s, c.device)
        /\ after = ProcessPreKey(record, s, c.device)
    BY <1>6, <2>1 DEF IsChange
  <2>3. RecordForDevice(record, c.device) = record
    BY DEF RecordForDevice
  <2>4. DeviceOK(K, c.device)
    BY <1>6 DEF CallOK
  <2>5. PICK L : L = K \cup JobKeys(draw)
    OBVIOUS
  <2>6. /\ SessionOver(L, s)
        /\ Pending(s, OurIdentity, BaseKey(draw), RatchetKey(draw), c.device)
    <3>1. /\ OurIdentity \in L
          /\ BaseKey(draw) \in L
          /\ RatchetKey(draw) \in L
          /\ {c.device.identityKey, c.device.signedPreKey, c.device.preKey} \subseteq L
          /\ c.device.preKeyId \in Nat
          /\ c.device.signedKeyId \in Nat
      BY <2>4, <2>5 DEF DeviceOK, JobKeys, OurKeysIn
    <3>2. None \notin L
      BY <2>5
    <3> QED  BY <2>1, <3>1, <3>2, PendingSessionIs
  <2>7. s.baseKey = BaseKey(draw)
    BY <2>6 DEF Pending
  <2>8. s.baseKey \notin DOMAIN record.sessions
    BY <1>1, <1>2, <2>7 DEF Fits, RecordOver
  <2>9. /\ CanArchive(record)
        /\ after = UpdateSessionState(ArchiveCurrentState(record), s,
                                      c.device.registrationId)
    BY <2>2, <2>3 DEF CanProcessPreKey, ProcessPreKey
  <2>10. PutIn(record, s, after)
    BY <1>2, <2>6, <2>8, <2>9, AddKeeps
  <2> QED  BY <2>10 DEF PutIn
<1>7. CASE c.kind = "close" /\ after = ArchiveCurrentState(record)
  BY <1>2, <1>7, ArchiveKeeps
<1> QED  BY <1>3, <1>4, <1>5, <1>6, <1>7 DEF IsChange
-----------------------------------------------------------------------------
\* What a job has done about the prekey it will remove: the session is in the
\* record it works on, then in the one it asks to store, then in the storage.
BringsSession(held) ==
  held.step = "processed" /\ held.preKeyId # None /\ held.preKeyId \in preKeys =>
    /\ held.key \in DOMAIN held.record.sessions
    /\ MadeWith(held.record.sessions[held.key], held.preKeyId)
StoresSession(held, writes) ==
  held.step = "stored" /\ held.preKeyId \in preKeys =>
    \/ StoredWith(held.preKeyId)
    \/ \E c \in writes : c.write = "storeSession" /\ HasMade(c.value, held.preKeyId)
RemovesOK(writes) ==
  \A c \in writes : c.write = "removePreKey" /\ c.value \in preKeys => StoredWith(c.value)
JobRemoves(j) ==
  /\ status[j] = "running" => BringsSession(work[j]) /\ StoresSession(work[j], pending[j])
  /\ RemovesOK(pending[j])

\* The inductive invariant of the removal of prekeys.
PreKeyInv == PreKeyKept /\ \A j \in Jobs : JobRemoves(j)

\* No record of the storage has as many sessions as it may have: the next one
\* removes none.
RecordsHaveRoom == \A a \in Addresses : records[a] # None => HasRoom(records[a])

\* The value of a record that is not there is no record.
NoneIsNoRecord == \A record : RecordOK(record) => record # None
PreKeyAssumptions == KeyAssumptions /\ NoneIsNoRecord

\* A record that keeps its sessions has those made with a prekey.
LEMMA KeepsMade ==
  ASSUME NEW record, NEW after, KeepsSessions(record, after), NEW id, HasMade(record, id)
  PROVE  HasMade(after, id)
  BY DEF KeepsSessions, RootGrows, HasMade, MadeWith

-----------------------------------------------------------------------------
\* A step in which nothing is stored or removed, and only j changes.
LEMMA JobKeepsPreKeys ==
  ASSUME PreKeyInv, NEW j \in Jobs, UNCHANGED <<records, preKeys>>,
         \A k \in Jobs \ {j} : Same(k), JobRemoves(j)'
  PROVE  PreKeyInv'
<1>1. \A id : StoredWith(id)' = StoredWith(id)
  BY DEF StoredWith
<1>2. PreKeyKept'
  BY <1>1 DEF PreKeyInv, PreKeyKept
<1>3. ASSUME NEW k \in Jobs \ {j} PROVE JobRemoves(k)'
  BY <1>1, <1>3 DEF PreKeyInv, JobRemoves, BringsSession, StoresSession, RemovesOK, Same
<1> QED  BY <1>2, <1>3 DEF PreKeyInv

\* A handler that returns.
LEMMA ContinueKeepsPreKeys ==
  ASSUME JobsInv, PreKeyInv, NEW j \in Jobs, NEW held, NEW writes,
         Continue(j, held, writes),
         BringsSession(held), StoresSession(held, writes), RemovesOK(writes)
  PROVE  PreKeyInv'
<1>1. /\ work' = [work EXCEPT ![j] = held]
      /\ pending' = [pending EXCEPT ![j] = writes]
      /\ UNCHANGED <<status, number, call, records, preKeys>>
      /\ DOMAIN work = Jobs /\ DOMAIN pending = Jobs
  BY DEF Continue, queues, storage, JobsInv, TypesOK
<1>2. \A k \in Jobs \ {j} : Same(k)
  BY <1>1 DEF Same
<1>3. \A id : StoredWith(id)' = StoredWith(id)
  BY <1>1 DEF StoredWith
<1>4. JobRemoves(j)'
  BY <1>1, <1>3 DEF JobRemoves, BringsSession, StoresSession, RemovesOK
<1> QED  BY <1>1, <1>2, <1>4, JobKeepsPreKeys

\* One that holds no new session and removes nothing.
LEMMA PlainKeepsPreKeys ==
  ASSUME JobsInv, PreKeyInv, NEW j \in Jobs, NEW held, NEW writes,
         Continue(j, held, writes), held.step \notin {"processed", "stored"},
         \A c \in writes : c.write # "removePreKey"
  PROVE  PreKeyInv'
  BY ContinueKeepsPreKeys DEF BringsSession, StoresSession, RemovesOK

\* A job that does not run: it settled, or was not let run yet.
LEMMA RestKeepsPreKeys ==
  ASSUME PreKeyInv, NEW j \in Jobs, UNCHANGED <<records, preKeys>>,
         \A k \in Jobs \ {j} : Same(k), status'[j] # "running",
         pending'[j] \subseteq pending[j]
  PROVE  PreKeyInv'
<1>1. \A id : StoredWith(id)' = StoredWith(id)
  BY DEF StoredWith
<1>2. JobRemoves(j)'
  BY <1>1 DEF PreKeyInv, JobRemoves, RemovesOK
<1> QED  BY <1>2, JobKeepsPreKeys

\* A job that settles in its handler.
LEMMA SettledKeepsPreKeys ==
  ASSUME JobsInv, PreKeyInv, NEW j \in Jobs,
         NEW outcome \in {"fulfilled", "rejected"}, Settle(j, outcome)
  PROVE  PreKeyInv'
<1>1. /\ status' = [status EXCEPT ![j] = outcome]
      /\ UNCHANGED <<number, call, work, pending, records, preKeys>>
      /\ DOMAIN status = Jobs
  BY DEF Settle, Lock!Finish, storage, JobsInv, TypesOK
<1>2. (\A k \in Jobs \ {j} : Same(k)) /\ status'[j] # "running"
  BY <1>1 DEF Same
<1> QED  BY <1>1, <1>2, RestKeepsPreKeys

\* A call of the application, and a job that begins.
LEMMA CallKeepsPreKeys ==
  ASSUME JobsInv, PreKeyInv, NEW j \in Jobs, NEW c \in Calls,
         Request(j, c) \/ DeleteAllSessions(j, c)
  PROVE  PreKeyInv'
<1>1. /\ UNCHANGED <<work, pending, records, preKeys>>
      /\ \E s \in {"queued", "rejected"} : status' = [status EXCEPT ![j] = s]
      /\ number' = [number EXCEPT ![j] = c.address]
      /\ call' = [call EXCEPT ![j] = c]
      /\ DOMAIN status = Jobs /\ DOMAIN number = Jobs /\ DOMAIN call = Jobs
  BY DEF Request, DeleteAllSessions, Lock!Enqueue, storage, JobsInv, TypesOK
<1>2. (\A k \in Jobs \ {j} : Same(k)) /\ status'[j] # "running"
  BY <1>1 DEF Same
<1> QED  BY <1>1, <1>2, RestKeepsPreKeys

\* A job that begins holds nothing.
LEMMA BeginKeepsPreKeys ==
  ASSUME JobsInv, PreKeyInv, NEW j \in Jobs, Begin(j)
  PROVE  PreKeyInv'
<1>1. /\ status[j] = "queued"
      /\ status' = [status EXCEPT ![j] = "running"]
      /\ UNCHANGED <<number, call, work, pending, records, preKeys>>
      /\ DOMAIN status = Jobs
      /\ work[j].step = "begin" /\ pending[j] = {}
  BY DEF Begin, Lock!Run, storage, JobsInv, TypesOK, UnbegunOK
<1>2. \A k \in Jobs \ {j} : Same(k)
  BY <1>1 DEF Same
<1>3. JobRemoves(j)'
  BY <1>1 DEF JobRemoves, BringsSession, StoresSession, RemovesOK
<1> QED  BY <1>1, <1>2, <1>3, JobKeepsPreKeys

-----------------------------------------------------------------------------
\* The record a job that receives works on, as it is stored, is sound and has
\* room for its session.
LEMMA WorkingSound ==
  ASSUME KeyAssumptions, JobsInv, KeyInv, RecordsHaveRoom,
         NEW j \in Jobs, status[j] = "running", call[j].kind = "receive"
  PROVE  LET record == WorkingRecord(Loaded(j), Header(j))
         IN  /\ SoundRecord(InUse, record)
             /\ HasRoom(record)
             /\ HeaderOK(InUse, Header(j))
             /\ MessageOK(InUse, Message(j))
             /\ OurKeysIn(InUse)
             /\ None \notin InUse
<1>1. number[j] \in Addresses /\ call[j] \in Calls
  BY NumberIsAddress DEF JobsInv, CallsOK, Called
<1>2. None \notin InUse /\ OurKeysIn(InUse) /\ CallOK(InUse, call[j])
  BY <1>1, FixedInUse DEF KeyAssumptions
<1>3. HeaderOK(InUse, Header(j)) /\ MessageOK(InUse, Message(j))
  BY <1>2 DEF CallOK, Header, Message
<1>4. CASE Loaded(j) = None
  <2>1. SoundRecord(InUse, NewRecord(Header(j).identityKey, Header(j).registrationId))
    BY <1>3, NewRecordSound DEF HeaderOK
  <2> QED  BY <1>2, <1>3, <1>4, <2>1, NewRecordHasRoom DEF WorkingRecord
<1>5. CASE Loaded(j) # None
  <2>1. SoundRecord(InUse, Loaded(j)) /\ HasRoom(Loaded(j))
    BY <1>1, <1>5 DEF Loaded, KeyInv, RecordsSound, RecordsHaveRoom
  <2> QED  BY <1>2, <1>3, <1>5, <2>1 DEF WorkingRecord
<1> QED  BY <1>4, <1>5

\* A session made with a one-time prekey of ours has it in its root key.
LEMMA HeaderSessionMadeWith ==
  ASSUME NEW K, None \notin K, OurKeysIn(K), NEW j, HeaderOK(K, Header(j)),
         Header(j).preKeyId \in preKeys
  PROVE  MadeWith(HeaderSession(j), Header(j).preKeyId)
<1>1. PICK id, spk, theirs, base, s : /\ id = Header(j).preKeyId
                                      /\ spk = OurSignedPreKey(Header(j).signedPreKeyId)
                                      /\ theirs = Header(j).identityKey
                                      /\ base = Header(j).baseKey
                                      /\ s = HeaderSession(j)
  OBVIOUS
<1>2. /\ OurIdentity \in K
      /\ OurPreKey(id) \in K
      /\ spk \in K
      /\ theirs \in K
      /\ base \in K
  BY <1>1 DEF HeaderOK, OurKeysIn
<1>3. s = ResponderSession(OurIdentity, OurPreKey(id), spk, theirs, base)
  BY <1>1 DEF HeaderSession
<1>4. /\ SessionOver(K, s)
      /\ Answering(s, OurIdentity, OurPreKey(id), spk, theirs, base)
  BY <1>2, <1>3, ResponderSessionIs
<1>5. /\ s.rootKey \in Seq(SUBSET K)
      /\ Len(s.rootKey) = 4
      /\ s.rootKey[4] = {base, OurPreKey(id)}
  BY <1>2, <1>4 DEF SessionOver, Answering
<1>6. 4 \in DOMAIN s.rootKey
  BY <1>5
<1> QED  BY <1>1, <1>5, <1>6 DEF MadeWith

\* processV3
LEMMA ProcessV3KeepsPreKeys ==
  ASSUME KeyAssumptions, JobsInv, KeyInv, RecordsHaveRoom, PreKeyInv,
         NEW j \in Jobs, ProcessV3(j)
  PROVE  PreKeyInv'
<1>1. /\ status[j] = "running"
      /\ call[j].kind = "receive"
      /\ work[j].step = "trusted"
  BY DEF ProcessV3, At
<1>2. PICK record, h, s, id : /\ record = work[j].record
                              /\ h = Header(j)
                              /\ s = HeaderSession(j)
                              /\ id = Header(j).preKeyId
  OBVIOUS
<1>3. record = WorkingRecord(Loaded(j), h)
  BY <1>1, <1>2 DEF JobsInv, HeldOK, Holds
<1>4. CASE IsDuplicate(record, h)
  <2>1. PICK held : held = Held("processed", record, h.baseKey, None)
    OBVIOUS
  <2>2. Continue(j, held, {})
    BY <1>2, <1>4, <2>1 DEF ProcessV3
  <2>3. held.step = "processed" /\ held.preKeyId = None
    BY <2>1 DEF Held
  <2> QED  BY <2>2, <2>3, ContinueKeepsPreKeys DEF BringsSession, StoresSession, RemovesOK
<1>5. CASE /\ ~IsDuplicate(record, h)
           /\ h.signedPreKeyId \in SignedKeys
           /\ CanAddSession(record, s, h)
  <2>1. PICK found, held, writes : /\ found = RecordWithNewSession(record, s, h)
                                   /\ held = Held("processed", found, h.baseKey, id)
                                   /\ writes = {SaveIdentity(h.identityKey)}
    OBVIOUS
  <2>2. Continue(j, held, writes)
    BY <1>2, <1>5, <2>1 DEF ProcessV3
  <2>3. /\ held.step = "processed"
        /\ held.preKeyId = id
        /\ held.key = h.baseKey
        /\ held.record = found
    BY <2>1 DEF Held
  <2>4. \A c \in writes : c.write = "saveIdentity"
    BY <2>1 DEF SaveIdentity
  <2>5. /\ SoundRecord(InUse, record)
        /\ HasRoom(record)
        /\ HeaderOK(InUse, h)
        /\ OurKeysIn(InUse)
        /\ None \notin InUse
    BY <1>1, <1>2, <1>3, WorkingSound
  <2>6. s \in NewSessions(h)
    BY <1>2 DEF HeaderSession, NewSessions
  <2>7. PutIn(record, s, found) /\ s.baseKey = h.baseKey
    BY <1>5, <2>1, <2>5, <2>6, AddedReceives DEF KeyAssumptions
  <2>8. ASSUME id \in preKeys
        PROVE  h.baseKey \in DOMAIN found.sessions /\ MadeWith(found.sessions[h.baseKey], id)
    <3>1. MadeWith(s, id)
      BY <1>2, <2>5, <2>8, HeaderSessionMadeWith
    <3> QED  BY <2>7, <3>1 DEF PutIn, MadeWith
  <2>9. BringsSession(held)
    BY <2>3, <2>8 DEF BringsSession
  <2>10. StoresSession(held, writes) /\ RemovesOK(writes)
    BY <2>3, <2>4 DEF StoresSession, RemovesOK
  <2> QED  BY <2>2, <2>9, <2>10, ContinueKeepsPreKeys
<1>6. CASE /\ ~IsDuplicate(record, h)
           /\ ~(h.signedPreKeyId \in SignedKeys /\ CanAddSession(record, s, h))
  <2>1. Settle(j, "rejected")
    BY <1>2, <1>6 DEF ProcessV3, Throw
  <2> QED  BY <2>1, SettledKeepsPreKeys
<1> QED  BY <1>4, <1>5, <1>6

\* The first message is decrypted: the record to be stored has the session.
LEMMA DecryptFirstKeepsPreKeys ==
  ASSUME KeyAssumptions, JobsInv, KeyInv, RecordsHaveRoom, PreKeyInv,
         NEW j \in Jobs, DecryptFirst(j)
  PROVE  PreKeyInv'
<1>1. /\ status[j] = "running"
      /\ call[j].kind = "receive"
      /\ work[j].step = "processed"
  BY DEF DecryptFirst, At
<1>2. PICK found, key, id, h, m : /\ found = work[j].record
                                  /\ key = work[j].key
                                  /\ id = work[j].preKeyId
                                  /\ h = Header(j)
                                  /\ m = Message(j)
  OBVIOUS
<1>3. PICK s : s = Decrypted(found.sessions[key], m, RatchetKey(j))
  OBVIOUS
<1>4. PICK after, writes : /\ after = UpdateSessionState(found, s, None)
                           /\ writes = {StoreSession(after)}
  OBVIOUS
<1>5. CASE ~ /\ HasSessionByBaseKey(found, key)
             /\ Decrypts(found.sessions[key], m, OurIdentity, RatchetKey(j))
             /\ CanUpdateSessionState(found, s, None)
  <2>1. Settle(j, "rejected")
    BY <1>2, <1>3, <1>5 DEF DecryptFirst, Throw
  <2> QED  BY <2>1, SettledKeepsPreKeys
<1>6. CASE /\ HasSessionByBaseKey(found, key)
           /\ Decrypts(found.sessions[key], m, OurIdentity, RatchetKey(j))
           /\ CanUpdateSessionState(found, s, None)
  <2>1. PICK held : held = IF id = None THEN Done(None) ELSE Held("stored", None, None, id)
    OBVIOUS
  <2>2. Continue(j, held, writes)
    BY <1>2, <1>3, <1>4, <1>6, <2>1 DEF DecryptFirst
  <2>3. /\ held.step = "stored" => held.preKeyId = id /\ id # None
        /\ held.step # "processed"
    BY <2>1 DEF Held, Done
  <2>4. \A c \in writes : c.write = "storeSession" /\ c.value = after
    BY <1>4 DEF StoreSession
  <2>5. PICK c \in writes : c.write = "storeSession" /\ c.value = after
    BY <1>4, <2>4
  <2>6. HoldsProcessed(WorkingRecord(Loaded(j), h), work[j], h)
    BY <1>1, <1>2 DEF JobsInv, HeldOK, Holds
  <2>7. key = h.baseKey /\ found \in ReceivingRecords(WorkingRecord(Loaded(j), h), h)
    BY <1>2, <2>6 DEF HoldsProcessed
  <2>8. PICK record : record = WorkingRecord(Loaded(j), h)
    OBVIOUS
  <2>9. /\ SoundRecord(InUse, record)
        /\ HasRoom(record)
        /\ HeaderOK(InUse, h)
        /\ MessageOK(InUse, m)
        /\ OurKeysIn(InUse)
        /\ None \notin InUse
    BY <1>1, <1>2, <2>8, WorkingSound
  <2>10. Us # Peer
    BY DEF KeyAssumptions
  <2>11. ReceivesIn(InUse, record, h, found)
    BY <2>7, <2>8, <2>9, <2>10, FoundReceives
  <2>12. key \in DOMAIN found.sessions
    BY <1>6 DEF HasSessionByBaseKey
  <2>13. RatchetKey(j) \notin InUse
    BY <1>1 DEF InUse, NotYet, JobKeys
  <2>14. KeepsSessions(found, after)
    BY <1>3, <1>4, <2>7, <2>9, <2>10, <2>11, <2>12, <2>13, ReadKeeps DEF ReceivesIn
  <2>15. ASSUME id # None, id \in preKeys
         PROVE  HasMade(after, id)
    <3>1. BringsSession(work[j])
      BY <1>1 DEF PreKeyInv, JobRemoves
    <3>2. HasMade(found, id)
      BY <1>1, <1>2, <2>15, <3>1 DEF BringsSession, HasMade
    <3> QED  BY <2>14, <3>2, KeepsMade
  <2>16. StoresSession(held, writes)
    BY <2>3, <2>5, <2>15 DEF StoresSession
  <2>17. BringsSession(held) /\ RemovesOK(writes)
    BY <2>3, <2>4 DEF BringsSession, RemovesOK
  <2> QED  BY <2>2, <2>16, <2>17, ContinueKeepsPreKeys
<1> QED  BY <1>5, <1>6

\* The record is stored: the prekey may go.
LEMMA RemoveKeepsPreKeys ==
  ASSUME JobsInv, PreKeyInv, NEW j \in Jobs, RemoveUsedPreKey(j)
  PROVE  PreKeyInv'
<1>1. status[j] = "running" /\ work[j].step = "stored" /\ pending[j] = {}
  BY DEF RemoveUsedPreKey, At
<1>2. PICK id, writes : id = work[j].preKeyId /\ writes = {RemovePreKey(id)}
  OBVIOUS
<1>3. PICK held : held = [work[j] EXCEPT !.step = "done"]
  OBVIOUS
<1>3a. Continue(j, held, writes)
  BY <1>2, <1>3 DEF RemoveUsedPreKey
<1>4. id \in preKeys => StoredWith(id)
  BY <1>1, <1>2 DEF PreKeyInv, JobRemoves, StoresSession
<1>5. RemovesOK(writes)
  BY <1>2, <1>4 DEF RemovesOK, RemovePreKey
<1>6. held.step = "done"
  BY <1>3, <1>1
<1> QED  BY <1>3a, <1>5, <1>6, ContinueKeepsPreKeys DEF BringsSession, StoresSession

\* The other handlers bring no session with a prekey and remove none.
LEMMA OthersKeepPreKeys ==
  ASSUME JobsInv, PreKeyInv, NEW j \in Jobs,
         \/ Encrypt(j) \/ Close(j) \/ TrySessions(j) \/ StoreSecondLoad(j)
         \/ LoadRecord(j) \/ CheckIdentity(j) \/ ProcessDevice(j) \/ Return(j)
  PROVE  PreKeyInv'
<1>1. \A result : Done(result).step = "done"
  BY DEF Done
<1>2. \A step, record, key, id : Held(step, record, key, id).step = step
  BY DEF Held
<1>3. \A record : StoreSession(record).write = "storeSession"
  BY DEF StoreSession
<1>4. \A key : SaveIdentity(key).write = "saveIdentity"
  BY DEF SaveIdentity
<1>5. CASE \E outcome \in {"fulfilled", "rejected"} : Settle(j, outcome)
  BY <1>5, SettledKeepsPreKeys
<1>6. CASE \E held, writes : /\ Continue(j, held, writes)
                             /\ held.step \notin {"processed", "stored"}
                             /\ \A c \in writes : c.write # "removePreKey"
  BY <1>6, PlainKeepsPreKeys
<1>7. CASE Encrypt(j)
  BY <1>1, <1>3, <1>5, <1>6, <1>7 DEF Encrypt, Throw
<1>8. CASE Close(j)
  BY <1>1, <1>3, <1>5, <1>6, <1>8 DEF Close, Throw
<1>9. CASE TrySessions(j)
  BY <1>2, <1>5, <1>6, <1>9 DEF TrySessions, Throw
<1>10. CASE StoreSecondLoad(j)
  BY <1>1, <1>3, <1>5, <1>6, <1>10 DEF StoreSecondLoad, Throw
<1>11. CASE LoadRecord(j)
  BY <1>2, <1>5, <1>6, <1>11 DEF LoadRecord, Throw
<1>12. CASE CheckIdentity(j)
  BY <1>2, <1>5, <1>6, <1>12 DEF CheckIdentity, Throw
<1>13. CASE ProcessDevice(j)
  BY <1>1, <1>3, <1>4, <1>5, <1>6, <1>13 DEF ProcessDevice, Throw
<1>14. CASE Return(j)
  BY <1>5, <1>14 DEF Return
<1> QED  BY <1>7, <1>8, <1>9, <1>10, <1>11, <1>12, <1>13, <1>14

-----------------------------------------------------------------------------
\* The storage answers, with what was stored in it still there.
LEMMA AnswerKeepsPreKeys ==
  ASSUME JobsInv, PreKeyInv, NEW j \in Jobs, NEW c \in pending[j], Answer(j, c),
         \A id : StoredWith(id) => StoredWith(id)',
         c.write = "storeSession" => \A id : HasMade(c.value, id) => StoredWith(id)'
  PROVE  PreKeyInv'
<1>1. /\ pending' = [pending EXCEPT ![j] = @ \ {c}]
      /\ UNCHANGED <<status, call, work>>
      /\ DOMAIN pending = Jobs
      /\ preKeys' = IF c.write = "removePreKey" THEN preKeys \ {c.value} ELSE preKeys
  BY DEF Answer, queues, JobsInv, TypesOK
<1>2. /\ preKeys' \subseteq preKeys
      /\ \A id \in preKeys \ preKeys' : c.write = "removePreKey" /\ c.value = id
  BY <1>1
<1>3. PreKeyKept'
  <2> SUFFICES ASSUME NEW id \in StartKeys \ preKeys' PROVE StoredWith(id)'
    BY DEF PreKeyKept
  <2>1. CASE id \notin preKeys
    BY <2>1 DEF PreKeyInv, PreKeyKept
  <2>2. CASE id \in preKeys
    BY <1>2, <2>2 DEF PreKeyInv, JobRemoves, RemovesOK
  <2> QED  BY <2>1, <2>2
<1>4. ASSUME NEW k \in Jobs PROVE JobRemoves(k)'
  <2>1. JobRemoves(k) /\ work'[k] = work[k] /\ status'[k] = status[k]
    BY <1>1 DEF PreKeyInv
  <2>2. pending'[k] \subseteq pending[k] /\ \A d \in pending[k] \ pending'[k] : d = c
    BY <1>1
  <2>3. RemovesOK(pending[k])'
    BY <1>2, <2>1, <2>2 DEF JobRemoves, RemovesOK
  <2>4. BringsSession(work[k]) => BringsSession(work[k])'
    BY <1>2, <2>1 DEF BringsSession
  <2>5. StoresSession(work[k], pending[k]) => StoresSession(work[k], pending[k])'
    BY <1>2, <2>1, <2>2 DEF StoresSession
  <2> QED  BY <2>1, <2>3, <2>4, <2>5 DEF JobRemoves
<1> QED  BY <1>3, <1>4 DEF PreKeyInv

\* A call that stores no record keeps what is stored.
LEMMA OtherAnswerKeepsPreKeys ==
  ASSUME JobsInv, PreKeyInv, NEW j \in Jobs, NEW c \in pending[j], Answer(j, c),
         c.write # "storeSession"
  PROVE  PreKeyInv'
<1>1. UNCHANGED records
  BY DEF Answer
<1>2. \A id : StoredWith(id) => StoredWith(id)'
  BY <1>1 DEF StoredWith
<1> QED  BY <1>2, AnswerKeepsPreKeys

\* A record that is stored has the sessions of the one it replaces.
LEMMA StoreKeepsPreKeys ==
  ASSUME PreKeyAssumptions, JobsInv, KeyInv, RecordsHaveRoom, PreKeyInv,
         NEW j \in Jobs, NEW c \in pending[j], Answer(j, c), c.write = "storeSession"
  PROVE  PreKeyInv'
<1>1. status[j] = "running" /\ IsChange(Loaded(j), c.value, call[j], j)
  BY DEF JobsInv, WritesOK, Stores
<1>2. PICK a \in Addresses : a = number[j]
  BY <1>1, NumberIsAddress
<1>3. call[j] \in Calls
  BY <1>1 DEF JobsInv, CallsOK, Called
<1>4. /\ records' = [records EXCEPT ![a] = c.value]
      /\ records = [b \in Addresses |-> records[b]]
  BY <1>2 DEF Answer, JobsInv, TypesOK
<1>5. records'[a] = c.value /\ \A b \in Addresses \ {a} : records'[b] = records[b]
  BY <1>4
<1>6. /\ None \notin InUse /\ OurKeysIn(InUse) /\ CallOK(InUse, call[j])
      /\ None \notin InUse' /\ Us # Peer
      /\ InUse \cup JobKeys(j) \subseteq InUse'
      /\ JobKeys(j) \cap InUse = {}
      /\ JobKeys(j) \subseteq SessionKeys(Us) /\ None \notin JobKeys(j)
      /\ RatchetKey(j) \notin InUse
  <2>1. /\ KeyAssumptions
        /\ None \notin BothKeys
        /\ Us # Peer
        /\ \A d \in Calls : CallOK(Fixed, d)
    BY DEF PreKeyAssumptions, KeyAssumptions
  <2>2. None \notin InUse /\ OurKeysIn(InUse) /\ CallOK(InUse, call[j])
    BY <1>3, <2>1, FixedInUse
  <2>3. InUse \cup JobKeys(j) \subseteq InUse' /\ JobKeys(j) \cap InUse = {}
    BY StoreKeepsUse
  <2>4. JobKeys(j) \subseteq SessionKeys(Us)
    BY JobKeysApart
  <2>5. None \notin InUse' /\ None \notin JobKeys(j)
    BY <2>1, <2>4, SessionKeysDistinct DEF InUse, BothKeys
  <2> QED  BY <2>1, <2>2, <2>3, <2>4, <2>5 DEF JobKeys
<1>7. IsChange(records[a], c.value, call[j], j)
  BY <1>1, <1>2 DEF Loaded
<1>8. records[a] # None => SoundRecord(InUse, records[a]) /\ HasRoom(records[a])
  BY DEF KeyInv, RecordsSound, RecordsHaveRoom
<1>9. records[a] # None => KeepsSessions(records[a], c.value)
  BY <1>6, <1>7, <1>8, ChangeKeeps
<1>10. c.value # None
  <2>1. PICK base : Changed(InUse, InUse', base, c.value)
    BY <1>6, <1>7, <1>8, ChangeIs
  <2> QED  BY <2>1 DEF Changed, SoundRecord, PreKeyAssumptions, NoneIsNoRecord
<1>11. ASSUME NEW id, StoredWith(id) PROVE StoredWith(id)'
  <2>1. PICK b \in Addresses : records[b] # None /\ HasMade(records[b], id)
    BY <1>11 DEF StoredWith
  <2>2. records'[b] # None /\ HasMade(records'[b], id)
    <3>1. CASE b = a
      BY <1>5, <1>9, <1>10, <2>1, <3>1, KeepsMade
    <3>2. CASE b # a
      BY <1>5, <2>1, <3>2
    <3> QED  BY <3>1, <3>2
  <2> QED  BY <2>2 DEF StoredWith
<1>12. ASSUME NEW id, HasMade(c.value, id) PROVE StoredWith(id)'
  BY <1>5, <1>10, <1>12 DEF StoredWith
<1> QED  BY <1>11, <1>12, AnswerKeepsPreKeys

\* The storage refuses a write or a load, and the process stops.
LEMMA RefuseKeepsPreKeys ==
  ASSUME JobsInv, PreKeyInv, NEW j \in Jobs,
         RefuseLoad(j) \/ \E c \in pending[j] : Refuse(j, c)
  PROVE  PreKeyInv'
<1>1. /\ UNCHANGED <<number, call, work, records, preKeys>>
      /\ \A k \in Jobs \ {j} : pending'[k] = pending[k] /\ status'[k] = status[k]
      /\ pending'[j] \subseteq pending[j]
      /\ status'[j] # "running"
  <2>1. CASE RefuseLoad(j)
    BY <2>1 DEF RefuseLoad, Lock!Finish, storage, JobsInv, TypesOK
  <2>2. ASSUME NEW c \in pending[j], Refuse(j, c)
        PROVE  /\ UNCHANGED <<number, call, work, records, preKeys>>
               /\ \A k \in Jobs \ {j} : pending'[k] = pending[k] /\ status'[k] = status[k]
               /\ pending'[j] \subseteq pending[j]
               /\ status'[j] # "running"
    BY <2>2 DEF Refuse, Lock!Finish, queues, storage, JobsInv, TypesOK
  <2> QED  BY <2>1, <2>2
<1>2. \A k \in Jobs \ {j} : Same(k)
  BY <1>1 DEF Same
<1> QED  BY <1>1, <1>2, RestKeepsPreKeys

\* A stop leaves no job running and no call open.
LEMMA StopKeepsPreKeys ==
  ASSUME JobsInv, PreKeyInv, Stop
  PROVE  PreKeyInv'
<1>1. /\ UNCHANGED <<records, preKeys>>
      /\ \A k \in Jobs : status'[k] # "running" /\ pending'[k] = {}
  BY DEF Stop, storage, JobsInv, TypesOK
<1>2. PreKeyKept'
  BY <1>1 DEF PreKeyInv, PreKeyKept, StoredWith
<1> QED  BY <1>1, <1>2 DEF PreKeyInv, JobRemoves, RemovesOK

\* Every step keeps the invariant, while there is room.
LEMMA NextKeepsPreKeys ==
  ASSUME PreKeyAssumptions, JobsInv, KeyInv, RecordsHaveRoom, PreKeyInv,
         [Next]_vars
  PROVE  PreKeyInv'
<1>1. ASSUME NEW j \in Jobs, NEW c \in Calls,
             Request(j, c) \/ DeleteAllSessions(j, c)
      PROVE  PreKeyInv'
  BY <1>1, CallKeepsPreKeys
<1>2. ASSUME NEW j \in Jobs, Handler(j)
      PROVE  PreKeyInv'
  <2>1. KeyAssumptions
    BY DEF PreKeyAssumptions
  <2> QED  BY <1>2, <2>1, ProcessV3KeepsPreKeys, DecryptFirstKeepsPreKeys,
              RemoveKeepsPreKeys, OthersKeepPreKeys DEF Handler
<1>3. ASSUME NEW j \in Jobs, Begin(j) \/ RefuseLoad(j)
      PROVE  PreKeyInv'
  BY <1>3, BeginKeepsPreKeys, RefuseKeepsPreKeys
<1>4. ASSUME NEW j \in Jobs, NEW c \in pending[j], Answer(j, c) \/ Refuse(j, c)
      PROVE  PreKeyInv'
  BY <1>4, StoreKeepsPreKeys, OtherAnswerKeepsPreKeys, RefuseKeepsPreKeys
<1>5. CASE UNCHANGED vars
  <2>1. UNCHANGED <<status, call, work, pending, records, preKeys>>
    BY <1>5 DEF vars, queues, storage
  <2> QED  BY <2>1 DEF PreKeyInv, PreKeyKept, JobRemoves, BringsSession, StoresSession,
                       RemovesOK, StoredWith
<1> QED  BY <1>1, <1>2, <1>3, <1>4, <1>5, StopKeepsPreKeys DEF Next

\* At the start no prekey was removed.
LEMMA InitPreKeyInv ==
  ASSUME Init
  PROVE  PreKeyInv
<1>1. /\ preKeys = StartKeys
      /\ \A j \in Jobs : status[j] = "new" /\ pending[j] = {}
  BY DEF Init, Lock!Init
<1> QED  BY <1>1 DEF PreKeyInv, PreKeyKept, JobRemoves, RemovesOK

\* A one-time prekey is removed only when a session made with it is stored,
\* and it stays stored: by calls that overlap, that fail or that are cut off
\* by a stop.  That is as long as no record is full, because the session that
\* is then removed for a new one may be the one that was made with a prekey.
THEOREM JobsPreKeyKept ==
  ASSUME PreKeyAssumptions
  PROVE  Spec /\ []RecordsHaveRoom => []PreKeyKept
<1>1. KeyInv /\ JobsInv /\ [Next]_vars => KeyInv'
  BY NextKeepsKeys DEF PreKeyAssumptions
<1>2. Init => KeyInv
  BY InitKeyInv DEF PreKeyAssumptions
<1>3. "saveIdentity" \notin Refusable
  BY DEF PreKeyAssumptions, KeyAssumptions
<1>4. Spec => []JobsInv
  BY <1>3, AlwaysJobsInv
<1>5. JobsInv /\ KeyInv /\ RecordsHaveRoom /\ PreKeyInv /\ [Next]_vars => PreKeyInv'
  BY NextKeepsPreKeys
<1>6. Init => PreKeyInv
  BY InitPreKeyInv
<1>7. PreKeyInv => PreKeyKept
  BY DEF PreKeyInv
<1> QED  BY <1>1, <1>2, <1>4, <1>5, <1>6, <1>7, PTL DEF Spec

-----------------------------------------------------------------------------
\* The receiving chains of a session, and the agreement of an identity key with
\* its base key, which is the second secret of its root key and of all that
\* grew from it.
Receiving(s) == DOMAIN s.chains \ {s.ephemeralKeyPair}
Tag(s) == {IF s.baseKeyType = "OURS" THEN s.remoteIdentityKey ELSE OurIdentity,
           s.baseKey}
Tagged(seed, s) == /\ DOMAIN seed = 1..Len(seed)
                   /\ Len(seed) \in Nat
                   /\ Len(seed) >= 2
                   /\ seed[2] = Tag(s)

\* What reading relies on: base keys are of the side that made them, no chain
\* is from a later root key, and no two are from the same.
SessionReads(s) ==
  /\ s.baseKey \in IF s.baseKeyType = "OURS" THEN SessionKeys(Us) ELSE KeysOf(Peer)
  /\ AllPassed(s)
  /\ Tagged(s.rootKey, s)
  /\ \A k \in Receiving(s) : /\ Tagged(s.chains[k].seed, s)
                             /\ Len(s.chains[k].seed) <= Len(s.rootKey)
  /\ \A k, l \in Receiving(s) : s.chains[k].seed = s.chains[l].seed => k = l
RecordReads(record) == \A k \in DOMAIN record.sessions : SessionReads(record.sessions[k])

\* The session does not read m any more: its root key is past the chain of m,
\* and what it has of that chain does not give the key of m.
Spent(s, m) ==
  /\ Len(m.mac.key.seed) <= Len(s.rootKey)
  /\ \A k \in Receiving(s) :
       s.chains[k].seed = m.mac.key.seed => ~Gives(s.chains[k], m.counter)
ReadFor(record, m) ==
  \E k \in DOMAIN record.sessions : /\ Tagged(m.mac.key.seed, record.sessions[k])
                                    /\ Spent(record.sessions[k], m)

\* The job has stored the record in which it read its message.
ReadBy(j) == /\ status[j] \in {"running", "fulfilled"}
             /\ call[j].kind \in {"decrypt", "receive"}
             /\ work[j].step \in {"stored", "done"}
             /\ \A c \in pending[j] : c.write # "storeSession"

\* The inductive invariant of reading.
AllRead == \A a \in Addresses : records[a] # None => RecordReads(records[a])
ReadKept == \A j \in Jobs : ReadBy(j) =>
              /\ records[number[j]] # None
              /\ ReadFor(records[number[j]], Message(j))
ReadApart == \A j, k \in Jobs : ReadBy(j) /\ ReadBy(k) /\ Message(j) = Message(k) => j = k
ReadReturned == \A j \in Fulfilled({"decrypt", "receive"}) : ReadBy(j)
ReadInv == AllRead /\ ReadKept /\ ReadApart /\ ReadReturned

\* A message comes from one device.
OneSender == \A c, d \in {x \in Calls : x.kind \in {"decrypt", "receive"}} :
               c.message = d.message => c.address = d.address
ReadAssumptions ==
  /\ PreKeyAssumptions
  /\ OneSender
  /\ \A a \in Addresses : Start[a] # None => RecordReads(Start[a])

-----------------------------------------------------------------------------
\* A session that became another one: what was read in it stays read.
Goes(s, t) == /\ Tag(t) = Tag(s)
              /\ \A m : m.counter \in Nat /\ Spent(s, m) => Spent(t, m)

\* t has a part of the receiving chains of s.
FewerReads(s, t) ==
  /\ t.baseKey = s.baseKey
  /\ t.baseKeyType = s.baseKeyType
  /\ t.remoteIdentityKey = s.remoteIdentityKey
  /\ t.rootKey = s.rootKey
  /\ Receiving(t) \subseteq Receiving(s)
  /\ \A k \in Receiving(t) : t.chains[k] = s.chains[k]

\* Such a session reads less.
LEMMA FewerGoes ==
  ASSUME NEW s, NEW t, FewerReads(s, t), SessionReads(s), AllPassed(t)
  PROVE  SessionReads(t) /\ Goes(s, t)
<1>1. Tag(t) = Tag(s)
  BY DEF FewerReads, Tag
<1>2. ASSUME NEW seed, Tagged(seed, s)
      PROVE  Tagged(seed, t)
  BY <1>1, <1>2 DEF Tagged
<1>3. \A m : Spent(s, m) => Spent(t, m)
  BY DEF Spent, FewerReads
<1>4. \A k \in Receiving(t) : /\ Tagged(t.chains[k].seed, t)
                              /\ Len(t.chains[k].seed) <= Len(t.rootKey)
  BY <1>2 DEF SessionReads, FewerReads
<1>5. \A k, l \in Receiving(t) : t.chains[k].seed = t.chains[l].seed => k = l
  BY DEF SessionReads, FewerReads
<1>6. t.baseKey \in IF t.baseKeyType = "OURS" THEN SessionKeys(Us) ELSE KeysOf(Peer)
  BY DEF SessionReads, FewerReads
<1>7. Tagged(t.rootKey, t)
  BY <1>2 DEF SessionReads, FewerReads
<1> QED  BY <1>1, <1>3, <1>4, <1>5, <1>6, <1>7 DEF SessionReads, Goes

\* A session that a record keeps, or that was closed or pruned.
LEMMA ThinnedGoes ==
  ASSUME NEW s, NEW t, Thinned(s, t), SessionReads(s)
  PROVE  SessionReads(t) /\ Goes(s, t)
<1>1. FewerReads(s, t)
  BY DEF Thinned, SameBut, SessionFields, FewerReads, Receiving
<1>2. AllPassed(t)
  BY DEF Thinned, SessionReads, AllPassed
<1> QED  BY <1>1, <1>2, FewerGoes

\* A session that was kept, thinned or not, keeps what was read in it read.
LEMMA KeptGoes ==
  ASSUME NEW K, NEW s, NEW t, Kept(K, s, t), SessionReads(s)
  PROVE  SessionReads(t) /\ Goes(s, t)
<1>1. CASE t = s
  BY <1>1 DEF Goes
<1>2. CASE Thinned(s, t)
  BY <1>2, ThinnedGoes
<1> QED  BY <1>1, <1>2 DEF Kept, Slimmed

\* encrypt moves the sending chain only.
LEMMA EncryptedGoes ==
  ASSUME NEW K, NEW s, SessionOK(K, Us, Peer, s), Sending(s), SessionReads(s)
  PROVE  SessionReads(Encrypted(s)) /\ Goes(s, Encrypted(s))
<1>1. PICK t : t = Encrypted(s)
  OBVIOUS
<1> DEFINE key == s.ephemeralKeyPair
<1>2. /\ SameBut({"chains"}, s, t)
      /\ DOMAIN t.chains = DOMAIN s.chains
      /\ \A k \in DOMAIN s.chains \ {key} : t.chains[k] = s.chains[k]
      /\ t.chains[key].messageKeys = {}
  <2>1. SessionOver(K, s) /\ s.chains[s.ephemeralKeyPair].messageKeys = {}
    BY DEF SessionOK, ChainsOK, SendingOK, Sending, SendingChain
  <2> QED  BY <1>1, <2>1, EncryptedIs DEF Sending
<1>3. t.ephemeralKeyPair = s.ephemeralKeyPair /\ FewerReads(s, t)
  BY <1>2 DEF SameBut, SessionFields, FewerReads, Receiving
<1>4. AllPassed(t)
  BY <1>2 DEF SessionReads, AllPassed, Passed
<1> QED  BY <1>1, <1>3, <1>4, FewerGoes

-----------------------------------------------------------------------------
\* The sessions that are made: they have no receiving chain.
LEMMA PendingReads ==
  ASSUME NEW K, None \notin K, OurIdentity \in K, NEW device, DeviceOK(K, device),
         NEW baseKey \in SessionKeys(Us) \cap K, NEW keyPair \in K
  PROVE  SessionReads(PendingSession(OurIdentity, baseKey, keyPair, device))
<1>1. PICK s : s = PendingSession(OurIdentity, baseKey, keyPair, device)
  OBVIOUS
<1>2. Pending(s, OurIdentity, baseKey, keyPair, device) /\ SessionOver(K, s)
  BY <1>1, PendingSessionIs DEF DeviceOK
<1>3. /\ s.baseKey = baseKey
      /\ s.baseKeyType = "OURS"
      /\ s.ephemeralKeyPair = keyPair
      /\ DOMAIN s.chains = {keyPair}
      /\ s.chains[keyPair] = NewChain(s.rootKey, "SENDING")
  BY <1>2 DEF Pending
<1>4. s.remoteIdentityKey = device.identityKey
  BY <1>1 DEF PendingSession, InitiatorSession, CalculateRatchet, NewSession
<1>5. Receiving(s) = {}
  BY <1>3 DEF Receiving
<1>6. AllPassed(s)
  BY <1>3 DEF AllPassed, Passed, NewChain
<1>7. Tagged(s.rootKey, s)
  <2>1. PICK agreed : agreed = SharedSecret(TRUE, OurIdentity, baseKey, baseKey,
                             device.identityKey, device.signedPreKey, device.preKey)
    OBVIOUS
  <2>2. /\ agreed \in Seq(SUBSET K)
        /\ Len(agreed) \in {3, 4}
    <3>1. /\ {OurIdentity, baseKey, device.identityKey, device.signedPreKey} \subseteq K
          /\ {baseKey, device.preKey} \subseteq K
      BY DEF DeviceOK
    <3>2. Agreed(K, agreed, OurIdentity, baseKey, baseKey,
                 device.identityKey, device.signedPreKey, device.preKey)
      BY <2>1, <3>1, SharedSecretIs
    <3> QED  BY <3>2 DEF Agreed
  <2>3. agreed[2] = {device.identityKey, baseKey}
    BY <2>1 DEF SharedSecret, ECDHE
  <2>4. {device.signedPreKey, keyPair} \in SUBSET K
    BY DEF DeviceOK
  <2>5. s.rootKey = Append(agreed, {device.signedPreKey, keyPair})
    BY <1>2, <2>1 DEF Pending
  <2> QED  BY <1>3, <1>4, <2>2, <2>3, <2>4, <2>5, AppendIs DEF Tagged, Tag
<1> QED  BY <1>1, <1>3, <1>5, <1>6, <1>7 DEF SessionReads

\* A session made for a PreKeyWhisperMessage satisfies what reading relies on.
LEMMA AnsweringReads ==
  ASSUME NEW K, None \notin K, OurIdentity \in K, NEW preKey \in K \cup {None},
         NEW signedPreKey \in K, NEW theirIdentity \in K, NEW baseKey \in KeysOf(Peer) \cap K
  PROVE  SessionReads(ResponderSession(OurIdentity, preKey, signedPreKey,
                                       theirIdentity, baseKey))
<1>1. PICK s : s = ResponderSession(OurIdentity, preKey, signedPreKey,
                                    theirIdentity, baseKey)
  OBVIOUS
<1>2. /\ SessionOver(K, s)
      /\ Answering(s, OurIdentity, preKey, signedPreKey, theirIdentity, baseKey)
  BY <1>1, ResponderSessionIs
<1>3. /\ s.baseKey = baseKey
      /\ s.baseKeyType = "THEIRS"
      /\ DOMAIN s.chains = {}
      /\ Len(s.rootKey) \in {3, 4}
  BY <1>2 DEF Answering
<1>4. Receiving(s) = {} /\ AllPassed(s)
  BY <1>3 DEF Receiving, AllPassed
<1>5. Tagged(s.rootKey, s)
  <2>1. s.rootKey = SharedSecret(FALSE, OurIdentity, signedPreKey, preKey,
                                 theirIdentity, baseKey, baseKey)
    BY <1>1 DEF ResponderSession, NewSession
  <2>2. s.rootKey[2] = {baseKey, OurIdentity}
    BY <2>1 DEF SharedSecret, ECDHE
  <2>3. s.rootKey \in Seq(SUBSET K)
    BY <1>2 DEF SessionOver
  <2> QED  BY <1>3, <2>2, <2>3 DEF Tagged, Tag
<1> QED  BY <1>1, <1>3, <1>4, <1>5 DEF SessionReads

-----------------------------------------------------------------------------
\* t is the session s after m was read in it: it does not read m again.
WasRead(s, m, t) == /\ SessionReads(t)
                    /\ Goes(s, t)
                    /\ Tagged(m.mac.key.seed, s)
                    /\ ~Spent(s, m)
                    /\ Spent(t, m)

\* The receiving chains of t are those of s, advanced, and one of a new seed.
GrewBy(s, new, t) ==
  /\ t.baseKey = s.baseKey
  /\ t.baseKeyType = s.baseKeyType
  /\ t.remoteIdentityKey = s.remoteIdentityKey
  /\ Receiving(t) \subseteq Receiving(s) \cup {new}
  /\ AllPassed(t)
  /\ \A k \in Receiving(t) \cap Receiving(s) :
       /\ t.chains[k].seed = s.chains[k].seed
       /\ \A n \in Int : Gives(t.chains[k], n) => Gives(s.chains[k], n)

\* A message is read in place.
LEMMA InPlaceReads ==
  ASSUME Us # Peer, NEW s, SessionReads(s), NEW m, m.counter \in Nat, NEW t,
         m.ephemeralKey \in Receiving(s), ReadInPlace(s, m, t),
         GrewBy(s, m.ephemeralKey, t), t.rootKey = s.rootKey, Receiving(t) = Receiving(s)
  PROVE  WasRead(s, m, t)
<1> DEFINE key == m.ephemeralKey
<1>1. Tag(t) = Tag(s)
  BY DEF GrewBy, Tag
<1>2. ASSUME NEW seed, Tagged(seed, s)
      PROVE  Tagged(seed, t)
  BY <1>1, <1>2 DEF Tagged
<1>3. \A k \in Receiving(s) :
        /\ t.chains[k].seed = s.chains[k].seed
        /\ \A n \in Int : Gives(t.chains[k], n) => Gives(s.chains[k], n)
  BY DEF GrewBy
<1>4. SessionReads(t)
  <2>1. \A k \in Receiving(t) : Tagged(t.chains[k].seed, t)
                                /\ Len(t.chains[k].seed) <= Len(t.rootKey)
    BY <1>2, <1>3 DEF SessionReads
  <2>2. \A k, l \in Receiving(t) : t.chains[k].seed = t.chains[l].seed => k = l
    BY <1>3 DEF SessionReads
  <2>3. t.baseKey \in IF t.baseKeyType = "OURS" THEN SessionKeys(Us) ELSE KeysOf(Peer)
    BY DEF SessionReads, GrewBy
  <2>4. Tagged(t.rootKey, t)
    BY <1>2 DEF SessionReads
  <2> QED  BY <2>1, <2>2, <2>3, <2>4 DEF SessionReads, GrewBy
<1>5. ASSUME NEW n, n.counter \in Nat, Spent(s, n)
      PROVE  Spent(t, n)
  BY <1>3, <1>5 DEF Spent
<1>6. /\ s.chains[key].seed = m.mac.key.seed
      /\ Gives(s.chains[key], m.counter)
      /\ ~Gives(t.chains[key], m.counter)
  BY DEF ReadInPlace, ReadFrom
<1>7. Tagged(m.mac.key.seed, s) /\ Len(m.mac.key.seed) <= Len(s.rootKey)
  BY <1>6 DEF SessionReads
<1>8. ~Spent(s, m)
  BY <1>6 DEF Spent
<1>9. Spent(t, m)
  <2>1. \A k \in Receiving(t) : t.chains[k].seed = m.mac.key.seed => k = key
    BY <1>3, <1>6 DEF SessionReads
  <2> QED  BY <1>6, <1>7, <2>1 DEF Spent
<1> QED  BY <1>1, <1>4, <1>5, <1>7, <1>8, <1>9 DEF WasRead, Goes

\* A message is read after a turn of the ratchet: its chain is new.
LEMMA AfterTurnReads ==
  ASSUME NEW K, NEW s, SessionReads(s), s.rootKey \in Seq(SUBSET K),
         NEW m, m.counter \in Nat, NEW t,
         GrewBy(s, m.ephemeralKey, t), m.ephemeralKey \notin DOMAIN s.chains,
         NEW x \in SUBSET K, NEW y \in SUBSET K,
         m.mac.key.seed = Append(s.rootKey, x),
         t.rootKey = Append(Append(s.rootKey, x), y),
         t.chains[m.ephemeralKey].seed = Append(s.rootKey, x),
         ~Gives(t.chains[m.ephemeralKey], m.counter)
  PROVE  WasRead(s, m, t)
<1> DEFINE key == m.ephemeralKey
<1>1. Tag(t) = Tag(s)
  BY DEF GrewBy, Tag
<1>2. ASSUME NEW seed, Tagged(seed, s)
      PROVE  Tagged(seed, t)
  BY <1>1, <1>2 DEF Tagged
<1>3. \A k \in Receiving(t) \ {key} :
        /\ k \in Receiving(s)
        /\ t.chains[k].seed = s.chains[k].seed
        /\ \A n \in Int : Gives(t.chains[k], n) => Gives(s.chains[k], n)
  BY DEF GrewBy
<1>4. /\ Len(s.rootKey) \in Nat
      /\ Len(m.mac.key.seed) = Len(s.rootKey) + 1
      /\ Tagged(m.mac.key.seed, s)
  BY AppendIs DEF SessionReads, Tagged
<1>5. /\ Len(t.rootKey) = Len(s.rootKey) + 2
      /\ Tagged(t.rootKey, s)
  <2>1. m.mac.key.seed \in Seq(SUBSET K)
    BY AppendIs
  <2> QED  BY <1>4, <2>1, AppendIs DEF Tagged
<1>6. \A k \in Receiving(t) \ {key} :
        /\ Len(t.chains[k].seed) \in Nat
        /\ Len(t.chains[k].seed) <= Len(s.rootKey)
        /\ t.chains[k].seed # m.mac.key.seed
        /\ Tagged(t.chains[k].seed, s)
  BY <1>3, <1>4 DEF SessionReads, Tagged
<1>7. SessionReads(t)
  <2>1. \A k \in Receiving(t) : Tagged(t.chains[k].seed, t)
                                /\ Len(t.chains[k].seed) <= Len(t.rootKey)
    <3>1. Tagged(t.chains[key].seed, t) /\ Len(t.chains[key].seed) <= Len(t.rootKey)
      BY <1>2, <1>4, <1>5
    <3>2. \A k \in Receiving(t) \ {key} : Tagged(t.chains[k].seed, t)
      BY <1>2, <1>6
    <3>3. \A k \in Receiving(t) \ {key} : Len(t.chains[k].seed) <= Len(t.rootKey)
      BY <1>4, <1>5, <1>6
    <3> QED  BY <3>1, <3>2, <3>3
  <2>2. \A k, l \in Receiving(t) \ {key} : t.chains[k].seed = t.chains[l].seed => k = l
    BY <1>3 DEF SessionReads
  <2>3. \A k, l \in Receiving(t) : t.chains[k].seed = t.chains[l].seed => k = l
    BY <1>6, <2>2
  <2>4. t.baseKey \in IF t.baseKeyType = "OURS" THEN SessionKeys(Us) ELSE KeysOf(Peer)
    BY DEF SessionReads, GrewBy
  <2>5. Tagged(t.rootKey, t)
    BY <1>2, <1>5
  <2> QED  BY <2>1, <2>3, <2>4, <2>5 DEF SessionReads, GrewBy
<1>8. ASSUME NEW n, n.counter \in Nat, Spent(s, n)
      PROVE  Spent(t, n)
  <2>1. Len(n.mac.key.seed) <= Len(s.rootKey)
    BY <1>8 DEF Spent
  <2>2. n.mac.key.seed # m.mac.key.seed
    BY <1>4, <2>1
  <2> QED  BY <1>3, <1>4, <1>5, <1>8, <2>1, <2>2 DEF Spent
<1>9. ~Spent(s, m)
  BY <1>4 DEF Spent
<1>10. Spent(t, m)
  BY <1>4, <1>5, <1>6 DEF Spent
<1> QED  BY <1>1, <1>4, <1>7, <1>8, <1>9, <1>10 DEF WasRead, Goes

\* Either way, when a message decrypts in a session it was not read before,
\* and is read now.
LEMMA ReadStep ==
  ASSUME Us # Peer, NEW K, NEW s, Turnable(K, Us, Peer, s),
         DOMAIN s.chains # {} => SessionOK(K, Us, Peer, s), SessionReads(s),
         NEW m, MessageOK(K, m), NEW keyPair, keyPair \notin K,
         Decrypts(s, m, OurIdentity, keyPair)
  PROVE  WasRead(s, m, Decrypted(s, m, keyPair))
<1>1. PICK t : t = Decrypted(s, m, keyPair)
  OBVIOUS
<1> DEFINE key == m.ephemeralKey
<1>2. /\ m.ephemeralKey \in SessionKeys(Peer)
      /\ m.ephemeralKey \in K
      /\ m.counter \in Nat
      /\ m.previousCounter \in Int
      /\ AllPassed(s)
  BY DEF MessageOK, SessionReads
<1>3. key # s.ephemeralKeyPair /\ s.lastRemoteEphemeralKey # s.ephemeralKeyPair
  <2>1. s.ephemeralKeyPair \in KeysOf(Us) /\ s.lastRemoteEphemeralKey \in KeysOf(Peer)
    BY DEF Turnable
  <2>2. key \in KeysOf(Peer)
    BY <1>2, SessionKeysDistinct
  <2> QED  BY <2>1, <2>2, KeysApart
<1>4. SameHead(s, t)
  <2>1. DOMAIN s = SessionFields
    BY DEF Turnable, SessionOver, SessionFields
  <2> QED  BY <1>1, <2>1, DecryptedKeepsHead
<1>5. /\ t.baseKey = s.baseKey
      /\ t.baseKeyType = s.baseKeyType
      /\ t.remoteIdentityKey = s.remoteIdentityKey
  <2>1. PICK L : L = K \cup {keyPair}
    OBVIOUS
  <2>2. SessionOver(L, t) /\ t.baseKeyType = s.baseKeyType
    BY <1>1, <2>1, ReadGrows
  <2> QED  BY <1>4, <2>2 DEF SameHead
<1>6. CASE key \in DOMAIN s.chains
  <2>1. SessionOK(K, Us, Peer, s)
    BY <1>6
  <2>2. ReadInPlace(s, m, t)
    BY <1>1, <1>2, <1>6, <2>1, ReadInPlaceIs
  <2>3. /\ t.rootKey = s.rootKey
        /\ t.ephemeralKeyPair = s.ephemeralKeyPair
        /\ Receiving(t) = Receiving(s)
    BY <2>2 DEF ReadInPlace, SameBut, SessionFields, Receiving
  <2>4. Advanced(s.chains[key], m.counter, t.chains[key])
    BY <2>2 DEF ReadInPlace, ReadFrom
  <2>5. AllPassed(t)
    BY <1>2, <2>2, <2>4 DEF ReadInPlace, AllPassed, Advanced
  <2>6. \A k \in Receiving(s) :
          /\ t.chains[k].seed = s.chains[k].seed
          /\ \A n \in Int : Gives(t.chains[k], n) => Gives(s.chains[k], n)
    BY <2>2, <2>4 DEF ReadInPlace, Receiving, Advanced
  <2>7. GrewBy(s, key, t)
    BY <1>5, <2>3, <2>5, <2>6 DEF GrewBy
  <2>8. key \in Receiving(s)
    BY <1>3, <1>6 DEF Receiving
  <2> QED  BY <1>1, <1>2, <2>2, <2>3, <2>7, <2>8, InPlaceReads
<1>7. CASE key \notin DOMAIN s.chains
  <2> DEFINE x == {key, s.ephemeralKeyPair}
             y == {key, keyPair}
             last == s.lastRemoteEphemeralKey
             L == K \cup {keyPair}
  <2>1. ReadAfterTurn(s, m, keyPair, t)
    BY <1>1, <1>2, <1>7, ReadAfterTurnIs
  <2>2. s.rootKey \in Seq(SUBSET K) /\ s.ephemeralKeyPair \in K /\ DOMAIN s.chains \subseteq K
    BY DEF Turnable, SessionOver, ChainsOver
  <2>3. /\ t.rootKey = Append(Append(s.rootKey, x), y)
        /\ Append(s.rootKey, x) = m.mac.key.seed
        /\ t.ephemeralKeyPair = keyPair
        /\ DOMAIN t.chains = (DOMAIN s.chains \ {s.ephemeralKeyPair}) \cup {key, keyPair}
        /\ t.chains[keyPair] = NewChain(t.rootKey, "SENDING")
        /\ ReadFrom(NewChain(Append(s.rootKey, x), "RECEIVING"), m, t.chains[key])
        /\ last \in DOMAIN s.chains =>
             Advanced(s.chains[last], m.previousCounter, t.chains[last])
        /\ \A k \in DOMAIN s.chains \ {s.ephemeralKeyPair, last} :
             t.chains[k] = s.chains[k]
    BY <2>1 DEF ReadAfterTurn
  <2>4. /\ Receiving(t) \subseteq Receiving(s) \cup {key}
        /\ \A k \in Receiving(s) : k = last \/ t.chains[k] = s.chains[k]
        /\ key \notin Receiving(s)
    BY <1>7, <2>3 DEF Receiving
  <2>5. /\ t.chains[key].seed = Append(s.rootKey, x)
        /\ ~Gives(t.chains[key], m.counter)
        /\ Passed(t.chains[key])
    BY <2>3 DEF ReadFrom, Advanced, NewChain
  <2>6. \A k \in Receiving(s) :
          /\ t.chains[k].seed = s.chains[k].seed
          /\ Passed(t.chains[k])
          /\ \A n \in Int : Gives(t.chains[k], n) => Gives(s.chains[k], n)
    BY <1>2, <2>3, <2>4 DEF Receiving, Advanced, AllPassed
  <2>7. AllPassed(t)
    <3>1. Passed(t.chains[keyPair])
      BY <2>3 DEF Passed, NewChain
    <3>2. \A k \in DOMAIN t.chains : k = keyPair \/ k = key \/ k \in Receiving(s)
      BY <2>3 DEF Receiving
    <3> QED  BY <2>5, <2>6, <3>1, <3>2 DEF AllPassed
  <2>8. GrewBy(s, key, t)
    BY <1>5, <2>4, <2>6, <2>7 DEF GrewBy
  <2>9. s.rootKey \in Seq(SUBSET L) /\ x \in SUBSET L /\ y \in SUBSET L
    <3>1. Seq(SUBSET K) \subseteq Seq(SUBSET L)
      OBVIOUS
    <3> QED  BY <1>2, <2>2, <3>1
  <2>10. /\ m.mac.key.seed = Append(s.rootKey, x)
         /\ t.rootKey = Append(Append(s.rootKey, x), y)
         /\ t.chains[key].seed = Append(s.rootKey, x)
    BY <2>3, <2>5
  <2> HIDE DEF x, y, L
  <2>11. WasRead(s, m, t)
    BY <1>2, <1>7, <2>5, <2>8, <2>9, <2>10, AfterTurnReads
  <2> QED  BY <1>1, <2>11
<1> QED  BY <1>6, <1>7

-----------------------------------------------------------------------------
\* A record that became another one.
RecordGoes(record, after) ==
  \A k \in DOMAIN record.sessions :
    k \in DOMAIN after.sessions /\ Goes(record.sessions[k], after.sessions[k])

\* Two sessions of a record have different agreements of identity and base key.
LEMMA TagsApart ==
  ASSUME Us # Peer, NEW record, RecordOK(record), RecordReads(record),
         NEW k \in DOMAIN record.sessions, NEW l \in DOMAIN record.sessions,
         Tag(record.sessions[k]) = Tag(record.sessions[l])
  PROVE  k = l
<1>1. PICK s, t : s = record.sessions[k] /\ t = record.sessions[l]
  OBVIOUS
<1>2. /\ s.baseKey = k /\ t.baseKey = l
      /\ s.baseKey \in IF s.baseKeyType = "OURS" THEN SessionKeys(Us) ELSE KeysOf(Peer)
      /\ t.baseKey \in IF t.baseKeyType = "OURS" THEN SessionKeys(Us) ELSE KeysOf(Peer)
      /\ s.remoteIdentityKey = t.remoteIdentityKey
      /\ Tag(s) = Tag(t)
  BY <1>1 DEF RecordOK, RecordReads, SessionReads
<1>3. OurIdentity \notin SessionKeys(Us) /\ OurIdentity \in KeysOf(Us)
  BY DEF OurIdentity, IdentityKey, SessionKeys, SessionKey, KeysOf
<1>4. SessionKeys(Us) \subseteq KeysOf(Us) /\ KeysOf(Us) \cap KeysOf(Peer) = {}
  BY KeysApart, SessionKeysDistinct
<1>5. CASE s.baseKeyType = "OURS" /\ t.baseKeyType = "OURS"
  BY <1>2, <1>5 DEF Tag
<1>6. CASE s.baseKeyType # "OURS" /\ t.baseKeyType # "OURS"
  BY <1>2, <1>6 DEF Tag
<1>7. CASE s.baseKeyType = "OURS" /\ t.baseKeyType # "OURS"
  BY <1>2, <1>3, <1>4, <1>7 DEF Tag
<1>8. CASE s.baseKeyType # "OURS" /\ t.baseKeyType = "OURS"
  BY <1>2, <1>3, <1>4, <1>8 DEF Tag
<1> QED  BY <1>5, <1>6, <1>7, <1>8

\* What a record was read for it stays read for.
LEMMA ReadForStays ==
  ASSUME NEW record, NEW after, RecordGoes(record, after),
         NEW m, m.counter \in Nat, ReadFor(record, m)
  PROVE  ReadFor(after, m)
  BY DEF RecordGoes, ReadFor, Goes, Tagged

\* What was read in a session stays read over two steps, as over one.
LEMMA GoesTwice ==
  ASSUME NEW r, NEW s, NEW t, Goes(r, s), Goes(s, t)
  PROVE  Goes(r, t)
  BY DEF Goes

\* The same of a record.
LEMMA RecordGoesTwice ==
  ASSUME NEW r, NEW s, NEW t, RecordGoes(r, s), RecordGoes(s, t)
  PROVE  RecordGoes(r, t)
  BY GoesTwice DEF RecordGoes

\* A session put in a record in which it is new, or takes its own place.
LEMMA PutGoes ==
  ASSUME NEW L, NEW record, RecordReads(record), NEW s, SessionReads(s),
         NEW after, RecordWith(L, record, s, after),
         DOMAIN record.sessions \subseteq DOMAIN after.sessions,
         s.baseKey \in DOMAIN record.sessions => Goes(record.sessions[s.baseKey], s)
  PROVE  /\ RecordReads(after)
         /\ RecordGoes(record, after)
         /\ s.baseKey \in DOMAIN after.sessions => Goes(s, after.sessions[s.baseKey])
<1>1. \A k \in DOMAIN after.sessions \ {s.baseKey} :
        /\ k \in DOMAIN record.sessions
        /\ SessionReads(after.sessions[k])
        /\ Goes(record.sessions[k], after.sessions[k])
  BY KeptGoes DEF RecordWith, RecordReads
<1>2. s.baseKey \in DOMAIN after.sessions =>
        /\ SessionReads(after.sessions[s.baseKey])
        /\ Goes(s, after.sessions[s.baseKey])
  BY ThinnedGoes DEF RecordWith, Slimmed
<1>3. RecordReads(after)
  BY <1>1, <1>2 DEF RecordReads
<1>4. \A k \in DOMAIN record.sessions : Goes(record.sessions[k], after.sessions[k])
  BY <1>1, <1>2, GoesTwice
<1> QED  BY <1>2, <1>3, <1>4 DEF RecordGoes

\* A record in which a message was read, for the first time.
ReadsIn(record, m, after) == /\ RecordReads(after)
                             /\ RecordGoes(record, after)
                             /\ ReadFor(after, m)
                             /\ ~ReadFor(record, m)

\* A message that a session of the record decrypts was not read in it, and is
\* read in the record that decryptWhisperMessage then stores.
LEMMA ReadInRecord ==
  ASSUME Us # Peer, NEW K, NEW record, Fits(K, record), RecordReads(record),
         NEW key \in DOMAIN record.sessions, NEW r, r = record.sessions[key],
         Turnable(K, Us, Peer, r), DOMAIN r.chains # {} => SessionOK(K, Us, Peer, r),
         NEW m, MessageOK(K, m), NEW keyPair, keyPair \notin K,
         Decrypts(r, m, OurIdentity, keyPair)
  PROVE  ReadsIn(record, m, UpdateSessionState(record, Decrypted(r, m, keyPair), None))
<1>1. PICK L, t, after : /\ L = K \cup {keyPair}
                         /\ t = Decrypted(r, m, keyPair)
                         /\ after = UpdateSessionState(record, t, None)
  OBVIOUS
<1>2. SessionReads(r) /\ r.baseKey = key /\ m.counter \in Nat
  BY DEF RecordReads, Fits, RecordOK, MessageOK
<1>3. WasRead(r, m, t)
  BY <1>1, <1>2, ReadStep
<1>4. SessionOver(L, t) /\ t.baseKey = key
  BY <1>1, <1>2, ReadGrows
<1>5. RecordWith(L, record, t, after)
  <2>1. RecordOver(L, record)
    BY <1>1, RecordOverMore DEF Fits
  <2> QED  BY <1>1, <1>4, <2>1, UpdatedIs
<1>6. DOMAIN record.sessions \subseteq DOMAIN after.sessions
  <2>1. KeepsSessions(record, after)
    BY <1>1, ReadKeeps
  <2> QED  BY <2>1 DEF KeepsSessions
<1>7. /\ RecordReads(after)
      /\ RecordGoes(record, after)
      /\ Goes(t, after.sessions[key])
  <2>1. SessionReads(t) /\ Goes(record.sessions[t.baseKey], t)
    BY <1>3, <1>4 DEF WasRead
  <2> QED  BY <1>4, <1>5, <1>6, <2>1, PutGoes
<1>8. ReadFor(after, m)
  <2>1. Spent(after.sessions[key], m)
    BY <1>2, <1>3, <1>7 DEF WasRead, Goes
  <2>2. Tagged(m.mac.key.seed, after.sessions[key])
    BY <1>3, <1>7 DEF WasRead, Goes, Tagged
  <2> QED  BY <1>6, <2>1, <2>2 DEF ReadFor
<1>9. ~ReadFor(record, m)
  <2> SUFFICES ASSUME NEW k \in DOMAIN record.sessions,
                      Tagged(m.mac.key.seed, record.sessions[k]),
                      Spent(record.sessions[k], m)
               PROVE  FALSE
    BY DEF ReadFor
  <2>1. Tag(record.sessions[k]) = Tag(record.sessions[key])
    BY <1>3 DEF WasRead, Tagged
  <2>2. k = key
    BY <2>1, TagsApart DEF Fits
  <2> QED  BY <1>3, <2>2 DEF WasRead
<1> QED  BY <1>1, <1>7, <1>8, <1>9 DEF ReadsIn

\* What processV3 leaves to decrypt in.
LEMMA FoundReads ==
  ASSUME Us # Peer, NEW K, None \notin K, OurKeysIn(K), NEW record, SoundRecord(K, record),
         HasRoom(record), RecordReads(record), NEW header, HeaderOK(K, header),
         NEW found \in ReceivingRecords(record, header)
  PROVE  /\ RecordReads(found)
         /\ RecordGoes(record, found)
         /\ header.baseKey \in DOMAIN found.sessions
              /\ DOMAIN found.sessions[header.baseKey].chains # {}
            => SessionOK(K, Us, Peer, found.sessions[header.baseKey])
<1>1. CASE IsDuplicate(record, header)
  <2>1. found = record
    BY <1>1 DEF ReceivingRecords
  <2>2. RecordGoes(record, record)
    BY DEF RecordGoes, Goes
  <2> QED  BY <2>1, <2>2, SessionIn
<1>2. CASE ~IsDuplicate(record, header)
  <2>1. PICK s \in NewSessions(header) : /\ CanAddSession(record, s, header)
                                         /\ found = RecordWithNewSession(record, s, header)
    BY <1>2 DEF ReceivingRecords
  <2>2. PICK preKey \in {None, OurPreKey(header.preKeyId)} :
          s = ResponderSession(OurIdentity, preKey,
                OurSignedPreKey(header.signedPreKeyId), header.identityKey, header.baseKey)
    BY <2>1 DEF NewSessions
  <2>3. /\ OurIdentity \in K
        /\ preKey \in K \cup {None}
        /\ OurSignedPreKey(header.signedPreKeyId) \in K
        /\ header.identityKey \in K
        /\ header.baseKey \in KeysOf(Peer) \cap K
        /\ header.registrationId \in Nat \cup {None}
    BY <2>2 DEF HeaderOK, OurKeysIn
  <2>4. SessionReads(s)
    BY <2>2, <2>3, AnsweringReads
  <2>5. SessionOver(K, s) /\ DOMAIN s.chains = {}
    <3>1. /\ SessionOver(K, s)
          /\ Answering(s, OurIdentity, preKey, OurSignedPreKey(header.signedPreKeyId),
                       header.identityKey, header.baseKey)
      BY <2>2, <2>3, ResponderSessionIs
    <3> QED  BY <3>1 DEF Answering
  <2>6. RecordWith(K, record, s, found)
    BY <2>1, <2>3, <2>5, AddsSound DEF CanAddSession, RecordWithNewSession
  <2>7. /\ PutIn(record, s, found)
        /\ s.baseKey = header.baseKey
        /\ s.baseKey \notin DOMAIN record.sessions
    BY <1>2, <2>1, AddedReceives
  <2>8. RecordReads(found) /\ RecordGoes(record, found)
    BY <2>4, <2>6, <2>7, PutGoes DEF PutIn
  <2>9. header.baseKey \in DOMAIN found.sessions =>
          DOMAIN found.sessions[header.baseKey].chains = {}
    BY <2>5, <2>6, <2>7 DEF RecordWith, Slimmed, Thinned
  <2> QED  BY <2>8, <2>9
<1> QED  BY <1>1, <1>2

-----------------------------------------------------------------------------
\* What a call leaves of the record it finds: sessions that read what they
\* read before, and no more the message of the call.
Reads(record, after, c) ==
  /\ RecordReads(after)
  /\ RecordGoes(record, after)
  /\ c.kind \in {"decrypt", "receive"} =>
       ReadFor(after, c.message) /\ ~ReadFor(record, c.message)

\* The operations that put a session in a record, close one, or both.
LEMMA EncryptionReads ==
  ASSUME Us # Peer, NEW K, NEW record, SoundRecord(K, record), RecordReads(record),
         NEW after \in Encryptions(record), KeepsSessions(record, after)
  PROVE  RecordReads(after) /\ RecordGoes(record, after)
<1>1. PICK s \in SessionsIn(record) :
        /\ IsOpen(s)
        /\ CanUpdateSessionState(record, Encrypted(s), None)
        /\ after = UpdateSessionState(record, Encrypted(s), None)
  BY DEF Encryptions, Updates
<1>2. PICK key \in DOMAIN record.sessions : s = record.sessions[key]
  BY <1>1 DEF SessionsIn
<1>3. SessionOK(K, Us, Peer, s) /\ s.baseKey = key /\ SessionReads(s)
  BY <1>2, SessionIn DEF RecordReads
<1>4. PICK t : t = Encrypted(s)
  OBVIOUS
<1>5. Sending(s)
  BY <1>1, <1>3 DEF SessionOK, ChainsOK, SendingOK, Sending
<1>6. SessionReads(t) /\ Goes(s, t)
  BY <1>3, <1>4, <1>5, EncryptedGoes
<1>7. SessionOver(K, t) /\ t.baseKey = key
  <2>1. /\ SessionOver(K, s)
        /\ s.ephemeralKeyPair \in DOMAIN s.chains
        /\ s.chains[s.ephemeralKeyPair].messageKeys = {}
    BY <1>3, <1>5 DEF SessionOK, ChainsOK, SendingOK, Sending, SendingChain
  <2>2. SessionOver(K, t) /\ SameBut({"chains"}, s, t)
    BY <1>4, <2>1, EncryptedIs
  <2> QED  BY <1>3, <2>2 DEF SameBut, SessionFields
<1>8. RecordWith(K, record, t, after)
  BY <1>1, <1>4, <1>7, UpdatedIs DEF SoundRecord
<1>9. DOMAIN record.sessions \subseteq DOMAIN after.sessions
  BY DEF KeepsSessions
<1> QED  BY <1>2, <1>6, <1>7, <1>8, <1>9, PutGoes

\* processPreKey adds a session of new keys, and what was read stays read.
LEMMA DeviceReads ==
  ASSUME NEW K, None \notin K, NEW record, SoundRecord(K, record), RecordReads(record),
         NEW device, DeviceOK(K, device), OurIdentity \in K,
         NEW draw, JobKeys(draw) \subseteq SessionKeys(Us), JobKeys(draw) \cap K = {},
         None \notin JobKeys(draw), NEW s,
         s = PendingSession(OurIdentity, BaseKey(draw), RatchetKey(draw), device),
         CanArchive(record),
         NEW after,
         after = UpdateSessionState(ArchiveCurrentState(record), s, device.registrationId),
         KeepsSessions(record, after)
  PROVE  RecordReads(after) /\ RecordGoes(record, after)
<1>1. PICK L : L = K \cup JobKeys(draw)
  OBVIOUS
<1>2. /\ OurIdentity \in L /\ None \notin L
      /\ BaseKey(draw) \in SessionKeys(Us) \cap L
      /\ RatchetKey(draw) \in L
      /\ DeviceOK(L, device)
      /\ BaseKey(draw) \notin K
  BY <1>1 DEF DeviceOK, JobKeys
<1>3. SessionReads(s)
  BY <1>2, PendingReads
<1>4. SessionOver(L, s) /\ s.baseKey = BaseKey(draw)
  <2>1. /\ SessionOver(L, s)
        /\ Pending(s, OurIdentity, BaseKey(draw), RatchetKey(draw), device)
    BY <1>2, PendingSessionIs DEF DeviceOK
  <2> QED  BY <2>1 DEF Pending
<1>5. s.baseKey \notin DOMAIN record.sessions
  BY <1>2, <1>4 DEF SoundRecord, RecordOver
<1>6. RecordWith(L, record, s, after)
  <2>1. RecordOver(L, record) /\ RecordOK(record)
    BY <1>1, RecordOverMore DEF SoundRecord
  <2>2. device.registrationId \in Nat \cup {None}
    BY DEF DeviceOK
  <2> QED  BY <1>4, <2>1, <2>2, AddedIs
<1>7. DOMAIN record.sessions \subseteq DOMAIN after.sessions
  BY DEF KeepsSessions
<1> QED  BY <1>3, <1>5, <1>6, <1>7, PutGoes

\* Closing the open session keeps what was read.
LEMMA ClosingReads ==
  ASSUME NEW K, NEW record, SoundRecord(K, record), RecordReads(record),
         NEW after, after = ArchiveCurrentState(record), KeepsSessions(record, after)
  PROVE  RecordReads(after) /\ RecordGoes(record, after)
<1>1. RecordWithout(K, record, after)
  BY ArchivedIs DEF SoundRecord
<1>2. \A k \in DOMAIN after.sessions :
        /\ k \in DOMAIN record.sessions
        /\ SessionReads(after.sessions[k])
        /\ Goes(record.sessions[k], after.sessions[k])
  BY <1>1, KeptGoes DEF RecordWithout, RecordReads
<1> QED  BY <1>2 DEF RecordReads, RecordGoes, KeepsSessions

\* Every operation, on a record that has room for one more session.
LEMMA ChangeReads ==
  ASSUME Us # Peer, NEW K, None \notin K, OurKeysIn(K),
         NEW record, record # None, SoundRecord(K, record), HasRoom(record),
         RecordReads(record), NEW c, CallOK(K, c),
         NEW draw, JobKeys(draw) \subseteq SessionKeys(Us),
         JobKeys(draw) \cap K = {}, None \notin JobKeys(draw),
         NEW after, IsChange(record, after, c, draw)
  PROVE  Reads(record, after, c)
<1>1. RatchetKey(draw) \notin K
  BY DEF JobKeys
<1>2. KeepsSessions(record, after)
  BY ChangeKeeps
<1>3. Fits(K, record)
  BY SoundFits
<1>4. CASE c.kind = "encrypt" /\ after \in Encryptions(record)
  <2>1. RecordReads(after) /\ RecordGoes(record, after)
    BY <1>2, <1>4, EncryptionReads
  <2> QED  BY <1>4, <2>1 DEF Reads
<1>5. CASE /\ c.kind = "decrypt"
           /\ after \in Decryptions(record, SessionsIn(record), c.message, draw)
  <2>1. PICK r \in SessionsIn(record) :
          /\ Decrypts(r, c.message, OurIdentity, RatchetKey(draw))
          /\ after = UpdateSessionState(record,
                                        Decrypted(r, c.message, RatchetKey(draw)), None)
    BY <1>5 DEF Decryptions, Updates
  <2>2. PICK key \in DOMAIN record.sessions : r = record.sessions[key]
    BY <2>1 DEF SessionsIn
  <2>3. /\ Turnable(K, Us, Peer, r)
        /\ SessionOK(K, Us, Peer, r)
        /\ MessageOK(K, c.message)
    BY <1>5, <2>2, SessionIn DEF CallOK
  <2>4. ReadsIn(record, c.message, after)
    BY <1>1, <1>3, <2>1, <2>2, <2>3, ReadInRecord
  <2> QED  BY <2>4 DEF ReadsIn, Reads
<1>6. CASE /\ c.kind = "receive"
           /\ after \in Receptions(WorkingRecord(record, c.header), c.header, c.message, draw)
  <2>1. WorkingRecord(record, c.header) = record
    BY DEF WorkingRecord
  <2>2. MessageOK(K, c.message) /\ HeaderOK(K, c.header)
    BY <1>6 DEF CallOK
  <2>3. PICK found \in ReceivingRecords(record, c.header) :
          after \in Decryptions(found,
            {found.sessions[k] : k \in DOMAIN found.sessions \cap {c.header.baseKey}},
            c.message, draw)
    BY <1>6, <2>1 DEF Receptions
  <2>4. PICK key : key = c.header.baseKey
    OBVIOUS
  <2>5. /\ key \in DOMAIN found.sessions
        /\ Decrypts(found.sessions[key], c.message, OurIdentity, RatchetKey(draw))
        /\ after = UpdateSessionState(found,
             Decrypted(found.sessions[key], c.message, RatchetKey(draw)), None)
    BY <2>3, <2>4 DEF Decryptions, Updates
  <2>6. ReceivesIn(K, record, c.header, found)
    BY <2>2, <2>3, FoundReceives
  <2>7. /\ RecordReads(found)
        /\ RecordGoes(record, found)
        /\ DOMAIN found.sessions[key].chains # {} =>
             SessionOK(K, Us, Peer, found.sessions[key])
    BY <2>2, <2>3, <2>4, <2>5, FoundReads
  <2>8. Fits(K, found) /\ Turnable(K, Us, Peer, found.sessions[key])
    BY <2>4, <2>5, <2>6 DEF ReceivesIn
  <2>9. ReadsIn(found, c.message, after)
    BY <1>1, <2>2, <2>5, <2>7, <2>8, ReadInRecord
  <2>10. RecordGoes(record, after)
    BY <2>7, <2>9, RecordGoesTwice DEF ReadsIn
  <2>11. ~ReadFor(record, c.message)
    BY <2>2, <2>7, <2>9, ReadForStays DEF ReadsIn, MessageOK
  <2> QED  BY <2>9, <2>10, <2>11 DEF ReadsIn, Reads
<1>7. CASE c.kind = "processPreKey"
  <2>1. PICK s : s = PendingSession(OurIdentity, BaseKey(draw), RatchetKey(draw), c.device)
    OBVIOUS
  <2>2. /\ CanProcessPreKey(record, None, s, c.device)
        /\ after = ProcessPreKey(record, s, c.device)
    BY <1>7, <2>1 DEF IsChange
  <2>3. RecordForDevice(record, c.device) = record
    BY DEF RecordForDevice
  <2>4. /\ CanArchive(record)
        /\ after = UpdateSessionState(ArchiveCurrentState(record), s,
                                      c.device.registrationId)
    BY <2>2, <2>3 DEF CanProcessPreKey, ProcessPreKey
  <2>5. DeviceOK(K, c.device) /\ OurIdentity \in K
    BY <1>7 DEF CallOK, OurKeysIn
  <2>6. RecordReads(after) /\ RecordGoes(record, after)
    BY <1>2, <2>1, <2>4, <2>5, DeviceReads
  <2> QED  BY <1>7, <2>6 DEF Reads
<1>8. CASE c.kind = "close" /\ after = ArchiveCurrentState(record)
  <2>1. RecordReads(after) /\ RecordGoes(record, after)
    BY <1>2, <1>8, ClosingReads
  <2> QED  BY <1>8, <2>1 DEF Reads
<1> QED  BY <1>4, <1>5, <1>6, <1>7, <1>8 DEF IsChange

\* The first call for a device starts from a new record.
LEMMA FirstReads ==
  ASSUME Us # Peer, NEW K, None \notin K, OurKeysIn(K), NoneIsNoRecord,
         NEW c, CallOK(K, c), NEW draw, JobKeys(draw) \subseteq SessionKeys(Us),
         JobKeys(draw) \cap K = {}, None \notin JobKeys(draw),
         NEW after, IsChange(None, after, c, draw)
  PROVE  /\ RecordReads(after)
         /\ c.kind \in {"decrypt", "receive"} => ReadFor(after, c.message)
<1>1. ASSUME NEW identityKey \in K, NEW registrationId \in Nat, NEW base,
             base = NewRecord(identityKey, registrationId)
      PROVE  /\ base # None
             /\ SoundRecord(K, base)
             /\ HasRoom(base)
             /\ RecordReads(base)
  <2>1. SoundRecord(K, base) /\ DOMAIN base.sessions = {}
    BY <1>1, NewRecordSound
  <2>2. base # None
    BY <2>1 DEF SoundRecord, NoneIsNoRecord
  <2> QED  BY <1>1, <2>1, <2>2, NewRecordHasRoom DEF RecordReads
<1>2. CASE /\ c.kind = "receive"
           /\ after \in Receptions(WorkingRecord(None, c.header), c.header, c.message, draw)
  <2>1. PICK base : base = NewRecord(c.header.identityKey, c.header.registrationId)
    OBVIOUS
  <2>2. c.header.identityKey \in K /\ c.header.registrationId \in Nat
    BY <1>2 DEF CallOK, HeaderOK
  <2>3. base # None /\ SoundRecord(K, base) /\ HasRoom(base) /\ RecordReads(base)
    BY <1>1, <2>1, <2>2
  <2>4. WorkingRecord(None, c.header) = base /\ WorkingRecord(base, c.header) = base
    BY <2>1, <2>3 DEF WorkingRecord
  <2>5. IsChange(base, after, c, draw)
    BY <1>2, <2>4 DEF IsChange
  <2>6. Reads(base, after, c)
    BY <2>3, <2>5, ChangeReads
  <2> QED  BY <2>6 DEF Reads
<1>3. CASE c.kind = "processPreKey"
  <2>1. PICK s, base :
          /\ s = PendingSession(OurIdentity, BaseKey(draw), RatchetKey(draw), c.device)
          /\ base = NewRecord(c.device.identityKey, c.device.registrationId)
    OBVIOUS
  <2>2. /\ CanProcessPreKey(None, None, s, c.device)
        /\ after = ProcessPreKey(None, s, c.device)
    BY <1>3, <2>1 DEF IsChange
  <2>3. c.device.identityKey \in K /\ c.device.registrationId \in Nat
    BY <1>3 DEF CallOK, DeviceOK
  <2>4. base # None /\ SoundRecord(K, base) /\ HasRoom(base) /\ RecordReads(base)
    BY <1>1, <2>1, <2>3
  <2>5. RecordForDevice(None, c.device) = base /\ RecordForDevice(base, c.device) = base
    BY <2>1, <2>4 DEF RecordForDevice
  <2>6. /\ CanProcessPreKey(base, None, s, c.device)
        /\ after = ProcessPreKey(base, s, c.device)
    BY <2>2, <2>5 DEF CanProcessPreKey, ProcessPreKey
  <2>7. IsChange(base, after, c, draw)
    BY <1>3, <2>1, <2>6 DEF IsChange
  <2>8. Reads(base, after, c)
    BY <2>4, <2>7, ChangeReads
  <2> QED  BY <2>8 DEF Reads
<1> QED  BY <1>2, <1>3 DEF IsChange

-----------------------------------------------------------------------------
\* A step in which no record is stored.
LEMMA QuietStepKeepsReading ==
  ASSUME ReadInv, UNCHANGED records,
         \A k \in Jobs :
           /\ ReadBy(k)' => ReadBy(k) /\ number'[k] = number[k] /\ call'[k] = call[k]
           /\ status'[k] = "fulfilled" /\ call'[k].kind \in {"decrypt", "receive"}
                => ReadBy(k)'
  PROVE  ReadInv'
<1>1. AllRead'
  BY DEF ReadInv, AllRead
<1>2. ReadKept'
  <2> SUFFICES ASSUME NEW k \in Jobs, ReadBy(k)'
               PROVE  /\ records'[number'[k]] # None
                      /\ ReadFor(records'[number'[k]], call'[k].message)
    BY DEF ReadKept, Message
  <2>1. ReadBy(k) /\ number'[k] = number[k] /\ call'[k] = call[k]
    OBVIOUS
  <2> QED  BY <2>1 DEF ReadInv, ReadKept, Message
<1>3. ReadApart'
  BY DEF ReadInv, ReadApart, Message
<1>4. ReadReturned'
  BY DEF ReadReturned, Fulfilled
<1> QED  BY <1>1, <1>2, <1>3, <1>4 DEF ReadInv

\* A step in which only j changes, and no record is stored.
LEMMA JobKeepsReading ==
  ASSUME ReadInv, NEW j \in Jobs, UNCHANGED records, \A k \in Jobs \ {j} : Same(k),
         ReadBy(j)' => ReadBy(j) /\ number'[j] = number[j] /\ call'[j] = call[j],
         status'[j] = "fulfilled" /\ call'[j].kind \in {"decrypt", "receive"}
           => ReadBy(j)'
  PROVE  ReadInv'
<1>1. ASSUME NEW k \in Jobs \ {j}
      PROVE  /\ ReadBy(k)' => ReadBy(k) /\ number'[k] = number[k] /\ call'[k] = call[k]
             /\ status'[k] = "fulfilled" /\ call'[k].kind \in {"decrypt", "receive"}
                  => ReadBy(k)'
  <2>1. Same(k) /\ (ReadBy(k)' <=> ReadBy(k))
    BY DEF Same, ReadBy
  <2>2. k \in Fulfilled({"decrypt", "receive"}) => ReadBy(k)
    BY DEF ReadInv, ReadReturned
  <2> QED  BY <2>1, <2>2 DEF Same, Fulfilled
<1> QED  BY <1>1, QuietStepKeepsReading

\* A handler that returns: it has read its message, or asks to store that.
LEMMA ContinueKeepsReading ==
  ASSUME JobsInv, ReadInv, NEW j \in Jobs, status[j] = "running",
         NEW held, NEW writes, Continue(j, held, writes),
         \/ call[j].kind \notin {"decrypt", "receive"}
         \/ held.step \notin {"stored", "done"}
         \/ \E c \in writes : c.write = "storeSession"
         \/ ReadBy(j)
  PROVE  ReadInv'
<1>1. /\ work' = [work EXCEPT ![j] = held]
      /\ pending' = [pending EXCEPT ![j] = writes]
      /\ UNCHANGED <<status, number, call, records>>
      /\ DOMAIN work = Jobs /\ DOMAIN pending = Jobs
  BY DEF Continue, queues, storage, JobsInv, TypesOK
<1>2. \A k \in Jobs \ {j} : Same(k)
  BY <1>1 DEF Same
<1>3. work'[j] = held /\ pending'[j] = writes
  BY <1>1
<1>4. ReadBy(j)' => ReadBy(j)
  BY <1>1, <1>3 DEF ReadBy
<1> QED  BY <1>1, <1>2, <1>4, JobKeepsReading

\* A job that settles: when it returns it has stored its record.
LEMMA SettledKeepsReading ==
  ASSUME JobsInv, ReadInv, NEW j \in Jobs,
         NEW outcome \in {"fulfilled", "rejected"}, Settle(j, outcome),
         outcome = "fulfilled" /\ call[j].kind \in {"decrypt", "receive"} => ReadBy(j)
  PROVE  ReadInv'
<1>1. /\ status' = [status EXCEPT ![j] = outcome]
      /\ UNCHANGED <<number, call, work, pending, records>>
      /\ DOMAIN status = Jobs
  BY DEF Settle, Lock!Finish, storage, JobsInv, TypesOK
<1>2. (\A k \in Jobs \ {j} : Same(k)) /\ status'[j] = outcome
  BY <1>1 DEF Same
<1>3. ReadBy(j)' => outcome = "fulfilled" /\ call[j].kind \in {"decrypt", "receive"}
  BY <1>1, <1>2 DEF ReadBy
<1>4. outcome = "fulfilled" /\ ReadBy(j) => ReadBy(j)'
  BY <1>1, <1>2 DEF ReadBy
<1> QED  BY <1>1, <1>2, <1>3, <1>4, JobKeepsReading

\* A job that is not done: it was called, begins, or was rejected.
LEMMA RestKeepsReading ==
  ASSUME ReadInv, NEW j \in Jobs, UNCHANGED records, \A k \in Jobs \ {j} : Same(k),
         \/ status'[j] \in {"queued", "rejected"}
         \/ status'[j] = "running" /\ work'[j].step = "begin"
  PROVE  ReadInv'
<1>1. ~ReadBy(j)' /\ status'[j] # "fulfilled"
  BY DEF ReadBy
<1> QED  BY <1>1, JobKeepsReading

\* A call of the application, and a job that begins.
LEMMA CallKeepsReading ==
  ASSUME JobsInv, ReadInv, NEW j \in Jobs, NEW c \in Calls,
         Request(j, c) \/ DeleteAllSessions(j, c)
  PROVE  ReadInv'
<1>1. /\ UNCHANGED <<work, pending, records>>
      /\ \E s \in {"queued", "rejected"} : status' = [status EXCEPT ![j] = s]
      /\ number' = [number EXCEPT ![j] = c.address]
      /\ call' = [call EXCEPT ![j] = c]
      /\ DOMAIN status = Jobs /\ DOMAIN number = Jobs /\ DOMAIN call = Jobs
  BY DEF Request, DeleteAllSessions, Lock!Enqueue, storage, JobsInv, TypesOK
<1>2. (\A k \in Jobs \ {j} : Same(k)) /\ status'[j] \in {"queued", "rejected"}
  BY <1>1 DEF Same
<1> QED  BY <1>1, <1>2, RestKeepsReading

\* A job that begins has stored nothing.
LEMMA BeginKeepsReading ==
  ASSUME JobsInv, ReadInv, NEW j \in Jobs, Begin(j)
  PROVE  ReadInv'
<1>1. /\ status' = [status EXCEPT ![j] = "running"]
      /\ UNCHANGED <<number, call, work, pending, records>>
      /\ DOMAIN status = Jobs
      /\ work[j].step = "begin"
  BY DEF Begin, Lock!Run, storage, JobsInv, TypesOK, UnbegunOK
<1>2. (\A k \in Jobs \ {j} : Same(k)) /\ status'[j] = "running" /\ work'[j].step = "begin"
  BY <1>1 DEF Same
<1> QED  BY <1>1, <1>2, RestKeepsReading

\* The handlers: none of them stores a record.
LEMMA HandlerKeepsReading ==
  ASSUME JobsInv, ReadInv, NEW j \in Jobs, Handler(j)
  PROVE  ReadInv'
<1>1. \A step, record, key, id : Held(step, record, key, id).step = step
  BY DEF Held
<1>2. \A record : StoreSession(record).write = "storeSession"
  BY DEF StoreSession
<1>3. CASE Throw(j)
  BY <1>3, SettledKeepsReading DEF Throw
<1>4. ASSUME status[j] = "running", NEW held, NEW writes, Continue(j, held, writes),
             \/ call[j].kind \notin {"decrypt", "receive"}
             \/ held.step \notin {"stored", "done"}
             \/ \E c \in writes : c.write = "storeSession"
      PROVE  ReadInv'
  BY <1>4, ContinueKeepsReading
<1>5. CASE Encrypt(j)
  BY <1>3, <1>4, <1>5 DEF Encrypt, At
<1>6. CASE Close(j)
  <2>1. CASE Settle(j, "fulfilled")
    BY <1>6, <2>1, SettledKeepsReading DEF Close, At
  <2> QED  BY <1>3, <1>4, <1>6, <2>1 DEF Close, At
<1>7. CASE TrySessions(j)
  BY <1>1, <1>3, <1>4, <1>7 DEF TrySessions, At
<1>8. CASE StoreSecondLoad(j)
  BY <1>2, <1>3, <1>4, <1>8 DEF StoreSecondLoad, At
<1>9. CASE LoadRecord(j)
  BY <1>1, <1>3, <1>4, <1>9 DEF LoadRecord, At
<1>10. CASE ProcessV3(j)
  BY <1>1, <1>3, <1>4, <1>10 DEF ProcessV3, At
<1>11. CASE DecryptFirst(j)
  BY <1>2, <1>3, <1>4, <1>11 DEF DecryptFirst, At
<1>12. CASE RemoveUsedPreKey(j)
  <2>1. ReadBy(j) /\ status[j] = "running"
    BY <1>12 DEF RemoveUsedPreKey, At, ReadBy
  <2> QED  BY <1>12, <2>1, ContinueKeepsReading DEF RemoveUsedPreKey
<1>13. CASE CheckIdentity(j)
  BY <1>1, <1>3, <1>4, <1>13 DEF CheckIdentity, At
<1>14. CASE ProcessDevice(j)
  BY <1>3, <1>4, <1>14 DEF ProcessDevice, At
<1>15. CASE Return(j)
  <2>1. call[j].kind \in {"decrypt", "receive"} => ReadBy(j)
    BY <1>15 DEF Return, ReadBy
  <2> QED  BY <1>15, <2>1, SettledKeepsReading DEF Return
<1> QED  BY <1>5, <1>6, <1>7, <1>8, <1>9, <1>10, <1>11, <1>12, <1>13, <1>14, <1>15
         DEF Handler

-----------------------------------------------------------------------------
\* The storage answers a call that stores no record.
LEMMA OtherAnswerKeepsReading ==
  ASSUME JobsInv, ReadInv, NEW j \in Jobs, NEW c \in pending[j], c.write # "storeSession",
         pending' = [pending EXCEPT ![j] = @ \ {c}],
         UNCHANGED <<status, number, call, work, records>>
  PROVE  ReadInv'
<1>1. DOMAIN pending = Jobs
  BY DEF JobsInv, TypesOK
<1>2. (\A k \in Jobs \ {j} : Same(k)) /\ pending'[j] = pending[j] \ {c}
  BY <1>1 DEF Same
<1>3. ReadBy(j)' <=> ReadBy(j)
  BY <1>2 DEF ReadBy
<1>4. j \in Fulfilled({"decrypt", "receive"}) => ReadBy(j)
  BY DEF ReadInv, ReadReturned
<1> QED  BY <1>2, <1>3, <1>4, JobKeepsReading DEF Fulfilled

\* A write that fails: its job is rejected, or stores no record.
LEMMA RefuseKeepsReading ==
  ASSUME JobsInv, ReadInv, NEW j \in Jobs,
         RefuseLoad(j) \/ \E c \in pending[j] : Refuse(j, c)
  PROVE  ReadInv'
<1>1. CASE RefuseLoad(j)
  <2>1. /\ UNCHANGED <<number, call, work, pending, records>>
        /\ status' = [status EXCEPT ![j] = "rejected"]
        /\ DOMAIN status = Jobs
    BY <1>1 DEF RefuseLoad, Lock!Finish, storage, JobsInv, TypesOK
  <2>2. (\A k \in Jobs \ {j} : Same(k)) /\ status'[j] = "rejected"
    BY <2>1 DEF Same
  <2> QED  BY <2>1, <2>2, RestKeepsReading
<1>2. ASSUME NEW c \in pending[j], Refuse(j, c)
      PROVE  ReadInv'
  <2>1. /\ UNCHANGED <<number, call, work, records>>
        /\ pending' = [pending EXCEPT ![j] = @ \ {c}]
        /\ status[j] = "running" => status' = [status EXCEPT ![j] = "rejected"]
        /\ status[j] # "running" => UNCHANGED status
        /\ DOMAIN status = Jobs /\ DOMAIN pending = Jobs
    BY <1>2 DEF Refuse, Lock!Finish, queues, storage, JobsInv, TypesOK
  <2>2. CASE status[j] = "running"
    <3>1. (\A k \in Jobs \ {j} : Same(k)) /\ status'[j] = "rejected"
      BY <2>1, <2>2 DEF Same
    <3> QED  BY <2>1, <3>1, RestKeepsReading
  <2>3. CASE status[j] # "running"
    <3>1. c.write # "storeSession"
      BY <2>3 DEF JobsInv, WritesOK
    <3> QED  BY <2>1, <2>3, <3>1, OtherAnswerKeepsReading
  <2> QED  BY <2>2, <2>3
<1> QED  BY <1>1, <1>2

\* A stop leaves those that have returned.
LEMMA StopKeepsReading ==
  ASSUME JobsInv, ReadInv, Stop
  PROVE  ReadInv'
<1>1. UNCHANGED <<number, call, work, records>>
  BY DEF Stop, storage
<1>2. \A k \in Jobs :
        /\ pending'[k] = {}
        /\ status'[k] = "fulfilled" => status[k] = "fulfilled"
        /\ status'[k] # "running"
  BY DEF Stop, JobsInv, TypesOK
<1>3. ASSUME NEW k \in Jobs
      PROVE  /\ ReadBy(k)' => ReadBy(k)
             /\ status'[k] = "fulfilled" /\ call'[k].kind \in {"decrypt", "receive"}
                  => ReadBy(k)'
  <2>1. k \in Fulfilled({"decrypt", "receive"}) => ReadBy(k)
    BY DEF ReadInv, ReadReturned
  <2>2. ReadBy(k)' => status'[k] = "fulfilled" /\ call[k].kind \in {"decrypt", "receive"}
    BY <1>1, <1>2 DEF ReadBy
  <2>3. status'[k] = "fulfilled" /\ ReadBy(k) => ReadBy(k)'
    BY <1>1, <1>2 DEF ReadBy
  <2> QED  BY <1>1, <1>2, <2>1, <2>2, <2>3 DEF Fulfilled
<1> QED  BY <1>1, <1>3, QuietStepKeepsReading

\* What the record of a job is when it is stored.
StoredReads(record, after, c) ==
  /\ after # None
  /\ RecordReads(after)
  /\ record # None => RecordGoes(record, after)
  /\ c.kind \in {"decrypt", "receive"} =>
       /\ ReadFor(after, c.message)
       /\ record # None => ~ReadFor(record, c.message)

\* What a job stores keeps what was read, and reads the message of the job if
\* the job decrypts one.
LEMMA StoringReads ==
  ASSUME ReadAssumptions, JobsInv, KeyInv, RecordsHaveRoom, ReadInv,
         NEW j \in Jobs, NEW c \in pending[j], Answer(j, c), c.write = "storeSession",
         NEW a \in Addresses, a = number[j]
  PROVE  StoredReads(records[a], c.value, call[j])
<1>1. status[j] = "running" /\ IsChange(records[a], c.value, call[j], j)
  BY DEF JobsInv, WritesOK, Stores, Loaded
<1>2. call[j] \in Calls
  BY <1>1 DEF JobsInv, CallsOK, Called
<1>3. PreKeyAssumptions /\ KeyAssumptions /\ NoneIsNoRecord
  BY DEF ReadAssumptions, PreKeyAssumptions
<1>4. /\ None \notin InUse /\ OurKeysIn(InUse) /\ CallOK(InUse, call[j])
      /\ None \notin InUse' /\ Us # Peer
      /\ InUse \cup JobKeys(j) \subseteq InUse'
      /\ JobKeys(j) \cap InUse = {}
      /\ JobKeys(j) \subseteq SessionKeys(Us) /\ None \notin JobKeys(j)
      /\ RatchetKey(j) \notin InUse
  <2>1. /\ None \notin BothKeys
        /\ Us # Peer
        /\ \A d \in Calls : CallOK(Fixed, d)
    BY <1>3 DEF KeyAssumptions
  <2>2. None \notin InUse /\ OurKeysIn(InUse) /\ CallOK(InUse, call[j])
    BY <1>2, <2>1, FixedInUse
  <2>3. InUse \cup JobKeys(j) \subseteq InUse' /\ JobKeys(j) \cap InUse = {}
    BY StoreKeepsUse
  <2>4. JobKeys(j) \subseteq SessionKeys(Us)
    BY JobKeysApart
  <2>5. None \notin InUse' /\ None \notin JobKeys(j)
    BY <2>1, <2>4, SessionKeysDistinct DEF InUse, BothKeys
  <2> QED  BY <2>1, <2>2, <2>3, <2>4, <2>5 DEF JobKeys
<1>5. records[a] # None =>
        SoundRecord(InUse, records[a]) /\ HasRoom(records[a]) /\ RecordReads(records[a])
  BY DEF KeyInv, RecordsSound, RecordsHaveRoom, ReadInv, AllRead
<1>6. c.value # None
  <2>1. PICK base : Changed(InUse, InUse', base, c.value)
    BY <1>1, <1>4, <1>5, ChangeIs
  <2> QED  BY <1>3, <2>1 DEF Changed, SoundRecord, NoneIsNoRecord
<1>7. CASE records[a] # None
  <2>1. Reads(records[a], c.value, call[j])
    BY <1>1, <1>4, <1>5, <1>7, ChangeReads
  <2> QED  BY <1>6, <2>1 DEF Reads, StoredReads
<1>8. CASE records[a] = None
  <2>1. /\ RecordReads(c.value)
        /\ call[j].kind \in {"decrypt", "receive"} => ReadFor(c.value, call[j].message)
    BY <1>1, <1>3, <1>4, <1>8, FirstReads
  <2> QED  BY <1>6, <1>8, <2>1 DEF StoredReads
<1> QED  BY <1>7, <1>8

\* When a record is stored its message is read, and no other job has read it.
LEMMA StoreKeepsReading ==
  ASSUME ReadAssumptions, JobsInv, KeyInv, RecordsHaveRoom, ReadInv,
         NEW j \in Jobs, NEW c \in pending[j], Answer(j, c), c.write = "storeSession"
  PROVE  ReadInv'
<1>1. status[j] = "running"
  BY DEF JobsInv, WritesOK
<1>2. PICK a \in Addresses : a = number[j]
  BY <1>1, NumberIsAddress
<1>3. /\ records' = [records EXCEPT ![a] = c.value]
      /\ records = [b \in Addresses |-> records[b]]
      /\ pending' = [pending EXCEPT ![j] = @ \ {c}]
      /\ UNCHANGED <<status, number, call, work>>
      /\ DOMAIN pending = Jobs
  BY <1>2 DEF Answer, queues, JobsInv, TypesOK
<1>4. records'[a] = c.value /\ \A b \in Addresses \ {a} : records'[b] = records[b]
  BY <1>3
<1>5. StoredReads(records[a], c.value, call[j])
  BY <1>2, StoringReads
<1>6. \A k \in Jobs \ {j} : ReadBy(k)' <=> ReadBy(k)
  BY <1>3 DEF ReadBy
<1>7. ASSUME NEW k \in Jobs, status[k] \in {"running", "fulfilled"}
      PROVE  /\ call[k] \in Calls
             /\ number[k] = call[k].address
             /\ number[k] \in Addresses
  BY <1>7, JobsAssumption DEF JobsInv, CallsOK, Called
<1>8. ASSUME NEW k \in Jobs, status[k] \in {"running", "fulfilled"},
             call[k].kind \in {"decrypt", "receive"}
      PROVE  Message(k).counter \in Nat
  <2>1. CallOK(Fixed, call[k])
    BY <1>7, <1>8 DEF ReadAssumptions, PreKeyAssumptions, KeyAssumptions
  <2> QED  BY <1>8, <2>1 DEF CallOK, MessageOK, Message
<1>9. AllRead'
  BY <1>4, <1>5 DEF ReadInv, AllRead, StoredReads
<1>10. ReadKept'
  <2> SUFFICES ASSUME NEW k \in Jobs, ReadBy(k)'
               PROVE  records'[number[k]] # None /\ ReadFor(records'[number[k]], Message(k))
    BY <1>3 DEF ReadKept, Message
  <2>1. status[k] \in {"running", "fulfilled"} /\ call[k].kind \in {"decrypt", "receive"}
    BY <1>3 DEF ReadBy
  <2>2. CASE k = j
    BY <1>2, <1>4, <1>5, <2>1, <2>2 DEF StoredReads, Message
  <2>3. CASE k # j
    <3>1. records[number[k]] # None /\ ReadFor(records[number[k]], Message(k))
      BY <1>6, <2>3 DEF ReadInv, ReadKept
    <3>2. CASE number[k] = a
      <4>1. RecordGoes(records[a], c.value) /\ c.value # None
        BY <1>5, <3>1, <3>2 DEF StoredReads
      <4>2. ReadFor(c.value, Message(k))
        BY <1>8, <2>1, <3>1, <3>2, <4>1, ReadForStays
      <4> QED  BY <1>4, <3>2, <4>1, <4>2
    <3>3. CASE number[k] # a
      BY <1>4, <1>7, <2>1, <3>1, <3>3
    <3> QED  BY <3>2, <3>3
  <2> QED  BY <2>2, <2>3
<1>11. ASSUME NEW k \in Jobs \ {j}, ReadBy(k), Message(k) = Message(j),
              call[j].kind \in {"decrypt", "receive"}
       PROVE  FALSE
  <2>1. status[k] \in {"running", "fulfilled"} /\ call[k].kind \in {"decrypt", "receive"}
    BY <1>11 DEF ReadBy
  <2>2. call[k].address = call[j].address
    BY <1>1, <1>7, <1>11, <2>1 DEF ReadAssumptions, OneSender, Message
  <2>3. number[k] = a
    BY <1>1, <1>2, <1>7, <2>1, <2>2
  <2>4. records[a] # None /\ ReadFor(records[a], Message(k))
    BY <1>11, <2>3 DEF ReadInv, ReadKept
  <2> QED  BY <1>5, <1>11, <2>4 DEF StoredReads, Message
<1>12. ReadApart'
  <2>1. ReadBy(j)' => call[j].kind \in {"decrypt", "receive"}
    BY <1>3 DEF ReadBy
  <2>2. \A k, l \in Jobs \ {j} : ReadBy(k) /\ ReadBy(l) /\ Message(k) = Message(l) => k = l
    BY DEF ReadInv, ReadApart
  <2>3. \A k \in Jobs : Message(k)' = Message(k)
    BY <1>3 DEF Message
  <2> QED  BY <1>6, <1>11, <2>1, <2>2, <2>3 DEF ReadApart
<1>13. ReadReturned'
  <2> SUFFICES ASSUME NEW k \in Jobs, status'[k] = "fulfilled",
                      call'[k].kind \in {"decrypt", "receive"}
               PROVE  ReadBy(k)'
    BY DEF ReadReturned, Fulfilled
  <2>1. status[k] = "fulfilled" /\ k # j
    BY <1>1, <1>3
  <2>2. ReadBy(k)
    BY <1>3, <2>1 DEF ReadInv, ReadReturned, Fulfilled
  <2> QED  BY <1>6, <2>1, <2>2
<1> QED  BY <1>9, <1>10, <1>12, <1>13 DEF ReadInv

\* Every step keeps the invariant, while there is room.
LEMMA NextKeepsReading ==
  ASSUME ReadAssumptions, JobsInv, KeyInv, RecordsHaveRoom, ReadInv, [Next]_vars
  PROVE  ReadInv'
<1>1. ASSUME NEW j \in Jobs, NEW c \in Calls,
             Request(j, c) \/ DeleteAllSessions(j, c)
      PROVE  ReadInv'
  BY <1>1, CallKeepsReading
<1>2. ASSUME NEW j \in Jobs, Handler(j)
      PROVE  ReadInv'
  BY <1>2, HandlerKeepsReading
<1>3. ASSUME NEW j \in Jobs, Begin(j) \/ RefuseLoad(j)
      PROVE  ReadInv'
  BY <1>3, BeginKeepsReading, RefuseKeepsReading
<1>4. ASSUME NEW j \in Jobs, NEW c \in pending[j], Answer(j, c) \/ Refuse(j, c)
      PROVE  ReadInv'
  <2>1. CASE Refuse(j, c)
    BY <2>1, RefuseKeepsReading
  <2>2. CASE Answer(j, c) /\ c.write = "storeSession"
    BY <2>2, StoreKeepsReading
  <2>3. CASE Answer(j, c) /\ c.write # "storeSession"
    <3>1. /\ pending' = [pending EXCEPT ![j] = @ \ {c}]
          /\ UNCHANGED <<status, number, call, work, records>>
      BY <2>3 DEF Answer, queues
    <3> QED  BY <2>3, <3>1, OtherAnswerKeepsReading
  <2> QED  BY <1>4, <2>1, <2>2, <2>3
<1>5. CASE UNCHANGED vars
  <2>1. UNCHANGED <<status, number, call, work, pending, records>>
    BY <1>5 DEF vars, queues, storage
  <2>2. ASSUME NEW k \in Jobs
        PROVE  /\ ReadBy(k)' <=> ReadBy(k)
               /\ k \in Fulfilled({"decrypt", "receive"}) => ReadBy(k)
    BY <2>1 DEF ReadBy, ReadInv, ReadReturned
  <2> QED  BY <2>1, <2>2, QuietStepKeepsReading DEF Fulfilled
<1> QED  BY <1>1, <1>2, <1>3, <1>4, <1>5, StopKeepsReading DEF Next

\* At the start nothing was read.
LEMMA InitReadInv ==
  ASSUME ReadAssumptions, Init
  PROVE  ReadInv
<1>1. records = Start /\ \A j \in Jobs : status[j] = "new"
  BY DEF Init, Lock!Init
<1>2. \A j \in Jobs : ~ReadBy(j)
  BY <1>1 DEF ReadBy
<1>3. AllRead
  BY <1>1 DEF ReadAssumptions, AllRead
<1>4. ReadReturned
  BY <1>1 DEF ReadReturned, Fulfilled
<1> QED  BY <1>2, <1>3, <1>4 DEF ReadInv, ReadKept, ReadApart

\* No message is handed to the application twice: not by calls that were queued
\* together, in the session or in the PreKeyWhisperMessage that brings it, and
\* not by a call made again after one that failed or was cut off by a stop.
\* A message is handed out when the record in which it was read is stored, and
\* no session of the device reads it from then on.  That is as long as no
\* record is full: when the session of a message is removed for a new one, a
\* PreKeyWhisperMessage that comes again makes it again.
THEOREM JobsReadAtMostOnce ==
  ASSUME ReadAssumptions
  PROVE  Spec /\ []RecordsHaveRoom => []ReadAtMostOnce
<1>1. PreKeyAssumptions /\ KeyAssumptions
  BY DEF ReadAssumptions, PreKeyAssumptions
<1>2. KeyInv /\ JobsInv /\ [Next]_vars => KeyInv'
  BY <1>1, NextKeepsKeys
<1>3. Init => KeyInv
  BY <1>1, InitKeyInv
<1>4. Spec => []JobsInv
  BY <1>1, AlwaysJobsInv DEF KeyAssumptions
<1>5. JobsInv /\ KeyInv /\ RecordsHaveRoom /\ ReadInv /\ [Next]_vars => ReadInv'
  BY NextKeepsReading
<1>6. Init => ReadInv
  BY InitReadInv
<1>7. ReadInv => ReadAtMostOnce
  <2> SUFFICES ASSUME ReadInv,
                      NEW j \in Fulfilled({"decrypt", "receive"}),
                      NEW k \in Fulfilled({"decrypt", "receive"}),
                      Message(j) = Message(k)
               PROVE  j = k
    BY DEF ReadAtMostOnce
  <2>1. j \in Jobs /\ k \in Jobs
    BY DEF Fulfilled
  <2>2. ReadBy(j) /\ ReadBy(k)
    BY DEF ReadInv, ReadReturned
  <2> QED  BY <2>1, <2>2 DEF ReadInv, ReadApart
<1> QED  BY <1>2, <1>3, <1>4, <1>5, <1>6, <1>7, PTL DEF Spec
=============================================================================
