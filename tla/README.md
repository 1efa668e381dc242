# A verification of signal-protocol

TLA+ modules, TLC configurations and TLAPS proofs about the Signal library of this
repository. Of the JavaScript (`src/*.js`): the session lock, the double ratchet,
session records, session building, two parties that use them over a network that
loses, repeats, delays and reorders messages, and the operations of one party step
by step, over a storage that fails and a process that stops. Of the C code below it
(`native/`): the two field implementations, the scalars, the curve, the signatures
and SHA-512.

## The system

The library is called by an application, which gives it a *storage* (the
interface of `test/InMemorySignalProtocolStore.js`) and carries messages.
Everything runs on one event loop; what makes it concurrent is that every
storage and crypto call is a promise, so operations interleave at each of them.

| Component | State it keeps | Operations | Talks to |
|---|---|---|---|
| `SessionLock.js` | `jobQueue`: number → last promise | `queueJobForNumber` | called by every operation of the builder and the cipher |
| `SessionCipher.js` | none of its own; loads, changes and stores a record | `encrypt`, `decryptWhisperMessage`, `decryptPreKeyWhisperMessage`, `closeOpenSessionForDevice`, `deleteAllSessionsForDevice`, two queries | lock, storage, record, builder, crypto |
| `SessionRecord.js` | sessions by base key, identity key, registration id | `updateSessionState`, `archiveCurrentState`, `closeSession`, pruning, look-ups | cipher, builder |
| `SessionBuilder.js` | none of its own | `processPreKey`, `processV3`, `initSession` | lock, storage, record, crypto |
| storage (external) | identity, trusted identities, prekeys, signed prekeys, records | load, store, remove | cipher, builder |
| `crypto.js`, `Curve.js`, `curve25519_wrapper.js` | none | ECDHE, HKDF, HMAC, AES, signatures | native code |
| `native/curve25519-donna.c` | none | `curve25519_donna`: the Montgomery ladder and its field | called for key agreement and public keys |
| `native/ed25519/fe_*.c`, `pow*.h` | none | the field of the Edwards curve | curve, signatures |
| `native/ed25519/sc_*.c`, `sha512/` | the hash context: bytes so far, values, count | scalars modulo the group order, SHA-512 | signatures |
| `native/ed25519/ge_*.c`, `ge_*.h`, `base*.h` | none | points: formulas, encodings, multiples | signatures |
| `native/ed25519/sign*.c`, `open.c`, `additions/` | none | signatures with Montgomery keys | wrapper |
| `curve25519_worker_manager.js` | `jobs` table, job id | `postMessage`, `onmessage`, `startWorker`, `stopWorker` | not used by `main.js` |
| `NumericFingerprint.js`, `SignalProtocolAddress.js`, `KeyHelper.js`, `helpers.js` | none | pure functions | application |

What is hard about it, and the property each component owes:

- **Lock.** Serial and in call order per number, whatever the outcome of the
  jobs and whenever their clean-ups run; no starvation behind a rejected job.
- **Ratchet.** Every message is read once at most; a message sent and not read
  stays readable through any reordering; keys are used once and erased; a
  receiver never derives keys of messages that do not exist.
- **Record.** One open session at most, the registration id in step with it;
  limits on chains and sessions that hold and never hang the pruning loops.
- **Builder.** Sessions are made with trusted identity keys only; a one-time
  prekey serves one session; simultaneous sessions do not lose messages.
- **Operations.** Load, compute, store: a failure or a stop in between must leave
  the store as one whole operation left it, and hand out nothing twice.
- **Field.** Every sum and product stays within the limbs, is the right number
  modulo the prime, and has one encoding.
- **Scalars, hash.** Reductions end at the least scalar; the padding fits whatever
  the length, and the hash does not depend on how the data was fed.
- **Curve, signatures.** The formulas hold for all pairs of points, the recodings of
  scalars lose no carry, and signing and verifying agree for keys without a sign.

`PROJECT.json` lists all hazards, at their lines.

## Modules

| Module | Models | Notes |
|---|---|---|
| `JobQueue` | what `SessionLock.js` promises | abstract: a job runs once all jobs queued before it for its number have settled |
| `SessionLock` | `SessionLock.js` | promises, table, clean-up; implements `JobQueue` |
| `SessionLockProofs` | | theorems about `SessionLock` |
| `Crypto` | `crypto.js`, `Curve.js` as terms | key pairs named by their public key, an agreement is the set of its two keys, a derived key is the sequence of the secrets that went into it |
| `Ratchet` | the ratchet in `SessionCipher.js` | operators on a session |
| `SessionRecord` | `SessionRecord.js` | operators on a record |
| `SessionBuilder` | `SessionBuilder.js` | X3DH; the records `processPreKey` and `processV3` make |
| `SignalSession` | parties with storages, a server, a network | one action per operation; composes the above |
| `SessionOperations` | what each operation makes of a record, `SessionCipher.js` and `SessionBuilder.js` | one function from the record found to the records it may leave, with the checks that make the code throw |
| `SessionStore` | what the operations promise about the database | abstract: a stored record changes by one whole operation |
| `SessionJobs` | `SessionCipher.js`, `SessionBuilder.js` step by step, on the queues of `JobQueue` | one action per handler, per answer of the storage, per fault; implements `SessionStore` |
| `SessionJobsProofs` | | theorems about `SessionJobs` |
| `FieldElement` | `fe_*.c` | limbs, the order of the carries, bytes; parameterised by the sizes of the limbs |
| `DonnaField` | the field of `curve25519-donna.c` | extends `FieldElement` by the other implementation |
| `FieldChains` | `pow225521.h`, `pow22523.h`, `crecip` | over any squaring and product |
| `Scalars` | `sc_reduce.c`, `sc_muladd.c` | parameterised by the number and size of the limbs |
| `Sha512` | `md_helper.c`, `sha2big.c`, `additions/sha512.c` | parameterised by word, block and rounds |
| `Edwards` | `ge_*.c`, `ge_*.h`, `base.h`, `base2.h` | over any field |
| `Montgomery` | the ladder of `curve25519-donna.c` | over any field |
| `Signatures` | `sign.c`, `open.c`, `sign_modified.c`, `curve_sigs.c`, `compare.c` | over points and a hash |
| `MCFieldArithmetic`, `MCCurveArithmetic` | | the native modules on small numbers, with the reference definitions they are checked against |
| `SessionRecordProofs` | | lemmas about what the record looks at in a session |
| `RatchetProofs` | | lemmas about what every operator makes of a chain, a session and a record |
| `SignalSessionProofs` | | theorems about the storages of `SignalSession`: open sessions, identities |
| `SignalTypeProofs` | | theorems about its types and limits, and what a step does to the sessions |
| `SignalKeyProofs` | | theorems about its keys |
| `SignalReadProofs` | | theorems about the two ends of a session |
| `MCSessionLock`, `MCSignalSession`, `MCSessionJobs` | | symmetry sets, quiescence, the calls and the records of the start |

### Correspondence

*Lock.* A job stands for its promise `runCurrent`. `QueueJobForNumber` is the whole
of the function: it reads the table into `previous` (`runPrevious`), puts the job
there and registers the clean-up. `Start`, `Settle` and `CleanUp` are what the
event loop does later. Reactions of one promise run in the order they were
registered, so the clean-up of a fulfilled job runs before the job chained to it
starts; a rejected one has no clean-up (`Passed`). `ticket` and `calls` are history.
`TypeOK` has the types and, as `QueuesApart`, that the queues do not mix: the job in the
table under a number, and the one a job waits for, were queued for that number.

*Sessions.* A session is a record with the fields of the JavaScript object; the
chains, which the code stores under the ephemeral keys in the object itself, are
the field `chains`. `fillMessageKeys` adds keys one by one until the counter or
the limit is reached; `FillMessageKeys` is the closed form. Errors are guards:
`CanFill`, `CanStepRatchet`, `Decrypts`, `CanUpdateSessionState` say when the code
does not throw, and an operation that throws stores nothing. There are two exceptions.
`RejectNewSession`: `processV3` saves the identity before the message is verified.
`DecryptLeavingPreKey`: `decryptPreKeyWhisperMessage` stores the record with the new
session and then removes the one-time prekey; when the storage refuses that, or the process
stops between the two, the session is stored and the prekey is still held. The history
variable `leftover` has these prekeys, at most `MaxLeftover` of them. `delivered` are the
messages that were decrypted in a session that was stored, whether or not the
plaintext came back to the application.

*Operations as one step.* In `SignalSession` each operation is one step. For the records
`SessionJobs` justifies this: its theorem `JobsImplementStore` says that the record of
an address changes by whole operations only. Operations on different addresses share the
prekeys and the trusted identities, for which no refinement is stated. An operation writes
three things at most, the identity, the record and the removal of a prekey, in this order
(`processPreKey` the first two at once). What a stop or a refusal after the first leaves is
`RejectNewSession`'s state, and after the second `DecryptLeavingPreKey`'s. A removal that
takes effect a while after the record was stored commutes with what happens between:
the server gave the prekey to one peer, so only messages on this address name it, and they
wait in this address's queue. All other failures of the storage are in `SessionJobs`
only, and so are the steps between.

*Operations step by step.* In `SessionJobs` a job is a call of the application, on the
queue of its device; `Request`, `Begin` and the settling of a job are the actions of
`JobQueue`, which `SessionLock` is proved to implement. What a handler does between
two calls of the storage is one action: `work[j].step` says where the chain of promises
is, the other fields of `work[j]` are what its closures hold, `pending[j]` are the
writes it has asked for. A write takes effect when the storage answers it (`Answer`), and
the chain goes on when all are answered; loads are answered in the step of the
handler that uses them. `decryptWhisperMessage` keeps its two loads (`TrySessions`,
`StoreSecondLoad`), `decryptPreKeyWhisperMessage` its four parts (`LoadRecord`, `ProcessV3`,
`DecryptFirst`, `RemoveUsedPreKey`), `processPreKey` the check and the two writes it makes at
once. `Promise.all` is rejected as soon as one of its writes is: a job may have
settled while another write of it is still to come, and `Answer` allows for that.
`deleteAllSessionsForDevice` throws at its first statement and queues nothing.

*Faults.* `RefuseLoad` and `Refuse` fail a call of the storage, which rejects the promise
of the job; `Stop` ends the process between any two steps, with the writes that are not
answered lost and the storage as it is. `MaxFaults` bounds them, `Refusable` says which
calls can fail.

*Network and server.* `network` keeps every message ever sent, and a step may hand
any of them to its addressee, so loss, duplication, delay and reordering need no
actions. The server hands out each one-time prekey once and a device always has
one, which `processPreKey` requires (`device.preKey.publicKey`).

*Native code.* Every module is a set of functions, named as in the source. Numbers are
integers, limbs are functions from indices to integers, and what the C code writes out
ten or twenty times is one definition over the indices. Sizes are parameters: the
exponents of the limbs, their number, the constant 19, the word and the block of the
hash. Constant-time code (masks, `fe_cmov`, conditional swaps) is modelled by what it
computes. `Edwards` takes its field as operators: `MCCurveArithmetic` instantiates it
once with a small prime field, and once with the bounds of limbs, where a product is
the range of its limbs and must be given factors within the bounds the comments
state. The state of a run of these modules is one call with its arguments and result.

*Application.* `RotateSignedPreKey`, `Reinstall` and `AcceptIdentity` are what an
application does around the library; the repository has no code for them.

*Abstractions.* AES, the byte layout of HKDF, JSON and protobuf are left out: no
property tells their bytes apart. The MAC covers the message key and both
identities; the network does not alter messages, so the rest of what it covers is
equal by construction. Times (`Date.now()`) are represented by their order, a later
closing after an earlier one; `oldRatchetList` is in the order of its times. Base
keys and ephemeral keys are drawn from a counter per party; the code draws 32
random bytes.

Operators with a comment that starts with *Fault* are not part of the model: each
is a slip the code could have, and shows that a property notices it.

## Runs

| Run | Configuration | Shows |
|---|---|---|
| `session_lock` | 4 jobs, 2 numbers, fair event loop | `MutualExclusion`, `InCallOrder`, `ImplementsJobQueue`; `EveryJobSettles`, so no job is starved or left behind; `EntryReleased` |
| `session_safety` | 2 parties, 1 prekey each, 3 messages each | `OneOpenSession`, `NoKeyReuse`, `KeysErased`, `ReceiverNotAhead`, `EveryMessageReadable`, `ClosedForever` |
| `session_limits` | the same, all limits 1 | `WithinLimits`, `OpenSessionCanSend`, `ReadOnce` |
| `session_identity` | 2 installations each, 2 signed prekeys, 1 message each | `OneIdentity`, `NewSessionsTrusted` (and that no message replaces a trusted key), `EveryMessageReadable` |
| `session_live` | 2 messages each, fair network | `EveryMessageRead` |
| `session_jobs` | 3 calls, 2 devices, 2 faults | `NoMessageKeyTwice`, `ReadAtMostOnce`, `PreKeyKept` (a prekey that is gone has its session), `PreKeyOnce` (a prekey that is there has none, but after a stop or a refusal), `SessionIOSerialized`, `ImplementsStore`; no deadlock before every call is over |
| `native_field` | limbs of 1 to 5 bits, 2 to 10 of them; words of 8 bits | `ProductsAgree`, `BytesAreCanonical`, `BytesAreRead`, `ScalarsAreReduced`, `ChainsAreFixedPowers`, `HashIsOfAllData`, `CompressionIsStandard` |
| `native_curve` | a curve of 56 points over 61 elements | `AdditionLaw`, `EncodingRoundTrip`, `MultiplesOfPoints`, `LadderIsMultiple`, `SignaturesVerify`, `VerifyIsEquation`; `LimbsWithinBounds` over the source's sizes |
| `serial_storage` | violation | a rejected `processPreKey` still stores its record while the next job of the device runs, against the comment of `SessionLock` |
| `delete_all` | violation | `deleteAllSessionsForDevice` deletes nothing, against its comment |
| `closed_session_steps` | violation | a closed session steps its ratchet, against the comment of `closeSession` |
| `old_chains_lost` | violation | fewer old chains are kept than the comment of `removeOldChains` says |

### Bounds, and why they are enough

- Four jobs on one number are needed for the clean-up to be wrong: one that is
  cleaned up, one chained to it that is running, one that finds the table empty.
- One prekey each gives a record of two sessions, made at the same time or one
  after the other, and the closing of the first by the second.
- Three messages each make two full turns of the ratchet in both directions, which
  retires a receiving chain, completes it through `previousCounter` and deletes
  a sending chain; and two skipped messages on one chain.
- `MaxLeftover` is 1: each of the passing runs of `SignalSession` has one prekey, of one party,
  whose removal fails. `ReadOnce` and `KeysErased` except the messages of the session made
  with it (`OfLeftoverPreKey`): once that session is pruned its first message makes it again.
- With every limit at 1 these few messages prune chains, sessions and keys in most
  behaviours; with 5, 40 and no limit of keys, as in the code, they never do, so
  `EveryMessageReadable` has no exception there. 1000 keys per chain, the default of
  `messageKeysLimit`, is as far out of reach as no limit.
- `session_jobs`: three calls are one that fails or is cut off, one made again, and one
  of another device or another operation between them; two faults are a failure and a
  stop. The writes are answered in every order. The database
  starts with an established session, on which two messages are under way, and two
  PreKeyWhisperMessages of a second session of the same device and one of the other
  device can come. `MaxSessions` is the 40 of the code, out of reach: with a smaller one a
  session could be pruned between a stop and the second reading of the message that
  made it, whose prekey is still there, and `ReadAtMostOnce` would not be expected. (This
  is what `OfLeftoverPreKey` excepts in `session_limits`.)
- `native_field`: `Ten` has the ten limbs, the alternating sizes and the 19 of the source,
  so each product of two limbs lands where it does there. `Two` and `Four` are small
  enough to enumerate limbs up to 1.65 times the radix, the bound the comments of the
  source give, and every integer below the radix of the encoding. Powers are sets of bits
  of the exponent, and so the full exponents of the source. With blocks of 8 bytes
  the totals meet every length modulo the block; the three parts the hash is fed in have
  lengths below, at and above one, two and four blocks.
- `native_curve`: the prime 61 is 5 modulo 8 and the curve has 8 times a prime points, as
  in the source; the domain of the formulas is all pairs of points and the identity
  and the points of small order are among them. The recodings have four digits and ten
  bits, enough for carries that run through several digits and into the last one.
  `LimbsWithinBounds` counts in fractions of the real limbs.
- The two parties are symmetric, and so are jobs and numbers; symmetry is used for
  safety only.

### Fairness

`SessionLock`: the event loop runs each ready reaction (`Start`, `CleanUp`), and a
running job's promise settles (`Settle`), which the storage has to grant; a storage
call that never answers does block its number for ever. `SignalSession`:
`FairSpec` says that the network, in the end, hands over some readable message its
addressee has not read. Nothing is assumed about when parties send or close.
`SessionJobs` has safety properties only; that its jobs come to an end is the absence
of a deadlock before every call is over, and the liveness of the lock above.

## Proofs

`SessionLockProofs` proves, for any jobs and numbers, type correctness, call order,
mutual exclusion and the refinement of `JobQueue`. The only assumption is that
`None` is neither a job nor a number. Call order is not inductive: whether a job may
start depends on one promise, `previous`, and on an absent one when the table was
empty. `LockInv` adds what makes this enough: tickets are distinct (`TicketsOK`),
the table holds the last job called for a number, or nothing once all have settled
(`TableOK`), and a job is chained to the one called just before it (`ChainOK`). The
clean-up keeps `TableOK` because it compares before it deletes.

`SignalSessionProofs` proves, for any parties, limits, prekeys and bounds,
`OneOpenSession`, `OneIdentity` and `NewSessionsTrusted`. None of them is inductive
alone. `StorageInv` says of each stored record that its sessions are finitely many,
each filed under its own base key (`RecordOK`), and that the registration id is
there exactly when a session is open. The base key matters because
`updateSessionState` files a session under it: only then does storing a session
again replace it instead of adding a second open one. Finiteness matters because
the time of a closing has to be later than the others, or the stamp could be the
-1 of an open session (`NowIsPositive`, from `LatestExists`).

The argument has three layers. `SessionRecordProofs` shows that the ratchet leaves
alone what the record looks at in a session (`SameHead`), and what
`updateSessionState` and `archiveCurrentState` keep, from their own checks
(`CanUpdateSessionState`). Each operation of `SignalSession` is then a `StorageStep`:
one record is stored, it is sound, and its new sessions have a trusted identity; and a
trusted key is replaced by the user only. The theorems follow from that alone, without unfolding an operation again. These proofs
use no assumption on the constants of `SignalSession`.

`SignalTypeProofs` proves `TypeOK`, `ClosedForever`, `OpenSessionCanSend` and
`WithinLimits`, again for any constants. Types alone are not inductive: the ratchet
turns only if the sending chain is where `ephemeralKeyPair` says, and a turn makes a
chain that is new only if the key pair drawn for it is. `TypeInv` therefore says that
every stored session is *sound* over the key pairs drawn so far (`SessionOK`):
its own pairs are among those its owner drew, the others are the peer's (`KeysOK`),
the last secret in its root key is the agreement of its two current pairs, its
sending chain has that root key as seed and no key left over, and the chain of
`lastRemoteEphemeralKey` grew from the root key one agreement earlier (`ChainsOK`).
`RatchetProofs` proves that each operator keeps this: `CalculateRatchetIs`,
`MaybeStepRatchetIs` (a turn, `Turned`), `DecryptedIs`, `EncryptedIs`,
`PendingSessionIs`, `ResponderSessionIs`, `RemoveOldChainsThins` and those of the
record (`UpdatedIs`, `ArchivedIs`, `AddedIs`). In `SignalTypeProofs` every action becomes
a `Step`: one session is started, sent from, or read in, the others are
pruned at most (`Kept`). The assumptions used say
that limits, ids and bounds are numbers (`LimitAssumption`, `RecordAssumption`,
`PartyAssumption`), that a record may have a session at all (`MaxSessions` is not 0), that
`None` is neither a party nor a key (`KeyAssumption`), and that a device hands out its
signed prekey from the start. `ClosedForever` needs that a
session made anew is under a base key that no stored session has, which for
`processPreKey` is `NewKeyIsFree` and for `processV3` its own check
(`HeaderKeyIsFree`); `WithinLimits` needs that only one session is open, so that
`removeOldSessions` finds one to remove.

`SignalKeyProofs` goes on from `Step` to `KeyStep`, which keeps of a step only what it
does to root keys, key pairs and the message keys a chain still gives, and proves
from that:

- `NoKeyReuse`, by `SendInv`: root keys and key pairs are told apart between all stored
  sessions (`SlotsApart`), and the messages sent under a session's root key are
  its owner's, with counters its sending chain has passed. A root key names the
  secrets that led to it, the last with a key pair just drawn, so it is new
  when it is made, and a chain is never started twice.
- `KeysErased` and `ReadOnce`, by `RootsFree`, that a prekey which is held and was not left
  behind is in no stored root key, and by `KeyInv`, which adds what a party has *taken*: the
  seeds of the messages it has read and of the receiving chains it stores, those apart
  that began with a prekey left behind (`Tainted`). No root key and
  no held prekey leads to one of them again (`TakenAway`), no two chains have
  one seed (`ChainsApart`), a chain a message was read from does not give its key
  any more (`KeysSpent`), and the same for a sender and the chains it has sent
  on (`SentAway`). That a seed "leads back" is a question of prefixes: seeds only
  grow, by agreements with a new key pair on one side.
- `ReceiverNotAhead`, by `AheadInv`. A chain is moved by the counter of a message on it and
  by `previousCounter` of a message on the chain two agreements later, which
  may come late and say less than the chain has reached. `SessionsCovered` says what
  a session can say, `MessagesCovered` what every message, delivered or not,
  does say: all keys up to there are those of messages that were sent.

`SignalReadProofs` proves `EveryMessageReadable`, as long as no limit binds and every used prekey
is removed. The second is the hypothesis `[]NothingLeft`: with a prekey left behind, TLC finds
the property too as long as no session is pruned, but a pruned session could come to
life again from its first message, without the turns it had made. The first is
the hypothesis `[]LimitsNotReached`, which says that no session has as many retired chains
as it may keep, and no message a counter as high as the keys a chain may store. Both
hold in every state of the runs `session_safety` and `session_identity`, with the 5 and
no limit of the code; what happens beyond is what `removeOldChains` and `fillMessageKeys`
are for, and messages are lost then. The number of sessions of a record may reach its
limit: the property speaks of sessions that are still there. Again the property is far from
inductive. It says that a decryption would succeed, so the invariant has to know, for
every message under way, what its addressee has stored for it (`ReachedFrom`): its key on
a stored chain, or the root key one agreement before its chain. The second case is
what breaks easily, and needs both ends at once:

- `Ladder`: of the two ends of a session one has the other's root key with exactly one more
  agreement, of the two current key pairs, and the other has no chain for that key pair
  yet. So the chain that a turn makes is the one the peer sends on. When both parties
  open sessions at the same time each has two, one on each side of two ladders, and
  `Agreement` tells them apart by the base key and the one-time prekey.
- `MessagesApart` and `PreviousOK`: messages on the chain before have counters up to the
  `previousCounter` of those on the chain after, so filling the chain that is left, up to
  `previousCounter`, keeps the keys of all that may still come on it.
- `HeldUnanswered`: with a one-time prekey that is still held nobody got further than the
  first chain of the side that started; so a session made from a header starts the same
  ladder, and none of its messages was read or answered before.
- `OneAgreement`: a base key is agreed on once, so that a header whose base key is known
  (`getSessionByBaseKey`) belongs to the session that has it, and one whose base key is
  not known to none.

`EndStep` says of every action what it does to the ends: all are kept (`Holds`: chains are
neither lost nor shortened while no limit binds), one is started, one sends, or one reads,
in place (`ReadsIn`) or with a turn (`TurnsOn`). From `EndsInv` to the property it remains
that the code finds the session: it is tried (`FirstIsTried`, `StoredReads`), or is that of
the base key (`AgreeingReads`), or `processV3` makes it and the record takes it, open and
not pruned at once (`AddedAccepts`, `OpenStays`). This uses one assumption more, that `None`
is not a number (`NumberAssumption`): a header has a registration id. That the network hands
the message over is fairness, and `EveryMessageRead` stays with TLC.

`SessionJobsProofs` proves `SessionIOSerialized` and the refinement of `SessionStore`, for any
jobs, devices, calls, start of the database, and bound on faults, with every call of the
storage failing at will but `saveIdentity`. That condition is needed: the run
`serial_storage` shows what happens without it. Neither property is inductive: `JobsInv`
adds that a job which runs finds all before it in its queue settled (`OrderOK`), so that two
jobs of a device never run together (`OneRuns`); that a job has done nothing before it
runs (`UnbegunOK`); that what the closures of a running job hold was made of the record
that is stored *now* (`HeldOK`); and that a record being stored is one operation on the
record stored now, by a job that runs and has no other write open but `saveIdentity`
(`WritesOK`). A stored record replaces the one the others hold pieces of, which is why
`OneRuns` carries `HeldOK` over `Answer` (`AnswerKeeps`), and a failed write must not
let a job settle while its record is under way, which is why `RefuseKeeps` needs the
condition on `saveIdentity`. The assumptions on the constants (`JobsAssumption`) say only
that jobs are numbers and calls are for the devices of the database.

It also proves `NoMessageKeyTwice`, from the same invariant and from what `RatchetProofs`
says of the operators on one session. `ChangeIs` says what any call may do to a record:
every session of it sends on as it did, or further on the same root key, but one
that may have a root key with a key pair its job drew (`Changed`). `KeyInv` then says
that stored records are sound over the keys that are in use, where a job's own come
into use with the record it stores (`InUse`); that no two sessions, of whatever devices,
send with one root key (`SeedsApart`); that no session is behind a message that was
returned with its root key (`SentOK`); and that a running `encrypt` is storing the very
session its message was made from (`EncryptingJob`). The moment a key is given is
`Answer`: before it the message is not returned, and when the write fails or the process
stops it never is. Only there can two messages meet, and there the stored session
moves past the key (`EncryptedKeepsKeys`). This theorem needs more of the constants
(`KeyAssumptions`): the party and its peer are two, calls and the database of the start
are made of keys that no job draws, the keys the peer names as its ratchet, base and
signed keys are the peer's, the records of the start are sound (`SoundRecord`), and no two
of their sessions send with one root key. `MCSessionJobs` is such an instance: TLC evaluates
`KeyAssumptions` to true on it, and finds `KeyInv` invariant for two jobs, with numbers cut to
0..7 to make the sets of keys finite and the quantifiers over map keys bounded to match.
(That check is not among the runs: it replaces `Nat`.)

`PreKeyKept` says of a prekey that was removed that a session made with it is stored; it
does not say that the message which brought it can be read again, which it cannot once
the record is stored. The proof follows the session that used the prekey, which is in the record the
running job works on, then in the one it asks to store, and, before the job asks to remove
the prekey, in storage (`PreKeyInv`: `BringsSession`, `StoresSession`, `RemovesOK`). From
then on no change loses it (`KeepsSessions`, `ChangeKeeps`). A change does lose one when the
record is full: then the session pruned may be the one of the prekey, and the code means it
so. The theorem is therefore of the behaviours in which no record is full
(`[]RecordsHaveRoom`): any number of devices, calls, stops and failures, as long as each
record stays below `MaxSessions` sessions. In the run `session_jobs` it always does.

`ReadAtMostOnce` needs to say when a session cannot read a message any more (`Spent`): its
root key is at least as long as the one the message's chain was made from, so that no turn
of the ratchet makes that chain again, and no receiving chain it has from that root key gives
the key of the message. Reading takes a session that has not spent the message to one that
has (`ReadStep`), every operation on a session or a record keeps what is spent (`Goes`,
`RecordGoes`), and only the session a message belongs to can read it: the second secret of
a root key, the agreement of an identity key with the base key, tells sessions apart (`Tag`,
`TagsApart`). `ReadInv` adds that two jobs which stored the reading of one message are one
job (`ReadApart`), which `Answer` keeps because the record a job stores was made of the one
stored now, where the message was not spent. Here too `[]RecordsHaveRoom` is needed:
a `PreKeyWhisperMessage` that comes again after its session was pruned makes the session
again, if it used no one-time prekey or one that was left behind, and is read again. `ReadAssumptions` asks beyond the
assumptions above that a message comes from one device (`OneSender`: the queue that
protects a session is that of the device), and that the sessions of the start satisfy what
reading relies on (`SessionReads`). Both hold in `MCSessionJobs`, and TLC finds `ReadInv`
invariant there for two jobs, in the same way as `KeyInv`.

Only model-checked: liveness (`EveryMessageRead`, `EveryJobSettles`, `EntryReleased`), which
is out of the prover's reach, and all of the native code, which is checked with small numbers
by enumeration. What a product of the real sizes computes is not
proved, as it is an induction over limbs and carries; that its factors stay within the bounds
the comments give for 64 bits is checked for the real sizes.

## Disagreements of code and text

The four runs that expect a violation have their lines in `PROJECT.json` under
`findings`. Three more were met:

- `native/ed25519/fe_isnonzero.c:4-5` says "return 1 if f == 0, return 0 if f != 0", which is
  the opposite of the name and of the code: it returns what `crypto_verify_32` does, 0 if
  f is 0 and -1 if not. Callers compare with 0 and go by the name.
- `src/SessionRecord.js:250` says "Retain only the last 20 sessions"; the loop below it goes
  by `ARCHIVED_STATES_MAX_LENGTH`, which is 40 (line 10), and counts the open session
  too. `WithinLimits` holds for the limit of the code, for any number in its place, and
  does not hold for 20.
- `native/ed25519/fe_add.c:7-12` asks for limbs within 1.1 times the radix; the formulas of
  `ge_add.h` also add elements that are themselves sums. `LimbsWithinBounds` shows that
  the products take what comes out.

The tables `base.h` and `base2.h` are data: `base` and `Bi` say what their entries are,
(j + 1) 256^i B and the odd multiples of B, and the runs check the functions
that use them on entries computed so. The numbers of the files were compared with these
definitions once, with big integers, and agree.

## Not modelled

- The worker (`curve25519_worker*.js`): not exported by `main.js`. Promises of a worker that
  is stopped are never settled; nothing in the repository says otherwise.
- A storage that fails in `SignalSession` in any other way than not removing a prekey;
  `SessionJobs` has all failures, but records far below their limits.
- A plaintext that is lost because its record was stored and the call failed after that:
  it is how the code works, and nothing in the repository promises otherwise.
- A clock that goes back or stands still: the order of sessions and of old chains is
  that of their times, and the code promises nothing about equal or decreasing ones.
- Two devices of one name that change its identity key at the same time:
  `SessionJobs` has the steps, the devices and the one trusted key, but there is no
  statement in the code or its documents to check.
- AES, HKDF's bytes, protobuf, JSON, the conversions of `helpers.js`, the migration of old
  records: byte layouts, which no property here tells apart.
- `NumericFingerprint.js`, `SignalProtocolAddress.js`: pure functions of two strings.
- `curve25519_wrapper.js`: copies arrays to the compiled code and back.
- The macros of `sph_types.h` for other word sizes and byte orders, SHA-384, the build.

## Plan

1. `PreKeyKept` and `ReadAtMostOnce` when records are full: which messages a pruned
   session takes with it.
2. Lemmas about the native code for any sizes: the value of a product, of a carry and
   of the encoding.
3. A record as a state machine with any clock.
