------------------------------- MODULE Ratchet -------------------------------
(***************************************************************************)
(* The double ratchet of src/SessionCipher.js, as operators on a session:  *)
(* fillMessageKeys, calculateRatchet, maybeStepRatchet, the work of        *)
(* doDecryptWhisperMessage and the chain part of encrypt.                  *)
(*                                                                         *)
(* A session is a record with the fields of the JavaScript object; the     *)
(* chains, which the code stores under the ephemeral keys in the object    *)
(* itself, are its field chains.  A chain has                              *)
(*   chainType    "SENDING" or "RECEIVING"                                 *)
(*   seed         the HKDF output it grew from                             *)
(*   counter      chainKey.counter, -1 before the first key                *)
(*   live         chainKey.key is there                                    *)
(*   messageKeys  the counters whose message keys are stored               *)
(***************************************************************************)
EXTENDS Crypto

CONSTANT MessageKeysLimit  \* options.messageKeysLimit; 0 is no limit

ASSUME LimitAssumption == MessageKeysLimit \in Nat

NewChain(seed, type) == [chainType |-> type, seed |-> seed, counter |-> -1,
                         live |-> TRUE, messageKeys |-> {}]

TooManyKeys(chain) == /\ MessageKeysLimit # 0
                      /\ Cardinality(chain.messageKeys) >= MessageKeysLimit

\* fillMessageKeys does not throw.
CanFill(chain, counter) ==
  ~TooManyKeys(chain) /\ chain.counter < counter => chain.live

\* The counter at which the recursion of fillMessageKeys stops: the one asked
\* for, or the one that uses up the limit.
FillEnd(chain, counter) ==
  LET full == chain.counter + MessageKeysLimit - Cardinality(chain.messageKeys)
  IN  IF MessageKeysLimit # 0 /\ full < counter THEN full ELSE counter

\* fillMessageKeys(chain, counter): advance the chain to counter, storing the
\* keys passed; a chain with too many keys is left as it is, silently.
FillMessageKeys(chain, counter) ==
  IF TooManyKeys(chain) \/ chain.counter >= counter
    THEN chain
    ELSE LET end == FillEnd(chain, counter)
         IN  [chain EXCEPT !.counter = end,
                           !.messageKeys = @ \cup (chain.counter + 1)..end]

\* calculateRatchet(session, remoteKey, sending), with the key pair of
\* currentRatchet; calculateSendingRatchet of SessionBuilder is the same for
\* a sending chain.
CalculateRatchet(session, remoteKey, sending) ==
  LET masterKey == HKDF(session.rootKey,
                        ECDHE(remoteKey, session.ephemeralKeyPair))
      chain == NewChain(masterKey, IF sending THEN "SENDING" ELSE "RECEIVING")
      key == IF sending THEN session.ephemeralKeyPair ELSE remoteKey
  IN  [session EXCEPT !.chains = Put(@, key, chain), !.rootKey = masterKey]

\* Fault: the chain is closed without the keys still to come on it.
RetireWithoutFilling(session, previousCounter) ==
  LET key == session.lastRemoteEphemeralKey
  IN  IF key \notin DOMAIN session.chains THEN session
      ELSE [session EXCEPT !.chains[key].live = FALSE,
                           !.oldRatchetList = Append(@, key)]

\* The receiving chain of the last remote key is completed up to
\* previousCounter, closed, and put on the list of chains to delete later.
RetireReceivingChain(session, previousCounter) ==
  LET key == session.lastRemoteEphemeralKey
  IN  IF key \notin DOMAIN session.chains THEN session
      ELSE LET filled == FillMessageKeys(session.chains[key], previousCounter)
           IN  [session EXCEPT !.chains[key] = [filled EXCEPT !.live = FALSE],
                               !.oldRatchetList = Append(@, key)]

\* Fault: the number of messages is kept instead of the last counter.
RetireSendingChainByCount(session) ==
  LET key == session.ephemeralKeyPair
  IN  IF key \notin DOMAIN session.chains THEN session
      ELSE [session EXCEPT !.previousCounter = session.chains[key].counter + 1,
                           !.chains = Delete(@, {key})]

\* The sending chain is deleted; its counter is what later messages carry as
\* previousCounter.
RetireSendingChain(session) ==
  LET key == session.ephemeralKeyPair
  IN  IF key \notin DOMAIN session.chains THEN session
      ELSE [session EXCEPT !.previousCounter = session.chains[key].counter,
                           !.chains = Delete(@, {key})]

\* maybeStepRatchet does not throw.
CanStepRatchet(session, remoteKey, previousCounter) ==
  /\ remoteKey \notin DOMAIN session.chains
  /\ session.lastRemoteEphemeralKey \in DOMAIN session.chains
  => CanFill(session.chains[session.lastRemoteEphemeralKey], previousCounter)

\* Fault: the new key pair is swapped in after the new sending chain is made.
MaybeStepRatchetSwapLate(session, remoteKey, previousCounter, keyPair) ==
  IF remoteKey \in DOMAIN session.chains
    THEN session
    ELSE LET received == CalculateRatchet(
                           RetireReceivingChain(session, previousCounter),
                           remoteKey, FALSE)
         IN  [CalculateRatchet(RetireSendingChain(received), remoteKey, TRUE)
                EXCEPT !.ephemeralKeyPair = keyPair,
                       !.lastRemoteEphemeralKey = remoteKey]

\* maybeStepRatchet(session, remoteKey, previousCounter); keyPair is what
\* createKeyPair returns.
MaybeStepRatchet(session, remoteKey, previousCounter, keyPair) ==
  IF remoteKey \in DOMAIN session.chains
    THEN session
    ELSE LET received == CalculateRatchet(
                           RetireReceivingChain(session, previousCounter),
                           remoteKey, FALSE)
             swapped == [RetireSendingChain(received)
                           EXCEPT !.ephemeralKeyPair = keyPair]
         IN  [CalculateRatchet(swapped, remoteKey, TRUE)
                EXCEPT !.lastRemoteEphemeralKey = remoteKey]

-----------------------------------------------------------------------------
\* doDecryptWhisperMessage.  A WhisperMessage has ephemeralKey, counter,
\* previousCounter and mac.
Stepped(session, message, keyPair) ==
  MaybeStepRatchet(session, message.ephemeralKey, message.previousCounter,
                   keyPair)

\* doDecryptWhisperMessage returns a plaintext: the ratchet can step, the
\* chain is a receiving one with a key for the message, and the MAC is right.
Decrypts(session, message, ourIdentity, keyPair) ==
  /\ CanStepRatchet(session, message.ephemeralKey, message.previousCounter)
  /\ LET chain == Stepped(session, message, keyPair).chains[message.ephemeralKey]
     IN  /\ chain.chainType = "RECEIVING"
         /\ CanFill(chain, message.counter)
         /\ message.counter \in FillMessageKeys(chain, message.counter).messageKeys
         /\ message.mac = MAC(MessageKey(chain.seed, message.counter),
                              session.remoteIdentityKey, ourIdentity)

\* Fault: a message that decrypts in a closed session opens it again.
DecryptedReopening(session, message, keyPair) ==
  LET stepped == Stepped(session, message, keyPair)
      chain == FillMessageKeys(stepped.chains[message.ephemeralKey],
                               message.counter)
  IN  [stepped EXCEPT
         !.chains[message.ephemeralKey] =
            [chain EXCEPT !.messageKeys = @ \ {message.counter}],
         !.pendingPreKey = None,
         !.closed = -1]

\* The session after it: the message key is gone, and so is pendingPreKey.
Decrypted(session, message, keyPair) ==
  LET stepped == Stepped(session, message, keyPair)
      chain == FillMessageKeys(stepped.chains[message.ephemeralKey],
                               message.counter)
  IN  [stepped EXCEPT
         !.chains[message.ephemeralKey] =
            [chain EXCEPT !.messageKeys = @ \ {message.counter}],
         !.pendingPreKey = None]

-----------------------------------------------------------------------------
\* encrypt: the sending chain gives the key after its counter.
SendingChain(session) == session.chains[session.ephemeralKeyPair]
NextCounter(session) == SendingChain(session).counter + 1

CanEncrypt(session) ==
  /\ session.ephemeralKeyPair \in DOMAIN session.chains
  /\ LET chain == SendingChain(session)
         filled == FillMessageKeys(chain, chain.counter + 1)
     IN  /\ chain.chainType # "RECEIVING"
         /\ CanFill(chain, chain.counter + 1)
         /\ filled.counter \in filled.messageKeys

\* Fault: the session is stored as it was loaded.
EncryptedStale(session) == session

\* Fault: the message key is not deleted after its use.
EncryptedKeepingKey(session) ==
  LET chain == SendingChain(session)
  IN  [session EXCEPT !.chains[session.ephemeralKeyPair] =
         FillMessageKeys(chain, chain.counter + 1)]

\* The session after encrypt: the key is used and deleted.
Encrypted(session) ==
  LET chain == SendingChain(session)
      filled == FillMessageKeys(chain, chain.counter + 1)
  IN  [session EXCEPT !.chains[session.ephemeralKeyPair] =
         [filled EXCEPT !.messageKeys = @ \ {filled.counter}]]

\* Fault: previousCounter is looked up where the session does not have it.
WhisperMessageNoPrevious(session, ourIdentity) ==
  LET chain == FillMessageKeys(SendingChain(session), NextCounter(session))
  IN  [ephemeralKey |-> session.ephemeralKeyPair,
       counter |-> chain.counter,
       previousCounter |-> None,
       mac |-> MAC(MessageKey(chain.seed, chain.counter),
                   ourIdentity, session.remoteIdentityKey)]

\* The WhisperMessage encrypt makes from the session it is about to advance.
\* With CanEncrypt, the filled chain is at counter + 1.
WhisperMessage(session, ourIdentity) ==
  LET chain == FillMessageKeys(SendingChain(session), NextCounter(session))
  IN  [ephemeralKey |-> session.ephemeralKeyPair,
       counter |-> chain.counter,
       previousCounter |-> session.previousCounter,
       mac |-> MAC(MessageKey(chain.seed, chain.counter),
                   ourIdentity, session.remoteIdentityKey)]
=============================================================================
