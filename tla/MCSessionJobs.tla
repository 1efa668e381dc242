---------------------------- MODULE MCSessionJobs ----------------------------
(***************************************************************************)
(* One peer with two devices.  We have an established session with the     *)
(* first, on which two more messages are under way; the first device has   *)
(* also opened a session of its own, by two PreKeyWhisperMessages, and so  *)
(* has the second.                                                         *)
(***************************************************************************)
EXTENDS SessionJobs

CONSTANTS Peer,
          Phone, Laptop  \* its addresses

Ours == IdentityKey(Us, 1)
Theirs == IdentityKey(Peer, 1)

\* The keys a server hands out: the peer's, and ours with this prekey.
PeerDevice == [identityKey |-> Theirs, registrationId |-> 1,
               preKeyId |-> 1, preKey |-> PreKey(Peer, 1, 1),
               signedKeyId |-> 1, signedPreKey |-> SignedPreKey(Peer, 1, 1)]
OurDevice(id) == [identityKey |-> Ours, registrationId |-> 1,
                  preKeyId |-> id, preKey |-> PreKey(Us, 1, id),
                  signedKeyId |-> 1, signedPreKey |-> SignedPreKey(Us, 1, 1)]

\* The session: we send a message, the peer answers.
Opened == PendingSession(Ours, SessionKey(Us, 1), SessionKey(Us, 2), PeerDevice)
Peer1 == Decrypted(ResponderSession(Theirs, PreKey(Peer, 1, 1),
                     SignedPreKey(Peer, 1, 1), Ours, SessionKey(Us, 1)),
                   WhisperMessage(Opened, Ours), SessionKey(Peer, 1))
Peer2 == Encrypted(Peer1)
Peer3 == Encrypted(Peer2)
Answered == Decrypted(Encrypted(Opened), WhisperMessage(Peer1, Theirs),
                      SessionKey(Us, 3))
Records == [a \in Addresses |->
              IF a = Phone
                THEN UpdateSessionState(ProcessPreKey(None, Opened, PeerDevice),
                                        Answered, None)
                ELSE None]

\* The session a device opens with one of our prekeys, and its messages.
PeerOpened(n, id) ==
  PendingSession(Theirs, SessionKey(Peer, n), SessionKey(Peer, n + 1), OurDevice(id))
Receive(address, id, session) ==
  [kind |-> "receive", address |-> address,
   header |-> [identityKey |-> Theirs, registrationId |-> 1, preKeyId |-> id,
               signedPreKeyId |-> 1, baseKey |-> session.baseKey],
   message |-> WhisperMessage(session, Theirs)]

Plain(kind) == [kind |-> kind, address |-> Phone]
AllCalls ==
  {Plain("encrypt"), Plain("close"), Plain("delete"),
   [kind |-> "processPreKey", address |-> Phone, device |-> PeerDevice],
   [kind |-> "decrypt", address |-> Phone, message |-> WhisperMessage(Peer2, Theirs)],
   [kind |-> "decrypt", address |-> Phone, message |-> WhisperMessage(Peer3, Theirs)],
   Receive(Phone, 1, PeerOpened(2, 1)),
   Receive(Phone, 1, Encrypted(PeerOpened(2, 1))),
   Receive(Laptop, 2, PeerOpened(4, 2))}

\* Every job has settled and every call is answered: the only way to stop.
Quiescent == /\ calls = Cardinality(Jobs)
             /\ \A j \in Jobs : Lock!Settled(j) /\ pending[j] = {}
SpecRest == Init /\ [][Next \/ (Quiescent /\ UNCHANGED vars)]_vars
=============================================================================
