CONSTANTS
  None = None
  Us = Us
  Peer = Peer
  Phone = Phone
  Laptop = Laptop
  Addresses = {Phone, Laptop}
  Jobs = {1, 2, 3}
  Calls <- AllCalls
  Start <- Records
  StartIdentity <- Theirs
  StartKeys = {1, 2}
  SignedKeys = {1}
  Refusable = {"load", "storeSession", "removePreKey", "stop"}
  MaxFaults = 2
  MessageKeysLimit = 0
  MaxOldChains = 5
  MaxSessions = 40
SPECIFICATION SpecRest
INVARIANTS
  NoMessageKeyTwice
  ReadAtMostOnce
  PreKeyKept
  PreKeyOnce
  SessionIOSerialized
PROPERTY
  ImplementsStore
