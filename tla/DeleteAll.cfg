CONSTANTS
  None = None
  Us = Us
  Peer = Peer
  Phone = Phone
  Laptop = Laptop
  Addresses = {Phone, Laptop}
  Jobs = {1, 2}
  Calls <- AllCalls
  Start <- Records
  StartIdentity <- Theirs
  StartKeys = {1, 2}
  SignedKeys = {1}
  Refusable = {"load", "storeSession", "removePreKey", "stop"}
  MaxFaults = 0
  MessageKeysLimit = 0
  MaxOldChains = 5
  MaxSessions = 40
SPECIFICATION Spec
CHECK_DEADLOCK FALSE
PROPERTY
  DeleteAllDeletes
