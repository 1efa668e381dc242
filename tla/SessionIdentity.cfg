CONSTANTS
  None = None
  Parties = {A, B}
  MessageKeysLimit = 0
  MaxOldChains = 5
  MaxSessions = 40
  PreKeyIds = {1}
  SignedPreKeyIds = {1, 2}
  MaxSend = 1
  MaxInstall = 2
  MaxLeftover = 1
SPECIFICATION Spec
CHECK_DEADLOCK FALSE
SYMMETRY Symmetry
INVARIANTS
  OneIdentity
  EveryMessageReadable
PROPERTIES
  NewSessionsTrusted
