CONSTANTS
  None = None
  Parties = {A, B}
  MessageKeysLimit = 1
  MaxOldChains = 1
  MaxSessions = 1
  PreKeyIds = {1}
  SignedPreKeyIds = {1}
  MaxSend = 3
  MaxInstall = 1
  MaxLeftover = 1
SPECIFICATION Spec
CHECK_DEADLOCK FALSE
SYMMETRY Symmetry
INVARIANTS
  OpenSessionCanSend
  WithinLimits
PROPERTIES
  ReadOnce
