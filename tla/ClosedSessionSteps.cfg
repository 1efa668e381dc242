CONSTANTS
  None = None
  Parties = {A, B}
  MessageKeysLimit = 0
  MaxOldChains = 5
  MaxSessions = 40
  PreKeyIds = {1}
  SignedPreKeyIds = {1}
  MaxSend = 3
  MaxInstall = 1
  MaxLeftover = 0
SPECIFICATION Spec
CHECK_DEADLOCK FALSE
PROPERTY
  ClosedSessionDoesNotStep
