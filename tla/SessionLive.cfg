CONSTANTS
  None = None
  Parties = {A, B}
  MessageKeysLimit = 0
  MaxOldChains = 5
  MaxSessions = 40
  PreKeyIds = {1}
  SignedPreKeyIds = {1}
  MaxSend = 2
  MaxInstall = 1
  MaxLeftover = 1
SPECIFICATION FairSpec
CHECK_DEADLOCK FALSE
PROPERTY
  EveryMessageRead
