SPECIFICATION HolderSpec
CONSTANTS
  Devices = {d1, d2}
  Any = any
  Tokens = {t1}
  MaxSessions = 3
  MaxClients = 3
  MaxFaults = 1
  MaxSlow = 3
  MaxTokens = 8
  MaxOps = 2
  MaxSize = 3
  DataMax = 2
  Burst = 3
CHECK_DEADLOCK FALSE
INVARIANTS ConnectionsAreKept PromptConnect NamedRetryWorks FilesAreWhole
PROPERTIES Recovers TransferEnds
