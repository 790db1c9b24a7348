SPECIFICATION FairSpoolSpec
CONSTANTS
  h1 = h1  h2 = h2  h3 = h3  k1 = k1  k2 = k2
  Handler = {h1, h2}
  Client = {k1, k2}
  NoHandler = NoHandler
  NoClient = NoClient
  TTL = 1
  MaxBytes = 2
  PageBytes = 1
  MaxRestarts = 1
  MaxTimeouts = 1
  MaxTime = 1
INVARIANTS ExactLogs PagedHasSpool CleanBeforePage
PROPERTIES KeptWhileUsed ImplementsStreams TransferEnds
CHECK_DEADLOCK FALSE
