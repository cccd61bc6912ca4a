\* Two callers, two pool threads, a server that crashes and comes back, the pool
\* deleted at any time.
SPECIFICATION FairSpec
CONSTANTS
  w1 = w1
  w2 = w2
  c1 = c1
  c2 = c2
  Workers <- TwoWorkers
  Callers <- TwoCallers
  MaxCalls = 2
  MaxLogs = 2
  Retries = 2
  MaxFaults = 1
INVARIANTS LoggerTypeOK LocalLogComplete BackupBeforeLocal BackedUpUnlessHindered BackedUpOnce
PROPERTIES GivesUpPatiently LoggedIsWritten ImplementsPool
\* After the last destructor nobody has anything left to do.
CHECK_DEADLOCK FALSE
