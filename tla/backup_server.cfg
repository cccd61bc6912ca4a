\* Two clients, reads of any size, one failing call and one crash.
SPECIFICATION FairSpec
CONSTANTS
  c1 = c1
  c2 = c2
  Conns <- TwoConns
  Length <- MCLength
  BufSize = 2
  Backlog = 1
  MaxFaults = 1
  MaxCrashes = 1
INVARIANTS PiecesInOrder NothingForgotten
PROPERTIES Delivered ImplementsBackup
\* When every client has closed and every thread has ended, all wait.
CHECK_DEADLOCK FALSE
