\* Two goroutines on a cold lock table (the tables live in memory, so every
\* restart starts cold), one data cell and the meta cell, two messages each.
\* The message channel holds one reply (ten in client.go) so that it fills.
\* TLC looks for two handlers inside LockCell's critical section of one cell.
CONSTANTS
  p1 = p1  p2 = p2  c1 = c1  cm = cm  v1 = v1  k1 = k1
  Procs <- MCProcs
  DataCells <- MCDataCells
  MetaCell = cm
  Values <- MCValues
  MetaKeys <- MCMetaKeys
  MaxOps = 4
  MaxLocks = 5
  ChanCap = 1
SPECIFICATION Spec
INVARIANT CellLockExclusive
CHECK_DEADLOCK FALSE
