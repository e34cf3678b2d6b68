\* Writers, deletes, Kafka failures, give-ups and one primary crash.
\* The workload is finite: once every writer is acked or failed nothing is
\* enabled, which is the program's end, not a deadlock.
SPECIFICATION Spec
CONSTANTS
  n1 = n1
  n2 = n2
  Nodes <- MCNodes
  NoNode = NoNode
  MaxCellsPerChunk = 2
  MaxVersion = 3
  MaxLag = 4
  MaxDeletes = 1
  MaxCrashes = 1
  KafkaMayFail = TRUE
  ClientsMayGiveUp = TRUE
  MaxReads = 0
INVARIANT TypeOK
INVARIANT AckedWriteReadable
PROPERTY VersionStepsByOne
CHECK_DEADLOCK FALSE
