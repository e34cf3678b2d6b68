\* Kafka up, no crash, no delete, no writer gives up: every granted version
\* must be acknowledged, however the writers' requests interleave.
\* A reader calls File.ReadAt once, concurrently with the writers.
\* The run ends when every writer is acked, so deadlock is not checked.
SPECIFICATION FairSpec
CONSTANTS
  n1 = n1
  n2 = n2
  Nodes <- MCNodes
  NoNode = NoNode
  MaxCellsPerChunk = 2
  MaxVersion = 3
  MaxLag = 3
  MaxDeletes = 0
  MaxCrashes = 0
  KafkaMayFail = FALSE
  ClientsMayGiveUp = FALSE
  MaxReads = 1
PROPERTY EveryWriteLands
PROPERTY ReadAtReturns
INVARIANT ReadSeesReportedVersion
PROPERTY ImplementsChunkRegister
CHECK_DEADLOCK FALSE
