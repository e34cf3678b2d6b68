\* One primary crash with writers in flight: the new primary must serve
\* every write the old one acknowledged.  Expected to be violated.
SPECIFICATION Spec
CONSTANTS
  n1 = n1
  n2 = n2
  Nodes <- MCNodes
  NoNode = NoNode
  MaxCellsPerChunk = 2
  MaxVersion = 3
  MaxLag = 4
  MaxDeletes = 0
  MaxCrashes = 1
  KafkaMayFail = FALSE
  ClientsMayGiveUp = FALSE
  MaxReads = 1
INVARIANT AckedWriteDurable
CHECK_DEADLOCK FALSE
