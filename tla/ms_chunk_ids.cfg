\* One crash of the primary before any checkpoint: the new primary must not
\* allocate a chunk id an existing chunk has.  Expected to be violated.
SPECIFICATION Spec
CONSTANTS
  n1 = n1
  n2 = n2
  w1 = w1
  w2 = w2
  s1 = s1
  s2 = s2
  c1 = c1
  c2 = c2
  c3 = c3
  meta = meta
  Nodes <- MCNodes
  Clients <- MCClients
  NoNode = NoNode
  Sheets = {s1}
  DataCells = {c1}
  MetaCell = meta
  MaxCellsPerChunk = 2
  MaxChunkId = 3
  MaxOps = 3
  MaxCheckpoints = 0
  MaxCrashes = 1
  KafkaMayFail = FALSE
INVARIANT ChunkIdsUnique
CHECK_DEADLOCK FALSE
