\* Two clients, two sheets, two data cells in chunks of two slots: creates,
\* opens, recycles, writes, checkpoints, Kafka failures (before or after the
\* entry is stored) and a primary crash
\* (by Crash, or by the panic of DeleteSheet), with the clients' timed-out
\* calls retried.  Two concurrent writers of new cells race for the slots of
\* one chunk.  The workload is bounded by MaxOps (two calls a client: an
\* open or create, then a write), so the program ends; deadlock is not
\* checked.  The two clients are symmetric.
SPECIFICATION Spec
CONSTANTS
  n1 = n1
  n2 = n2
  w1 = w1
  w2 = w2
  s1 = s1
  s2 = s2
  c1 = c1
  c3 = c3
  c2 = c2
  meta = meta
  Nodes <- MCNodes
  Clients <- MCClients
  NoNode = NoNode
  Sheets = {s1, s2}
  DataCells = {c1, c2}
  MetaCell = meta
  MaxCellsPerChunk = 2
  MaxChunkId = 4
  MaxOps = 2
  MaxCheckpoints = 1
  MaxCrashes = 1
  KafkaMayFail = TRUE
INVARIANT TypeOK
INVARIANT HeldSheetExists
INVARIANT CellsDisjoint
SYMMETRY MCClientSymmetry
CHECK_DEADLOCK FALSE
