\* The topic already holds an entry when the primary's Writer starts: with
\* concurrent commits, failed writes, a takeover and a restart of the secondary,
\* no entry is skipped.
SPECIFICATION Spec
CONSTANTS
  w1 = w1
  w2 = w2
  Clients <- MCClients
  InitialEntries = 1
  MaxEntries = 5
  MaxCheckpoints = 2
  MaxRestarts = 1
  MaxTakeovers = 1
  KafkaMayFail = TRUE
INVARIANT TypeOK
INVARIANT NoEntrySkipped
CHECK_DEADLOCK FALSE
