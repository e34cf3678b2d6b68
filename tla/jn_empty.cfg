\* The topic is empty when the primary's Writer starts: the first marker's
\* NextEntryOffset lies past the first entry.  Expected to be violated.
SPECIFICATION Spec
CONSTANTS
  w1 = w1
  w2 = w2
  Clients <- MCClients
  InitialEntries = 0
  MaxEntries = 5
  MaxCheckpoints = 2
  MaxRestarts = 1
  MaxTakeovers = 1
  KafkaMayFail = TRUE
INVARIANT NoEntrySkipped
CHECK_DEADLOCK FALSE
