\* Four processes, three deaths and a restart: listings, watches, GetW
\* failures, session timeouts and new incarnations in every order.  Once the
\* deaths and restarts are spent the group settles, so deadlock is not checked.
SPECIFICATION Spec
CONSTANTS
  a = a
  b = b
  c = c
  d = d
  Nodes <- MCNodes
  NoNode = NoNode
  MaxCrashes = 3
  MaxRestarts = 1
SYMMETRY MCSymmetry
INVARIANT TypeOK
INVARIANT AtMostOneLeader
CHECK_DEADLOCK FALSE
