\* A second start before the first transfer completes.
CONSTANTS
  a1 = a1
  a2 = a2
  Addrs <- MCAddrs
  Counts <- MCCounts
  MaxReq = 3
  PeerMayClose = FALSE
  AllOnes = AllOnes
  NULL = NULL
SPECIFICATION Spec
INVARIANTS TaskNotLost
\* The device idles in select once the bounded peer has stopped, and exits
\* after a close: end states are not errors.
CHECK_DEADLOCK FALSE
