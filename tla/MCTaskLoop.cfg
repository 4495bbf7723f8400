\* The DMA device with up to 3 requests from a peer that may close: safety
\* and the completion of every started transfer.
CONSTANTS
  a1 = a1
  a2 = a2
  Addrs <- MCAddrs
  Counts <- MCCounts
  MaxReq = 3
  PeerMayClose = TRUE
  AllOnes = AllOnes
  NULL = NULL
SPECIFICATION Spec
INVARIANTS TypeOK LatchedTarget BlockOrder StaTracksTask
PROPERTIES TransferCompletes
\* The device idles in select once the bounded peer has stopped, and exits
\* after a close: end states are not errors.
CHECK_DEADLOCK FALSE
