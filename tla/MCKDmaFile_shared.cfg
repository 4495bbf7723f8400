CONSTANTS
  d1 = d1
  d2 = d2
  q1 = q1
  q2 = q2
  b1 = b1
  b2 = b2
  NDev = 2
  BarLen <- MCBarLen
  Base <- MCBase
  AddrMod <- MCAddrMod
  NULL = NULL
  Pci = {d1}
  MayFail = FALSE
  MayRemove = FALSE
  UserReqs <- RegReqs
  Procs = {q1, q2}
  Blocks = {b1, b2}
  MayFailMem = FALSE
SPECIFICATION Spec
INVARIANT DmaBufferOwned
CHECK_DEADLOCK FALSE
