CONSTANTS
  d1 = d1
  d2 = d2
  q1 = q1
  q2 = q2
  b1 = b1
  b2 = b2
  NDev = 2
  BarLen <- MCBarLen
  Base <- MCBase
  AddrMod <- MCAddrMod
  NULL = NULL
  Pci = {d1, d2}
  MayFail = FALSE
  MayRemove = TRUE
  UserReqs <- RegReqs
  Procs = {q1}
  Blocks = {b1}
  MayFailMem = FALSE
SPECIFICATION Spec
INVARIANT AccessInBar
CHECK_DEADLOCK FALSE
