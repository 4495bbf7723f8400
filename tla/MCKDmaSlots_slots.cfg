CONSTANTS
  d1 = d1
  d2 = d2
  d3 = d3
  NDev = 2
  BarLen <- MCBarLen
  Base <- MCBase
  AddrMod <- MCAddrMod
  NULL = NULL
  Pci = {d1, d2, d3}
  MayFail = TRUE
  MayRemove = TRUE
  UserReqs <- RangeReqs
SPECIFICATION Spec
INVARIANTS TypeOK NoSharedSlot ProbeOwnsBars CheckBarAccessSound
PROPERTIES ProbeTerminates
