CONSTANTS
  d1 = d1
  d2 = d2
  d3 = d3
  NDev = 2
  BarLen <- MCBarLen
  Base <- MCBase
  AddrMod <- MCAddrMod
  NULL = NULL
  Pci = {d1, d2, d3}
  MayFail = FALSE
  MayRemove = TRUE
  UserReqs = {}
SPECIFICATION Spec
INVARIANT AllocFailsOnlyWhenFull
