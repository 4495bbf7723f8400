\* Three devices (two minors) probed, failing and removed in any order,
\* against one run of the test program.
CONSTANTS
  d1 = d1
  d2 = d2
  d3 = d3
  Pci = {d1, d2, d3}
  NDev = 2
  Target = d1
  MayFail = TRUE
  MayRemove = TRUE
  MaxRuns = 1
  NULL = NULL
SPECIFICATION Spec
INVARIANTS TypeOK IrqCounted
PROPERTIES WaitReturns
\* The test program stops after MaxRuns runs and the PCI core may leave
\* the devices as they are: end states are not errors.
CHECK_DEADLOCK FALSE
