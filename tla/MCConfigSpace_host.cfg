\* Config space under the accesses of a host PCI core, 4 requests deep.
CONSTANTS
  BarSize <- MCBarSize
  PeerReqs <- HostBadReqs
  DataBytes <- MCDataBytes
  MaxReq = 4
  NULL = NULL
SPECIFICATION Spec
INVARIANTS TypeOK DecodedRegisters RoundTrip
PROPERTIES WriteStaysInRange
\* The peer's requests are bounded; the last state has no successor.
CHECK_DEADLOCK FALSE
