\* Single-byte writes to BAR and ROM registers, and write frames cut short.
CONSTANTS
  BarSize <- MCBarSize
  PeerReqs <- ShortReqs
  DataBytes <- MCDataBytes
  MaxReq = 3
  NULL = NULL
SPECIFICATION Spec
PROPERTIES WriteStaysInRange
\* The peer's requests are bounded; the last state has no successor.
CHECK_DEADLOCK FALSE
