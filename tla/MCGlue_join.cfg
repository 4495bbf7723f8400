\* Does pcie_glue_join_thread always return?
CONSTANTS
  Bars <- MCBars
  BarSize <- MCBarSize
  ReqOps <- MCReqOps
  MaxReq = 1
  MaxTx = 0
  AllowJoin = TRUE
  PeerMayClose = FALSE
  NULL = NULL
  ByteVals <- MCByteVals
  Widths <- MCWidths
SPECIFICATION Spec
PROPERTIES JoinTerminates
CHECK_DEADLOCK FALSE
