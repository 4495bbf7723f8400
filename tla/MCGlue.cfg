\* The bridge with join and peer close enabled: safety, and the liveness of
\* reads and sends while the simulation runs.
CONSTANTS
  Bars <- MCBars
  BarSize <- MCBarSize
  ReqOps <- MCReqOps
  MaxReq = 3
  MaxTx = 2
  AllowJoin = TRUE
  PeerMayClose = TRUE
  NULL = NULL
  ByteVals <- MCByteVals
  Widths <- MCWidths
SPECIFICATION Spec
INVARIANTS TypeOK RepliesInOrder AccessOrder NoUseAfterFree NoTxLostOnQuit WriteDataDelivered ReadDataDelivered
PROPERTIES ReadsAnswered TxDelivered ImplementsBarChannel
\* After join the process ends, and once the bounded peer and simulator have
\* stopped the IO thread blocks in select for good: end states are not errors.
\* A join that waits forever on a read is the subject of MCGlue_join.cfg.
CHECK_DEADLOCK FALSE
