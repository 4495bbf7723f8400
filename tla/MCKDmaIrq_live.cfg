CONSTANTS
  MaxXfer = 6
  Pages = 8
SPECIFICATION Spec
\* The user loop stops after MaxXfer transfers.
CHECK_DEADLOCK FALSE
INVARIANTS NoStaleCompletion
PROPERTY WaitReturns
