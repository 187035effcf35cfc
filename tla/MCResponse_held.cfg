CONSTANTS
  Tokens <- MCTokens
  Requests <- MCRequests
  MaxNew = 4
SPECIFICATION Spec
INVARIANT HeldTextIsReleased
CHECK_DEADLOCK FALSE
