CONSTANTS
  Tokens <- MCTokens
  Requests <- MCRequests
  MaxNew = 4
SPECIFICATION Spec
INVARIANTS
  ReplyIsTheOutput
  ReasoningIsCounted
  RepliesAreWellFormed
CHECK_DEADLOCK FALSE
