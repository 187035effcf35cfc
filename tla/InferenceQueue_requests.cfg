SPECIFICATION FairSpec
CONSTANTS
  Request = {c1, c2, s1}
  Streaming = {s1}
  MaxQueue = 2
  MaxTokens = 1
  NoRequest = NoRequest
INVARIANTS
  SlotsMatchJobs
  ExactlyOneTerminal
PROPERTIES
  ImplementsAdmission
  EveryRequestEnds
  SlotsReturn
CHECK_DEADLOCK FALSE
