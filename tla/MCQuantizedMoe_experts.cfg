CONSTANTS
  Size <- MCSize
  Slack = 1
  DecoderLayers = 1
  ExpertCount = 3
  ExpertsPerToken = 2
  RouterPicks <- MCChoices
  FileOrder <- MCFileOrder
  Capacities <- MCCapacities
  Census <- MCCensus
  Threads = 2
  MaxRows = 2
  MaxRowsRun = 3
SPECIFICATION MoeSpec
INVARIANTS
  MatchesTokenMajor
  
  PinnedStaysResident
CHECK_DEADLOCK FALSE
