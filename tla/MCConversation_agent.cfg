CONSTANTS
  Values <- MCValues
  Servers <- MCServers
  Settings <- MCSettings
  Openings <- MCOpenings
  Tools <- MCTools
  Turns <- MCTurns
  Questions <- MCQuestions
  Results <- MCResults
  MaxTurns = 1
  MAX_OUTPUT_TOKENS = 8
SPECIFICATION ConversationSpec
INVARIANTS
  
  StablePrefixRepeats
  CallsSettle
  JobsAreServable
CHECK_DEADLOCK FALSE
