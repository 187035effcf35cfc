CONSTANTS
  MatchLengths <- MCMatchLengths
  Hash <- MCHash
  Tokens = {1, 2, 3}
  Stops = {3}
  AlphaParts = 2
  BackoffTokens = 1
  BackoffCap = 3
  Prompts <- MCPrompts
  MinMatch = 2
  TurnOptions <- MCTurnOptions
  MaxNew = 8
  MaxText = 9
  TrialLength = 2
  RecoveryLength = 3
SPECIFICATION PolicySpec
INVARIANTS
  DraftsContinueText
  ArmsAreEarned
CHECK_DEADLOCK FALSE
