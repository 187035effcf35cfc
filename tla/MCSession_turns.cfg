SPECIFICATION Spec
CONSTANTS
  Token <- MCToken
  StopTokens <- MCStop
  ThinkClose <- MCThinkClose
  ForcedClose <- MCForcedClose
  Choice <- MCChoice
  HasMtp = TRUE
  NgramCap = 2
  MtpCap = 2
  TurnOptions <- MCTurns
  Prompts <- MCPrompts
  MaxPosition = 9
  MaxImages = 0
  NoToken = NoToken
  NoRow = NoRow
  NoTurn = NoTurn
INVARIANTS
  TypeOK
  RepresentsText
  PredictorExact
  DraftsFromFreshState
  ThinkingWithinBudget
PROPERTIES
  
  ImplementsTargetDecode
