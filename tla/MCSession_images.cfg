SPECIFICATION Spec
CONSTANTS
  Token <- MCToken
  StopTokens <- MCStop
  ThinkClose <- MCThinkClose
  ForcedClose <- MCForcedClose
  Choice <- MCChoice
  HasMtp = TRUE
  NgramCap = 2
  MtpCap = 2
  TurnOptions <- MCShortTurns
  Prompts <- MCPrompts
  MaxPosition = 6
  MaxImages = 1
  NoToken = NoToken
  NoRow = NoRow
  NoTurn = NoTurn
INVARIANTS
  ImagesFaithful
  IndexMirrorsContext
