SPECIFICATION MCSpec
CONSTANTS
  Token <- MCToken
  Kind <- MCKind
  MaxPosition = 3
  Passes <- MCPasses
  Foreign <- MCForeign
  Lost = Lost
  NoText = NoText
  NoImage = NoImage
  NoPass = NoPass
  Unary <- MCUnary
  Binary <- MCBinary
  Tile = 2
  MultiRowTile = 3
  SmallMMinBlocks = 8
  DotLanes = 2
  MaxGroup = 2
  BlockingRows = 2
  ScoreBudget = 36
  MinPastBlock = 2
  MinColumnBlock = 1
  Files <- MCFiles
  Hidden <- MCHidden
  DraftVocab = 2
  RowPasses <- MCRowPasses
  MaxRowsFed = 5
INVARIANTS
  TypeOK
  
PROPERTIES
  PassesAreAtomic
