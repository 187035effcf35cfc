SPECIFICATION FairSpec
CONSTANTS
  Prompt <- MCOnePrompt
  Hash <- MCExactHash
  BlockTokens = 1
  MinTokens = 1
  Settings <- MCSettings
  NoImage = NoImage
INVARIANTS
  EntriesAreWhole
  
  CountersAreExact
  FitsBudget
  IndexIsDirectory
PROPERTIES
  LookupsAndWritesEnd
