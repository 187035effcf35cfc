SPECIFICATION Spec
CONSTANTS
  Prompt <- MCTwoPrompts
  Hash <- MCExactHash
  BlockTokens = 1
  MinTokens = 1
  Settings <- MCTightSetting
  NoImage = NoImage
INVARIANTS
  DirectoryStaysBounded
