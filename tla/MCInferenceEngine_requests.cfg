SPECIFICATION Spec
CONSTANTS
  Token <- MCToken
  StopTokens <- MCStop
  Choice <- MCChoice
  Requests <- MCRequests
  HasMtp = {TRUE, FALSE}
  PrefixReuse = TRUE
  BlockTokens = 2
  NoRequest = NoRequest
  NoHistory = NoHistory
INVARIANTS
  LiveIsSession
  DecodesOwnPrompt
  ImagesFaithful
  SingleArmServed
PROPERTIES
  RepliesAreStateless
