SPECIFICATION Spec
CONSTANTS
  aws1 = aws1
  aws2 = aws2
  jwt = jwt
  x = x
  garbled = garbled
  e1 = e1
  e2 = e2
  Exchange = {e1, e2}
  Kind <- MCKind
  Text <- MCText
  TypeSlug <- MCTypeSlug
  KindOf <- MCKindOf
  PromptPath <- MCPath
  Plain = {x, garbled}
  Garbled = garbled
  Preamble = Preamble
  World <- MCWorld
  InjectSystemPrompt = TRUE
  NoRequest = NoRequest
  NoHead = NoHead
INVARIANTS
  TypeOK
  NoSecretLeaves
  OnlyOwnSecrets
  ReplyRestored
  RewrittenIsUndeclared
PROPERTIES
  StreamingPreserved
  ExchangeEnds
\* Every exchange comes to an end.
CHECK_DEADLOCK FALSE
