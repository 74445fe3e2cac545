SPECIFICATION Spec
CONSTANTS
  aws1 = aws1
  aws2 = aws2
  gcp = gcp
  x = x
  garbled = garbled
  e1 = e1
  e2 = e2
  Exchange = {e1, e2}
  RequestOf <- MCRequestOf
  Route <- MCRoute
  Kind <- MCKind
  Text <- MCText
  TypeSlug <- MCTypeSlug
  KindOf <- MCKindOf
  Plain = {x, garbled}
  Garbled = garbled
  Preamble = Preamble
  ReplyToken <- MCReplyToken
  MaxReply <- MCMaxReply
  InjectSystemPrompt = TRUE
  NoRequest = NoRequest
  NoHead = NoHead
INVARIANT EveryStreamRestored
\* The relay stops.
CHECK_DEADLOCK FALSE
