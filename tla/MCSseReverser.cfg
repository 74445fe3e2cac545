SPECIFICATION Spec
CONSTANTS
  op = op
  cl = cl
  S = S
  U = U
  one = one
  x = x
  secret = secret
  Open = op
  Close = cl
  SecretPrefix <- MCPrefix
  Slug <- MCSlug
  Underscore = U
  Digit = {one}
  Other = {x}
  Original <- MCOriginal
  NoPiece = NoPiece
  Message <- MCMessage
INVARIANTS
  TypeOK
  StreamIsBatch
  HoldsOnlyPossiblePlaceholder
PROPERTY
  ImplementsStreamReversal
\* A stream ends.
CHECK_DEADLOCK FALSE
