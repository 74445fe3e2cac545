SPECIFICATION Spec
CONSTANTS
  a = a
  b = b
  Kind <- MCKind
  Text <- MCText
  TypeSlug <- MCTypeSlug
  Char <- MCChar
  Body <- MCBody
  MaxCalls = 2
INVARIANTS
  TypeOK
  MapConsistent
  LoopMatchesReference
  RoundTrip
PROPERTY
  BindingsStable
\* The calls are bounded: a finished session has nothing left to do.
CHECK_DEADLOCK FALSE
