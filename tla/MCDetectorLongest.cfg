SPECIFICATION Spec
CONSTANTS
  ALL <- SecretKindALL
  Gcp <- GcpKind
  Gated <- MinEntropyKinds
  MaxBraceDepth = 2
  Input <- MCInput
INVARIANT
  LongestKept
\* A call returns.
CHECK_DEADLOCK FALSE
