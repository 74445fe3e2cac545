SPECIFICATION ScanSpec
CONSTANTS
  ALL <- SecretKindALL
  Gcp <- GcpKind
  Gated <- MinEntropyKinds
  MaxBraceDepth = 2
  Input <- MCInput
  AnyCase <- CaseInsensitive
  TypeSlug <- TypeSlugs
INVARIANTS
  TypeOK
  NoOverlaps
  NestedLongestWins
  EnvelopesMatchReference
  CleanMeansNoMatch
  ReportLocates
\* The command exits.
CHECK_DEADLOCK FALSE
