SPECIFICATION Spec
CONSTANTS
  Word <- MCWord
  Directory <- MCDirectory
  FormatArg <- MCFormatArg
  MaxRun = 2
INVARIANTS
  EveryCellMeasures
  ResultsKept
\* The runs end.
CHECK_DEADLOCK FALSE
