SPECIFICATION FramingSpec
CONSTANTS
  CR = CR
  LF = LF
  Lead = Lead
  Cont = Cont
  a = a
  bad = bad
  Ascii = {a}
  Invalid = {bad}
  Stream <- MCStream
INVARIANT
  OnlyTailDropped
\* A response ends.
CHECK_DEADLOCK FALSE
