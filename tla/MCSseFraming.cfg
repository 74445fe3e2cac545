SPECIFICATION FramingSpec
CONSTANTS
  CR = CR
  LF = LF
  Lead = Lead
  Cont = Cont
  a = a
  bad = bad
  Ascii = {a}
  Invalid = {bad}
  Stream <- MCStream
INVARIANTS
  BuffersOK
  NothingLost
  EventsAreMinimal
  NoEventWithheld
\* A response ends.
CHECK_DEADLOCK FALSE
