SPECIFICATION Spec
CONSTANTS
  p1 = p1
  p2 = p2
  s1 = s1
  s2 = s2
  NoServer = NoServer
  Server <- MCServer
  Shell <- MCShell
  Host <- MCHost
  MaxCa = 2
SYMMETRY Symmetry
INVARIANTS
  TypeOK
  StoredPairServed
  BundleFollowsAnchor
  DoctorAgrees
  InstalledIsServed
\* Commands and processes may stop, for good when the authorities are used up.
CHECK_DEADLOCK FALSE
