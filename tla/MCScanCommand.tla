--------------------------- MODULE MCScanCommand ---------------------------
(* The command on the inputs of MCDetector.                                 *)
EXTENDS MCDetector, ScanCommand

=============================================================================
