--------------------------- MODULE MCScanDispatch ---------------------------
(* ScanDispatch for TLC. The configurations differ in the number of scans,   *)
(* strands and failures.                                                     *)
EXTENDS ScanDispatch, TLC

Symmetry == Permutations(Handlers) \cup Permutations(Owners)
=============================================================================
