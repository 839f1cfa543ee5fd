----------------------------- MODULE MCJobStore -----------------------------
(* JobStore for TLC: four job ids, two keys and requests, two clock readings *)
(* in any order (ties, and a clock that is set back).                        *)
EXTENDS JobStore, TLC

Symmetry == Permutations(Keys) \cup Permutations(Requests)
=============================================================================
