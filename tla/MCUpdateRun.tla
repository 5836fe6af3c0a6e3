---------------------------- MODULE MCUpdateRun ----------------------------
(* UpdateRun for TLC: administrators, jobs and the releases to come are interchangeable. *)
EXTENDS UpdateRun, TLC

RunSymmetry == Permutations(Admins) \cup Permutations(Jobs) \cup Permutations(Releases \ {First})
=============================================================================
