----------------------------- MODULE MCArrayJobs -----------------------------
(* Instances of ArrayJobs for TLC. *)
EXTENDS ArrayJobs, TLC

ArraySymmetry == Permutations(Child) \cup Permutations(Watcher)
=============================================================================
