--------------------------- MODULE MCJobLifecycle ---------------------------
(***************************************************************************)
(* Small instances of JobLifecycle for TLC.                                *)
(***************************************************************************)
EXTENDS JobLifecycle, TLC

CONSTANTS j1, j2

NoDependency == [j \in Job |-> {}]

\* j2 waits for j1.
Chain == [j \in Job |-> IF j = j2 THEN {j1} ELSE {}]

WatcherSymmetry == Permutations(Watcher)
JobWatcherSymmetry == Permutations(Job) \cup Permutations(Watcher)
=============================================================================
