--------------------------- MODULE MCExecutorPlugins ---------------------------
(* An instance of ExecutorPlugins for TLC. *)
EXTENDS ExecutorPlugins, TLC

CONSTANTS j1, j2

Lookalike == {<<j1, j2>>}
NoLookalike == {}
=============================================================================
