------------------------- MODULE MCSchedulerMaster -------------------------
(* Instances of SchedulerMaster for TLC. *)
EXTENDS SchedulerMaster

\* An instance dies anywhere but between SETNX and EXPIRE.
OutOfElection == State \ {"get", "expire"}
=============================================================================
