---------------------------- MODULE MCMesosExecutor ----------------------------
(* Instances of MesosExecutor for TLC. *)
EXTENDS MesosExecutor, TLC

One == [j \in Job |-> 1]
TwoThenOne == [j \in Job |-> IF j = CHOOSE i \in Interactive : TRUE THEN 2 ELSE 1]
TwoCpus == {2}
ThreeCpus == {3}

\* Bound of MesosOffers: how the tasks end does not matter to what the offers hold.
NoneEnds == \A j \in Job : mesos[j] \notin Terminal
=============================================================================
