------------------------------ MODULE MCAccounts ------------------------------
(* An instance of Accounts for TLC. *)
EXTENDS Accounts, TLC

CONSTANTS u1

OneOwner == [j \in Job |-> u1]
OneEach == [j \in Job |-> 1]
JobSymmetry == Permutations(Job)
=============================================================================
