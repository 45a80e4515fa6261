------------------------------ MODULE JobStates ------------------------------
(***************************************************************************)
(* What GO-Docker promises of a job, whoever handles it: the states a user *)
(* sees, and when a job goes from one to another.  JobLifecycle implements *)
(* it.                                                                     *)
(***************************************************************************)
CONSTANTS
    Job,
    DependsOn       \* the jobs each job waits for

VARIABLE state

\* "ended": no longer among the unfinished jobs, and not yet among the finished ones.
Done(j) == state[j] \in {"ended", "over"}

Init == state = [j \in Job |-> "new"]

\* The states that may follow each state.  A record that is replaced is "ended"
\* for a moment.
After ==
    [new |-> {"pending"},
     pending |-> {"running", "ended"},
     running |-> {"pending", "ended"},
     ended |-> {"over"},
     over |-> {"ended"}]

\* One job moves; it runs when the jobs it depends on are done.
Move(j) ==
    /\ state'[j] # state[j]
    /\ state'[j] \in After[state[j]]
    /\ state'[j] = "running" => \A d \in DependsOn[j] : Done(d)
    /\ state' = [state EXCEPT ![j] = state'[j]]

Next == \E j \in Job : Move(j)

Spec == Init /\ [][Next]_state
=============================================================================
