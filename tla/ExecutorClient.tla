---------------------------- MODULE ExecutorClient ----------------------------
(***************************************************************************)
(* What the scheduler and the watchers do around an executor plugin:       *)
(* run_tasks of the pending jobs and the publication of what it returns,   *)
(* watch_tasks of the running ones, kill_task of those on the kill list,   *)
(* and the end of a job.  It is extended by the modules of the plugins.    *)
(* The handlers are reduced to their effect on the executor: the end of a  *)
(* job is one step after the answer of the plugin (two, where its ports    *)
(* are given back), and the other races between the steps of two handlers  *)
(* are those of JobLifecycle.                                              *)
(***************************************************************************)
EXTENDS Integers, FiniteSets

CONSTANTS
    Job,
    FailurePolicy,  \* restarts after a failure of the system
    Handlers,       \* jobs that may be in the hands of watchers at once
    MaxTentatives,  \* kill attempts before the watchers give up (10 in the code)
    MaxRequests     \* bound: kill and reschedule requests

ASSUME ClientAssumption ==
    {FailurePolicy, Handlers, MaxTentatives, MaxRequests} \subseteq Nat

VARIABLES
    doc,        \* Mongo: status of each job, its secondary status and failure count
    tracked,    \* how often the id is in :jobs:running
    snap,       \* jobs that have a key :job:<id>:task
    killq,      \* :jobs:kill, copies of running tasks: pairs <<job, attempts>>
    early,      \* :jobs:kill, jobs whose copy is pending
    ending,     \* what watchers have in hand: <<job, answer of the plugin>>
    spc, batch, started, refused,   \* run_tasks: tasks to do, and both results
    requests    \* bound

passVars == <<spc, batch, started, refused>>
client == <<doc, tracked, snap, killq, early, ending, passVars, requests>>

\* "phase": a phase of a pod, which one plugin writes into the document.
Secondary == {"none", "kill requested", "reschedule requested", "rescheduled",
              "rejected", "unknown", "phase", "suspend requested", "resume requested",
              "suspended", "resumed", "suspend rejected", "resume rejected"}

ClientTypeOK ==
    /\ doc \in [Job -> [status : {"new", "pending", "running", "over"},
                        secondary : Secondary, fails : 0 .. FailurePolicy]]
    /\ tracked \in [Job -> Nat]
    /\ snap \subseteq Job
    /\ killq \subseteq Job \X (0 .. MaxTentatives) /\ early \subseteq Job
    /\ ending \subseteq Job \X {"watch", "watch failed", "kill", "unschedulable", "over", "again"}
    /\ spc \in {"idle", "run"}
    /\ {batch, started, refused} \subseteq SUBSET Job
    /\ requests \in 0 .. MaxRequests

ClientInit ==
    /\ doc = [j \in Job |-> [status |-> "new", secondary |-> "none", fails |-> 0]]
    /\ tracked = [j \in Job |-> 0]
    /\ snap = {} /\ killq = {} /\ early = {} /\ ending = {}
    /\ spc = "idle" /\ batch = {} /\ started = {} /\ refused = {}
    /\ requests = 0

Pending == {j \in Job : doc[j].status = "pending"}
Stored(j) == doc[j].status \in {"pending", "running"}
Busy == Cardinality(ending) >= Handlers

-----------------------------------------------------------------------------
(* The users. *)

Submit(j) ==
    /\ doc[j].status = "new"
    /\ doc' = [doc EXCEPT ![j].status = "pending"]
    /\ UNCHANGED <<tracked, snap, killq, ending, passVars, early, requests>>

\* Both requests write the secondary status, and a copy of the task goes to the kill list.
Request(j) ==
    /\ Stored(j)
    /\ requests < MaxRequests
    /\ requests' = requests + 1
    /\ IF doc[j].status = "pending"
       THEN early' = early \cup {j} /\ UNCHANGED killq
       ELSE killq' = killq \cup {<<j, 0>>} /\ UNCHANGED early
    /\ \E s \in {"kill requested", "reschedule requested"} :
           doc' = [doc EXCEPT ![j].secondary = s]
    /\ UNCHANGED <<tracked, snap, ending, passVars>>

-----------------------------------------------------------------------------
(* The scheduler. *)

\* Mutant: only the jobs that never ran are looked for.
BeginPassNew ==
    /\ spc = "idle"
    /\ Pending # {}
    /\ spc' = "run"
    /\ batch' = {j \in Pending : doc[j].secondary # "rescheduled"}
    /\ UNCHANGED <<doc, tracked, snap, killq, ending, started, refused, early, requests>>

BeginPass ==
    /\ spc = "idle"
    /\ Pending # {}
    /\ spc' = "run"
    /\ batch' = Pending
    /\ UNCHANGED <<doc, tracked, snap, killq, ending, started, refused, early, requests>>

\* The plugin takes the next task of the batch; started and refused are its own.
Treat(j) ==
    /\ spc = "run"
    /\ j \in batch
    /\ batch' = batch \ {j}
    /\ UNCHANGED <<doc, tracked, snap, killq, ending, spc, early, requests>>

\* An exception leaves run_tasks: it ends the process, and another scheduler
\* begins with the documents.
Abort ==
    /\ spc' = "idle"
    /\ batch' = {} /\ started' = {} /\ refused' = {}
    /\ UNCHANGED <<doc, tracked, snap, killq, ending, early, requests>>

\* Mutant: the ids do not go to the running list.
PublishUntracked(secondary) ==
    /\ spc = "run" /\ batch = {}
    /\ snap' = snap \cup started
    /\ doc' = [j \in Job |->
                  IF j \in started /\ Stored(j)
                  THEN [doc[j] EXCEPT !.status = "running", !.secondary = secondary]
                  ELSE doc[j]]
    /\ spc' = "idle" /\ started' = {} /\ refused' = {}
    /\ UNCHANGED <<tracked, killq, ending, batch, early, requests>>

\* _update_scheduled_task_status.
Publish(secondary) ==
    /\ spc = "run" /\ batch = {}
    /\ tracked' = [j \in Job |-> IF j \in started THEN tracked[j] + 1 ELSE tracked[j]]
    /\ snap' = snap \cup started
    /\ doc' = [j \in Job |->
                  IF ~Stored(j) THEN doc[j]
                  ELSE IF j \in started
                  THEN [doc[j] EXCEPT !.status = "running", !.secondary = secondary]
                  ELSE IF j \in refused THEN [doc[j] EXCEPT !.secondary = "rejected"]
                  ELSE doc[j]]
    /\ spc' = "idle" /\ started' = {} /\ refused' = {}
    /\ UNCHANGED <<killq, ending, batch, early, requests>>

-----------------------------------------------------------------------------
(* The watchers. *)

\* Mutant: an id is dropped whatever its key.
DropAny(j) ==
    /\ tracked[j] > 0
    /\ tracked' = [tracked EXCEPT ![j] = @ - 1]
    /\ UNCHANGED <<doc, snap, killq, ending, passVars, early, requests>>

\* An id with no key is dropped.
DropUnknown(j) ==
    /\ tracked[j] > 0 /\ j \notin snap
    /\ tracked' = [tracked EXCEPT ![j] = @ - 1]
    /\ UNCHANGED <<doc, snap, killq, ending, passVars, early, requests>>

\* The plugin is asked about the task of the key: the id goes back to the list ...
Examine(j) == tracked[j] > 0 /\ j \in snap /\ ~Busy

\* ... or the watcher goes on with what the plugin answers.
TakeOut(j, answer) ==
    /\ Examine(j)
    /\ tracked' = [tracked EXCEPT ![j] = @ - 1]
    /\ ending' = ending \cup {<<j, answer>>}
    /\ UNCHANGED <<snap, killq, passVars, early, requests>>

KillDone(k) ==
    /\ k \in killq /\ ~Busy
    /\ killq' = killq \ {k}
    /\ ending' = ending \cup {<<k[1], "kill">>}
    /\ UNCHANGED <<doc, tracked, snap, passVars, early, requests>>

\* Mutant: one attempt too many.
KillFailsOnceMore(k) ==
    /\ k \in killq /\ ~Busy
    /\ killq' = (killq \ {k}) \cup {<<k[1], k[2] + 1>>}
    /\ UNCHANGED <<doc, tracked, snap, ending, passVars, early, requests>>

\* Mutant: a request that fails is forgotten.
KillFailsForgets(k) ==
    /\ k \in killq /\ ~Busy
    /\ killq' = killq \ {k}
    /\ UNCHANGED <<doc, tracked, snap, ending, passVars, early, requests>>

\* A request the plugin fails to serve goes back to its list, or is given up.
KillFails(k) ==
    /\ k \in killq /\ ~Busy
    /\ IF k[2] < MaxTentatives
       THEN killq' = (killq \ {k}) \cup {<<k[1], k[2] + 1>>} /\ UNCHANGED doc
       ELSE /\ killq' = killq \ {k}
            /\ doc' = IF Stored(k[1]) THEN [doc EXCEPT ![k[1]].secondary = "unknown"] ELSE doc
    /\ UNCHANGED <<tracked, snap, ending, passVars, early, requests>>

\* run_tasks has the job, or has started it.
UnderWay(j) == j \in batch \cup started \/ doc[j].status = "running"

\* The copy of the task is pending: the plugin is not asked, whatever became of the job.
KillPending(j) ==
    /\ j \in early /\ ~Busy
    /\ early' = early \ {j}
    /\ snap' = IF Stored(j) THEN snap \ {j} ELSE snap
    /\ doc' = IF ~Stored(j) THEN doc
              ELSE IF doc[j].secondary = "reschedule requested"
              THEN [doc EXCEPT ![j].status = "pending", ![j].secondary = "rescheduled"]
              ELSE [doc EXCEPT ![j].status = "over", ![j].secondary = "none"]
    /\ UNCHANGED <<tracked, killq, ending, passVars, requests>>

\* What the code decides from the document it finds, maybe a step before ("again").
\* The reason of a failure stays in the document and in the tasks made from it.
Requeued(e) ==
    LET original == doc[e[1]]
    IN  \/ e[2] = "again"
        \/ e[2] = "kill" /\ original.secondary = "reschedule requested"
        \/ /\ e[2] = "watch failed" \/ (e[2] = "watch" /\ original.fails > 0)
           /\ original.secondary # "kill requested"
           /\ original.fails < FailurePolicy

\* The end of a job: back to the pending ones, or over.
Finish(e) ==
    LET j == e[1]
    IN  /\ e \in ending /\ e[2] # "unschedulable"
        /\ ending' = ending \ {e}
        /\ snap' = IF Stored(j) THEN snap \ {j} ELSE snap
        /\ doc' = IF ~Stored(j) THEN doc
                  ELSE IF Requeued(e)
                  THEN [doc EXCEPT ![j].status = "pending", ![j].secondary = "rescheduled",
                                   ![j].fails = IF e[2] \in {"kill", "again"} THEN @ ELSE @ + 1]
                  ELSE [doc EXCEPT ![j].status = "over", ![j].secondary = "none"]
        /\ UNCHANGED <<tracked, killq, passVars, early, requests>>
=============================================================================
