-------------------------- MODULE KubernetesExecutor --------------------------
(***************************************************************************)
(* The Kubernetes executor (plugins/kubernetes.py).  A job is a pod named  *)
(* after it, so that Kubernetes refuses a second one; the plugin creates,  *)
(* reads and deletes pods, and reads the events Kubernetes keeps by name.  *)
(***************************************************************************)
EXTENDS ExecutorClient

CONSTANT MaxFaults      \* bound: answers of Kubernetes that are lost or say no

VARIABLES
    pod,        \* phase of the pod of each job
    unfit,      \* whose FailedScheduling events Kubernetes still has
    known,      \* the phase in the key of each job
    faults,     \* bound
    pods,       \* history: pods created for each job (2 stands for more)
    left        \* history: jobs a failure hid, or that were killed too early

cluster == <<pod, unfit>>
history == <<pods, left>>
vars == <<client, cluster, known, faults, history>>

\* "failed": the command ended with an error, and its status says so; "lost": the
\* node is gone or evicted the pod, whose status does not have the end of a
\* container.
Ended == {"succeeded", "failed", "lost"}
Phase == {"none", "pending", "running"} \cup Ended

TypeOK ==
    /\ ClientTypeOK
    /\ pod \in [Job -> Phase] /\ known \in [Job -> Phase]
    /\ unfit \subseteq Job
    /\ faults \in 0 .. MaxFaults
    /\ pods \in [Job -> 0 .. 2] /\ left \subseteq Job

PluginInit ==
    /\ pod = [j \in Job |-> "none"] /\ known = pod
    /\ unfit = {} /\ faults = 0
    /\ pods = [j \in Job |-> 0] /\ left = {}

Init == ClientInit /\ PluginInit

-----------------------------------------------------------------------------
(* Kubernetes. *)

\* No node fits, for the moment.
CannotSchedule(j) ==
    /\ pod[j] = "pending"
    /\ unfit' = unfit \cup {j}
    /\ UNCHANGED <<client, pod, known, faults, history>>

PodStarts(j) ==
    /\ pod[j] = "pending"
    /\ pod' = [pod EXCEPT ![j] = "running"]
    /\ UNCHANGED <<client, unfit, known, faults, history>>

PodEnds(j) ==
    /\ pod[j] = "running"
    /\ \E e \in Ended : pod' = [pod EXCEPT ![j] = e]
    /\ UNCHANGED <<client, unfit, known, faults, history>>

EventsExpire(j) ==
    /\ j \in unfit /\ pod[j] # "pending"
    /\ unfit' = unfit \ {j}
    /\ UNCHANGED <<client, pod, known, faults, history>>

-----------------------------------------------------------------------------
(* The plugin. *)

Create(j) ==
    /\ pod' = [pod EXCEPT ![j] = "pending"]
    /\ pods' = [pods EXCEPT ![j] = IF @ < 2 THEN @ + 1 ELSE @]

\* run_tasks: POST of the pod.
RunTask(j) ==
    /\ Treat(j)
    /\ pod[j] = "none"
    /\ Create(j)
    /\ started' = started \cup {j}
    /\ UNCHANGED <<refused, unfit, known, faults, left>>

\* There is a pod of that name: the answer has no phase.
RunConflict(j) ==
    /\ Treat(j)
    /\ pod[j] # "none"
    /\ refused' = refused \cup {j}
    /\ UNCHANGED <<started, cluster, known, faults, history>>

\* The answer is lost, with the pod created or not.  The handler of the exception
\* never deletes it: container is None.
RunLostAnswer(j) ==
    /\ Treat(j)
    /\ faults < MaxFaults
    /\ faults' = faults + 1
    /\ pod[j] = "none"
    /\ refused' = refused \cup {j}
    /\ \/ Create(j) /\ left' = left \cup {j}
       \/ UNCHANGED <<pod, pods, left>>
    /\ UNCHANGED <<started, unfit, known>>

\* The answer has the phase of a pod that failed at once: the task is in neither
\* of the lists.
RunFailed(j) ==
    /\ Treat(j)
    /\ faults < MaxFaults
    /\ faults' = faults + 1
    /\ pod[j] = "none"
    /\ pod' = [pod EXCEPT ![j] = "failed"]
    /\ left' = left \cup {j}
    /\ UNCHANGED <<started, refused, unfit, known, pods>>

\* The phase of the answer goes to the key and to the document.
PublishPods ==
    /\ Publish("phase")
    /\ known' = [j \in Job |-> IF j \in started THEN "pending" ELSE known[j]]
    /\ UNCHANGED <<cluster, faults, history>>

\* watch_tasks writes a new phase over the secondary status of the document, ...
Overwrite(j) ==
    doc' = IF known[j] # pod[j] /\ Stored(j) THEN [doc EXCEPT ![j].secondary = "phase"] ELSE doc

WatchRunning(j) ==
    /\ Examine(j)
    /\ pod[j] = "running" /\ known[j] # "running"
    /\ Overwrite(j)
    /\ known' = [known EXCEPT ![j] = "running"]
    /\ UNCHANGED <<tracked, snap, killq, ending, passVars, early, requests, cluster, faults, history>>

\* Nobody looks at the result of a deletion: the pod may stay.
Delete(j) ==
    \/ pod' = [pod EXCEPT ![j] = "none"] /\ UNCHANGED <<faults, left>>
    \/ /\ faults < MaxFaults /\ faults' = faults + 1
       /\ left' = left \cup {j}
       /\ UNCHANGED pod

\* ... deletes the pod that ended, and reports a failure when the status has the
\* reason of the end of the container: without it an exception cuts it short.
WatchEnded(j) ==
    /\ pod[j] \in Ended
    /\ TakeOut(j, IF pod[j] = "failed" THEN "watch failed" ELSE "watch")
    /\ IF pod[j] = "lost" THEN UNCHANGED doc ELSE Overwrite(j)
    /\ Delete(j)
    /\ UNCHANGED <<unfit, known, pods>>

\* A pending pod with an event, maybe that of an earlier pod of the same name: ...
WatchPending(j) ==
    /\ pod[j] = "pending" /\ j \in unfit
    /\ TakeOut(j, "unschedulable")
    /\ UNCHANGED <<doc, cluster, known, faults, history>>

\* ... it is deleted, and the document set to pending.  The id is dropped, the key
\* is not.
GiveBack(j) ==
    /\ <<j, "unschedulable">> \in ending
    /\ ending' = ending \ {<<j, "unschedulable">>}
    /\ Delete(j)
    /\ doc' = IF Stored(j) THEN [doc EXCEPT ![j].status = "pending", ![j].secondary = "rejected"]
              ELSE doc
    /\ UNCHANGED <<tracked, snap, killq, passVars, early, requests, unfit, known, pods>>

\* kill_task: the pod is deleted, or was not there.
KillPod(k) ==
    /\ KillDone(k)
    /\ pod' = [pod EXCEPT ![k[1]] = "none"]
    /\ UNCHANGED <<unfit, known, faults, history>>

KillPodFails(k) ==
    /\ faults < MaxFaults
    /\ faults' = faults + 1
    /\ KillFails(k)
    /\ UNCHANGED <<cluster, known, history>>

EndPending(j) ==
    /\ KillPending(j)
    /\ left' = IF UnderWay(j) THEN left \cup {j} ELSE left
    /\ UNCHANGED <<cluster, known, faults, pods>>

Other == UNCHANGED <<cluster, known, faults, history>>

-----------------------------------------------------------------------------
Scheduler ==
    \/ BeginPass /\ Other
    \/ \E j \in Job : RunTask(j) \/ RunConflict(j) \/ RunLostAnswer(j) \/ RunFailed(j)
    \/ PublishPods

Kill(k) == KillPod(k)
End(e) == (Finish(e) /\ Other) \/ GiveBack(e[1])
Watch(j) == WatchRunning(j) \/ WatchEnded(j) \/ WatchPending(j) \/ (DropUnknown(j) /\ Other)

Next ==
    \/ \E j \in Job : (Submit(j) \/ Request(j)) /\ Other
    \/ Scheduler
    \/ \E j \in Job : Watch(j) \/ EndPending(j)
    \/ \E k \in killq : Kill(k) \/ KillPodFails(k)
    \/ \E e \in ending : End(e)
    \/ \E j \in Job : CannotSchedule(j) \/ PodStarts(j) \/ PodEnds(j) \/ EventsExpire(j)

Spec == Init /\ [][Next]_vars

-----------------------------------------------------------------------------
(* Properties: see ExecutorPlugins. *)

\* A pod that run_tasks created without reporting it, or that was not deleted, is
\* known to nobody: every later creation is refused because of that pod.  A job that
\* was killed as a pending one while run_tasks had it runs all the same.  And a
\* request made for one run may be served when the next one has begun.
Calm(j) == j \notin left /\ (pods[j] <= 1 \/ requests = 0)

Live(j) == pod[j] # "none"
HasEnded(j) == pod[j] \in Ended
Followed(j) ==
    j \in started \/ (tracked[j] > 0 /\ j \in snap) \/ <<j, "unschedulable">> \in ending
=============================================================================
