---------------------------- MODULE ExecutorPlugins ----------------------------
(***************************************************************************)
(* What iExecutorPlugin promises to the scheduler and to the watchers,     *)
(* stated once for the plugins that extend ExecutorClient.  The            *)
(* configuration names the plugin that serves the jobs.                    *)
(***************************************************************************)
EXTENDS ExecutorClient, SequencesExt

CONSTANTS KubernetesJob, Alike, Interactive, PortRange, MaxPauses, MaxFaults

ASSUME PluginsAssumption ==
    /\ KubernetesJob \subseteq Job /\ Interactive \subseteq Job
    /\ {PortRange, MaxPauses, MaxFaults} \subseteq Nat
    /\ Interactive # {} => PortRange > 0

VARIABLES
    plugin,
    pod, unfit, known, pods,                                \* KubernetesExecutor
    sge, submitted, key, asked,                             \* SGEExecutor
    box, orphans, pool, ports, taken, stray, pauseq,        \* SwarmExecutor
    pauses, fills, runs, kept,
    faults, left                                            \* all of them

Kubernetes == INSTANCE KubernetesExecutor WITH Job <- KubernetesJob
SGE == INSTANCE SGEExecutor
Swarm == INSTANCE SwarmExecutor

kubernetesVars == <<pod, unfit, known, pods>>
sgeVars == <<sge, submitted, key, asked>>
swarmVars == <<box, orphans, pool, ports, taken, stray, pauseq, pauses, fills, runs, kept>>
vars == <<plugin, client, kubernetesVars, sgeVars, swarmVars, faults, left>>

Init ==
    /\ plugin \in {"kubernetes", "sge", "swarm"}
    /\ IF plugin = "kubernetes" THEN Kubernetes!ClientInit ELSE ClientInit
    /\ Kubernetes!PluginInit /\ SGE!PluginInit /\ Swarm!PluginInit

\* The variables of the other plugins do not change.
IsKubernetes == plugin = "kubernetes" /\ UNCHANGED <<plugin, sgeVars, swarmVars>>
IsSGE == plugin = "sge" /\ UNCHANGED <<plugin, kubernetesVars, swarmVars>>
IsSwarm == plugin = "swarm" /\ UNCHANGED <<plugin, kubernetesVars, sgeVars>>

Next == \/ IsKubernetes /\ Kubernetes!Next
        \/ IsSGE /\ SGE!Next
        \/ IsSwarm /\ Swarm!Next

Spec == Init /\ [][Next]_vars

Scheduler == \/ IsKubernetes /\ Kubernetes!Scheduler
             \/ IsSGE /\ SGE!Scheduler
             \/ IsSwarm /\ Swarm!Scheduler

Watch(j) == \/ IsKubernetes /\ Kubernetes!Watch(j)
            \/ IsSGE /\ SGE!Watch(j)
            \/ IsSwarm /\ Swarm!Watch(j)

Kill(k) == \/ IsKubernetes /\ Kubernetes!Kill(k)
           \/ IsSGE /\ SGE!Kill(k)
           \/ IsSwarm /\ Swarm!Kill(k)

End(e) == \/ IsKubernetes /\ Kubernetes!End(e)
          \/ IsSGE /\ SGE!End(e)
          \/ IsSwarm /\ Swarm!End(e)

EndPending(j) == \/ IsKubernetes /\ Kubernetes!EndPending(j)
                 \/ IsSGE /\ SGE!EndPending(j)
                 \/ IsSwarm /\ Swarm!EndPending(j)

(***************************************************************************)
(* Fairness.  The scheduler and the watchers do not stop.  The watchers    *)
(* come back to every id and to every request, though not to one that is   *)
(* in their hands, hence the strong fairness.  Nothing is assumed of the   *)
(* jobs, nor of the systems that run them.                                 *)
(***************************************************************************)
FairSpec ==
    /\ Spec
    /\ WF_vars(Scheduler)
    /\ \A j \in Job :
        /\ SF_vars(Watch(j))
        /\ \A n \in 0 .. MaxTentatives : SF_vars(Kill(<<j, n>>))
        /\ SF_vars(EndPending(j))
        /\ \A a \in {"watch", "watch failed", "kill", "unschedulable", "over", "again"} :
               WF_vars(End(<<j, a>>))

-----------------------------------------------------------------------------
Served == IF plugin = "kubernetes" THEN KubernetesJob ELSE Job

Calm(j) == \/ plugin = "kubernetes" /\ Kubernetes!Calm(j)
           \/ plugin = "sge" /\ SGE!Calm(j)
           \/ plugin = "swarm" /\ Swarm!Calm(j)

Live(j) == \/ plugin = "kubernetes" /\ Kubernetes!Live(j)
           \/ plugin = "sge" /\ SGE!Live(j)
           \/ plugin = "swarm" /\ Swarm!Live(j)

HasEnded(j) == \/ plugin = "kubernetes" /\ Kubernetes!HasEnded(j)
               \/ plugin = "sge" /\ SGE!HasEnded(j)
               \/ plugin = "swarm" /\ Swarm!HasEnded(j)

Followed(j) == \/ plugin = "kubernetes" /\ Kubernetes!Followed(j)
               \/ plugin = "sge" /\ SGE!Followed(j)
               \/ plugin = "swarm" /\ Swarm!Followed(j)

TypeOK == \/ plugin = "kubernetes" /\ Kubernetes!TypeOK
          \/ plugin = "sge" /\ SGE!TypeOK
          \/ plugin = "swarm" /\ Swarm!TypeOK

(***************************************************************************)
(* A task is calm while no failure of the system behind the plugin hid it  *)
(* from the code, no kill of its pending copy was served once run_tasks    *)
(* had it, and no request for one of its runs met the next one.            *)
(***************************************************************************)

\* What runs is followed: its job is not over (watch_tasks and kill_task say so of
\* what ended only), and its id is on its way to the running list, or there with its
\* key, or in the hands of a watcher (run_tasks returns what it started).
LiveIsFollowed ==
    \A j \in Served : (Live(j) /\ Calm(j)) => doc[j].status # "over" /\ Followed(j)

\* The ports of the interactive jobs.
PortsApart == plugin = "swarm" => Swarm!PortsApart

\* The end of a running job is noticed.
EndNoticed ==
    \A j \in Job : (doc[j].status = "running" /\ HasEnded(j) /\ Calm(j))
                       ~> (doc[j].status # "running" \/ ~Calm(j))

\* A pending job leaves that state.
PendingStarts ==
    \A j \in Job : (doc[j].status = "pending" /\ Calm(j))
                       ~> (doc[j].status # "pending" \/ ~Calm(j))

\* A request to kill a running job is served, or given up openly, even if it was made
\* when the job was pending.
KillServed ==
    \A j \in Job : (doc[j].status = "running"
                        /\ (j \in early \/ \E n \in 0 .. MaxTentatives : <<j, n>> \in killq))
                       ~> (doc[j].status # "running" \/ doc[j].secondary = "unknown" \/ ~Calm(j))
=============================================================================
