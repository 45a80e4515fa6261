------------------------------ MODULE SGEExecutor ------------------------------
(***************************************************************************)
(* The Grid Engine executor (plugins/sge.py), a wrapper of qsub, qstat,    *)
(* qacct and qdel.  A job may be submitted several times: each submission  *)
(* has an id of its own, and the last one published is in the document.    *)
(***************************************************************************)
EXTENDS ExecutorClient

CONSTANTS
    Alike,          \* pairs <<i, j>>: the id of i is part of the line of j in qstat
    MaxFaults       \* bound: commands that fail

VARIABLES
    sge,            \* Grid Engine: state of each submission of each job
    submitted,      \* number of submissions
    key,            \* the submission that is in the document and in the key
    asked,          \* the submission that is in the request on the kill list
    faults,         \* bound
    left            \* history: jobs a failing command hid, or that were killed too early

cluster == <<sge, submitted>>
vars == <<client, cluster, key, asked, faults, left>>

MaxRuns == 1 + MaxRequests + MaxFaults
Run == 0 .. MaxRuns     \* 0: not submitted yet

\* "ended": no longer in qstat and not yet in the accounts, where qacct looks.
Waiting == {"queued", "error"}
Listed == Waiting \cup {"running"}
State == {"none", "ended", "accounted", "deleted"} \cup Listed

TypeOK ==
    /\ ClientTypeOK
    /\ sge \in [Job -> [Run -> State]]
    /\ {submitted, key, asked} \subseteq [Job -> Run]
    /\ faults \in 0 .. MaxFaults
    /\ left \subseteq Job

PluginInit ==
    /\ sge = [j \in Job |-> [r \in Run |-> "none"]]
    /\ submitted = [j \in Job |-> 0] /\ key = submitted /\ asked = submitted
    /\ faults = 0 /\ left = {}

Init == ClientInit /\ PluginInit

-----------------------------------------------------------------------------
(* Grid Engine. *)

Becomes(j, r, s) == sge' = [sge EXCEPT ![j][r] = s]

Engine(j, r) ==
    /\ \/ sge[j][r] = "queued" /\ Becomes(j, r, "running")
       \/ sge[j][r] = "queued" /\ Becomes(j, r, "error")
       \/ sge[j][r] = "running" /\ Becomes(j, r, "ended")
       \/ sge[j][r] = "ended" /\ Becomes(j, r, "accounted")
    /\ UNCHANGED <<client, submitted, key, asked, faults, left>>

Other == UNCHANGED <<cluster, key, asked, faults, left>>

-----------------------------------------------------------------------------
(* The plugin. *)

Qsub(j) ==
    /\ submitted' = [submitted EXCEPT ![j] = @ + 1]
    /\ Becomes(j, submitted[j] + 1, "queued")

Fault == faults < MaxFaults /\ faults' = faults + 1

\* run_tasks.
RunTask(j) ==
    /\ Treat(j)
    /\ Qsub(j)
    /\ started' = started \cup {j}
    /\ UNCHANGED <<refused, key, asked, faults, left>>

\* Docker is not allowed, qsub fails, or its answer has no id.
RunRefused(j) ==
    /\ Treat(j)
    /\ Fault
    /\ refused' = refused \cup {j}
    /\ UNCHANGED <<started, cluster, key, asked, left>>

\* An exception, before the submission (no port is left) or after it (no log to
\* read the id from), leaves run_tasks: what was submitted is not published.
RunRaises(j) ==
    /\ spc = "run" /\ j \in batch
    /\ Fault
    /\ Abort
    /\ \/ Qsub(j) /\ left' = left \cup started \cup {j}
       \/ UNCHANGED cluster /\ left' = left \cup started
    /\ UNCHANGED <<key, asked>>

PublishRuns ==
    /\ Publish("none")
    /\ key' = [j \in Job |-> IF j \in started THEN submitted[j] ELSE key[j]]
    /\ UNCHANGED <<cluster, asked, faults, left>>

\* The request has the document of the moment.
RequestRun(j) ==
    /\ Request(j)
    /\ asked' = IF doc[j].status = "running" THEN [asked EXCEPT ![j] = key[j]] ELSE asked
    /\ UNCHANGED <<cluster, key, faults, left>>

\* The states in the lines of qstat that have the id in them.
Lines(j) ==
    {s \in Listed : \/ sge[j][key[j]] = s
                    \/ \E i \in Job, r \in Run : <<j, i>> \in Alike /\ sge[i][r] = s}

\* watch_tasks: the job is not listed, and it is in the accounts.
WatchAccounted(j) ==
    /\ Lines(j) = {} /\ sge[j][key[j]] = "accounted"
    /\ TakeOut(j, "watch")
    /\ UNCHANGED doc
    /\ Other

Qdel(j, r) ==
    sge' = [sge EXCEPT ![j][r] = IF @ = "running" THEN "ended"
                                 ELSE IF @ \in Waiting THEN "deleted" ELSE @]

\* The first line that has the id shows an error: the job is deleted and over.
WatchError(j) ==
    /\ "error" \in Lines(j)
    /\ TakeOut(j, "watch")
    /\ Qdel(j, key[j])
    /\ UNCHANGED <<doc, submitted, key, asked, faults, left>>

\* qstat -explain fails: the exception loses the id that was taken from the list.
WatchRaises(j) ==
    /\ Examine(j)
    /\ "error" \in Lines(j)
    /\ Fault
    /\ tracked' = [tracked EXCEPT ![j] = @ - 1]
    /\ left' = left \cup {j}
    /\ UNCHANGED <<doc, snap, killq, ending, passVars, early, requests, cluster, key, asked>>

\* kill_task is done whatever qdel answers.
KillRun(k) ==
    LET j == k[1]
    IN  /\ KillDone(k)
        /\ \/ Qdel(j, asked[j]) /\ UNCHANGED <<faults, left>>
           \/ Fault /\ left' = left \cup {j} /\ UNCHANGED sge
        /\ UNCHANGED <<submitted, key, asked>>

EndPending(j) ==
    /\ KillPending(j)
    /\ left' = IF UnderWay(j) THEN left \cup {j} ELSE left
    /\ UNCHANGED <<cluster, key, asked, faults>>

-----------------------------------------------------------------------------
Scheduler ==
    \/ BeginPass /\ Other
    \/ \E j \in Job : RunTask(j) \/ RunRefused(j) \/ RunRaises(j)
    \/ PublishRuns

Kill(k) == KillRun(k)
End(e) == Finish(e) /\ Other
Watch(j) == WatchAccounted(j) \/ WatchError(j) \/ WatchRaises(j) \/ (DropUnknown(j) /\ Other)

Next ==
    \/ \E j \in Job : (Submit(j) /\ Other) \/ RequestRun(j)
    \/ Scheduler
    \/ \E j \in Job : Watch(j) \/ EndPending(j)
    \/ \E k \in killq : Kill(k)
    \/ \E e \in ending : End(e)
    \/ \E j \in Job, r \in Run : Engine(j, r)

Spec == Init /\ [][Next]_vars

-----------------------------------------------------------------------------
(* Properties: see ExecutorPlugins. *)

\* A submission that was not published, or a qdel that failed, is known to nobody; a
\* job that was killed as a pending one while run_tasks had it runs all the same; and
\* a request made for one run may be served when the next one has begun.
Calm(j) == j \notin left /\ (submitted[j] <= 1 \/ requests = 0)

Live(j) == \E r \in Run : sge[j][r] \in Listed
HasEnded(j) == sge[j][key[j]] = "accounted"
Followed(j) == j \in started \/ (tracked[j] > 0 /\ j \in snap)
=============================================================================
