---------------------------- MODULE JobLifecycle ----------------------------
(***************************************************************************)
(* The life of an ordinary (not array) job in GO-Docker: one active        *)
(* scheduler, any number of watchers and the web front end share two       *)
(* Mongo collections (jobs, jobsover) and a few Redis keys.  No call is    *)
(* protected by a lock or a transaction: a handler is a sequence of        *)
(* single Mongo or Redis calls, and every other process may run between    *)
(* two of them.  An action below is the longest piece of a handler whose   *)
(* calls commute with what the other processes can do meanwhile.           *)
(*                                                                         *)
(* Abstractions.  The per-user counter user:<id>:rate moves with           *)
(* jobs:queued (both are changed by the same lines) and is not kept.  The  *)
(* ports of interactive jobs, array jobs and suspend/resume are the        *)
(* subject of other modules.  max_job_pop only bounds how many entries one *)
(* pass takes from a list, so a process may go on or start again after     *)
(* each entry.                                                             *)
(***************************************************************************)
EXTENDS Integers, Sequences, FiniteSets

CONSTANTS
    Job,            \* the jobs users may submit
    Watcher,        \* the go-d-watcher processes
    NoTask,         \* the value of an empty hand
    DependsOn,      \* requirements.tasks of each job
    OverQuota,      \* jobs that may find their owner above a disk, user or project quota
    Expiring,       \* jobs the maxlifespan watcher may find too old
    FailurePolicy,  \* requirements.failure_policy, capped by the configuration
    MaxTentatives,  \* kill attempts before the watcher gives up (10 in the code)
    MaxRuns,        \* bound: containers started for one job
    MaxKills,       \* bound: kill requests made by users
    MaxReschedules, \* bound: reschedule requests made by users
    MaxCrashes,     \* bound: crashes of a watcher or of the scheduler
    MaxOutages      \* bound: those of the scheduler among them

ASSUME ConstantsAssumption ==
    /\ DependsOn \in [Job -> SUBSET Job]
    /\ OverQuota \subseteq Job
    /\ Expiring \subseteq Job
    /\ FailurePolicy \in Nat
    /\ MaxTentatives \in Nat
    /\ MaxRuns \in Nat
    /\ MaxKills \in Nat
    /\ MaxReschedules \in Nat
    /\ MaxCrashes \in Nat
    /\ MaxOutages \in Nat

VARIABLES
    \* Mongo
    jobs,       \* collection jobs: one document per job not finished
    jobsover,   \* collection jobsover: how many documents each job has there
    \* Redis
    running,    \* list :jobs:running, of job ids
    killq,      \* list :jobs:kill, of task dictionaries
    reschedq,   \* list :jobs:reschedule, of task dictionaries
    snap,       \* keys :job:<id>:task, the container the stored task runs in, 0: no key
    queued,     \* counter :jobs:queued
    usage,      \* how many times the resources of a job were added to its owner's usage
    \* the executor
    launched,   \* containers created so far for each job
    up,         \* containers now running, pairs <<job, number>>
    failed,     \* containers that died with their node, not yet noticed
    retries,    \* containers whose task carries the reason of an earlier failure
    \* the scheduler process
    spc, batch, accepted, starting, refused, scur,
    \* the watcher processes
    wpc, hand,
    \* bounds
    kills, reschedules, crashes, outages

mongo == <<jobs, jobsover>>
lists == <<running, killq, reschedq>>
keys == <<snap, queued, usage>>
executor == <<launched, up, failed, retries>>
scheduler == <<spc, batch, accepted, starting, refused, scur>>
watchers == <<wpc, hand>>
bounds == <<kills, reschedules, crashes, outages>>
vars == <<mongo, lists, keys, executor, scheduler, watchers, bounds>>

-----------------------------------------------------------------------------
(* Types. *)

Primary == {"new", "counted", "pending", "running", "gone"}
Secondary == {"none", "kill requested", "reschedule requested", "rescheduled",
              "rejected by scheduler", "unknown"}

\* "new" and "counted": not inserted yet; "gone": removed.  In these cases there
\* is no document; run is container.id, fails is status.failure.count.
Document == [primary : Primary, secondary : Secondary, run : Nat, fails : Nat]
NewDocument == [primary |-> "new", secondary |-> "none", run |-> 0, fails |-> 0]

\* A task dictionary, as it is found in the kill and reschedule lists or in
\* the hands of a watcher: a copy of a document that is not updated with it.
\* "over" is TRUE when the watcher got it from the list of running jobs, and
\* failed when it carries a status.failure.reason.
Task == [job : Job, primary : {"pending", "running"}, run : Nat, tries : Nat,
         over : BOOLEAN, failed : BOOLEAN, fails : Nat]

WatcherPC == {"idle", "kill", "original", "requeue", "reset", "unsnap",
              "remove", "insert", "close", "alive", "stamp"}
SchedulerPC == {"idle", "filter", "quota", "publish", "pushed", "snapped", "marking"}

MongoTyped ==
    /\ jobs \in [Job -> Document]
    /\ jobsover \in [Job -> Nat]

ListsTyped ==
    /\ running \in Seq(Job)
    /\ killq \in Seq(Task)
    /\ reschedq \in Seq(Task)

KeysTyped ==
    /\ snap \in [Job -> Nat]
    /\ queued \in Int
    /\ usage \in [Job -> Nat]

ExecutorTyped ==
    /\ launched \in [Job -> Nat]
    /\ up \subseteq Job \X Nat
    /\ failed \subseteq Job \X Nat
    /\ retries \subseteq Job \X Nat

SchedulerTyped ==
    /\ spc \in SchedulerPC
    /\ batch \subseteq Job
    /\ accepted \subseteq Job
    /\ starting \subseteq Job
    /\ refused \subseteq Job
    /\ scur \in Job \cup {NoTask}
    /\ spc \in {"quota", "pushed", "snapped", "marking"} => scur \in Job

WatchersTyped ==
    /\ wpc \in [Watcher -> WatcherPC]
    /\ hand \in [Watcher -> Task \cup {NoTask}]
    /\ \A w \in Watcher : wpc[w] # "idle" => hand[w] \in Task

BoundsTyped ==
    /\ kills \in Nat
    /\ reschedules \in Nat
    /\ crashes \in Nat
    /\ outages \in Nat

\* Every variable has its type; in particular a watcher that is not idle has a
\* task in hand, and the scheduler knows which job it is publishing.
TypeOK ==
    /\ MongoTyped
    /\ ListsTyped
    /\ KeysTyped
    /\ ExecutorTyped
    /\ SchedulerTyped
    /\ WatchersTyped
    /\ BoundsTyped

-----------------------------------------------------------------------------
(* The calls the handlers are made of. *)

Stored(j) == jobs[j].primary \in {"pending", "running"}

\* Mutant: the update inserts the document when there is none (upsert).
UpdateDocUpsert(j, doc) == jobs' = [jobs EXCEPT ![j] = doc]

\* db_jobs.update({'id': ..}, {'$set': ..}) does nothing when the document
\* has been removed meanwhile.
UpdateDoc(j, doc) ==
    jobs' = IF Stored(j) THEN [jobs EXCEPT ![j] = doc] ELSE jobs

SetSecondary(j, s) == UpdateDoc(j, [jobs[j] EXCEPT !.secondary = s])

\* Mutant: the removal from jobs is forgotten.
RemoveRecordOnly(j) == jobsover' = [jobsover EXCEPT ![j] = 0] /\ UNCHANGED jobs

\* db_jobs.remove, then db_jobsover.remove when nothing was removed.
RemoveDoc(j) ==
    \/ /\ Stored(j)
       /\ jobs' = [jobs EXCEPT ![j].primary = "gone"]
       /\ UNCHANGED jobsover
    \/ /\ ~Stored(j)
       /\ jobsover' = [jobsover EXCEPT ![j] = 0]
       /\ UNCHANGED jobs

InsertRecord(j) == jobsover' = [jobsover EXCEPT ![j] = @ + 1]

DeleteSnapshot(j) == snap' = [snap EXCEPT ![j] = 0]

\* A copy of the document of j.
Copy(j) == [job |-> j, primary |-> jobs[j].primary, run |-> jobs[j].run,
            tries |-> 0, over |-> FALSE, failed |-> FALSE, fails |-> 0]

\* The task stored under :job:<id>:task, as check_running_jobs reads it.
Snapshot(j, f) == [job |-> j, primary |-> "running", run |-> snap[j],
                   tries |-> 0, over |-> TRUE, failed |-> f, fails |-> 0]

Goto(w, pc) == wpc' = [wpc EXCEPT ![w] = pc]
Take(w, task, pc) == Goto(w, pc) /\ hand' = [hand EXCEPT ![w] = task]
\* Mutant: the watcher drops its task and stays in the middle of the handler.
ReleaseInPlace(w) == hand' = [hand EXCEPT ![w] = NoTask] /\ UNCHANGED wpc
Release(w) == Take(w, NoTask, "idle")

Init ==
    /\ jobs = [j \in Job |-> NewDocument]
    /\ jobsover = [j \in Job |-> 0]
    /\ running = <<>>
    /\ killq = <<>>
    /\ reschedq = <<>>
    /\ snap = [j \in Job |-> 0]
    /\ queued = 0
    /\ usage = [j \in Job |-> 0]
    /\ launched = [j \in Job |-> 0]
    /\ up = {}
    /\ failed = {}
    /\ retries = {}
    /\ spc = "idle"
    /\ batch = {}
    /\ accepted = {}
    /\ starting = {}
    /\ refused = {}
    /\ scur = NoTask
    /\ wpc = [w \in Watcher |-> "idle"]
    /\ hand = [w \in Watcher |-> NoTask]
    /\ kills = 0
    /\ reschedules = 0
    /\ crashes = 0
    /\ outages = 0

-----------------------------------------------------------------------------
(* The users, through the web front end, and the executor's containers. *)

\* add_task of a job that is not an array counts the job, ...
Count(j) ==
    /\ jobs[j].primary = "new"
    /\ queued' = queued + 1
    /\ jobs' = [jobs EXCEPT ![j].primary = "counted"]
    /\ UNCHANGED <<jobsover, lists, snap, usage, executor, scheduler, watchers,
                   bounds>>

\* ... then inserts its document.
Submit(j) ==
    /\ jobs[j].primary = "counted"
    /\ jobs' = [jobs EXCEPT ![j].primary = "pending"]
    /\ UNCHANGED <<jobsover, lists, keys, executor, scheduler, watchers, bounds>>

\* IGoDockerPlugin.kill_tasks, which the web calls for a job it finds in jobs.
RequestKill(j) ==
    /\ Stored(j)
    /\ kills < MaxKills
    /\ kills' = kills + 1
    /\ SetSecondary(j, "kill requested")
    /\ killq' = Append(killq, Copy(j))
    /\ UNCHANGED <<jobsover, running, reschedq, keys, executor, scheduler,
                   watchers, reschedules, crashes, outages>>

\* The web puts a running task in the list the scheduler reads.
RequestReschedule(j) ==
    /\ jobs[j].primary = "running"
    /\ reschedules < MaxReschedules
    /\ reschedules' = reschedules + 1
    /\ reschedq' = Append(reschedq, Copy(j))
    /\ UNCHANGED <<mongo, running, killq, keys, executor, scheduler, watchers,
                   kills, crashes, outages>>

\* The command of a container ends, or its node fails.
ContainerEnds(c) ==
    /\ c \in up
    /\ up' = up \ {c}
    /\ \/ failed' = failed
       \/ FailurePolicy > 0 /\ failed' = failed \cup {c}
    /\ UNCHANGED <<mongo, lists, keys, launched, retries, scheduler, watchers,
                   bounds>>

-----------------------------------------------------------------------------
(* The scheduler: manage_tasks, run_tasks, reject_quota and                *)
(* _update_scheduled_task_status.                                          *)

\* Mutant: the query does not ask for the pending jobs only.
EligibleStored == {j \in Job : Stored(j)}

Eligible == {j \in Job : jobs[j].primary = "pending"}

\* find({'status.primary': 'pending'}), ordered by the scheduling policy.  The
\* task of the next container is made from the document read here.
SchedulerRead ==
    /\ spc = "idle"
    /\ spc' = "filter"
    /\ batch' = Eligible
    /\ retries' = retries \cup {<<j, launched[j] + 1>> :
                                    j \in {i \in Eligible : jobs[i].fails > 0}}
    /\ UNCHANGED <<mongo, lists, keys, launched, up, failed, accepted, starting,
                   refused, scur, watchers, bounds>>

\* Mutant: a dependency that is no more pending is good enough.
DependenciesStarted(j) == \A d \in DependsOn[j] : jobs[d].primary # "pending"

DependenciesOver(j) == \A d \in DependsOn[j] : jobsover[d] > 0

\* A task whose dependencies are not over stays pending.
SchedulerSkip(j) ==
    /\ spc = "filter"
    /\ j \in batch
    /\ ~DependenciesOver(j)
    /\ batch' = batch \ {j}
    /\ UNCHANGED <<mongo, lists, keys, executor, spc, accepted, starting,
                   refused, scur, watchers, bounds>>

SchedulerAccept(j) ==
    /\ spc = "filter"
    /\ j \in batch
    /\ DependenciesOver(j)
    /\ batch' = batch \ {j}
    /\ accepted' = accepted \cup {j}
    /\ UNCHANGED <<mongo, lists, keys, executor, spc, starting, refused, scur,
                   watchers, bounds>>

\* reject_quota, first part: the document leaves jobs.
SchedulerRejectQuota(j) ==
    /\ spc = "filter"
    /\ j \in batch \cap OverQuota
    /\ DependenciesOver(j)
    /\ batch' = batch \ {j}
    /\ RemoveDoc(j)
    /\ scur' = j
    /\ spc' = "quota"
    /\ UNCHANGED <<lists, keys, executor, accepted, starting, refused,
                   watchers, bounds>>

\* reject_quota, second part; the counter of queued jobs is not changed.
SchedulerInsertRejected ==
    /\ spc = "quota"
    /\ InsertRecord(scur)
    /\ DeleteSnapshot(scur)
    /\ spc' = "filter"
    /\ scur' = NoTask
    /\ UNCHANGED <<jobs, lists, queued, usage, executor, batch, accepted,
                   starting, refused, watchers, bounds>>

\* executor.run_tasks: some tasks get a container, the others are refused.
\* Nothing is read again from Mongo before.
SchedulerLaunch(R) ==
    /\ spc = "filter"
    /\ batch = {}
    /\ R \subseteq {j \in accepted : launched[j] < MaxRuns}
    /\ launched' = [j \in Job |-> IF j \in R THEN launched[j] + 1 ELSE launched[j]]
    /\ up' = up \cup {<<j, launched[j] + 1>> : j \in R}
    /\ starting' = R
    /\ refused' = accepted \ R
    /\ accepted' = {}
    /\ spc' = "publish"
    /\ UNCHANGED <<mongo, lists, keys, failed, retries, batch, scur, watchers,
                   bounds>>

\* rpush of the id, before the key of the task is set.
SchedulerPush(j) ==
    /\ spc = "publish"
    /\ j \in starting
    /\ running' = Append(running, j)
    /\ starting' = starting \ {j}
    /\ scur' = j
    /\ spc' = "pushed"
    /\ UNCHANGED <<mongo, killq, reschedq, keys, executor, batch, accepted,
                   refused, watchers, bounds>>

SchedulerSnapshot ==
    /\ spc = "pushed"
    /\ snap' = [snap EXCEPT ![scur] = launched[scur]]
    /\ spc' = "snapped"
    /\ UNCHANGED <<mongo, lists, queued, usage, executor, batch, accepted,
                   starting, refused, scur, watchers, bounds>>

\* decr of the counter, while the document still says 'pending', ...
SchedulerCountOut ==
    /\ spc = "snapped"
    /\ queued' = queued - 1
    /\ spc' = "marking"
    /\ UNCHANGED <<mongo, lists, snap, usage, executor, batch, accepted,
                   starting, refused, scur, watchers, bounds>>

\* ... then the update of the document.
SchedulerMark ==
    /\ spc = "marking"
    /\ UpdateDoc(scur, [jobs[scur] EXCEPT !.primary = "running",
                                          !.secondary = "none",
                                          !.run = launched[scur]])
    /\ spc' = "publish"
    /\ scur' = NoTask
    /\ UNCHANGED <<jobsover, lists, keys, executor, batch, accepted, starting,
                   refused, watchers, bounds>>

SchedulerRefuse(j) ==
    /\ spc = "publish"
    /\ starting = {}
    /\ j \in refused
    /\ refused' = refused \ {j}
    /\ SetSecondary(j, "rejected by scheduler")
    /\ UNCHANGED <<jobsover, lists, keys, executor, spc, batch, accepted,
                   starting, scur, watchers, bounds>>

SchedulerEndPass ==
    /\ spc = "publish"
    /\ starting = {}
    /\ refused = {}
    /\ spc' = "idle"
    /\ UNCHANGED <<mongo, lists, keys, executor, batch, accepted, starting,
                   refused, scur, watchers, bounds>>

\* manage_tasks takes an entry of the reschedule list, reschedule_tasks marks
\* the document and asks the watchers for a kill.
SchedulerReschedule ==
    /\ spc = "idle"
    /\ reschedq # <<>>
    /\ reschedq' = Tail(reschedq)
    /\ SetSecondary(Head(reschedq).job, "reschedule requested")
    /\ killq' = Append(killq, Head(reschedq))
    /\ UNCHANGED <<jobsover, running, keys, executor, scheduler, watchers,
                   bounds>>

\* The process dies and is started again; check_redis resets the counter and
\* the list of running jobs when no job is stored.
SchedulerCrash ==
    /\ crashes < MaxCrashes
    /\ crashes' = crashes + 1
    /\ outages < MaxOutages
    /\ outages' = outages + 1
    /\ spc' = "idle"
    /\ batch' = {}
    /\ accepted' = {}
    /\ starting' = {}
    /\ refused' = {}
    /\ scur' = NoTask
    /\ IF \E j \in Job : Stored(j)
       THEN UNCHANGED <<queued, running>>
       ELSE queued' = 0 /\ running' = <<>>
    /\ UNCHANGED <<mongo, killq, reschedq, snap, usage, executor, watchers,
                   kills, reschedules>>

-----------------------------------------------------------------------------
(* A watcher: manage_tasks, kill_tasks and check_running_jobs.  The hand   *)
(* holds the local variable task.                                          *)

PopKill(w) ==
    /\ wpc[w] = "idle"
    /\ killq # <<>>
    /\ killq' = Tail(killq)
    /\ Take(w, Head(killq), "kill")
    /\ UNCHANGED <<mongo, running, reschedq, keys, executor, scheduler,
                   bounds>>

\* The task was pending when the request was made: nothing to stop.
KillPending(w) ==
    /\ wpc[w] = "kill"
    /\ hand[w].primary = "pending"
    /\ queued' = queued - 1
    /\ Goto(w, "original")
    /\ UNCHANGED <<mongo, lists, snap, usage, executor, scheduler, hand,
                   bounds>>

\* executor.kill_task succeeds, also when there is no such container any more.
KillContainer(w) ==
    /\ wpc[w] = "kill"
    /\ hand[w].primary = "running"
    /\ up' = up \ {<<hand[w].job, hand[w].run>>}
    /\ failed' = failed \ {<<hand[w].job, hand[w].run>>}
    /\ Goto(w, "original")
    /\ UNCHANGED <<mongo, lists, keys, launched, retries, scheduler, hand,
                   bounds>>

\* Mutant: a task the executor could not kill is not put back in the list.
KillFailsForgets(w) ==
    /\ wpc[w] = "kill"
    /\ hand[w].primary = "running"
    /\ Release(w)
    /\ UNCHANGED <<mongo, lists, keys, executor, scheduler, bounds>>

\* executor.kill_task fails: back in the list, or abandoned.
KillFails(w) ==
    LET task == [hand[w] EXCEPT !.tries = @ + 1]
    IN  /\ wpc[w] = "kill"
        /\ hand[w].primary = "running"
        /\ \/ /\ task.tries > MaxTentatives
              /\ SetSecondary(task.job, "unknown")
              /\ UNCHANGED killq
           \/ /\ task.tries <= MaxTentatives
              /\ killq' = Append(killq, task)
              /\ UNCHANGED jobs
        /\ Release(w)
        /\ UNCHANGED <<jobsover, running, reschedq, keys, executor, scheduler,
                       bounds>>

\* The document is looked up again.  Without one kill_tasks goes on with the
\* next task, and check_running_jobs raises an exception.
OriginalGone(w) ==
    /\ wpc[w] = "original"
    /\ ~Stored(hand[w].job)
    /\ Release(w)
    /\ UNCHANGED <<mongo, lists, keys, executor, scheduler, bounds>>

\* What the code decides from the task in hand and the document it finds.
MustRequeue(task) ==
    LET original == jobs[task.job]
    IN  IF task.over
        THEN /\ task.failed
             /\ original.secondary # "kill requested"
             /\ original.fails < FailurePolicy
        ELSE original.secondary = "reschedule requested"

OriginalRequeue(w) ==
    /\ wpc[w] = "original"
    /\ Stored(hand[w].job)
    /\ MustRequeue(hand[w])
    /\ Take(w, [hand[w] EXCEPT !.fails = jobs[hand[w].job].fails + 1], "requeue")
    /\ UNCHANGED <<mongo, lists, keys, executor, scheduler, bounds>>

OriginalFinish(w) ==
    /\ wpc[w] = "original"
    /\ Stored(hand[w].job)
    /\ ~MustRequeue(hand[w])
    /\ Goto(w, "remove")
    /\ UNCHANGED <<mongo, lists, keys, executor, scheduler, hand, bounds>>

\* Mutant: the restarted job is not counted again.
RequeueUncounted(w) ==
    /\ wpc[w] = "requeue"
    /\ DeleteSnapshot(hand[w].job)
    /\ Goto(w, "reset")
    /\ UNCHANGED <<mongo, lists, queued, usage, executor, scheduler, hand, bounds>>

\* The job goes back to the pending ones: delete the key and count, ...
Requeue(w) ==
    /\ wpc[w] = "requeue"
    /\ DeleteSnapshot(hand[w].job)
    /\ queued' = queued + 1
    /\ Goto(w, "reset")
    /\ UNCHANGED <<mongo, lists, usage, executor, scheduler, hand, bounds>>

\* ... then update the document.  After a failure the key is deleted again.
ResetPending(w) ==
    LET j == hand[w].job
    IN  /\ wpc[w] = "reset"
        /\ UpdateDoc(j, [jobs[j] EXCEPT !.primary = "pending",
                                        !.secondary = "rescheduled",
                                        !.fails = IF hand[w].over
                                                  THEN hand[w].fails ELSE @])
        /\ IF hand[w].over
           THEN Goto(w, "unsnap") /\ UNCHANGED hand
           ELSE Release(w)
        /\ UNCHANGED <<jobsover, lists, keys, executor, scheduler, bounds>>

DeleteSnapshotAgain(w) ==
    /\ wpc[w] = "unsnap"
    /\ DeleteSnapshot(hand[w].job)
    /\ Release(w)
    /\ UNCHANGED <<mongo, lists, queued, usage, executor, scheduler, bounds>>

\* Mutant: the insertion into jobsover is skipped.
RemoveAndClose(w) ==
    /\ wpc[w] = "remove"
    /\ RemoveDoc(hand[w].job)
    /\ Goto(w, "close")
    /\ UNCHANGED <<lists, keys, executor, scheduler, hand, bounds>>

\* The job is finished: out of jobs, ...
Remove(w) ==
    /\ wpc[w] = "remove"
    /\ RemoveDoc(hand[w].job)
    /\ Goto(w, "insert")
    /\ UNCHANGED <<lists, keys, executor, scheduler, hand, bounds>>

\* ... into jobsover, ...
InsertOver(w) ==
    /\ wpc[w] = "insert"
    /\ InsertRecord(hand[w].job)
    /\ Goto(w, "close")
    /\ UNCHANGED <<jobs, lists, keys, executor, scheduler, hand, bounds>>

\* ... then the key is deleted and the resources are accounted for.
Close(w) ==
    /\ wpc[w] = "close"
    /\ DeleteSnapshot(hand[w].job)
    /\ usage' = [usage EXCEPT ![hand[w].job] = @ + 1]
    /\ Release(w)
    /\ UNCHANGED <<mongo, lists, queued, executor, scheduler, bounds>>

\* An id without its key is dropped: the code takes the job for a killed one.
PopUnknown(w) ==
    /\ wpc[w] = "idle"
    /\ running # <<>>
    /\ snap[Head(running)] = 0
    /\ running' = Tail(running)
    /\ UNCHANGED <<mongo, killq, reschedq, keys, executor, scheduler,
                   watchers, bounds>>

\* Mutants: the head of the list is read and not popped.
PopAliveKeeps(w) ==
    LET j == Head(running)
    IN  /\ wpc[w] = "idle"
        /\ running # <<>>
        /\ snap[j] # 0
        /\ <<j, snap[j]>> \in up
        /\ Take(w, Snapshot(j, FALSE), "alive")
        /\ UNCHANGED <<mongo, lists, keys, executor, scheduler, bounds>>

PopOverKeeps(w) ==
    LET j == Head(running)
    IN  /\ wpc[w] = "idle"
        /\ running # <<>>
        /\ snap[j] # 0
        /\ <<j, snap[j]>> \notin up
        /\ Take(w, Snapshot(j, <<j, snap[j]>> \in failed \cup retries), "original")
        /\ failed' = failed \ {<<j, snap[j]>>}
        /\ UNCHANGED <<mongo, lists, keys, launched, up, retries, scheduler, bounds>>

\* executor.watch_tasks says the container still runs.
PopAlive(w) ==
    LET j == Head(running)
    IN  /\ wpc[w] = "idle"
        /\ running # <<>>
        /\ snap[j] # 0
        /\ <<j, snap[j]>> \in up
        /\ running' = Tail(running)
        /\ Take(w, Snapshot(j, FALSE), "alive")
        /\ UNCHANGED <<mongo, killq, reschedq, keys, executor, scheduler,
                       bounds>>

\* executor.watch_tasks finds it stopped, or finds none, and removes it.  The
\* reason of a failure stays in the document and in the tasks made from it.
PopOver(w) ==
    LET j == Head(running)
    IN  /\ wpc[w] = "idle"
        /\ running # <<>>
        /\ snap[j] # 0
        /\ <<j, snap[j]>> \notin up
        /\ running' = Tail(running)
        /\ Take(w, Snapshot(j, <<j, snap[j]>> \in failed \cup retries), "original")
        /\ failed' = failed \ {<<j, snap[j]>>}
        /\ UNCHANGED <<mongo, killq, reschedq, keys, launched, up, retries,
                       scheduler, bounds>>

\* Mutant: the id is not pushed back.
PushBackForgets(w) ==
    /\ wpc[w] = "alive"
    /\ Goto(w, "stamp")
    /\ UNCHANGED <<mongo, lists, keys, executor, scheduler, hand, bounds>>

\* A job that may go on: the id is pushed back, then the key is set again.
PushBack(w) ==
    /\ wpc[w] = "alive"
    /\ running' = Append(running, hand[w].job)
    /\ Goto(w, "stamp")
    /\ UNCHANGED <<mongo, killq, reschedq, keys, executor, scheduler, hand,
                   bounds>>

Stamp(w) ==
    /\ wpc[w] = "stamp"
    /\ snap' = [snap EXCEPT ![hand[w].job] = hand[w].run]
    /\ Release(w)
    /\ UNCHANGED <<mongo, lists, queued, usage, executor, scheduler, bounds>>

\* MaxLifespanWatcher.can_run requests a kill, and the id is not pushed back.
Expire(w) ==
    LET task == hand[w]
    IN  /\ wpc[w] = "alive"
        /\ task.job \in Expiring
        /\ SetSecondary(task.job, "kill requested")
        /\ killq' = Append(killq, [task EXCEPT !.over = FALSE])
        /\ Release(w)
        /\ UNCHANGED <<jobsover, running, reschedq, keys, executor, scheduler,
                       bounds>>

\* The process dies and is started again: what it had in hand is lost.
WatcherCrash(w) ==
    /\ crashes < MaxCrashes
    /\ crashes' = crashes + 1
    /\ wpc[w] # "idle"
    /\ Release(w)
    /\ UNCHANGED <<mongo, lists, keys, executor, scheduler, kills,
                   reschedules, outages>>

-----------------------------------------------------------------------------
Users ==
    \E j \in Job : \/ Count(j) \/ Submit(j)
                 \/ RequestKill(j) \/ RequestReschedule(j)

Containers == \E c \in up : ContainerEnds(c)

Scheduler ==
    \/ SchedulerRead
    \/ \E j \in Job : \/ SchedulerSkip(j)
                      \/ SchedulerAccept(j)
                      \/ SchedulerRejectQuota(j)
                      \/ SchedulerPush(j)
                      \/ SchedulerRefuse(j)
    \/ SchedulerInsertRejected
    \/ \E R \in SUBSET accepted : SchedulerLaunch(R)
    \/ SchedulerSnapshot
    \/ SchedulerCountOut
    \/ SchedulerMark
    \/ SchedulerEndPass
    \/ SchedulerReschedule

\* The steps of a watcher that has a task in hand.
Handle(w) ==
    \/ KillPending(w) \/ KillContainer(w) \/ KillFails(w)
    \/ OriginalGone(w) \/ OriginalRequeue(w) \/ OriginalFinish(w)
    \/ Requeue(w) \/ ResetPending(w) \/ DeleteSnapshotAgain(w)
    \/ Remove(w) \/ InsertOver(w) \/ Close(w)
    \/ PushBack(w) \/ Stamp(w) \/ Expire(w)

PopRunning(w) == PopUnknown(w) \/ PopAlive(w) \/ PopOver(w)

WatcherStep(w) == PopKill(w) \/ PopRunning(w) \/ Handle(w)

Next ==
    \/ Users
    \/ Containers
    \/ Scheduler
    \/ \E w \in Watcher : WatcherStep(w)
    \/ SchedulerCrash
    \/ \E w \in Watcher : WatcherCrash(w)

Spec == Init /\ [][Next]_vars

(***************************************************************************)
(* Fairness.  Containers end.  A process that is not dead finishes what it *)
(* has in hand, and each pass of a watcher takes something from either     *)
(* list when it is not empty: other handlers run in between, so popping is *)
(* only enabled again and again, hence strong fairness.  Users and crashes *)
(* are not fair.                                                           *)
(***************************************************************************)
Fairness ==
    /\ \A j \in Job, n \in 1 .. MaxRuns : WF_vars(ContainerEnds(<<j, n>>))
    /\ \A w \in Watcher : /\ WF_vars(Handle(w))
                          /\ SF_vars(PopKill(w))
                          /\ SF_vars(PopRunning(w))

FairSpec == Spec /\ Fairness

-----------------------------------------------------------------------------
(* Properties.                                                             *)

\* A finished job is not also among the unfinished ones: insertion into
\* jobsover always comes after removal from jobs, whoever does either.
NeverInBoth == \A j \in Job : jobsover[j] > 0 => jobs[j].primary = "gone"

\* The inductive invariant behind NeverInBoth.  Every job a list, a hand or the
\* scheduler mentions has been submitted, so that the removal which precedes an
\* insertion leaves no document in jobs, and no later update creates one.
Submitted == {j \in Job : jobs[j].primary \notin {"new", "counted"}}
Gone(j) == jobs[j].primary = "gone"

ListsSubmitted ==
    /\ running \in Seq(Submitted)
    /\ killq \in Seq({t \in Task : t.job \in Submitted})
    /\ reschedq \in Seq({t \in Task : t.job \in Submitted})

SchedulerRemovedFirst ==
    /\ batch \cup accepted \cup starting \cup refused \subseteq Submitted
    /\ spc \in {"quota", "pushed", "snapped", "marking"} => scur \in Submitted
    /\ spc = "quota" => Gone(scur)

WatchersRemovedFirst ==
    \A w \in Watcher :
        /\ wpc[w] # "idle" => hand[w].job \in Submitted
        /\ wpc[w] = "insert" => Gone(hand[w].job)

RemovedFirst ==
    /\ ListsSubmitted
    /\ SchedulerRemovedFirst
    /\ WatchersRemovedFirst
    /\ NeverInBoth

\* A job is lost when it left jobs, is not in jobsover, and no process is about
\* to insert it there.  Two handlers of the same job may each remove what the
\* other inserted.
Recorded(j) ==
    jobs[j].primary = "gone" =>
        \/ jobsover[j] > 0
        \/ \E w \in Watcher : wpc[w] = "insert" /\ hand[w].job = j
        \/ spc = "quota" /\ scur = j

Lost == {j \in Job : ~Recorded(j)}

\* A process that dies loses the record of one job at most, and nothing else
\* loses any: no race of handlers, kill, restart or quota does.
RecordKept == Cardinality(Lost) <= crashes

\* The end of a job is recorded once: at most one document in jobsover ("Remove
\* from jobs over to replace it", kill_tasks and check_running_jobs), and one
\* call of update_user_usage.
RecordedOnce == \A j \in Job : jobsover[j] <= 1 /\ usage[j] <= 1

\* The job the scheduler has counted out, whose document still says 'pending'.
CountedOut == {j \in Job : spc = "marking" /\ scur = j}

\* Without requests, jobs:queued, which the global rate limit is compared with,
\* never counts fewer jobs than are pending, but for the one the scheduler has
\* just counted out and is about to mark: an add_task that comes in between may
\* let one job too many in.  And it is exactly the number of pending jobs and of
\* those add_task is about to insert, between two passes of the scheduler, until a
\* watcher restarts a job or a process dies.  (The restart of a job the scheduler
\* has not marked as running yet is undone by the mark, and one cut short by a
\* death is not made, but for the counter.)
QueuedExact ==
    /\ queued >= Cardinality(Eligible \ CountedOut)
    /\ (spc = "idle" /\ crashes = 0 /\ \A j \in Job : jobs[j].fails = 0)
           => queued = Cardinality({j \in Job : jobs[j].primary \in {"counted", "pending"}})
                       + Cardinality({w \in Watcher : wpc[w] = "reset"})

\* A job never runs twice at the same time, when it is restarted twice at most.
\* (With three restarts it may: a watcher that sets the key of the second run
\* again after the next restart makes the third run look over, and failed.)
OneContainer == FailurePolicy <= 2 => \A c, d \in up : c[1] = d[1] => c = d

\* A container is started for a job only after the jobs it depends on left
\* the unfinished ones.
DependenciesFirst ==
    \A j \in Job : launched[j] > 0 =>
        \A d \in DependsOn[j] : jobs[d].primary = "gone"

\* The watchers that are in charge of j: they popped its id, or a kill of it.
InCharge == {"original", "requeue", "reset", "remove", "insert", "close", "alive"}
Owners(j) == {w \in Watcher : wpc[w] \in InCharge /\ hand[w].job = j}

\* Without kill requests, and whatever watchers die, the id of a job is a token:
\* in the list of running jobs at most once, and then in charge of no watcher, or
\* in charge of one.
OneOwner ==
    /\ \A m, n \in DOMAIN running : running[m] = running[n] => m = n
    /\ \A n \in DOMAIN running : Owners(running[n]) = {}
    /\ \A v, w \in Watcher : (/\ wpc[v] \in InCharge /\ wpc[w] \in InCharge
                             /\ hand[v].job = hand[w].job) => v = w

\* A kill request is honoured: the job leaves jobs, or is marked 'unknown'
\* when the executor could not kill it.
KillHonoured ==
    \A j \in Job :
        (\E n \in DOMAIN killq : killq[n].job = j)
            ~> (jobs[j].primary = "gone" \/ jobs[j].secondary = "unknown")

\* A job whose id and key are both in place is eventually recorded as over,
\* restarted after a failure, or given up by the kill handler.  (What follows a
\* restart is not promised: the second deletion of the key may hit the key of
\* the new run.  A job given up after its life span is not followed any more.)
TrackedEnds ==
    \A j \in Job :
        (snap[j] # 0 /\ \E n \in DOMAIN running : running[n] = j)
            ~> \/ jobsover[j] > 0
               \/ jobs[j].fails > 0
               \/ jobs[j].secondary = "unknown"

(***************************************************************************)
(* The states of JobStates, as the two collections show them.              *)
(***************************************************************************)
StateOf(j) ==
    IF Gone(j) THEN IF jobsover[j] > 0 THEN "over" ELSE "ended"
    ELSE IF jobs[j].primary = "counted" THEN "new" ELSE jobs[j].primary

Promised == INSTANCE JobStates WITH state <- [j \in Job |-> StateOf(j)]

\* Every step of the lifecycle is a step of JobStates, or leaves the states alone:
\* no handler revives a job that ended, skips a state, or runs a job before those
\* it depends on.
StatesPromised == Promised!Spec
=============================================================================
