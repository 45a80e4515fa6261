# Formal model of GO-Docker

TLA+ modules that model GO-Docker (a batch manager that runs users' jobs in
containers), TLC configurations that check them on small instances and TLAPS
proofs of the properties that matter most. Paths are relative to the repository
(`src/`).

Run a check with `tlc -config <run>.cfg <MC module>` and a proof with
`tlapm <module>.tla`. `PROJECT.json` lists the runs, the mutants that show each
property can fail, the source lines of each definition, the hazards of the code
and the findings.

## 1. Inventory

### 1.1 Components

| component | state it keeps | operations | properties that make it correct |
|---|---|---|---|
| **Submission** (`add_task`, `godscheduler.py:304-367`, called by the web) | `:jobs` (id counter), `:jobs:queued`, `:user:<id>:rate`, collection `jobs` | count the job, insert its document, or one document per child of an array | the counters cover the pending jobs; the limits bound them; ids are unique |
| **Scheduler** (`godscheduler.py`) | in memory: the batch of a pass; shared: `jobs`, `jobsover`, `:jobs:running`, `:job:<id>:task`, counters | `manage_tasks`: read pending jobs, filter (dependencies, quotas), order, `run_tasks`, publish, then `reschedule_tasks` | a job runs once at a time, starts after the jobs it depends on, is published so that watchers find it |
| **Election** (`is_master`, `run`) | `:master` with a life time | set if absent, read back, set the life time, delete at exit | one active scheduler; another takes over |
| **Watcher** (`godwatcher.py`), any number | in memory: a task in hand; shared: the same | `manage_tasks`: kill list, suspend list, resume list, running list; `kill_tasks`, `check_running_jobs` | every job ends in `jobsover` exactly once, is accounted once, never vanishes; requests are honoured |
| **Executors** (`plugins/fakeexecutor.py, swarm.py, kubernetes.py, sge.py`) | containers, pods or runs of a batch system; the name of the pod or the number of the run in the job's document | `run_tasks`, `watch_tasks`, `kill_task`, `suspend_task`, `resume_task` | what runs is followed and not over; an end is noticed; a kill is served |
| **Mesos executor** (`plugins/mesos.py`) | two threads; Redis keys `:mesos:*` between them and the watchers | `run_tasks` and its wait, `resourceOffers`, `statusUpdate`, `watch_tasks`, `kill_task` | a job is launched once at a time; what an offer holds is given once; `run_tasks` returns |
| **Ports** (`iExecutorPlugin.py:129-160`) | list `:ports:<host>` | `get_mapping_port`, `release_port` | no port is given to two running jobs; ports come back |
| **Array jobs** (`add_task`, watcher, `utils.is_array_*`) | parent document, `subtaskrunning` counter | split, count ends of children, end or kill the parent | the parent ends after its last child; a kill of the parent reaches the children |
| **Recovery** (`check_redis`, `godscheduler.py:69-118`) | rebuilds the lists and counters from Mongo | at start, when `:jobs` is missing | nothing is lost, no id is reused |
| **Scheduling policies** (`fifo.py`, `fairshare.py`) | usage counters with a life time | order pending jobs | a permutation of the pending jobs, fair over time |
| **Archiver, cleaner** (`godarchiver.py`, `go-d-clean.py`) | `:jobs:archive`, `jobsover`, `cleanup`, disk usage in `users` | archive old jobs, free files | each job is archived once, disk usage is exact |
| **FTP server** (`go-d-ftp.py`) | disk usage, quota | accept or refuse an upload | usage below the quota |
| **Rest** | | status heartbeats, authentication, network, storage paths, mails, daemon start | input and output with no decision of their own |

### 1.2 Interactions

All processes share Mongo (`jobs`: unfinished, `jobsover`: finished) and Redis.
There is no lock and no transaction. The scheduler hands a job to the watchers
by pushing its id to `:jobs:running` and storing a copy of its document under
`:job:<id>:task`; watchers take an id from the list, examine it, and push it
back if it goes on. Requests of users (kill, suspend, resume, reschedule) are
copies of the document pushed to a list, plus a secondary status written in the
document. Executor plugins are called synchronously by both.

### 1.3 What is hard

* **Interleavings.** A handler is a sequence of Redis and Mongo calls; the
  kill handler and the end-of-job handler run for one job in two watchers.
* **Stale copies.** A kill request, the stored task and the scheduler's batch
  are copies of a document that changes meanwhile.
* **Ordering.** Id pushed before its key; removal from `jobs` before insertion
  in `jobsover`; counters before documents.
* **Crashes and exceptions.** A batch in memory is lost with its process;
  `setnx` and `expire` are two calls.
* **Retries.** A refused kill goes back to the list a bounded number of times.
* **Limits.** Counters that several paths must keep in step with documents.

The list, with lines, is under `hazards` in `PROJECT.json`.

## 2. Modules

| module | what it is |
|---|---|
| `JobLifecycle` | one active scheduler, any number of watchers and users, on ordinary jobs |
| `JobStates` | abstract: the states a user sees of a job, and when it goes from one to another; `JobLifecycle` implements it |
| `JobLifecycle_proofs` | type correctness; the inductive invariant about records, what follows from it, and the refinement |
| `JobLifecycleTokens_proofs` | without requests and crashes of the scheduler, whatever watchers die: one owner of an id, one record, one container |
| `SchedulerMaster`, `SchedulerMaster_proofs` | the election of the active scheduler, and its theorems |
| `ArrayJobs`, `ArrayJobs_proofs` | a parent job, its children and the counters that tie them, and its theorems |
| `Accounts`, `Accounts_proofs` | the counters of the users and of the queue, from submission to archive, and the recovery of Redis; its theorems, with the facts about sums they need |
| `MesosExecutor`, `MesosExecutor_proofs` | the Mesos plugin: the scheduler's thread, the driver's thread and the watchers; its theorems |
| `ExecutorClient` | what the scheduler and the watchers do around a call to an executor plugin, extended by |
| `KubernetesExecutor`, `SGEExecutor`, `SwarmExecutor` | a plugin and the system behind it |
| `ExecutorPlugins` | instantiates the three; states once what `iExecutorPlugin.py` promises, and checks each plugin against it |
| `ExecutorPlugins_proofs` | the theorems about the three plugins |
| `ListLemmas` | lemmas about the Redis lists (push, pop, remove, "occurs once"), used by the proofs |
| `MC...` | instances for TLC: dependency relations, sizes, symmetry |

### 2.1 JobLifecycle

State: a document of `jobs` is a record (primary and secondary status, number
of the container, count of failures); `jobsover` counts the documents of each
job, so that a duplicate shows; `running`, `killq`, `reschedq` are the Redis
lists; `snap[j]` is the container recorded in the key `:job:<id>:task` (0: no
key); `queued` is `:jobs:queued`; `usage[j]` counts the calls of
`update_user_usage`. `launched`, `up`, `failed` are the containers; `retries` are the
containers whose task carries the reason of an earlier failure, which the code takes for one of this run
(section 3.1). `spc`,
`batch`, ... are local variables of the scheduler and `wpc`, `hand` those of the
watchers.

Actions: `Count`/`Submit` are the two halves of `add_task`; `RequestKill` is
`IGoDockerPlugin.kill_tasks`; the `Scheduler*` actions follow a pass of
`manage_tasks`; the actions of a watcher follow `kill_tasks` and
`check_running_jobs`, whose common ends (`Remove`, `InsertOver`, `Close`, ...) are
shared. The label in `wpc` or `spc` is the next call to Redis or Mongo. Consecutive
calls are one action when no other process can tell the difference, or reads
neither (for instance the pop of an id and the read of its key; the pop, the
push to the kill list and the update in `can_run`). The decrement of `:jobs:queued`
and the update of the document are two (`SchedulerCountOut`, `SchedulerMark`):
`add_task` reads the counter in between.

Simplifications, and why they are harmless:

* A watcher takes one entry of a list at a time. The code pops up to
  `max_job_pop` entries before it handles them: that leaves an entry longer
  in memory, which a slow watcher does in the model too. What it changes is
  how much a crash loses: one entry here, a batch there.
* The order of the scheduling policy is not kept: jobs of a pass are published
  in any order, and any subset of them may be refused by the executor.
* The container of a job is a number: the n-th start of the job.
* The counter of a user's rate moves with `queued` in the same lines (see `Accounts`).
* Ids of users, names, resources and dates are left out; `OverQuota`,
  `Expiring` and `DependsOn` are constants, so that every combination can be tried.
* The web's reschedule request and the end of a container are external.
* Every job is authorized: the shipped plugins inherit a `can_run` that returns
  true (`iAuthPlugin.py:36`), and the refusal of `godscheduler.py:850-854` is left out.

### 2.2 SchedulerMaster

State: where each instance is between the three calls of `is_master`, in the
main loop or at its end; the value and the life time of `:master`; the history
variable `overrun`, true once a key expired under its owner. `Pass` is a turn
of the main loop: it changes nothing here, and that it does not look at the key
is the point. `Crash` stands for a death, an exception in `is_master`, and
SIGTERM: `daemon.py:97-100` registers its handler inside the handler, so
`go-d-scheduler stop` kills the process without a `delete` of the key.

### 2.3 ArrayJobs

The documents, lists and program counters are those of `JobLifecycle`; new are
`subtaskrunning` and `subtask` (Redis counters of the parent) and `nbOver`
(`nb_tasks_over` of its document). A child is counted by `SchedulerPush`, and its
end by `CountFirst` (running list) or `Close` (kill list), at different places of
the two handlers, as in the code. What only concerns `:jobs:queued`, quotas, life
spans, reschedule requests and crashes is left to `JobLifecycle`. The branch of
`kill_tasks` that kills the children of a parent is left out: it asks for a
positive `:subtask`, which no line increments.

### 2.4 JobStates

`state` maps each job to "new", "pending", "running", "ended" or "over". `JobLifecycle`
defines the refinement mapping (`StateOf`): a document of `jobs` shows its status,
no document and a record in `jobsover` is "over", neither is "ended". The
property `StatesPromised` is the specification of `JobStates` under this mapping:
whatever the handlers do, no job that ended comes back, no state is skipped, and a
job runs only when those it depends on are done. It allows what the code does and
users may see: a running job is pending again after a failure or a reschedule,
and a record of `jobsover` is replaced by a second handler of the same end.

### 2.5 Accounts

State: where the document of each job is (`doc`; "removed" between the two collections),
`usage.disk`, the Redis counters (`counter`: is `:jobs` there; `queued`; `rate`) and lists (as
counts, since only presence matters), the program counter of each `add_task`, the documents
`check_redis` has read and not yet treated (`cursor`), the jobs `run_tasks` is starting and the one it
has counted out (`starting`, `marking`), and for each job how far the handler of its end and that of its kill
are (`handler`). `Check`, `Count`, `Insert` are the three parts of `add_task`; `Start`,
`Recover`, `Sync`, `SyncKey`, `EndSync` follow `check_redis`, which a loss of Redis
(`Lose`) makes necessary and a stop of the scheduler interrupts; `StartJob`, `CountOut`, `MarkRunning` are what a
pass does to the counters and the document, one after the other; `Archive` and
`GiveBack` are the two updates of `archive_task`. A handler removes the document (`Remove`), adds the size of
the files to the usage (`AddUsage`, `terminate_task`) and inserts the record (`Record`), or, for a restart or a
reschedule, counts the job again (`CountBack`), sets it to pending (`PutToPending`) and deletes its key once more
(`DeleteKey`). Watchers, the scheduler and the archiver may die between any two of these.

The rest of the handlers is in `JobLifecycle`. One bound, `MaxTroubles`, is shared by requests, restarts,
losses and deaths, so that any two of them meet. Simplified: two handlers of an end of one job are taken for
one, as are two of a kill (the handler of an end and that of a kill do meet); the quotas other than that of the disk
refuse jobs the same way. Left out: the numbers of the
ids (a recovery counts from the largest id in `jobs` and may reuse one of
`jobsover`, which arithmetic shows), suspend and resume requests, the dates by which the
cleaner selects jobs (here: any finished job), a second archiver.

### 2.6 MesosExecutor

State: the Redis lists and keys `:mesos:*`, by name; `spc`, `batch`, `started` of the
main thread; `fw`, the local variables of `resourceOffers` (`fw.tasks`: the pending list it took, `fw.placed`:
the indices of that list it placed); `mesos`, the state of the last
task launched with the id of each job, and `told`, what the framework was told of it. The main
thread pushes tasks, waits for the flag (`BeginPass`, `PushTask`, `Collect`), and publishes;
the driver's thread takes kills, goes through the offers, the pending tasks and the kinds of
resources (`BeginOffers`, `NextOffer`, `PlaceTask`, `LaunchOffer`, `EndOffers`); callbacks do
not overlap, since the driver has one thread. Mesos repeats updates that were not
acknowledged, answers the second launch of a live task by an error, and the process may die
and register again. Cpus stand for the scalar resources, ports and one kind of slots for the
ranges; a task may be given up after it took slots (`mesos.py:389-406`, then `:542-545`).

A pass gets any subset of the pending jobs, the empty one included: the others wait for a dependency, a
quota or another executor. Requests, to kill or to reschedule, meet pending and running jobs. The copy a request
carries says what the job was: those of pending jobs (`early`) are served by `KillPending`, which ends the job
without a word to Mesos, wherever `run_tasks` has brought it meanwhile; such a job is in `left`, with those a death
of the process left behind.

### 2.7 ExecutorClient and the plugins

`ExecutorClient` has the document (status, secondary status, failures), `:jobs:running`, the
keys, the kill list and the ends in hand. `Treat` is the plugin's part of a pass, `Publish`
and `Abort` its ends; `Examine`, `TakeOut`, `Finish` are `check_running_jobs` around
`watch_tasks`; `KillDone` and `KillFails` what follows `kill_task`. A request for a pending job is
served by `KillPending` without the plugin, also while `run_tasks` has the job. Each plugin adds its
cluster and the outcomes of each call:

* `KubernetesExecutor`: pods with a phase and events that outlive them; the answer to a creation
  may be lost or be "Failed"; a deletion may fail, which nobody sees (`kubernetes.py:250, 317`); `watch_tasks`
  overwrites the secondary status with the phase, and gives a job that cannot be scheduled back to the pending ones.
* `SGEExecutor`: a run is waiting, running, ended, then in the accounts; `qstat` is searched by
  substring, so the line of another job may be found (`Alike`); any call may fail or raise.
* `SwarmExecutor`: containers, paused or not; the list of ports with Redis's rule that an
  empty list does not exist; `suspend_tasks` of the watchers. Both handlers give the ports of the document they
  find back (`Release`), and remove it later (`FinishBox`), so that two handlers may give them back twice.

Otherwise what surrounds the plugins is atomic here, `Publish` included; the interleavings inside handlers are those
of `JobLifecycle`.

## 3. What the runs check

Bounds are the constants of each `.cfg`. Two jobs and two watchers are enough
for the races of the code: every race involves one job, at most two handlers of
it and the scheduler; the second job gives dependencies, lists of length two or a shared
list of ports; offers are shared by three jobs, since the ranges of ports go wrong at the third. An array has two children, so that one can end while
the other runs. One request, one failure of each kind and one restart let every
pair of handlers meet; two failures are used where the second could hit the repair
of the first.

| run | instance | shows |
|---|---|---|
| `LifecycleFailures` | 2 jobs, 2 watchers, node failures with one restart, 1 crash of a watcher | `TypeOK`, `QueuedExact`, `OneContainer` (jobs restarted twice at most), `RecordedOnce`, `OneOwner`: without kill requests an id is a token, so nothing is done twice, also when a watcher dies with one |
| `LifecycleRequests` | 2 jobs, the second depends on the first and may be rejected for its quota, 2 watchers, 1 kill, 1 reschedule, 1 crash of any process | `NeverInBoth`, `RemovedFirst`, `RecordKept`, `DependenciesFirst`, and the refinement `StatesPromised` |
| `LifecycleLive` | 1 job with a life span, 2 watchers, a kill that may fail, a restart | `KillHonoured`, `TrackedEnds` |
| `MasterElection` | 3 instances, 2 deaths outside the election, 2 stops, life time 2 | `TypeOK`, `OneActiveInTime`, `OwnsKey`, `WaitForTimeout`, `Failover` |
| `ArrayRestart` | 2 children, 2 watchers, node failures with one restart | `TypeOK`, `CountCovers`, `EndedOnce`, `StartAfterParent` |
| `ArrayKills` | 2 children, 1 watcher, 1 kill of any member | `UnrestartedEnds` |
| `Accounts` | 2 jobs of one user, limit 1, 2 clients, 2 troubles (a kill, a reschedule, a restart, a loss of Redis, a death) | `TypeOK`, `LimitHeld`, `Restored`, `DiskCounted` |
| `MesosLife` | 1 interactive job with a slot, one restart, 2 watchers, 1 kill or reschedule of a pending or running job, 2 repeated updates or errors, 1 death | `TypeOK`, `LaunchedOnce`, `LiveIsFollowed`, `RestartHasCause`, `WaitEnds`, `KillDelivered`, `EndNoticed` |
| `MesosOffers` | 3 jobs whose tasks do not end (`NoneEnds`), two of them interactive and one of these with two slots, an offer of 3 cpus, 1 port, slots 0-3: a task may be given up after it took slots | `GivenOnce` |
| `Executors` | each plugin; 2 jobs (1 for Kubernetes, whose pods do not interact), 1 request for a pending or running job, 1 pause, 1 failing call | `TypeOK`, `LiveIsFollowed`, `PortsApart` |
| `ExecutorsLive` | each plugin; 1 job, 2 failing calls | `EndNoticed`, `PendingStarts`, `KillServed` |

Several properties hold under a condition that names what breaks them, kept in a history
variable or a bound. Without its condition each is violated, and section 3.2 says how.

* `QueuedExact`: the counter covers the pending jobs but for the one the scheduler has counted out and is about to
  mark; an `add_task` that comes in between may let one job too many in.
* `LimitHeld` is about jobs that wait for their first start: a restart or a reschedule puts a job back (`again`)
  whatever the limit. It counts the `parallel` submissions, and in `spare` what a start, a kill or a death
  took off the counter for a job that was not on it.
* `Restored` leaves out the jobs a watcher `dropped`: it took the id before the key was there, died with the job in
  hand, put it back before the scheduler had marked it, or deleted its next key.
* `DiskCounted`: exact until an archiver or a watcher dies between its two updates (`halfway`) or two handlers record
  one job (`twice`); never too low. It speaks of recorded jobs: the files of a job whose watcher died after the removal and
  before the usage was added have no record, and nobody counts them.
* `OneActiveInTime` ends with `overrun`.
* Executors and Mesos: a job is `Calm` (`left` in Mesos) as long as no failed call hid it from the code, it was not killed as a
  pending job while `run_tasks` had it, and it was started once or without requests (a request may be served in
  the next run).
* `PortsApart`: until the list is filled a second time, two handlers give the ports of one job back, a job starts
  again (`kept`), a failure hid a container or a job was killed while `run_tasks` had it (`left`).
* `GivenOnce` counts the tasks that took slots, placed or given up: it speaks of the first two.
* `RestartHasCause`: a job that was rescheduled is left out, since a kill leaves the key of the reason, which the next
  run finds.
* `WaitEnds` is about a pass that got a task: with none the wait has no end.

### 3.1 The finding

`FindSecondRestart` violates `RestartHasCause` with two restarts allowed: the reason
of a failure stays in the document and in the tasks made from it, and
`check_running_jobs` (`godwatcher.py:731`) only tests that there is one. A job whose node failed
once is started again after it succeeds, until its restarts are used up, where `CHANGES.md:49`
promises a restart on node failure and `README.md:17` no automatic restart else.

### 3.2 Other behaviours met

Most of these behaviours are in the models, and the properties above are stated so as to hold in spite of
them; those marked (read) are not, and come from a reading of the code.

Lifecycle. The id is pushed before the key (`godscheduler.py:401`, and `:113` at a recovery): a
watcher in between drops a job nobody killed. Two watchers that handle a kill and an end of one
job both remove, then both insert it in `jobsover` (`godwatcher.py:763`). A job killed as
pending is recorded as over while the scheduler starts its container (`godwatcher.py:250`), and
`:jobs:queued` is decremented twice. A job rejected for its quota stays counted. The watcher that pushes an id back writes the key of the run it
examined (`godwatcher.py:710-755`); when the job was started again meanwhile, the late write names a run
that is over: with three restarts (`go-d.ini.sample:330` allows any number) the next run is taken for
over while it goes on, and the job gets two containers. `OneContainer` is therefore stated for two restarts. A second
reschedule request is handled as a kill. A key set again by `PushBack`/`Stamp` after the job was
finished stays for ever. `SchedulerMark` undoes the restart of a job whose first run ended at
once. A job given up by the kill handler after its life span is followed by nobody. A forced
kill is never made, since `godwatcher.py:274` tests the key `tentative`. (read) The document of a job that is
not authorized is replaced as a whole (`godscheduler.py:851-854` has no `$set`).

Election. The key of the active scheduler is never renewed in its main loop
(`godscheduler.py:932`): after `master_timeout` a second one is active, against `README.md:120`. A
death between SETNX and EXPIRE (`godscheduler.py:902`) leaves a key for ever, against
`README.md:126`.

Arrays. A parent is over as soon as its counter is absent or not positive: before its children are
counted (`godwatcher.py:686`, against `README.md:371`), and children still pending then never start. A
child started again is counted twice, so that its parent never ends. (read) A kill of a parent
reaches no child (`godwatcher.py:236` asks for a positive `:subtask`, which no line increments).

Accounts. Parallel submissions pass the limits together. Any submission between a
loss of Redis and a restart sets the counter, and then nothing is restored; nor is
anything if the scheduler dies in the loop; the rates are never restored. A kill whose copy says "pending"
takes a started job off the counters a second time. A restart or a reschedule puts a job back to pending
without a look at the limits (`godwatcher.py:299-312`, `:739-752`), and one cut short by a death leaves the counter
too high. The usage of the disk is added before the record is inserted (`godwatcher.py:513`): a watcher that dies in
between leaves it too high. (read) The cleaner's interval
(`go-d-clean.py:74`) selects by the date of the last run, and misses jobs that became old since.

Kubernetes. The phase "Failed" counts as a failure of the node and restarts the job, the loss of a
node never does (`kubernetes.py:262-277`). The phase overwrites a pending kill request. An old
FailedScheduling event deletes the pod of a later run. After a lost answer the pod exists and
nobody knows it; a "Failed" answer leaves the job in neither list; a pod that vanished never ends. A deletion that
fails leaves the pod, and every later creation is refused because of it: the job is pending for ever.

Grid Engine. An exception in `_qsub` ends the pass, and the jobs already submitted are submitted again.
A failure of `qdel` is ignored. An exception after `qstat` loses the id.

Swarm. Any exception of `inspect` is taken for the absence of the container: the job is over and its
container runs. A kill without answer raises in `swarm.py:312` and loses the requests that were popped. Ports of
refused jobs go to the list of `localhost`; the list of ports that became empty is filled again with the
ports in use; the handlers of a kill and of an end both give the ports of a job back before either removes the document
(`godwatcher.py:285`, `:707`), and a job that is started again gives them back at each end. Suspend and resume write an old copy of the
key and the secondary status.

Mesos. The begin of a range is set to the quantity taken (`mesos.py:399`): right for two jobs and a range from 0,
wrong for the third. A task given up for want of a port has already moved it: the third task may then share a slot with
the first. `run_tasks` of an empty list, which is what it gets when every pending job waits for something, never
returns (`mesos.py:375` sets the flag only if there are tasks): the scheduler then waits for ever. The flag may be set by a callback that
started before the last push: `run_tasks` then returns early and the rest is placed later. `kill_task`
leaves the key of the reason, which a later end then finds.

All plugins. A job killed as pending while `run_tasks` has it is over, and its container, pod, run or task starts and is
followed by nobody (`godwatcher.py:249-272`).

### 3.3 Fairness

`JobLifecycle`: containers end (`WF`), a live watcher goes on with what it has
in hand (`WF`: the handlers have no waiting loop), and a watcher comes back to
both lists (`SF`: each turn of `manage_tasks`, `godwatcher.py:816-869`, pops from
the kill list and from the running list, but between two turns the lists may be
empty or held by others). Users and crashes are not fair, nor is the scheduler,
which neither property needs; `ArrayJobs` makes the same assumptions about its
watchers. `SchedulerMaster`: time passes, an instance that
waits tries again every two seconds, and the calls of `is_master` and the final
`delete` follow; nothing obliges a main loop to end. `MesosExecutor`: both threads of the scheduler go on
(`WF`), Mesos goes on sending offers and the updates it owes (`SF`, the callbacks take turns), and watchers come back
to every id (`SF`) and finish what they have in hand; tasks need not end. `ExecutorPlugins`: the scheduler (`WF`) and
the watchers (`SF`), as above; nothing of the jobs, the clusters or the failures.

## 4. What is proved

TLAPS checks the theorems for every value of the constants that the named assumptions
allow: `ConstantsAssumption`, `MasterAssumption`, `ArrayAssumption`, `AccountsAssumption`,
`MesosAssumption`, `ClientAssumption`, `PluginsAssumption`. They say that bounds are numbers, that
dependencies, owners and sizes are functions on jobs, that special values differ from what they stand beside, that there is
a port if a job asks for one and, where something is counted, that the jobs are finitely many. TLC evaluates them on every run. Each theorem follows the same
argument: an inductive invariant holds initially, one step per action keeps it,
and it implies the property.

### 4.1 JobLifecycle

* `TypeCorrect`: `TypeOK` carries the two facts about program counters the other proofs need: a
  watcher that is not idle has a task in hand, the scheduler that publishes
  knows its job.
* `RemovedFirstCorrect`, `NeverInBothCorrect`.
  `NeverInBoth` is not inductive: a step could insert a job that is still in
  `jobs`. The strengthening `RemovedFirst` says (a) every job a list, a hand or the
  scheduler mentions was submitted, so that "no document" means "removed" and
  a removal leaves nothing in `jobs`; (b) whoever is about to insert a job has removed
  it first. Documents only move forward (`Monotone`: no update creates one,
  `db_jobs.update` has no upsert), so (b) is stable under the steps of the others.
  Crashes are included.
* `RecordKeptCorrect`: of the jobs that left `jobs`, no more are lost than processes have died; all others are in
  `jobsover` or in the hands of a process that inserts them. The lemmas are that a step which is no death
  keeps the record of each job (`RecordStays`: a second removal, from `jobsover`, is made only by a process that
  inserts afterwards), and that a death loses the job in hand at most (`DeathLosesOne`); the
  invariant `LostFew` adds that the lost jobs are finitely many, for there may be infinitely many jobs.
* `DependenciesKeptCorrect`, `DependenciesFirstCorrect`: the invariant says that not only a run
  but already the acceptance of a job in a pass comes after the jobs it depends on; between the
  two nothing is tested again, so it must hold that documents do not come back.
* `StatesPromisedCorrect`: `JobLifecycle` implements `JobStates`. Most steps stutter; the step that
  removes a document ends its job, and `RemovedFirst` shows that an insertion follows a
  removal and that no update makes a job of an id that is gone.
* `TokensCorrect`, `OneOwnerCorrect`, `RecordedOnceCorrect`, `OneContainerCorrect`,
  `QueuedExactCorrect`
  (`JobLifecycleTokens_proofs`). `Tokens` says that the ids in the running list and in the hands of the
  watchers are tokens: one id at a time has an owner, and one is made only for a job without any, by
  the scheduler, once the last was used up. That gives one owner; that the owner alone removes and inserts gives one
  record; `Runs`, which relates the run a key names to the runs that are up and to the count of failures,
  gives one container. `QueuedInFlight` relates `:jobs:queued` to what is in flight: the jobs counted and not
  yet counted out, among them those launched and not marked, and the restarts counted whose document is not
  reset. The counter is never less, but for the job that is counted out and not marked yet, also when quotas refuse jobs; it is exactly that while there are
  no quotas and no document shows a restart, since the owner of a token removes only a job that
  was counted out, or is about to be. Neither the jobs nor the watchers need be finitely many:
  that what is counted is finite is part of the invariant. These theorems are about `Undisturbed` behaviours: no kill, no reschedule request,
  no crash of the scheduler so far, and no job with a life span (its end is a kill of the watcher's own).
  Watchers may die anywhere: a token in the hands of a dead watcher is gone, and the job is followed by nobody,
  but no second one is made, so nothing is done twice; only the exact value of the counter needs that none
  died, since one that dies between the increment and the reset of the document leaves the counter too high.
  With a request the properties are false (section 3.2: a kill copy and an id are two
  tokens of one job), and a scheduler that dies after the launch starts the job again. `OneContainer` is for two restarts at most; its statement has that
  condition, so that it can be read in the run.

### 4.2 SchedulerMaster

`TypeCorrect`, `OwnsKeyCorrect`, `OneActiveCorrect`, `WaitForTimeoutCorrect`. The inductive invariant `OwnsKey` says
that until a key expires under its owner, whoever passed the read of the key owns it; two
active instances would be two values of one key.

### 4.3 ArrayJobs

* `StartAfterParentCorrect`: the strengthening `ParentFirst` adds
  that the scheduler has accepted no child either while the parent is not stored.
* `TypeCorrect` bounds the restarts of a child, and this is not a matter of types: the failures are read before the
  document is reset. `TokensCorrect` shows, kills included, that the watcher in charge alone restarts a child.
* `CountCoversCorrect`, `EndedOnceCorrect`: `Counted` relates the two counters to the children in flight and to those whose
  end was counted, step by step between the places where the handlers change one and the other. Both
  hold without kill requests, as stated in the properties.

### 4.4 Accounts

* `TypeCorrect`, `DiskCountedCorrect`: that the disk usage is a natural number follows from what it counts. `DiskInv`
  says that it is never below the files of the recorded jobs, the sizes the archiver has still to give back and those the
  handlers have added for records still to come, and equal to their sum until a process dies in between or a job is
  recorded twice. It needs to know of what is in flight: a request
  in `:jobs:archive` names a recorded job and, unless a job was recorded twice, says rightly whether its size is
  known (a request made before a second record does not, and the archiver then leaves the size with the user); a
  handler that has removed a document or added its size is about to insert a record.
  The sum is a fold (`Total`), and what
  a fold computes is an induction over sets: `SmallestSet` gives it as a minimal counterexample, from the library's theorem
  that strict inclusion is well founded on finite sets, and `TotalIsUnits` shows that the fold is the
  number of the units of disk that the jobs keep, which the theorems on cardinality can count. `TypedCorrect`, the
  types of the other variables, comes first.
* `RestoredCorrect`: `RestoredInv` follows `check_redis` between its steps: what Redis misses of a job is among
  the documents it read and has not yet treated, whatever clients, watchers and the archiver do meanwhile.
* `LimitHeldCorrect`: `LimitInv` says what a user's counter stands for in the middle of submissions, starts, kills,
  restarts and ends: the jobs that wait, those `add_task` has counted, and those a handler has counted and not put
  back yet, less the decrements `spare` names. So it is never below the jobs that wait for their first start but for those.

### 4.5 MesosExecutor

* `TypeCorrect`: what the driver's thread places is a task of a job, with numbers for ports and slots.
* `GivenOnceCorrect`: the cursors of a range only grow while an offer is used, which separates the ports of any
  two tasks. It stops at the second task that took slots, placed or given up, where `NextSlot` follows `mesos.py:399`.
* `RunsCorrect`, `LaunchedOnceCorrect`, `LiveIsFollowedCorrect`: a job that `run_tasks` did not leave behind is in one of the
  lists of the two threads at a time (batch, pending list, the list taken by an offer, started, running
  list, a watcher's hands), with what its keys and its document say there; the end of a task
  is one signal, and the job waits again only after a watcher used it up. The two threads share no
  lock, so the invariant speaks of what each has read of the other's lists. A request whose copy is pending may end or
  reset a job that is in none of them; one that is in one of them is then in `left`.
* `FirstCausesCorrect`, `RestartHasCauseCorrect`: until its first restart a job has one run, since it waits again only
  while that run is on its way to the watchers; so what blames the system (the state told, the key of the
  reason, a handler of a failure) is about that run. With one restart at most, a restart therefore follows a
  failure of the system. The hypothesis is needed: with two, `FindSecondRestart` shows the opposite. Rescheduled jobs
  are outside it, see section 3.

### 4.6 The executor plugins

`ExecutorPlugins_proofs` proves `TypeCorrect`, `LiveIsFollowedCorrect` and `PortsApartCorrect` for each plugin, any jobs and
any number of failures.

* The client comes first, once for the three. A job is in one of the phases `Idle`, `AtLaunch` (started, not yet
  published), `Tracked` (running list and key), `GivenBack`, `Ending` (in a watcher's hands) and `Over`. There is a
  lemma for each step of the client on the job it is about, and one that leaves the others where they are (`Kept`).
  A job that never ran may also be over, killed as a pending one (`Unrun`).
  What fails is not assumed away: jobs that a failure hid, or that were killed while `run_tasks` had them, are in
  `left`, and the invariants speak of the others.
* `LiveIsFollowed` is about a job that had one run, or no request. Grid Engine: `Paid` says that a submission is
  paid for by the first one, a request or a failing command (`Want`: what waits for `run_tasks`, was asked for, or is
  about to be put back by a handler),
  so that without requests a calm job has one run at most; `OnlyRun` says that this run is listed by `qstat` only
  while the client starts it or has it in the running list, and that a kill meets that run and no other.
  Swarm: `SwarmRun` is the same for containers. Kubernetes: `KubePod` says in which phases a job
  may have a pod; without requests, it has one in exactly those.
* `PortsApart`: `OnePlace` says that a port is in the list, astray, or with one job, in its
  document or its task, and once only; the ports of a document do not count from the `Release` of a handler to the
  removal (`Back`). It is inductive with `FirstRun`: before its run a job has no port (else
  `MapPort` would add a second one), a job that is over has none, a job in the hands of a handler is not one that waits,
  and `run_tasks` deals with a job once in a pass. Each
  of the conditions of the property is needed where the invariant says so: the second filling of the list
  and the second `Release` make a port be in two places, and a job that starts again keeps the ports it gave back.

`ListLemmas` has what the proofs need of the Redis lists: what a push, a pop and a removal do to the ids
and to how often one occurs.

### 4.7 Only model-checked

Liveness (`KillHonoured`, `TrackedEnds`, `Failover`, `UnrestartedEnds`, `WaitEnds`, `KillDelivered`, `EndNoticed`, `PendingStarts`,
`KillServed`): fairness and `ENABLED` are out of the prover's reach.

## 5. What is not modelled, and why

* Scheduling policies: every model takes the jobs of a pass in any order. FIFO returns the list it is given,
  fair share a weighted sum of floating point numbers.
* FTP server: one check and one addition inside a library's server; uploads in parallel all
  pass, which the two lines show.
* Usage counters of cpu, ram and time over a window of days: when a job is
  accounted is modelled, the counters are not.
* Suspend and resume with plugins other than Swarm, which do not support them.
* Status, mail, network, authentication, storage, process start: input and output with no
  decision of their own.
* Text of commands and of their output, volumes, names, images: data no property tells apart.

## 6. Plan

Done: the models of section 2 with their runs; the theorems of section 4, the refinement of
`JobStates` among them.

Every safety and action property of a passing run is proved; the liveness properties of section 4.7 are model-checked.

Left:

* If a policy is modelled: fair share with integer shares, as an order of the pending jobs.
