------------------------------- MODULE Accounts -------------------------------
(***************************************************************************)
(* The accounts of the users, from the submission of a job to its archive: *)
(* add_task and its limits, check_redis at the start of a scheduler, the   *)
(* disk quota at the start of a job, the disk usage at its end, and the    *)
(* archiver that gives it back.  Redis may lose its data.                  *)
(*                                                                         *)
(* Starting, ending, restarting and killing a job are reduced to what they *)
(* do to the documents, the counters and the lists; JobLifecycle has their *)
(* other steps.                                                            *)
(***************************************************************************)
EXTENDS Integers, FiniteSets, Functions

CONSTANTS
    Job, User,
    Owner,          \* user of each job
    Size,           \* disk_size of each job
    RateLimit,      \* rate_limit: pending jobs of a user
    RateLimitAll,   \* rate_limit_all: pending jobs
    DiskQuota,      \* disk_default_quota
    Clients,        \* submissions the web servers handle at once
    NoJob,          \* the archiver has none
    MaxTroubles     \* bound: requests and restarts, losses of Redis, deaths

ASSUME AccountsAssumption ==
    /\ IsFiniteSet(Job)
    /\ Owner \in [Job -> User]
    /\ Size \in [Job -> Nat]
    /\ RateLimit \in Nat
    /\ Clients \in Nat \ {0}
    /\ NoJob \notin Job \X BOOLEAN
    /\ MaxTroubles \in Nat

VARIABLES
    \* Mongo
    doc,            \* where the document of each job is, and its status
    asked, resched, \* jobs whose secondary status is "kill requested", "reschedule requested"
    sized,          \* jobs with a disk_size in their record
    disk,           \* usage.disk of each user
    \* Redis
    counter,        \* :jobs, the last id given, is there
    queued,         \* :jobs:queued
    rate,           \* :user:<id>:rate
    tracked,        \* how often a job is in :jobs:running
    keys,           \* jobs with a key :job:<id>:task
    killq,          \* :jobs:kill, how often a job is there with each status
    archq,          \* :jobs:archive
    \* the processes
    cpc,            \* add_task, for each job
    spc, cursor,    \* the scheduler, and what check_redis has read of jobs
    starting,       \* jobs run_tasks starts
    marking,        \* those that are counted out, and still "pending"
    hands,          \* jobs watchers took from the list
    handler,        \* what they are about to do with a job that ended or is to be killed
    archiving,      \* the job the archiver has flagged, and whether its size is known
    troubles,                                               \* bound
    lost, synced, dropped, spare, again, parallel, twice, halfway   \* history: see the properties

mongo == <<doc, asked, resched, sized, disk>>
counters == <<counter, queued, rate>>
lists == <<tracked, keys, killq, archq>>
scheduler == <<spc, cursor, starting, marking>>
watchers == <<hands, handler>>
limits == <<lost, spare, again, parallel>>
history == <<synced, dropped, limits, twice, halfway>>
vars == <<mongo, counters, lists, cpc, scheduler, watchers, archiving, troubles, history>>

\* In the collection jobs, or in jobsover; in between a document is "removed".
Stored == {"pending", "running"}
Recorded == {"over", "archived"}

\* The handlers of an ended and of a killed job, and how far they are: to the record,
\* or back to pending.
Handlers == {"watch", "kill"}
Steps == {"none", "look", "end", "removed", "added", "restart", "counted", "pending"}

MongoTyped ==
    /\ doc \in [Job -> {"none", "removed"} \cup Stored \cup Recorded]
    /\ asked \subseteq Job /\ resched \subseteq Job /\ sized \subseteq Job

CountersTyped ==
    /\ counter \in BOOLEAN
    /\ queued \in Int
    /\ rate \in [User -> Int]

ListsTyped ==
    /\ tracked \in [Job -> Nat]
    /\ keys \subseteq Job
    /\ killq \in [Job \X Stored -> Nat]
    /\ archq \in [Job \X BOOLEAN -> Nat]

ProcessesTyped ==
    /\ cpc \in [Job -> {"check", "count", "insert", "done", "refused"}]
    /\ spc \in {"down", "recover", "sync", "up"}
    /\ cursor \subseteq Job \X (Stored \cup {"pushed"}) \X BOOLEAN
    /\ starting \subseteq Job /\ marking \subseteq Job
    /\ hands \subseteq Job
    /\ handler \in [Job \X Handlers -> Steps]
    /\ archiving \in (Job \X BOOLEAN) \cup {NoJob}

HistoryTyped ==
    /\ troubles \in 0 .. MaxTroubles
    /\ lost \in BOOLEAN /\ synced \in BOOLEAN /\ parallel \in BOOLEAN /\ halfway \in BOOLEAN
    /\ dropped \subseteq Job /\ again \subseteq Job /\ twice \subseteq Job
    /\ spare \in [User -> Nat]

Typed == MongoTyped /\ CountersTyped /\ ListsTyped /\ ProcessesTyped /\ HistoryTyped

\* Every variable has its type; the disk usage of a user, which the archiver
\* subtracts from, never becomes negative.
TypeOK == Typed /\ disk \in [User -> Nat]

Init ==
    /\ doc = [j \in Job |-> "none"]
    /\ asked = {} /\ resched = {} /\ sized = {} /\ disk = [u \in User |-> 0]
    /\ counter = FALSE /\ queued = 0 /\ rate = [u \in User |-> 0]
    /\ tracked = [j \in Job |-> 0] /\ keys = {}
    /\ killq = [e \in Job \X Stored |-> 0] /\ archq = [e \in Job \X BOOLEAN |-> 0]
    /\ cpc = [j \in Job |-> "check"]
    /\ spc = "down" /\ cursor = {} /\ starting = {} /\ marking = {}
    /\ hands = {} /\ handler = [e \in Job \X Handlers |-> "none"]
    /\ archiving = NoJob
    /\ troubles = 0 /\ lost = FALSE /\ synced = TRUE /\ dropped = {}
    /\ spare = [u \in User |-> 0] /\ again = {} /\ parallel = FALSE /\ twice = {} /\ halfway = FALSE

-----------------------------------------------------------------------------
(* add_task: the limits are read, then the counters are incremented, then the *)
(* document is inserted.  A counter that is not there is 0.                   *)

InAddTask == {j \in Job : cpc[j] \in {"count", "insert"}}

Client(j, from, to) ==
    /\ cpc[j] = from
    /\ cpc' = [cpc EXCEPT ![j] = to]
    /\ parallel' = (parallel \/ Cardinality(InAddTask') > 1)
    /\ UNCHANGED <<lists, scheduler, watchers, archiving, troubles, lost, synced, dropped,
                   spare, again, twice, halfway>>

Check(j) ==
    /\ Cardinality(InAddTask) < Clients
    /\ Client(j, "check", IF rate[Owner[j]] >= RateLimit \/ queued >= RateLimitAll
                          THEN "refused" ELSE "count")
    /\ UNCHANGED <<mongo, counters>>

\* Mutant: the counter of the user is forgotten.
CountAll(j) ==
    /\ Client(j, "count", "insert")
    /\ counter' = TRUE
    /\ queued' = queued + 1
    /\ UNCHANGED <<mongo, rate>>

Count(j) ==
    /\ Client(j, "count", "insert")
    /\ counter' = TRUE
    /\ queued' = queued + 1
    /\ rate' = [rate EXCEPT ![Owner[j]] = @ + 1]
    /\ UNCHANGED mongo

Insert(j) ==
    /\ Client(j, "insert", "done")
    /\ doc' = [doc EXCEPT ![j] = "pending"]
    /\ UNCHANGED <<asked, resched, sized, disk, counters>>

Trouble == troubles < MaxTroubles /\ troubles' = troubles + 1

\* A request to kill or to reschedule marks the document, and its copy goes to the list.
Request(j) ==
    /\ doc[j] \in Stored
    /\ Trouble
    /\ killq' = [killq EXCEPT ![<<j, doc[j]>>] = @ + 1]
    /\ UNCHANGED <<doc, sized, disk, counters, tracked, keys, archq, cpc, scheduler,
                   watchers, archiving, history>>

RequestKill(j) == Request(j) /\ asked' = asked \cup {j} /\ resched' = resched \ {j}
RequestReschedule(j) == Request(j) /\ resched' = resched \cup {j} /\ asked' = asked \ {j}

-----------------------------------------------------------------------------
(* check_redis, when a scheduler starts. *)

Scheduler(from, to) == spc = from /\ spc' = to
Syncing == spc = "sync"
InJobs == {j \in Job : doc[j] \in Stored}

\* Without jobs the running list and the counter of the pending jobs are reset; on
\* a first run, or with a counter of jobs, that is all.
Start ==
    /\ spc = "down"
    /\ IF InJobs = {}
       THEN queued' = 0 /\ tracked' = [j \in Job |-> 0]
       ELSE UNCHANGED <<queued, tracked>>
    /\ spc' = IF counter \/ \A j \in Job : doc[j] \in {"none", "removed"} THEN "up" ELSE "recover"
    /\ UNCHANGED <<mongo, counter, rate, keys, killq, archq, cpc, cursor, starting, marking,
                   watchers, archiving, troubles, history>>

\* Redis is empty: the counter gets the last id, that of the jobs if there are
\* any.  What the loop will do is decided by what is read here.
Recover ==
    /\ Scheduler("recover", "sync")
    /\ counter' = TRUE
    /\ cursor' = {<<j, doc[j], j \in asked>> : j \in InJobs}
    /\ synced' = TRUE
    /\ UNCHANGED <<mongo, queued, rate, lists, cpc, starting, marking, watchers, archiving, troubles,
                   dropped, limits, twice, halfway>>

\* Mutant: a kill request of a pending job is not found again.
SyncRunningKills(j, status, killed) ==
    /\ Syncing /\ <<j, status, killed>> \in cursor
    /\ \A c \in cursor : c[2] # "pushed"
    /\ killq' = IF killed /\ status = "running" THEN [killq EXCEPT ![<<j, status>>] = @ + 1] ELSE killq
    /\ \/ /\ status = "pending"
          /\ queued' = queued + 1
          /\ cursor' = cursor \ {<<j, status, killed>>}
          /\ UNCHANGED tracked
       \/ /\ status = "running"
          /\ tracked' = [tracked EXCEPT ![j] = @ + 1]
          /\ cursor' = (cursor \ {<<j, status, killed>>}) \cup {<<j, "pushed", killed>>}
          /\ UNCHANGED queued
    /\ UNCHANGED <<mongo, counter, rate, keys, archq, cpc, spc, starting, marking, watchers,
                   archiving, troubles, history>>

\* One job: its kill request, then its count if it was pending, else its id ...
Sync(j, status, killed) ==
    /\ Syncing /\ <<j, status, killed>> \in cursor
    /\ \A c \in cursor : c[2] # "pushed"
    /\ killq' = IF killed THEN [killq EXCEPT ![<<j, status>>] = @ + 1] ELSE killq
    /\ \/ /\ status = "pending"
          /\ queued' = queued + 1
          /\ cursor' = cursor \ {<<j, status, killed>>}
          /\ UNCHANGED tracked
       \/ /\ status = "running"
          /\ tracked' = [tracked EXCEPT ![j] = @ + 1]
          /\ cursor' = (cursor \ {<<j, status, killed>>}) \cup {<<j, "pushed", killed>>}
          /\ UNCHANGED queued
    /\ UNCHANGED <<mongo, counter, rate, keys, archq, cpc, spc, starting, marking, watchers,
                   archiving, troubles, history>>

\* ... and its key.
SyncKey(j, killed) ==
    /\ Syncing /\ <<j, "pushed", killed>> \in cursor
    /\ keys' = keys \cup {j}
    /\ cursor' = cursor \ {<<j, "pushed", killed>>}
    /\ UNCHANGED <<mongo, counters, tracked, killq, archq, cpc, spc, starting, marking, watchers,
                   archiving, troubles, history>>

EndSync ==
    /\ cursor = {}
    /\ Scheduler("sync", "up")
    /\ UNCHANGED <<mongo, counters, lists, cpc, cursor, starting, marking, watchers, archiving,
                   troubles, history>>

-----------------------------------------------------------------------------
(* The scheduler and the watchers. *)

\* A watcher is ending or rescheduling j, on a request.
Killed(j) == handler[<<j, "kill">>] # "none"
Uncounted(j) == queued' = queued - 1 /\ rate' = [rate EXCEPT ![Owner[j]] = @ - 1]

\* The pending jobs of u that are neither being killed nor counted out.
Waiting(u) == {j \in Job : doc[j] = "pending" /\ ~Killed(j) /\ j \notin marking /\ Owner[j] = u}

\* run_tasks checks the quotas of a pending job, ...
Checks(j) == spc = "up" /\ doc[j] = "pending" /\ j \notin starting \cup marking

StartJob(j) ==
    /\ Checks(j)
    /\ disk[Owner[j]] <= DiskQuota
    /\ starting' = starting \cup {j}
    /\ UNCHANGED <<mongo, counters, lists, cpc, spc, cursor, marking, watchers, archiving,
                   troubles, history>>

\* (reject_quota does not touch the counters)
RejectQuota(j) ==
    /\ Checks(j)
    /\ disk[Owner[j]] > DiskQuota
    /\ doc' = [doc EXCEPT ![j] = "over"]
    /\ keys' = keys \ {j}
    /\ UNCHANGED <<asked, resched, sized, disk, counters, tracked, killq, archq, cpc, scheduler,
                   watchers, archiving, troubles, history>>

\* ... and one job after the other gets its id, its key, and is counted out, ...
CountOut(j) ==
    /\ j \in starting /\ marking = {}
    /\ starting' = starting \ {j} /\ marking' = {j}
    /\ tracked' = [tracked EXCEPT ![j] = @ + 1]
    /\ keys' = keys \cup {j}
    /\ Uncounted(j)
    /\ spare' = IF j \in Waiting(Owner[j]) THEN spare ELSE [spare EXCEPT ![Owner[j]] = @ + 1]
    /\ UNCHANGED <<mongo, counter, killq, archq, cpc, spc, cursor, watchers, archiving, troubles,
                   lost, synced, dropped, again, parallel, twice, halfway>>

\* ... before its document, if it is still there, says that it runs.
MarkRunning(j) ==
    /\ j \in marking /\ marking' = marking \ {j}
    /\ IF doc[j] \in Stored
       THEN /\ doc' = [doc EXCEPT ![j] = "running"]
            /\ asked' = asked \ {j} /\ resched' = resched \ {j}
       ELSE UNCHANGED <<doc, asked, resched>>
    /\ UNCHANGED <<sized, disk, counters, lists, cpc, spc, cursor, starting, watchers, archiving,
                   troubles, history>>

\* check_running_jobs takes an id; without its key it goes no further.
TakeId(j) == tracked[j] > 0 /\ tracked' = [tracked EXCEPT ![j] = @ - 1]

Drop(j) ==
    /\ TakeId(j)
    /\ j \notin keys
    /\ dropped' = dropped \cup {j}
    /\ UNCHANGED <<mongo, counters, keys, killq, archq, cpc, scheduler, watchers, archiving, troubles,
                   synced, limits, twice, halfway>>

Take(j) ==
    /\ TakeId(j)
    /\ j \in keys /\ j \notin hands
    /\ hands' = hands \cup {j}
    /\ UNCHANGED <<mongo, counters, keys, killq, archq, cpc, scheduler, handler, archiving, troubles,
                   history>>

\* The job goes on: its id and its key come back, ...
PutBack(j) ==
    /\ j \in hands
    /\ hands' = hands \ {j}
    /\ tracked' = [tracked EXCEPT ![j] = @ + 1]
    /\ keys' = keys \cup {j}
    /\ UNCHANGED <<mongo, counters, killq, archq, cpc, scheduler, handler, archiving, troubles, history>>

\* ... or it has ended, or failed and is restarted if no kill is requested; if its
\* document is gone, an exception ends the handler.  Of two watchers that end a job at
\* once only one is kept, and of two that kill it.
End(j) ==
    /\ j \in hands /\ hands' = hands \ {j}
    /\ handler[<<j, "watch">>] = "none"
    /\ \/ doc[j] \notin Stored /\ UNCHANGED <<handler, troubles>>
       \/ /\ doc[j] \in Stored
          /\ handler' = [handler EXCEPT ![<<j, "watch">>] = "end"]
          /\ UNCHANGED troubles
       \/ /\ doc[j] \in Stored /\ j \notin asked
          /\ handler' = [handler EXCEPT ![<<j, "watch">>] = "restart"]
          /\ Trouble
    /\ UNCHANGED <<mongo, counters, lists, cpc, scheduler, archiving, history>>

Handle(j, h, from, to) == handler[<<j, h>>] = from /\ handler' = [handler EXCEPT ![<<j, h>>] = to]

\* kill_tasks: the counters follow the status in the request, ...
ServeKill(j, status) ==
    /\ killq[<<j, status>>] > 0
    /\ killq' = [killq EXCEPT ![<<j, status>>] = @ - 1]
    /\ Handle(j, "kill", "none", "look")
    /\ IF status = "pending" THEN Uncounted(j) ELSE UNCHANGED <<queued, rate>>
    /\ spare' = IF status = "pending" /\ j \notin Waiting(Owner[j])
                THEN [spare EXCEPT ![Owner[j]] = @ + 1] ELSE spare
    /\ UNCHANGED <<mongo, counter, tracked, keys, archq, cpc, scheduler, hands, archiving, troubles,
                   lost, synced, dropped, again, parallel, twice, halfway>>

\* ... what is then done the secondary status of the document.
Look(j) ==
    /\ Handle(j, "kill", "look",
              IF doc[j] \notin Stored THEN "none" ELSE IF j \in resched THEN "restart" ELSE "end")
    /\ UNCHANGED <<mongo, counters, lists, cpc, scheduler, hands, archiving, troubles, history>>

\* The document is removed, or the record another handler has made of it, ...
Remove(j, h) ==
    /\ Handle(j, h, "end", "removed")
    /\ doc' = [doc EXCEPT ![j] = "removed"]
    /\ twice' = IF doc[j] \in Stored THEN twice ELSE twice \cup {j}
    /\ UNCHANGED <<asked, resched, sized, disk, counters, lists, cpc, scheduler, hands, archiving,
                   troubles, synced, dropped, limits, halfway>>

\* ... terminate_task adds the size of the files to the usage of the user, ...
AddUsage(j, h) ==
    /\ Handle(j, h, "removed", "added")
    /\ disk' = [disk EXCEPT ![Owner[j]] = @ + Size[j]]
    /\ UNCHANGED <<doc, asked, resched, sized, counters, lists, cpc, scheduler, hands, archiving,
                   troubles, history>>

\* ... and the record goes to jobsover.
Record(j, h) ==
    /\ Handle(j, h, "added", "none")
    /\ doc' = [doc EXCEPT ![j] = "over"]
    /\ sized' = sized \cup {j}
    /\ keys' = keys \ {j}
    /\ UNCHANGED <<asked, resched, disk, counters, tracked, killq, archq, cpc, scheduler, hands,
                   archiving, troubles, history>>

\* A restart or a reschedule counts the job again, whatever the limits, ...
CountBack(j, h) ==
    /\ Handle(j, h, "restart", "counted")
    /\ keys' = keys \ {j}
    /\ queued' = queued + 1
    /\ rate' = [rate EXCEPT ![Owner[j]] = @ + 1]
    /\ again' = again \cup {j}
    /\ UNCHANGED <<mongo, counter, tracked, killq, archq, cpc, scheduler, hands, archiving, troubles,
                   lost, synced, dropped, spare, parallel, twice, halfway>>

\* ... and puts it back to pending, if its document is still there; a scheduler that is
\* about to mark it will then say that it runs.
PutToPending(j, h) ==
    /\ Handle(j, h, "counted", IF h = "watch" THEN "pending" ELSE "none")
    /\ IF doc[j] \in Stored
       THEN /\ doc' = [doc EXCEPT ![j] = "pending"]
            /\ asked' = asked \ {j} /\ resched' = resched \ {j}
       ELSE UNCHANGED <<doc, asked, resched>>
    /\ dropped' = dropped \cup (marking \cap {j})
    /\ UNCHANGED <<sized, disk, counters, lists, cpc, scheduler, hands, archiving, troubles,
                   synced, limits, twice, halfway>>

\* A restart deletes the key once more: it may be that of the next start.
DeleteKey(j) ==
    /\ Handle(j, "watch", "pending", "none")
    /\ keys' = keys \ {j}
    /\ dropped' = dropped \cup (keys \cap {j})
    /\ UNCHANGED <<mongo, counters, tracked, killq, archq, cpc, scheduler, hands, archiving, troubles,
                   synced, limits, twice, halfway>>

-----------------------------------------------------------------------------
(* go-d-clean and the users send finished jobs to the archiver. *)

RequestArchive(j) ==
    /\ doc[j] \in Recorded
    /\ Trouble
    /\ archq' = [archq EXCEPT ![<<j, j \in sized>>] = @ + 1]
    /\ UNCHANGED <<mongo, counters, tracked, keys, killq, cpc, scheduler, watchers, archiving,
                   history>>

Fetch(j, size) == archq[<<j, size>>] > 0 /\ archq' = [archq EXCEPT ![<<j, size>>] = @ - 1]

Flag(j, size) ==
    /\ doc' = [doc EXCEPT ![j] = "archived"]
    /\ archiving' = <<j, size>>

\* Mutant: the flag is not looked at.
ArchiveAny(j, size) ==
    /\ archiving = NoJob
    /\ Fetch(j, size)
    /\ Flag(j, size)
    /\ UNCHANGED <<asked, resched, sized, disk, counters, tracked, keys, killq, cpc, scheduler,
                   watchers, troubles, history>>

\* archive_task: a job that is archived already is skipped.  Else its files are
\* deleted and it is flagged, ...
Archive(j, size) ==
    /\ archiving = NoJob
    /\ Fetch(j, size)
    /\ IF doc[j] = "over" THEN Flag(j, size) ELSE UNCHANGED <<doc, archiving>>
    /\ UNCHANGED <<asked, resched, sized, disk, counters, tracked, keys, killq, cpc, scheduler,
                   watchers, troubles, history>>

\* Mutant: a size that is not known is given back.
GiveBackUnknown ==
    /\ archiving # NoJob
    /\ archiving' = NoJob
    /\ disk' = [disk EXCEPT ![Owner[archiving[1]]] = @ - Size[archiving[1]]]
    /\ UNCHANGED <<doc, asked, resched, sized, counters, lists, cpc, scheduler, watchers, troubles,
                   history>>

\* ... and then the size in the copy of the request is given back.
GiveBack ==
    /\ archiving # NoJob
    /\ archiving' = NoJob
    /\ disk' = IF archiving[2]
               THEN [disk EXCEPT ![Owner[archiving[1]]] = @ - Size[archiving[1]]] ELSE disk
    /\ UNCHANGED <<doc, asked, resched, sized, counters, lists, cpc, scheduler, watchers, troubles,
                   history>>

-----------------------------------------------------------------------------
(* Failures. *)

\* Redis comes back without its data.
Lose ==
    /\ Trouble
    /\ lost' = TRUE
    /\ counter' = FALSE /\ queued' = 0 /\ rate' = [u \in User |-> 0]
    /\ tracked' = [j \in Job |-> 0] /\ archq' = [e \in Job \X BOOLEAN |-> 0]
    /\ keys' = {} /\ killq' = [e \in Job \X Stored |-> 0]
    /\ synced' = FALSE
    /\ UNCHANGED <<mongo, cpc, scheduler, watchers, archiving, dropped, spare, again, parallel,
                   twice, halfway>>

\* A job that is counted out, or whose kill is counted, and stays pending.
LeftPending(j) == spare' = IF doc[j] = "pending" THEN [spare EXCEPT ![Owner[j]] = @ + 1] ELSE spare

StopScheduler ==
    /\ spc # "down"
    /\ Trouble
    /\ spc' = "down" /\ cursor' = {} /\ starting' = {} /\ marking' = {}
    /\ synced' = (synced /\ ~Syncing)
    /\ \/ marking = {} /\ UNCHANGED spare
       \/ \E j \in marking : LeftPending(j)
    /\ UNCHANGED <<mongo, counters, lists, cpc, watchers, archiving, lost, dropped, again,
                   parallel, twice, halfway>>

StopArchiver ==
    /\ archiving # NoJob
    /\ Trouble
    /\ archiving' = NoJob
    /\ halfway' = TRUE
    /\ UNCHANGED <<mongo, counters, lists, cpc, scheduler, watchers, synced, dropped, limits,
                   twice>>

\* A watcher dies with a job in hand.
StopWatcher(j) ==
    /\ j \in hands
    /\ Trouble
    /\ hands' = hands \ {j}
    /\ dropped' = dropped \cup {j}
    /\ UNCHANGED <<mongo, counters, lists, cpc, scheduler, handler, archiving, synced,
                   limits, twice, halfway>>

StopHandler(j, h) ==
    /\ handler[<<j, h>>] # "none"
    /\ Trouble
    /\ handler' = [handler EXCEPT ![<<j, h>>] = "none"]
    /\ dropped' = dropped \cup {j}
    /\ halfway' = (halfway \/ handler[<<j, h>>] = "added")
    /\ IF h = "kill" /\ handler[<<j, h>>] # "counted"
       THEN LeftPending(j) ELSE UNCHANGED spare
    /\ UNCHANGED <<mongo, counters, lists, cpc, scheduler, hands, archiving, lost,
                   synced, again, parallel, twice>>

Next ==
    \/ \E j \in Job : \/ Check(j) \/ Count(j) \/ Insert(j)
                      \/ RequestKill(j) \/ RequestReschedule(j) \/ RequestArchive(j)
    \/ Start \/ Recover \/ EndSync
    \/ \E c \in cursor : Sync(c[1], c[2], c[3]) \/ SyncKey(c[1], c[3])
    \/ \E j \in Job : \/ StartJob(j) \/ RejectQuota(j) \/ CountOut(j) \/ MarkRunning(j)
                      \/ Drop(j) \/ Take(j) \/ PutBack(j) \/ End(j)
    \/ \E j \in Job, s \in Stored : ServeKill(j, s)
    \/ \E j \in Job, h \in Handlers : \/ Remove(j, h) \/ AddUsage(j, h) \/ Record(j, h)
                                      \/ CountBack(j, h) \/ PutToPending(j, h)
    \/ \E j \in Job : Look(j) \/ DeleteKey(j)
    \/ \E j \in Job, size \in BOOLEAN : Archive(j, size)
    \/ GiveBack
    \/ Lose \/ StopScheduler \/ StopArchiver
    \/ \E j \in Job : StopWatcher(j) \/ \E h \in Handlers : StopHandler(j, h)

Spec == Init /\ [][Next]_vars

-----------------------------------------------------------------------------
(* Properties. *)

\* rate_limit bounds the jobs of a user that wait for their first start, up to what was
\* in add_task at the same time (parallel), to what a kill or a start took off the
\* counter for a job that was not on it, or whose scheduler or watcher then died (spare).
\* A restart or a reschedule puts a job back whatever the limit (again), and check_redis
\* does not restore the counter.
LimitHeld ==
    ~lost => \A u \in User :
        Cardinality(Waiting(u) \ again)
            <= RateLimit + (IF parallel THEN Clients - 1 ELSE 0) + spare[u]

\* In the hands of a watcher, or of a handler that has still to remove or put it back.
InHands(j) ==
    j \in hands \/ \E h \in Handlers : handler[<<j, h>>] \in Steps \ {"none", "pending"}

\* After check_redis restored Redis, while watchers and clients went on: every
\* running job is in the list with its key, or in the hands of a watcher; every
\* kill request is in its list, or in the hands of a watcher.  But some jobs are dropped:
\* a watcher took the id before the key was there, or died with the job in hand, or put
\* it back to pending before the scheduler had marked it, or deleted its next key.
Restored ==
    (synced /\ ~Syncing) => \A j \in Job \ dropped :
        /\ doc[j] = "running" => (tracked[j] > 0 /\ j \in keys) \/ InHands(j)
        /\ doc[j] \in Stored /\ j \in asked =>
               (\E s \in Stored : killq[<<j, s>>] > 0) \/ Killed(j)

Kept(u) == {j \in Job : doc[j] = "over" /\ j \in sized /\ Owner[j] = u}
Leaving(u) == {j \in Job : archiving = <<j, TRUE>> /\ Owner[j] = u}
Adding(u, h) == {j \in Job : handler[<<j, h>>] = "added" /\ Owner[j] = u}
Total(jobs) == FoldFunctionOnSet(LAMBDA s, t : s + t, 0, Size, jobs)
Used(u) == Total(Kept(u)) + Total(Leaving(u)) + Total(Adding(u, "watch")) + Total(Adding(u, "kill"))

\* The disk usage of a user is at least what his recorded jobs keep on the disk, with
\* those that are being archived or recorded, and exactly that until an archiver dies
\* before it gives back the size, a watcher after it added it (halfway), or two handlers
\* record one job (twice).
DiskCounted ==
    \A u \in User :
        /\ disk[u] >= Used(u)
        /\ ~halfway /\ twice = {} => disk[u] = Used(u)
=============================================================================
