----------------------------- MODULE ArrayJobs -----------------------------
(***************************************************************************)
(* An array job: add_task makes one document per child and one for the     *)
(* parent, which runs nothing itself.  The scheduler and the watchers      *)
(* handle these documents like those of any job (JobLifecycle) and keep, in*)
(* addition, the Redis counters :job:<parent>:subtaskrunning and           *)
(* :job:<parent>:subtask and the field nb_tasks_over of the parent.  A     *)
(* parent is over when the first counter says that no child runs.          *)
(*                                                                         *)
(* Left to JobLifecycle: the counters of queued jobs, quotas, dependencies,*)
(* life spans, reschedule requests and crashes.  A kill the executor       *)
(* refuses is tried again or given up, without a count of the attempts.    *)
(***************************************************************************)
EXTENDS Integers, Sequences, FiniteSets

CONSTANTS
    Child,         \* the children of the array
    Parent,        \* its main task
    Watcher,       \* the go-d-watcher processes
    NoTask,        \* the value of an empty hand
    FailurePolicy, \* restarts of a child whose node failed
    MaxKills       \* bound: kill requests made by users

Member == Child \cup {Parent}

ASSUME ArrayAssumption ==
    /\ IsFiniteSet(Child)
    /\ Parent \notin Child
    /\ NoTask \notin Member
    /\ FailurePolicy \in Nat
    /\ MaxKills \in Nat

VARIABLES
    doc,            \* primary status of each document in jobs
    asked,          \* documents whose secondary status is 'kill requested'
    fails,          \* status.failure.count
    nbOver,         \* requirements.array.nb_tasks_over of the parent's document
    over,           \* the jobs with a document in jobsover
    running,        \* list :jobs:running
    killq,          \* list :jobs:kill, of copies of documents
    snap,           \* the jobs that have a key :job:<id>:task
    subtaskrunning, \* counter of the parent, 0: also no key
    subtask,        \* the other counter of the parent
    up,             \* children whose container runs
    failed,         \* children whose container died with its node
    spc, batch, accepted, starting, scur,
    wpc, hand,
    kills

mongo == <<doc, asked, fails, nbOver, over>>
redis == <<running, killq, snap, subtaskrunning, subtask>>
executor == <<up, failed>>
scheduler == <<spc, batch, accepted, starting, scur>>
watchers == <<wpc, hand>>
vars == <<mongo, redis, executor, scheduler, watchers, kills>>

Primary == {"new", "pending", "running", "gone"}

\* A copy of a document; "over" when it comes from the list of running jobs,
\* failed when the executor reported the failure of the node.
Task == [job : Member, primary : {"pending", "running"}, over : BOOLEAN, failed : BOOLEAN]

WatcherPC == {"idle", "kill", "original", "requeue", "reset", "unsnap", "count",
              "remove", "insert", "close", "alive", "stamp"}

MongoTyped ==
    /\ doc \in [Member -> Primary]
    /\ asked \subseteq Member
    /\ fails \in [Member -> Nat]
    /\ nbOver \in Nat
    /\ over \subseteq Member

RedisTyped ==
    /\ running \in Seq(Member)
    /\ killq \in Seq(Task)
    /\ snap \subseteq Member
    /\ subtaskrunning \in Int
    /\ subtask \in Int

ExecutorTyped == up \subseteq Child /\ failed \subseteq Child

SchedulerTyped ==
    /\ spc \in {"idle", "filter", "publish", "pushed", "snapped"}
    /\ batch \subseteq Member
    /\ accepted \subseteq Member
    /\ starting \subseteq Member
    /\ scur \in Member \cup {NoTask}
    /\ spc \in {"pushed", "snapped"} => scur \in Member

WatchersTyped ==
    /\ wpc \in [Watcher -> WatcherPC]
    /\ hand \in [Watcher -> Task \cup {NoTask}]
    /\ \A w \in Watcher : IF wpc[w] = "idle" THEN hand[w] = NoTask ELSE hand[w] \in Task

Typed ==
    /\ MongoTyped /\ RedisTyped /\ ExecutorTyped /\ SchedulerTyped /\ WatchersTyped
    /\ kills \in 0 .. MaxKills

\* Every variable has its type, and no job is restarted more often than the policy
\* says.
TypeOK == Typed /\ \A j \in Member : fails[j] <= FailurePolicy

Stored(j) == doc[j] \in {"pending", "running"}

Goto(w, pc) == wpc' = [wpc EXCEPT ![w] = pc]
Take(w, task, pc) == Goto(w, pc) /\ hand' = [hand EXCEPT ![w] = task]
Release(w) == Take(w, NoTask, "idle")

Init ==
    /\ doc = [j \in Member |-> "new"]
    /\ asked = {}
    /\ fails = [j \in Member |-> 0]
    /\ nbOver = 0
    /\ over = {}
    /\ running = <<>>
    /\ killq = <<>>
    /\ snap = {}
    /\ subtaskrunning = 0
    /\ subtask = 0
    /\ up = {}
    /\ failed = {}
    /\ spc = "idle"
    /\ batch = {}
    /\ accepted = {}
    /\ starting = {}
    /\ scur = NoTask
    /\ wpc = [w \in Watcher |-> "idle"]
    /\ hand = [w \in Watcher |-> NoTask]
    /\ kills = 0

-----------------------------------------------------------------------------
(* The users and the containers. *)

\* add_task inserts the children one after the other, then their parent.
Submit(j) ==
    /\ doc[j] = "new"
    /\ j = Parent => \A c \in Child : doc[c] # "new"
    /\ doc' = [doc EXCEPT ![j] = "pending"]
    /\ UNCHANGED <<asked, fails, nbOver, over, redis, executor, scheduler, watchers, kills>>

RequestKill(j) ==
    /\ Stored(j)
    /\ kills < MaxKills
    /\ kills' = kills + 1
    /\ asked' = asked \cup {j}
    /\ killq' = Append(killq, [job |-> j, primary |-> doc[j], over |-> FALSE, failed |-> FALSE])
    /\ UNCHANGED <<doc, fails, nbOver, over, running, snap, subtaskrunning, subtask,
                   executor, scheduler, watchers>>

ContainerEnds(c) ==
    /\ c \in up
    /\ up' = up \ {c}
    /\ \/ UNCHANGED failed
       \/ FailurePolicy > 0 /\ failed' = failed \cup {c}
    /\ UNCHANGED <<mongo, redis, scheduler, watchers, kills>>

-----------------------------------------------------------------------------
(* The scheduler. *)

SchedulerRead ==
    /\ spc = "idle"
    /\ spc' = "filter"
    /\ batch' = {j \in Member : doc[j] = "pending"}
    /\ UNCHANGED <<mongo, redis, executor, accepted, starting, scur, watchers, kills>>

\* _create_command looks the parent of a child up in jobs; without it an
\* exception leaves the child pending.
SchedulerSkip(c) ==
    /\ spc = "filter"
    /\ c \in batch \cap Child
    /\ ~Stored(Parent)
    /\ batch' = batch \ {c}
    /\ UNCHANGED <<mongo, redis, executor, spc, accepted, starting, scur, watchers, kills>>

\* Mutant: the parent is not looked up.
SchedulerAcceptAny(j) ==
    /\ spc = "filter"
    /\ j \in batch
    /\ batch' = batch \ {j}
    /\ accepted' = accepted \cup {j}
    /\ UNCHANGED <<mongo, redis, executor, spc, starting, scur, watchers, kills>>

SchedulerAccept(j) ==
    /\ spc = "filter"
    /\ j \in batch
    /\ j \in Child => Stored(Parent)
    /\ batch' = batch \ {j}
    /\ accepted' = accepted \cup {j}
    /\ UNCHANGED <<mongo, redis, executor, spc, starting, scur, watchers, kills>>

\* The executor always accepts a parent, and starts nothing for it; it may
\* refuse children, which stay pending with another secondary status.
SchedulerLaunch(R) ==
    /\ spc = "filter"
    /\ batch = {}
    /\ R \subseteq accepted
    /\ Parent \in accepted => Parent \in R
    /\ up' = up \cup (R \cap Child)
    /\ asked' = asked \ (accepted \ R)
    /\ starting' = R
    /\ accepted' = {}
    /\ spc' = "publish"
    /\ UNCHANGED <<doc, fails, nbOver, over, redis, failed, batch, scur, watchers, kills>>

\* Mutant: a child is not counted.
SchedulerPushUncounted(j) ==
    /\ spc = "publish"
    /\ j \in starting
    /\ running' = Append(running, j)
    /\ starting' = starting \ {j}
    /\ scur' = j
    /\ spc' = "pushed"
    /\ UNCHANGED <<mongo, killq, snap, subtaskrunning, subtask, executor, batch, accepted,
                   watchers, kills>>

\* _update_scheduled_task_status: a child is counted, the id is pushed, ...
SchedulerPush(j) ==
    /\ spc = "publish"
    /\ j \in starting
    /\ subtaskrunning' = IF j \in Child THEN subtaskrunning + 1 ELSE subtaskrunning
    /\ running' = Append(running, j)
    /\ starting' = starting \ {j}
    /\ scur' = j
    /\ spc' = "pushed"
    /\ UNCHANGED <<mongo, killq, snap, subtask, executor, batch, accepted, watchers, kills>>

\* ... the key is set, ...
SchedulerSnapshot ==
    /\ spc = "pushed"
    /\ snap' = snap \cup {scur}
    /\ spc' = "snapped"
    /\ UNCHANGED <<mongo, running, killq, subtaskrunning, subtask, executor, batch, accepted,
                   starting, scur, watchers, kills>>

\* ... and the document is updated.
SchedulerMark ==
    /\ spc = "snapped"
    /\ IF Stored(scur)
       THEN doc' = [doc EXCEPT ![scur] = "running"] /\ asked' = asked \ {scur}
       ELSE UNCHANGED <<doc, asked>>
    /\ spc' = "publish"
    /\ scur' = NoTask
    /\ UNCHANGED <<fails, nbOver, over, redis, executor, batch, accepted, starting, watchers,
                   kills>>

SchedulerEndPass ==
    /\ spc = "publish"
    /\ starting = {}
    /\ spc' = "idle"
    /\ UNCHANGED <<mongo, redis, executor, batch, accepted, starting, scur, watchers, kills>>

-----------------------------------------------------------------------------
(* A watcher: the kill list. *)

PopKill(w) ==
    /\ wpc[w] = "idle"
    /\ killq # <<>>
    /\ killq' = Tail(killq)
    /\ Take(w, Head(killq), "kill")
    /\ UNCHANGED <<mongo, running, snap, subtaskrunning, subtask, executor, scheduler, kills>>

\* A job that was pending has no container, and a parent never has one.  The
\* children of a parent are killed if its :subtask counter is positive, which no
\* line of the code ever increments: that branch is not reached.
KillWithout(w) ==
    /\ wpc[w] = "kill"
    /\ \/ hand[w].job \in Child /\ hand[w].primary = "pending"
       \/ hand[w].job = Parent /\ subtask <= 0
    /\ Goto(w, "original")
    /\ UNCHANGED <<mongo, redis, executor, scheduler, hand, kills>>

KillContainer(w) ==
    /\ wpc[w] = "kill"
    /\ hand[w].job \in Child /\ hand[w].primary = "running"
    /\ up' = up \ {hand[w].job}
    /\ failed' = failed \ {hand[w].job}
    /\ Goto(w, "original")
    /\ UNCHANGED <<mongo, redis, scheduler, hand, kills>>

KillFails(w) ==
    /\ wpc[w] = "kill"
    /\ hand[w].job \in Child /\ hand[w].primary = "running"
    /\ \/ killq' = Append(killq, hand[w]) /\ UNCHANGED asked
       \/ UNCHANGED killq /\ asked' = asked \ {hand[w].job}
    /\ Release(w)
    /\ UNCHANGED <<doc, fails, nbOver, over, running, snap, subtaskrunning, subtask, executor,
                   scheduler, kills>>

-----------------------------------------------------------------------------
(* A watcher: the list of running jobs. *)

PopUnknown(w) ==
    /\ wpc[w] = "idle"
    /\ running # <<>>
    /\ Head(running) \notin snap
    /\ running' = Tail(running)
    /\ UNCHANGED <<mongo, killq, snap, subtaskrunning, subtask, executor, scheduler, watchers,
                   kills>>

\* A parent goes on while its counter is positive, a child while its container runs.
GoesOn(j) == IF j = Parent THEN subtaskrunning > 0 ELSE j \in up

Found(j) == [job |-> j, primary |-> "running", over |-> TRUE, failed |-> j \in failed]

PopAlive(w) ==
    LET j == Head(running)
    IN  /\ wpc[w] = "idle"
        /\ running # <<>>
        /\ j \in snap /\ GoesOn(j)
        /\ running' = Tail(running)
        /\ Take(w, Found(j), "alive")
        /\ UNCHANGED <<mongo, killq, snap, subtaskrunning, subtask, executor, scheduler, kills>>

PopOver(w) ==
    LET j == Head(running)
    IN  /\ wpc[w] = "idle"
        /\ running # <<>>
        /\ j \in snap /\ ~GoesOn(j)
        /\ running' = Tail(running)
        /\ Take(w, Found(j), "original")
        /\ failed' = failed \ {j}
        /\ UNCHANGED <<mongo, killq, snap, subtaskrunning, subtask, up, scheduler, kills>>

PushBack(w) ==
    /\ wpc[w] = "alive"
    /\ running' = Append(running, hand[w].job)
    /\ Goto(w, "stamp")
    /\ UNCHANGED <<mongo, killq, snap, subtaskrunning, subtask, executor, scheduler, hand,
                   kills>>

Stamp(w) ==
    /\ wpc[w] = "stamp"
    /\ snap' = snap \cup {hand[w].job}
    /\ Release(w)
    /\ UNCHANGED <<mongo, running, killq, subtaskrunning, subtask, executor, scheduler, kills>>

-----------------------------------------------------------------------------
(* A watcher: the end of a job, from either list. *)

OriginalGone(w) ==
    /\ wpc[w] = "original"
    /\ ~Stored(hand[w].job)
    /\ Release(w)
    /\ UNCHANGED <<mongo, redis, executor, scheduler, kills>>

\* The reason of a failure stays in the document and in the tasks made from it.
Failure(task) == task.failed \/ (task.over /\ fails[task.job] > 0)

\* Mutant: one restart too many.
MustRestartOnceMore(task) ==
    Failure(task) /\ task.job \notin asked /\ fails[task.job] <= FailurePolicy

MustRestart(task) ==
    Failure(task) /\ task.job \notin asked /\ fails[task.job] < FailurePolicy

OriginalFound(w) ==
    /\ wpc[w] = "original"
    /\ Stored(hand[w].job)
    /\ Goto(w, IF MustRestart(hand[w]) THEN "requeue"
               ELSE IF hand[w].over THEN "count" ELSE "remove")
    /\ UNCHANGED <<mongo, redis, executor, scheduler, hand, kills>>

\* A child is started again after a failure; its counter is left as it is.
Requeue(w) ==
    /\ wpc[w] = "requeue"
    /\ snap' = snap \ {hand[w].job}
    /\ Goto(w, "reset")
    /\ UNCHANGED <<mongo, running, killq, subtaskrunning, subtask, executor, scheduler, hand,
                   kills>>

ResetPending(w) ==
    LET j == hand[w].job
    IN  /\ wpc[w] = "reset"
        /\ IF Stored(j)
           THEN /\ doc' = [doc EXCEPT ![j] = "pending"]
                /\ asked' = asked \ {j}
                /\ fails' = [fails EXCEPT ![j] = @ + 1]
           ELSE UNCHANGED <<doc, asked, fails>>
        /\ Goto(w, "unsnap")
        /\ UNCHANGED <<nbOver, over, redis, executor, scheduler, hand, kills>>

DeleteSnapshotAgain(w) ==
    /\ wpc[w] = "unsnap"
    /\ snap' = snap \ {hand[w].job}
    /\ Release(w)
    /\ UNCHANGED <<mongo, running, killq, subtaskrunning, subtask, executor, scheduler, kills>>

\* Mutant: the counter of the parent is left as it is.
EndForgotten(j) ==
    /\ nbOver' = IF j \in Child /\ Stored(Parent) THEN nbOver + 1 ELSE nbOver
    /\ UNCHANGED subtaskrunning

\* The end of a child is counted, the end of the parent removes its counter.
CountEnd(j) ==
    IF j \in Child
    THEN /\ subtaskrunning' = subtaskrunning - 1
         /\ nbOver' = IF Stored(Parent) THEN nbOver + 1 ELSE nbOver
    ELSE /\ subtaskrunning' = 0
         /\ UNCHANGED nbOver

\* check_running_jobs counts before it removes the document, ...
CountFirst(w) ==
    /\ wpc[w] = "count"
    /\ CountEnd(hand[w].job)
    /\ Goto(w, "remove")
    /\ UNCHANGED <<doc, asked, fails, over, running, killq, snap, subtask, executor, scheduler,
                   hand, kills>>

Remove(w) ==
    /\ wpc[w] = "remove"
    /\ IF Stored(hand[w].job)
       THEN doc' = [doc EXCEPT ![hand[w].job] = "gone"] /\ UNCHANGED over
       ELSE over' = over \ {hand[w].job} /\ UNCHANGED doc
    /\ Goto(w, "insert")
    /\ UNCHANGED <<asked, fails, nbOver, redis, executor, scheduler, hand, kills>>

InsertOver(w) ==
    /\ wpc[w] = "insert"
    /\ over' = over \cup {hand[w].job}
    /\ Goto(w, "close")
    /\ UNCHANGED <<doc, asked, fails, nbOver, redis, executor, scheduler, hand, kills>>

\* Mutant: the handler of a kill counts a child like the other handler, and so
\* does the other handler again.
CloseCountsTwice(w) ==
    /\ wpc[w] = "close"
    /\ snap' = snap \ {hand[w].job}
    /\ CountEnd(hand[w].job)
    /\ Release(w)
    /\ UNCHANGED <<doc, asked, fails, over, running, killq, subtask, executor, scheduler, kills>>

\* ... kill_tasks counts at the very end, on both counters.
Close(w) ==
    LET j == hand[w].job
    IN  /\ wpc[w] = "close"
        /\ snap' = snap \ {j}
        /\ IF hand[w].over
           THEN UNCHANGED <<subtaskrunning, subtask, nbOver>>
           ELSE /\ CountEnd(j)
                /\ subtask' = IF j \in Child THEN subtask - 1 ELSE 0
        /\ Release(w)
        /\ UNCHANGED <<doc, asked, fails, over, running, killq, executor, scheduler, kills>>

-----------------------------------------------------------------------------
Users == \E j \in Member : Submit(j) \/ RequestKill(j)

Containers == \E c \in up : ContainerEnds(c)

Scheduler ==
    \/ SchedulerRead
    \/ \E c \in Child : SchedulerSkip(c)
    \/ \E j \in Member : SchedulerAccept(j) \/ SchedulerPush(j)
    \/ \E R \in SUBSET accepted : SchedulerLaunch(R)
    \/ SchedulerSnapshot
    \/ SchedulerMark
    \/ SchedulerEndPass

Handle(w) ==
    \/ KillWithout(w) \/ KillContainer(w) \/ KillFails(w)
    \/ PushBack(w) \/ Stamp(w)
    \/ OriginalGone(w) \/ OriginalFound(w)
    \/ Requeue(w) \/ ResetPending(w) \/ DeleteSnapshotAgain(w)
    \/ CountFirst(w) \/ Remove(w) \/ InsertOver(w) \/ Close(w)

PopRunning(w) == PopUnknown(w) \/ PopAlive(w) \/ PopOver(w)

Next ==
    \/ Users
    \/ Containers
    \/ Scheduler
    \/ \E w \in Watcher : PopKill(w) \/ PopRunning(w) \/ Handle(w)

Spec == Init /\ [][Next]_vars

\* As in JobLifecycle: watchers go on and come back to both lists.
Fairness ==
    \A w \in Watcher : WF_vars(Handle(w)) /\ SF_vars(PopKill(w)) /\ SF_vars(PopRunning(w))

FairSpec == Spec /\ Fairness

-----------------------------------------------------------------------------
(* Properties.                                                             *)

\* The children the watchers are to end: published, and their end not counted.
InFlight ==
    {c \in Child :
        \/ \E n \in DOMAIN running : running[n] = c
        \/ \E w \in Watcher : wpc[w] \in {"original", "count", "alive"} /\ hand[w].job = c}

\* A watcher has found the parent over.
Ending == \E w \in Watcher :
    /\ wpc[w] \in {"original", "count", "remove", "insert", "close"}
    /\ hand[w].job = Parent

\* Until the parent ends, and when nobody asks for a kill, its counter covers the
\* children in flight, also those started again after a failure: the parent is
\* never found over while a published child is not.
CountCovers ==
    (kills = 0 /\ doc[Parent] # "gone" /\ ~Ending) => subtaskrunning >= Cardinality(InFlight)

\* The children that are over, or whose end was just counted.
Ended == {c \in Child : \/ doc[c] = "gone"
                        \/ \E w \in Watcher : wpc[w] = "remove" /\ hand[w].job = c}

\* nb_tasks_over of the parent never exceeds the number of children that ended, when
\* nobody asks for a kill: check_running_jobs counts each end once.
EndedOnce == kills = 0 => nbOver <= Cardinality(Ended)

\* A child starts only after the parent was stored, which add_task does last.
StartAfterParent == up # {} => doc[Parent] # "new"

Followed(j) == j \in snap /\ \E n \in DOMAIN running : running[n] = j

\* "Main task ... ends when all sub tasks are over" (README), for an array none of
\* whose children was started again: when all children are over, a parent the
\* watchers follow gets over.  (It may be over before: the counter is zero, too,
\* while no child was published.)
UnrestartedEnds ==
    (Child \subseteq over /\ Followed(Parent) /\ \A c \in Child : fails[c] = 0)
        ~> (Parent \in over)
=============================================================================
