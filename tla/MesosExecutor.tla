----------------------------- MODULE MesosExecutor -----------------------------
(***************************************************************************)
(* The Mesos executor (plugins/mesos.py).  The main thread of the          *)
(* scheduler (run_tasks) and the thread of the Mesos driver (the callbacks *)
(* resourceOffers and statusUpdate) live in one process and talk through   *)
(* Redis lists and keys, as the watchers do (watch_tasks, kill_task).  A   *)
(* Mesos task has the id of its job.  What surrounds the plugin is reduced *)
(* to its effect on it: a document is pending, running or over, and the    *)
(* races of the handlers of the scheduler and of the watchers on the       *)
(* documents are those of JobLifecycle.                                    *)
(***************************************************************************)
EXTENDS Integers, Sequences, FiniteSets, SequencesExt

CONSTANTS
    Job,
    Cpu,            \* requirements.cpu of each job
    Interactive,    \* jobs that need one port of the node
    Slots,          \* slots of a specific resource (a GPU) each job asks for
    OfferCpus,      \* what an offer may hold: numbers of cpus,
    LastPort,       \* the ports 1 .. LastPort,
    LastSlot,       \* and the slots 0 .. LastSlot of the resource
    FailurePolicy,  \* restarts after a failure of the system
    Handlers,       \* ends of jobs that may be handled at once (the watchers)
    Reconcile,      \* mesos.reconcile of the configuration
    MaxOffers,      \* bound: offers in a call of resourceOffers
    MaxRuns,        \* bound: placements of one job
    MaxTentatives,  \* kill attempts before the watchers give up (10 in the code)
    MaxKills,       \* bound: kill and reschedule requests
    MaxRepeats,     \* bound: status updates that Mesos sends again
    MaxCrashes      \* bound: deaths of the scheduler process

ASSUME MesosAssumption ==
    /\ IsFiniteSet(Job)
    /\ Interactive \subseteq Job
    /\ Cpu \in [Job -> Nat] /\ Slots \in [Job -> Nat]
    /\ OfferCpus \subseteq Nat /\ LastPort \in Nat /\ LastSlot \in Nat
    /\ {FailurePolicy, Handlers, MaxOffers, MaxRuns, MaxTentatives, MaxKills,
        MaxRepeats, MaxCrashes} \subseteq Nat
    /\ Reconcile \in BOOLEAN

VARIABLES
    doc,        \* Mongo: status of each job, and its failure count
    tracked,    \* how often the id is in :jobs:running
    snap,       \* jobs that have a key :job:<id>:task
    killq,      \* :jobs:kill, as the set of pairs <<job, attempts>>
    early,      \* jobs of the entries of :jobs:kill whose copy of the task is pending
    offer,      \* :mesos:offer
    pendings,   \* :mesos:pending
    runnings,   \* :mesos:running (what is in :mesos:rejected stays pending)
    mkill,      \* :mesos:kill
    over,       \* :mesos:over:<id>
    reason,     \* jobs that have a key :mesos:over:<id>:reason
    spc, batch, started,                \* run_tasks of the main thread
    fw,         \* resourceOffers of the driver's thread
    ending,     \* ends of jobs in the hands of watchers, <<job, handler>>
    mesos,      \* Mesos: state of the last task launched with the id of each job
    told,       \* the last state Mesos told the framework
    kills, repeats, crashes,            \* bounds
    launched, left, clash               \* history, see the properties

main == <<spc, batch, started>>
redis == <<offer, pendings, runnings, mkill, over, reason>>
jobsVars == <<doc, tracked, snap, killq, early, ending>>
cluster == <<mesos, told>>
bounds == <<kills, repeats, crashes>>
history == <<launched, left, clash>>
vars == <<main, redis, fw, jobsVars, cluster, bounds, history>>

-----------------------------------------------------------------------------
\* What matters of the states of Mesos (mesos_pb2.TaskState): a task that was
\* launched and did not end is live; it is finished, or killed; its command
\* failed; or the system is the cause of its end (failed with a reason, lost,
\* error).  "none": no task, or no key.
Terminal == {"finished", "failed", "crashed"}
State == {"none", "live"} \cup Terminal

Idle == [pc |-> "idle", tasks |-> <<>>, placed |-> {}, next |-> 1, offers |-> 0, cpus |-> 0,
         port |-> 1, slot |-> 0, takes |-> 0, given |-> <<>>]

Document == [status : {"new", "pending", "running", "over"}, fails : Nat,
             secondary : {"none", "kill requested", "reschedule requested", "rescheduled",
                          "unknown"}]

JobsTyped ==
    /\ doc \in [Job -> Document]
    /\ tracked \in [Job -> Nat] /\ snap \subseteq Job
    /\ killq \subseteq Job \X (0 .. MaxTentatives) /\ early \subseteq Job
    /\ ending \subseteq Job \X {"watch", "watch failed", "kill"}

RedisTyped ==
    /\ offer \in {0, 1}
    /\ pendings \in Seq(Job) /\ runnings \in Seq(Job)
    /\ mkill \subseteq Job /\ reason \subseteq Job
    /\ over \in [Job -> State]

MainTyped ==
    /\ spc \in {"idle", "push", "publish"}
    /\ batch \in Seq(Job) /\ started \in Seq(Job)

FrameworkTyped ==
    /\ fw \in [pc : {"idle", "offers", "place"}, tasks : Seq(Job), placed : SUBSET Nat,
              next : Nat, offers : Nat, cpus : Int, port : Nat, slot : Nat, takes : Nat,
              given : Seq([job : Job, port : Nat, slots : SUBSET Nat])]
    /\ fw.pc = "place" => fw.next > 0

ClusterTyped == mesos \in [Job -> State] /\ told \in [Job -> State]

HistoryTyped ==
    /\ repeats \in Nat
    /\ launched \in [Job -> Nat] /\ left \subseteq Job /\ clash \subseteq Job

TypeOK ==
    /\ JobsTyped /\ RedisTyped /\ MainTyped
    /\ FrameworkTyped /\ ClusterTyped /\ HistoryTyped

Init ==
    /\ doc = [j \in Job |-> [status |-> "new", fails |-> 0, secondary |-> "none"]]
    /\ tracked = [j \in Job |-> 0] /\ snap = {} /\ killq = {} /\ early = {}
    /\ ending = {}
    /\ offer = 0 /\ pendings = <<>> /\ runnings = <<>>
    /\ mkill = {} /\ over = [j \in Job |-> "none"] /\ reason = {}
    /\ spc = "idle" /\ batch = <<>> /\ started = <<>> /\ fw = Idle
    /\ mesos = [j \in Job |-> "none"] /\ told = mesos
    /\ kills = 0 /\ repeats = 0 /\ crashes = 0
    /\ launched = [j \in Job |-> 0] /\ left = {} /\ clash = {}

\* Mutant: the query does not ask for the pending jobs only.
Unfinished == {j \in Job : doc[j].status \in {"pending", "running"}}

Pending == {j \in Job : doc[j].status = "pending"}
Live(j) == mesos[j] = "live"

-----------------------------------------------------------------------------
(* The users, and the main thread of the scheduler. *)

Submit(j) ==
    /\ doc[j].status = "new"
    /\ doc' = [doc EXCEPT ![j].status = "pending"]
    /\ UNCHANGED <<main, redis, fw, tracked, snap, killq, early, ending, cluster, bounds,
                   history>>

\* A kill or a reschedule: the secondary status is written, and a copy of the task
\* goes to the kill list, with the status the job has now.
RequestKill(j) ==
    /\ doc[j].status \in {"pending", "running"}
    /\ kills < MaxKills
    /\ kills' = kills + 1
    /\ IF doc[j].status = "pending"
       THEN early' = early \cup {j} /\ UNCHANGED killq
       ELSE killq' = killq \cup {<<j, 0>>} /\ UNCHANGED early
    /\ \E s \in {"kill requested", "reschedule requested"} :
           doc' = [doc EXCEPT ![j].secondary = s]
    /\ UNCHANGED <<main, redis, fw, tracked, snap, ending, cluster, repeats, crashes, history>>

\* run_tasks resets the flag.  It gets some of the pending jobs, or none: the others
\* wait for a job they depend on, for a quota, or for another executor.
BeginPass ==
    /\ spc = "idle"
    /\ Pending # {}
    /\ \E S \in SUBSET Pending : batch' = SetToSeq(S)
    /\ offer' = 0
    /\ spc' = "push"
    /\ UNCHANGED <<started, pendings, runnings, mkill, over, reason, fw,
                   jobsVars, cluster, bounds, history>>

\* Then it pushes the tasks one by one, ...
PushTask ==
    /\ spc = "push"
    /\ batch # <<>>
    /\ pendings' = Append(pendings, Head(batch))
    /\ batch' = Tail(batch)
    /\ UNCHANGED <<spc, started, offer, runnings, mkill, over, reason, fw,
                   jobsVars, cluster, bounds, history>>

Untreated == ToSet(pendings) \cup ToSet(fw.tasks)

\* ... reads the flag until it is set, and returns the tasks of both lists.
Collect ==
    /\ spc = "push"
    /\ batch = <<>>
    /\ offer = 1
    /\ started' = runnings
    /\ runnings' = <<>>
    /\ left' = left \cup Untreated
    /\ spc' = "publish"
    /\ UNCHANGED <<batch, offer, pendings, mkill, over, reason, fw, jobsVars,
                   cluster, bounds, launched, clash>>

\* _update_scheduled_task_status, whose own races are those of JobLifecycle.
Publish ==
    /\ spc = "publish"
    /\ tracked' = [j \in Job |-> tracked[j] + Cardinality({n \in DOMAIN started : started[n] = j})]
    /\ snap' = snap \cup ToSet(started)
    /\ doc' = [j \in Job |-> IF j \in ToSet(started) /\ doc[j].status # "over"
                             THEN [doc[j] EXCEPT !.status = "running", !.secondary = "none"]
                             ELSE doc[j]]
    /\ started' = <<>>
    /\ spc' = "idle"
    /\ UNCHANGED <<batch, redis, fw, killq, early, ending, cluster, bounds, history>>

-----------------------------------------------------------------------------
(* The driver's thread.  Its callbacks run one after the other.            *)

\* Mutant: the test of the key is inverted.
KillsOfOthers(keyed) == [j \in Job |-> IF j \in mkill \ keyed /\ Live(j) THEN "finished" ELSE mesos[j]]

\* resourceOffers first passes the kills on, for the tasks that have a key, ...
KillsOf(keyed) == [j \in Job |-> IF j \in keyed /\ Live(j) THEN "finished" ELSE mesos[j]]

\* ... then takes all the pending tasks.
BeginOffers ==
    /\ fw.pc = "idle"
    /\ mkill' = {}
    /\ mesos' = KillsOf({j \in mkill : over[j] # "none"})
    /\ \E n \in 1 .. MaxOffers :
           fw' = [Idle EXCEPT !.pc = "offers", !.offers = n, !.tasks = pendings]
    /\ pendings' = <<>>
    /\ UNCHANGED <<main, offer, runnings, over, reason, jobsVars, told,
                   bounds, history>>

\* The next offer, which is declined when there is no task.
NextOffer(c) ==
    /\ fw.pc = "offers" /\ fw.offers > 0
    /\ fw.tasks # <<>>
    /\ fw' = [fw EXCEPT !.pc = "place", !.offers = @ - 1, !.next = 1, !.cpus = c,
                        !.port = 1, !.slot = 0, !.takes = 0, !.given = <<>>]
    /\ UNCHANGED <<main, redis, jobsVars, cluster, bounds, history>>

\* has_enough_resource.
EnoughSlots(n) == n = 0 \/ 1 + LastSlot - fw.slot >= n

\* Mutant: the slots that were taken stay in the offer.
SameSlot(n) == fw.slot

\* new_task takes the slots, then get_mapping_port the port: the first slot that
\* is free afterwards is set to the quantity.
NextSlot(n) == IF n = 0 THEN fw.slot ELSE n
NextTakes(n) == IF n = 0 THEN fw.takes ELSE fw.takes + 1

Fits(j) == Cpu[j] <= fw.cpus /\ EnoughSlots(Slots[j])
HasPort(j) == j \in Interactive => fw.port <= LastPort
Given(j) == [job |-> j, port |-> IF j \in Interactive THEN fw.port ELSE 0,
             slots |-> fw.slot .. (fw.slot + Slots[j] - 1)]

\* A task that fits is placed, unless a label, a reservation, a node it failed
\* on or its temporary storage forbids it, or new_task gives it up, for want of a
\* port or on an error: the slots it took by then are lost.
PlaceTask ==
    /\ fw.pc = "place" /\ fw.next <= Len(fw.tasks)
    /\ LET j == fw.tasks[fw.next]
       IN  \/ /\ fw.next \notin fw.placed /\ Fits(j) /\ HasPort(j)
              /\ launched[j] < MaxRuns
              /\ fw' = [fw EXCEPT !.placed = @ \cup {fw.next}, !.next = @ + 1,
                                  !.cpus = @ - Cpu[j], !.slot = NextSlot(Slots[j]),
                                  !.takes = NextTakes(Slots[j]),
                                  !.port = IF j \in Interactive THEN @ + 1 ELSE @,
                                  !.given = Append(@, Given(j))]
              /\ runnings' = Append(runnings, j)
              /\ over' = [over EXCEPT ![j] = "live"]
           \/ /\ fw.next \notin fw.placed /\ Fits(j)
              /\ fw' = [fw EXCEPT !.next = @ + 1, !.slot = NextSlot(Slots[j]),
                                  !.takes = NextTakes(Slots[j])]
              /\ UNCHANGED <<runnings, over>>
           \/ /\ fw' = [fw EXCEPT !.next = @ + 1]
              /\ UNCHANGED <<runnings, over>>
    /\ UNCHANGED <<main, offer, pendings, mkill, reason, jobsVars, cluster,
                   bounds, history>>

\* launchTasks.  Mesos refuses a task whose id is the one of a live task, and
\* says so with an error for that id.
LaunchOffer ==
    LET ids == {fw.given[i].job : i \in DOMAIN fw.given}
    IN  /\ fw.pc = "place" /\ fw.next > Len(fw.tasks)
        /\ clash' = clash \cup {j \in ids : Live(j)}
        /\ launched' = [j \in Job |-> IF j \in ids THEN launched[j] + 1 ELSE launched[j]]
        /\ mesos' = [j \in Job |-> IF j \in ids /\ ~Live(j) THEN "live" ELSE mesos[j]]
        /\ told' = [j \in Job |-> IF j \in ids /\ ~Live(j) THEN "live" ELSE told[j]]
        /\ fw' = [fw EXCEPT !.pc = "offers", !.given = <<>>]
        /\ UNCHANGED <<main, redis, jobsVars, bounds, left>>

\* Mutant: the flag is set if a task was placed.
EndOffersPlaced ==
    /\ fw.pc = "offers"
    /\ fw.offers = 0 \/ fw.tasks = <<>>
    /\ offer' = IF fw.placed # {} THEN 1 ELSE offer
    /\ fw' = Idle
    /\ UNCHANGED <<main, pendings, runnings, mkill, over, reason, jobsVars,
                   cluster, bounds, history>>

\* The tasks that were not placed are rejected, which leaves them pending, and
\* the flag is set if there were tasks at all.
EndOffers ==
    /\ fw.pc = "offers"
    /\ fw.offers = 0 \/ fw.tasks = <<>>
    /\ offer' = IF fw.tasks # <<>> THEN 1 ELSE offer
    /\ fw' = Idle
    /\ UNCHANGED <<main, pendings, runnings, mkill, over, reason, jobsVars,
                   cluster, bounds, history>>

\* Mutant: a failure of the system leaves its reason only.
ReportReason(j, s) ==
    /\ over' = IF s = "crashed" THEN over ELSE [over EXCEPT ![j] = s]
    /\ reason' = IF s = "crashed" THEN reason \cup {j} ELSE reason

\* statusUpdate: the reason, when there is one, then the state.
Report(j, s) ==
    /\ over' = [over EXCEPT ![j] = s]
    /\ reason' = IF s = "crashed" THEN reason \cup {j} ELSE reason

StatusUpdate(j) ==
    /\ fw.pc = "idle"
    /\ told[j] # mesos[j]
    /\ told' = [told EXCEPT ![j] = mesos[j]]
    /\ Report(j, mesos[j])
    /\ UNCHANGED <<main, offer, pendings, runnings, mkill, fw, jobsVars,
                   mesos, bounds, history>>

\* An update Mesos sends again, because its acknowledgement was lost or because
\* the task to be killed is over.
RepeatUpdate(j) ==
    /\ fw.pc = "idle" /\ repeats < MaxRepeats
    /\ told[j] \in Terminal
    /\ repeats' = repeats + 1
    /\ Report(j, told[j])
    /\ UNCHANGED <<main, offer, pendings, runnings, mkill, fw, jobsVars,
                   cluster, kills, crashes, history>>

\* The error that answers the second launch of a live task.
ClashUpdate(j) ==
    /\ fw.pc = "idle" /\ repeats < MaxRepeats
    /\ j \in clash
    /\ repeats' = repeats + 1
    /\ Report(j, "crashed")
    /\ UNCHANGED <<main, offer, pendings, runnings, mkill, fw, jobsVars,
                   cluster, kills, crashes, history>>

\* The process dies and is started again.  When it registers, it may ask Mesos
\* for the state of the running jobs: a task Mesos does not know is lost.
Crash ==
    /\ crashes < MaxCrashes
    /\ crashes' = crashes + 1
    /\ spc' = "idle" /\ batch' = <<>> /\ started' = <<>> /\ fw' = Idle
    /\ IF Reconcile
       THEN LET asked == {j \in Job : doc[j].status = "running"}
            IN  /\ mesos' = [j \in Job |-> IF j \in asked /\ mesos[j] = "none"
                                           THEN "crashed" ELSE mesos[j]]
                /\ told' = [j \in Job |-> IF j \in asked THEN "none" ELSE told[j]]
                /\ repeats' = repeats + 1
       ELSE UNCHANGED <<cluster, repeats>>
    /\ left' = left \cup Untreated \cup ToSet(runnings) \cup ToSet(started)
    /\ UNCHANGED <<redis, jobsVars, kills, launched, clash>>

\* A task ends, or its node is lost.
TaskEnds(j) ==
    /\ Live(j)
    /\ \E s \in Terminal : mesos' = [mesos EXCEPT ![j] = s]
    /\ UNCHANGED <<main, redis, fw, jobsVars, told, bounds, history>>

-----------------------------------------------------------------------------
(* The watchers. *)

Busy == Cardinality(ending) >= Handlers

\* Mutant: a command that fails is taken for a failure of the system.
WatchNoReason(j) ==
    /\ tracked[j] > 0 /\ ~Busy /\ j \in snap
    /\ over[j] \in Terminal
    /\ tracked' = [tracked EXCEPT ![j] = @ - 1]
    /\ over' = [over EXCEPT ![j] = "none"]
    /\ reason' = reason \ {j}
    /\ ending' = ending \cup
          {<<j, IF over[j] \in {"failed", "crashed"} THEN "watch failed" ELSE "watch">>}
    /\ UNCHANGED <<main, offer, pendings, runnings, mkill, fw, doc, snap,
                   killq, early, cluster, bounds, history>>

\* watch_tasks of an id that has its task: on the end of its Mesos task the keys
\* are deleted and the end is handled, otherwise the id is pushed back.
Watch(j) ==
    /\ tracked[j] > 0 /\ ~Busy
    /\ IF j \notin snap
       THEN tracked' = [tracked EXCEPT ![j] = @ - 1] /\ UNCHANGED <<over, reason, ending>>
       ELSE /\ over[j] \in Terminal
            /\ tracked' = [tracked EXCEPT ![j] = @ - 1]
            /\ over' = [over EXCEPT ![j] = "none"]
            /\ reason' = reason \ {j}
            /\ ending' = ending \cup
                  {<<j, IF over[j] \in {"failed", "crashed"} /\ j \in reason
                        THEN "watch failed" ELSE "watch">>}
    /\ UNCHANGED <<main, offer, pendings, runnings, mkill, fw, doc, snap,
                   killq, early, cluster, bounds, history>>

\* Mutant: the key of the state is deleted before the state is looked at.
KillTaskForgets(k) ==
    LET j == k[1]
    IN  /\ k \in killq /\ over[j] \notin Terminal
        /\ over' = [over EXCEPT ![j] = "none"]
        /\ mkill' = mkill \cup {j}
        /\ killq' = killq \ {k}
        /\ UNCHANGED <<main, offer, pendings, runnings, reason, fw, doc,
                       ending, tracked, snap, early, cluster, bounds, history>>

\* Mutant: one attempt too many.
KillTaskAgain(k) ==
    /\ k \in killq /\ ~Busy /\ over[k[1]] \notin Terminal
    /\ mkill' = mkill \cup {k[1]}
    /\ killq' = (killq \ {k}) \cup {<<k[1], k[2] + 1>>}
    /\ UNCHANGED <<main, offer, pendings, runnings, over, reason, fw, doc, ending,
                   tracked, snap, early, cluster, bounds, history>>

\* kill_task: only the key of the state is deleted.  A task that is not over is
\* put in the list of the driver's thread, and the request goes back to its own.
KillTask(k) ==
    LET j == k[1]
    IN  /\ k \in killq /\ ~Busy
        /\ IF over[j] \in Terminal
           THEN /\ over' = [over EXCEPT ![j] = "none"]
                /\ ending' = ending \cup {<<j, "kill">>}
                /\ killq' = killq \ {k}
                /\ UNCHANGED <<mkill, doc>>
           ELSE /\ mkill' = mkill \cup {j}
                /\ IF k[2] < MaxTentatives
                   THEN killq' = (killq \ {k}) \cup {<<j, k[2] + 1>>} /\ UNCHANGED doc
                   ELSE /\ killq' = killq \ {k}
                        /\ doc' = [doc EXCEPT ![j].secondary = "unknown"]
                /\ UNCHANGED <<over, ending>>
        /\ UNCHANGED <<main, offer, pendings, runnings, reason, fw, tracked,
                       snap, early, cluster, bounds, history>>

Taken == ToSet(batch) \cup Untreated \cup ToSet(runnings) \cup ToSet(started)

\* The copy of the task was pending: the job is ended as a pending one, and the
\* plugin is not asked, wherever run_tasks brought it meanwhile.
KillPending(j) ==
    /\ j \in early /\ ~Busy
    /\ early' = early \ {j}
    /\ IF doc[j].status = "over" THEN UNCHANGED <<doc, snap, left>>
       ELSE /\ snap' = snap \ {j}
            /\ left' = IF doc[j].status = "running" \/ j \in Taken THEN left \cup {j} ELSE left
            /\ doc' = IF doc[j].secondary = "reschedule requested"
                      THEN [doc EXCEPT ![j].status = "pending", ![j].secondary = "rescheduled"]
                      ELSE [doc EXCEPT ![j].status = "over"]
    /\ UNCHANGED <<main, redis, fw, tracked, killq, ending, cluster, bounds, launched, clash>>

\* The end of a job: it is over, or started again, because its user asked for it or
\* after a failure of the system.  The reason of a failure stays in the document and
\* in the tasks made from it.
Finish(e) ==
    LET j == e[1]
        reschedule == e[2] = "kill" /\ doc[j].secondary = "reschedule requested"
        restart == /\ e[2] = "watch failed" \/ (e[2] = "watch" /\ doc[j].fails > 0)
                   /\ doc[j].secondary # "kill requested"
                   /\ doc[j].fails < FailurePolicy
    IN  /\ e \in ending
        /\ ending' = ending \ {e}
        /\ snap' = IF doc[j].status = "over" THEN snap ELSE snap \ {j}
        /\ doc' = IF doc[j].status = "over" THEN doc
                  ELSE IF reschedule \/ restart
                  THEN [doc EXCEPT ![j].status = "pending", ![j].secondary = "rescheduled",
                                   ![j].fails = IF restart THEN @ + 1 ELSE @]
                  ELSE [doc EXCEPT ![j].status = "over"]
        /\ UNCHANGED <<main, redis, fw, tracked, killq, early, cluster, bounds, history>>

-----------------------------------------------------------------------------
MainThread == BeginPass \/ PushTask \/ Collect \/ Publish

Framework ==
    \/ BeginOffers \/ PlaceTask \/ LaunchOffer \/ EndOffers
    \/ \E c \in OfferCpus : NextOffer(c)

Watchers ==
    \/ \E j \in Job : Watch(j) \/ KillPending(j)
    \/ \E k \in killq : KillTask(k)
    \/ \E e \in ending : Finish(e)

Next ==
    \/ \E j \in Job : Submit(j) \/ RequestKill(j)
    \/ MainThread \/ Framework \/ Watchers
    \/ \E j \in Job : StatusUpdate(j) \/ RepeatUpdate(j) \/ ClashUpdate(j) \/ TaskEnds(j)
    \/ Crash

Spec == Init /\ [][Next]_vars

(***************************************************************************)
(* Fairness.  Neither thread of the scheduler stops, and Mesos goes on     *)
(* sending offers to a framework (BeginOffers) and the updates it owes.    *)
(* The callbacks take turns, hence strong fairness for those that wait     *)
(* for the thread; so do the handlers of watchers.  A task may never end.  *)
(***************************************************************************)
Fairness ==
    /\ WF_vars(MainThread)
    /\ WF_vars(PlaceTask \/ LaunchOffer \/ EndOffers
               \/ \E c \in OfferCpus : NextOffer(c))
    /\ SF_vars(BeginOffers)
    /\ \A j \in Job : /\ SF_vars(StatusUpdate(j))
                      /\ SF_vars(Watch(j))
                      /\ \A h \in {"watch", "watch failed", "kill"} : WF_vars(Finish(<<j, h>>))

FairSpec == Spec /\ Fairness

-----------------------------------------------------------------------------
(* Properties.                                                             *)

\* What the plugin promises, it promises for a job that went through run_tasks:
\* a job that run_tasks left in a list when it returned, or that was between two
\* lists when the process died, is scheduled again while it may be placed; a job
\* that was killed as a pending one while run_tasks had it is launched all the same.
\* And an update that Mesos repeats after a restart is taken for one of the new run.
Undisturbed(j) == j \notin left /\ (launched[j] <= 1 \/ repeats = 0)

\* A job is not launched while a task of the same id is live.
LaunchedOnce == \A j \in Job : Undisturbed(j) => j \notin clash

\* A live task is followed: its job is not over, its id is on its way to the
\* running list, or there with its key; and the key of its state is there, without
\* which its kill would be dropped.
LiveIsFollowed ==
    \A j \in Job : (Live(j) /\ Undisturbed(j)) =>
        /\ doc[j].status # "over"
        /\ over[j] # "none"
        /\ \/ j \in ToSet(runnings) \cup ToSet(started)
           \/ tracked[j] > 0 /\ j \in snap

\* What an offer holds is given once: cpus, ports, and the slots, as long as two tasks
\* at most took some, be they placed or given up.  A third gets slots of the second,
\* or of the first when the second was given up, see NextSlot.
GivenOnce ==
    /\ fw.cpus >= 0
    /\ \A m, n \in DOMAIN fw.given : m < n =>
        /\ fw.given[m].port = fw.given[n].port => fw.given[m].port = 0
        /\ fw.takes <= 2 => fw.given[m].slots \cap fw.given[n].slots = {}

\* A job is started again only when the system made its last run fail.  With
\* more than one restart this is violated: a job that failed once is started
\* again when it succeeds, until its restarts are used up.  A job its user had
\* rescheduled, which has more runs than failures, is left out: kill_task leaves the
\* key of the reason, which is found with the next run.
RestartHasCause ==
    [][\A j \in Job : (/\ doc'[j].fails > doc[j].fails
                       /\ Undisturbed(j) /\ launched[j] <= doc[j].fails + 1)
                         => mesos[j] = "crashed"]_vars

\* run_tasks ends when it got a task: "Wait for offer receival and treatment".  With
\* an empty list it waits for ever, since resourceOffers sets the flag only when it
\* finds tasks.
WaitEnds == (spc = "push" /\ batch # <<>>) ~> spc # "push"

\* A kill handed to the driver's thread reaches the task.
KillDelivered ==
    \A j \in Job : (j \in mkill /\ Live(j)) ~> (~Live(j) \/ ~Undisturbed(j))

\* The end of the task of a running job is noticed, and the job is over or
\* pending again.
EndNoticed ==
    \A j \in Job : (doc[j].status = "running" /\ mesos[j] \in Terminal)
                       ~> (doc[j].status # "running" \/ ~Undisturbed(j))
=============================================================================
