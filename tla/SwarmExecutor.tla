----------------------------- MODULE SwarmExecutor -----------------------------
(***************************************************************************)
(* The Docker Swarm executor (plugins/swarm.py): containers, the list of   *)
(* ports of the interactive jobs, and the requests to suspend and resume a *)
(* job, which only this plugin serves (godwatcher.py).                     *)
(***************************************************************************)
EXTENDS ExecutorClient, SequencesExt

CONSTANTS
    Interactive,    \* jobs that need a port
    PortRange,      \* port_range of the configuration: the ports 1 .. PortRange
    MaxPauses,      \* bound: requests to suspend or resume
    MaxFaults       \* bound: calls of Docker that fail

VARIABLES
    box,            \* Docker: container of each job, and the port it is bound to
    orphans,        \* ports of containers that no document knows
    pool,           \* :ports:godocker-swarm; Redis has no empty list
    ports,          \* container.ports of each document
    taken,          \* container.ports of the tasks in run_tasks
    stray,          \* ports that were put in the list of a node
    pauseq,         \* :jobs:suspend and :jobs:resume
    pauses, faults, \* bounds
    fills, runs, left, kept \* history: see the properties

portVars == <<pool, ports, taken, stray>>
bounds == <<pauses, faults>>
history == <<fills, runs, left, kept>>
vars == <<client, box, orphans, portVars, pauseq, bounds, history>>

Port == 1 .. PortRange
NoBox == [state |-> "none", port |-> 0]

\* Requests, and those the handler rejects for what their copy of the task says.
PauseRequest == {"suspend", "resume", "suspend rejected", "resume rejected"}

TypeOK ==
    /\ ClientTypeOK
    /\ box \in [Job -> [state : {"none", "running", "paused", "exited"}, port : 0 .. PortRange]]
    /\ orphans \subseteq Port
    /\ pool \in Seq(Port) /\ stray \subseteq Port
    /\ ports \in [Job -> Seq(Port)] /\ taken \in [Job -> Seq(Port)]
    /\ pauseq \subseteq Job \X PauseRequest
    /\ pauses \in 0 .. MaxPauses /\ faults \in 0 .. MaxFaults
    /\ fills \in 0 .. 2 /\ runs \in [Job -> 0 .. 2] /\ left \subseteq Job /\ kept \subseteq Job

PluginInit ==
    /\ box = [j \in Job |-> NoBox] /\ orphans = {}
    /\ pool = <<>> /\ stray = {} /\ ports = [j \in Job |-> <<>>] /\ taken = ports
    /\ pauseq = {} /\ pauses = 0 /\ faults = 0
    /\ fills = 0 /\ runs = [j \in Job |-> 0] /\ left = {} /\ kept = {}

Init == ClientInit /\ PluginInit

Other == UNCHANGED <<box, orphans, portVars, pauseq, bounds, history>>
Fault == faults < MaxFaults /\ faults' = faults + 1
Live(j) == box[j].state \in {"running", "paused"}
InUse == orphans \cup {box[j].port : j \in {i \in Job : Live(i)}}

-----------------------------------------------------------------------------
(* Docker and the users. *)

ContainerEnds(j) ==
    /\ box[j].state = "running"
    /\ box' = [box EXCEPT ![j].state = "exited"]
    /\ UNCHANGED <<client, orphans, portVars, pauseq, bounds, history>>

\* The document gets the secondary status, and its copy goes to the list.
RequestPause(j) ==
    /\ Stored(j)
    /\ pauses < MaxPauses
    /\ pauses' = pauses + 1
    /\ \E q \in PauseRequest :
        /\ doc[j].status = "pending" => q \in {"suspend rejected", "resume rejected"}
        /\ pauseq' = pauseq \cup {<<j, q>>}
        /\ doc' = [doc EXCEPT ![j].secondary = IF q \in {"suspend", "suspend rejected"}
                                               THEN "suspend requested" ELSE "resume requested"]
    /\ UNCHANGED <<tracked, snap, killq, ending, passVars, early, requests, box, orphans, portVars,
                   faults, history>>

-----------------------------------------------------------------------------
(* The plugin. *)

\* get_mapping_port: a list that is not there is filled with the whole range.
Filled == IF pool = <<>> THEN [p \in Port |-> p] ELSE pool

\* Mutant: the port is read, and stays in the list.
MapPortKeeps(j) ==
    IF j \in Interactive
    THEN /\ pool' = Filled
         /\ taken' = [taken EXCEPT ![j] = Append(ports[j], Head(Filled))]
         /\ fills' = IF pool = <<>> /\ fills < 2 THEN fills + 1 ELSE fills
    ELSE /\ taken' = [taken EXCEPT ![j] = ports[j]]
         /\ UNCHANGED <<pool, fills>>

MapPort(j) ==
    IF j \in Interactive
    THEN /\ pool' = Tail(Filled)
         /\ taken' = [taken EXCEPT ![j] = Append(ports[j], Head(Filled))]
         /\ fills' = IF pool = <<>> /\ fills < 2 THEN fills + 1 ELSE fills
    ELSE /\ taken' = [taken EXCEPT ![j] = ports[j]]
         /\ UNCHANGED <<pool, fills>>

Mapped(j) == IF j \in Interactive THEN Head(Filled) ELSE 0
Again(j) == runs' = [runs EXCEPT ![j] = IF @ < 2 THEN @ + 1 ELSE @]

\* run_tasks: a container that starts, ...
RunTask(j) ==
    /\ Treat(j)
    /\ MapPort(j)
    /\ Mapped(j) \notin InUse \ {0}
    /\ box' = [box EXCEPT ![j] = [state |-> "running", port |-> Mapped(j)]]
    /\ started' = started \cup {j}
    /\ Again(j)
    /\ UNCHANGED <<refused, orphans, ports, stray, pauseq, bounds, left, kept>>

\* ... one that does not, because its port is taken or for another reason, and is
\* removed, ...
RunRefused(j) ==
    /\ Treat(j)
    /\ MapPort(j)
    /\ \/ Mapped(j) \in InUse \ {0} /\ UNCHANGED faults
       \/ Fault
    /\ refused' = refused \cup {j}
    /\ UNCHANGED <<started, box, orphans, ports, stray, pauseq, pauses, runs, left, kept>>

\* ... and one that cannot be removed after a failure: the exception of the
\* handler leaves run_tasks.
RunRaises(j) ==
    /\ spc = "run" /\ j \in batch
    /\ Fault
    /\ MapPort(j)
    /\ orphans' = (orphans \cup {Mapped(j)} \cup {box[i].port : i \in started}) \ {0}
    /\ box' = [i \in Job |-> IF i \in started THEN NoBox ELSE box[i]]
    /\ left' = left \cup {j} \cup started
    /\ Abort
    /\ UNCHANGED <<ports, stray, pauseq, pauses, runs, kept>>

\* The ports of the tasks refused go to the list of the node, "localhost".
PublishBoxes ==
    /\ Publish("none")
    /\ ports' = [j \in Job |-> IF ~Stored(j) THEN ports[j]
                               ELSE IF j \in started THEN taken[j]
                               ELSE IF j \in refused THEN <<>> ELSE ports[j]]
    /\ stray' = stray \cup UNION {ToSet(taken[j]) : j \in refused}
    /\ taken' = [j \in Job |-> <<>>]
    /\ UNCHANGED <<box, orphans, pool, pauseq, bounds, history>>

\* watch_tasks: the container ended or is gone.
WatchEnded(j) ==
    /\ ~Live(j)
    /\ TakeOut(j, "watch")
    /\ box' = [box EXCEPT ![j] = NoBox]
    /\ UNCHANGED <<doc, orphans, portVars, pauseq, bounds, history>>

\* A failure of Docker is taken for the absence of the container.
WatchBlind(j) ==
    /\ Live(j)
    /\ TakeOut(j, "watch")
    /\ Fault
    /\ left' = left \cup {j}
    /\ UNCHANGED <<doc, box, orphans, portVars, pauseq, pauses, fills, runs, kept>>

KillBox(k) ==
    /\ KillDone(k)
    /\ box' = [box EXCEPT ![k[1]] = NoBox]
    /\ UNCHANGED <<orphans, portVars, pauseq, bounds, history>>

\* Docker refuses, for instance to kill a container that is paused.
KillBoxFails(k) ==
    /\ Fault
    /\ KillFails(k)
    /\ UNCHANGED <<box, orphans, portVars, pauseq, pauses, history>>

\* Docker does not answer: the exception has no response, and the handler raises
\* another one; the requests it had taken from the list are lost.
KillBoxRaises(k) ==
    /\ k \in killq
    /\ Fault
    /\ killq' = killq \ {k}
    /\ left' = left \cup {k[1]}
    /\ UNCHANGED <<doc, tracked, snap, ending, passVars, early, requests, box, orphans, portVars,
                   pauseq, pauses, fills, runs, kept>>

\* A handler has given the ports of the document back, and has still to remove it.
Released(j) == <<j, "over">> \in ending \/ <<j, "again">> \in ending

\* release_port, for the document that is found, whoever did it already: the end of
\* the job is decided, and its document still has the ports.
Release(e) ==
    LET j == e[1]
    IN  /\ e \in ending /\ e[2] \in {"watch", "kill"}
        /\ ending' = IF Stored(j)
                     THEN (ending \ {e}) \cup {<<j, IF Requeued(e) THEN "again" ELSE "over">>}
                     ELSE ending \ {e}
        /\ pool' = IF Stored(j) THEN pool \o ports[j] ELSE pool
        /\ kept' = IF Stored(j) /\ Released(j) THEN kept \cup {j} ELSE kept
        /\ UNCHANGED <<doc, tracked, snap, killq, passVars, early, requests, box, orphans, ports,
                       taken, stray, pauseq, bounds, fills, runs, left>>

\* The ports stay in the document of a job that starts again, which gives them back a
\* second time at its next end.
FinishBox(e) ==
    LET j == e[1]
    IN  /\ e[2] \in {"over", "again"}
        /\ Finish(e)
        /\ ports' = IF Stored(j) /\ e[2] = "over" THEN [ports EXCEPT ![j] = <<>>] ELSE ports
        /\ kept' = IF Stored(j) /\ e[2] = "again" THEN kept \cup {j} ELSE kept
        /\ UNCHANGED <<box, orphans, pool, taken, stray, pauseq, bounds, fills, runs, left>>

EndPending(j) ==
    LET over == Stored(j) /\ doc[j].secondary # "reschedule requested"
    IN  /\ KillPending(j)
        /\ pool' = IF Stored(j) THEN pool \o ports[j] ELSE pool
        /\ ports' = IF over THEN [ports EXCEPT ![j] = <<>>] ELSE ports
        /\ kept' = IF Stored(j) /\ ~over THEN kept \cup {j} ELSE kept
        /\ left' = IF UnderWay(j) THEN left \cup {j} ELSE left
        /\ UNCHANGED <<box, orphans, taken, stray, pauseq, bounds, fills, runs>>

\* suspend_tasks and resume_tasks.  The key and the secondary status are written
\* as the request has them, whatever has become of the job.
Answer(q, secondary) ==
    /\ pauseq' = pauseq \ {q}
    /\ snap' = snap \cup {q[1]}
    /\ doc' = IF Stored(q[1]) THEN [doc EXCEPT ![q[1]].secondary = secondary] ELSE doc
    /\ UNCHANGED <<tracked, killq, ending, passVars, early, requests, orphans, portVars, bounds,
                   history>>

Suspend(j) ==
    /\ <<j, "suspend">> \in pauseq
    /\ box[j].state \in {"running", "none"}
    /\ box' = [box EXCEPT ![j].state = IF @ = "running" THEN "paused" ELSE @]
    /\ Answer(<<j, "suspend">>, "suspended")

Resume(j) ==
    /\ <<j, "resume">> \in pauseq
    /\ box[j].state \in {"paused", "none"}
    /\ box' = [box EXCEPT ![j].state = IF @ = "paused" THEN "running" ELSE @]
    /\ Answer(<<j, "resume">>, "resumed")

RejectPause(j) ==
    \E q \in {"suspend rejected", "resume rejected"} :
        /\ <<j, q>> \in pauseq
        /\ Answer(<<j, q>>, q)
        /\ UNCHANGED box

-----------------------------------------------------------------------------
Scheduler ==
    \/ BeginPass /\ Other
    \/ \E j \in Job : RunTask(j) \/ RunRefused(j) \/ RunRaises(j)
    \/ PublishBoxes

Kill(k) == KillBox(k)
End(e) == Release(e) \/ FinishBox(e)
Watch(j) == WatchEnded(j) \/ WatchBlind(j) \/ (DropUnknown(j) /\ Other)

Next ==
    \/ \E j \in Job : (Submit(j) \/ Request(j)) /\ Other
    \/ \E j \in Job : RequestPause(j) \/ Suspend(j) \/ Resume(j) \/ RejectPause(j)
    \/ Scheduler
    \/ \E j \in Job : Watch(j) \/ EndPending(j)
    \/ \E k \in killq : Kill(k) \/ KillBoxFails(k) \/ KillBoxRaises(k)
    \/ \E e \in ending : End(e)
    \/ \E j \in Job : ContainerEnds(j)

Spec == Init /\ [][Next]_vars

-----------------------------------------------------------------------------
(* Properties: see also ExecutorPlugins. *)

\* A container a failure hid is known to nobody; a job that was killed as a pending
\* one while run_tasks had it runs all the same; and a request made for one run may
\* be served when the next one has begun.
Calm(j) == j \notin left /\ (runs[j] <= 1 \/ requests = 0)

HasEnded(j) == box[j].state = "exited"
Followed(j) == j \in started \/ (tracked[j] > 0 /\ j \in snap)

Times(p, s) == Cardinality({n \in DOMAIN s : s[n] = p})

\* Every port is in one place: the list, a document, a task of the pass, or astray; the
\* document of a job that is ended does not count once its ports are given back.  This
\* ends when the list runs out of ports, which fills it again with those in use, when
\* two handlers of one job give its ports back, or a job that starts again keeps them
\* (kept), and when a failure hid a job or run_tasks had one that was killed (left).
PortsApart ==
    (fills = 1 /\ left = {} /\ kept = {}) =>
        \A p \in Port :
            LET owners == {j \in Job : \/ Times(p, taken[j]) > 0
                                      \/ (Times(p, ports[j]) > 0 /\ ~Released(j))}
            IN  Times(p, pool) + Cardinality(owners) = IF p \in stray THEN 0 ELSE 1
=============================================================================
