----------------------- MODULE ExecutorPlugins_proofs -----------------------
(***************************************************************************)
(* Proofs about the executor plugins, for any jobs, clusters, failures and *)
(* bounds: what runs is followed, and no port is given twice.  The plugins *)
(* share the client, whose steps come first, for a set J of jobs.          *)
(***************************************************************************)
EXTENDS ExecutorPlugins, FiniteSetTheorems, TLAPS

Status == {"new", "pending", "running", "over"}
Document == [status : Status, secondary : Secondary, fails : 0 .. FailurePolicy]
Answers == {"watch", "watch failed", "kill", "unschedulable", "over", "again"}

\* ClientTypeOK, for the jobs of a plugin.
Typed(J) ==
    /\ doc \in [J -> Document]
    /\ tracked \in [J -> Nat]
    /\ snap \subseteq J
    /\ killq \subseteq J \X (0 .. MaxTentatives) /\ early \subseteq J
    /\ ending \subseteq J \X Answers
    /\ spc \in {"idle", "run"}
    /\ batch \subseteq J /\ started \subseteq J /\ refused \subseteq J
    /\ requests \in 0 .. MaxRequests

LEMMA Bounds ==
    /\ FailurePolicy \in Nat /\ MaxTentatives \in Nat /\ MaxRequests \in Nat
    /\ PortRange \in Nat /\ MaxPauses \in Nat /\ MaxFaults \in Nat
    /\ Interactive # {} => PortRange > 0
BY ClientAssumption, PluginsAssumption DEF ClientAssumption, PluginsAssumption

-----------------------------------------------------------------------------
(* Types of the client.                                                    *)

LEMMA DocTyped ==
    ASSUME NEW J, Typed(J), NEW j \in J, NEW d \in Document, doc' = [doc EXCEPT ![j] = d]
    PROVE  doc' \in [J -> Document]
BY DEF Typed

\* The secondary status of a document.
LEMMA SecondaryTyped ==
    ASSUME NEW J, Typed(J), NEW j \in J, NEW s \in Secondary,
           doc' = [doc EXCEPT ![j].secondary = s]
    PROVE  /\ doc' \in [J -> Document]
           /\ \A i \in J : doc'[i].status = doc[i].status /\ doc'[i].fails = doc[i].fails
           /\ \A i \in J : doc'[i].secondary = IF i = j THEN s ELSE doc[i].secondary
<1>1. doc[j] \in Document /\ doc \in [J -> Document]
  BY DEF Typed
<1>2. [doc[j] EXCEPT !.secondary = s] \in Document
  BY <1>1 DEF Document
<1>3. \A i \in J : doc'[i] = IF i = j THEN [doc[j] EXCEPT !.secondary = s] ELSE doc[i]
  BY <1>1
<1>4. doc' \in [J -> Document]
  BY <1>1, <1>2
<1>5. /\ [doc[j] EXCEPT !.secondary = s].status = doc[j].status
      /\ [doc[j] EXCEPT !.secondary = s].fails = doc[j].fails
      /\ [doc[j] EXCEPT !.secondary = s].secondary = s
  BY <1>1 DEF Document
<1>6. QED
  BY <1>3, <1>4, <1>5

LEMMA UsersTyped ==
    ASSUME NEW J, Typed(J), NEW j \in J, Submit(j) \/ Request(j)
    PROVE  Typed(J)'
<1>1. CASE Submit(j)
  <2>1. doc' \in [J -> Document]
    BY <1>1 DEF Submit, Typed, Document, Status
  <2>2. QED
    BY <1>1, <2>1 DEF Submit, Typed, passVars
<1>2. CASE Request(j)
  <2>1. killq' \subseteq J \X (0 .. MaxTentatives)
    <3>1. /\ killq' = killq \/ killq' = killq \cup {<<j, 0>>}
          /\ killq \subseteq J \X (0 .. MaxTentatives)
      BY <1>2 DEF Request, Typed
    <3>2. 0 \in 0 .. MaxTentatives
      BY Bounds
    <3>3. QED
      BY <3>1, <3>2
  <2>2. requests' \in 0 .. MaxRequests
    <3>1. requests \in 0 .. MaxRequests /\ requests < MaxRequests /\ requests' = requests + 1
      BY <1>2 DEF Request, Typed
    <3>2. QED
      BY <3>1, Bounds
  <2>3. doc' \in [J -> Document]
    <3>1. \E s \in Secondary : doc' = [doc EXCEPT ![j].secondary = s]
      BY <1>2 DEF Request, Secondary
    <3>2. QED
      BY <3>1, SecondaryTyped
  <2>4. early' \subseteq J
    BY <1>2 DEF Request, Typed
  <2>5. QED
    BY <1>2, <2>1, <2>2, <2>3, <2>4 DEF Request, Typed, passVars
<1>3. QED
  BY <1>1, <1>2

LEMMA TreatTyped ==
    ASSUME NEW J, Typed(J), NEW j \in J, Treat(j),
           started' \in {started, started \cup {j}}, refused' \in {refused, refused \cup {j}}
    PROVE  Typed(J)'
BY DEF Treat, Typed

LEMMA AbortTyped ==
    ASSUME NEW J, Typed(J), Abort
    PROVE  Typed(J)'
BY DEF Abort, Typed

\* What Publish and BeginPass do, for the jobs J.
Published(J, secondary) ==
    /\ spc = "run" /\ batch = {}
    /\ tracked' = [j \in J |-> IF j \in started THEN tracked[j] + 1 ELSE tracked[j]]
    /\ snap' = snap \cup started
    /\ doc' = [j \in J |->
                  IF ~Stored(j) THEN doc[j]
                  ELSE IF j \in started
                  THEN [doc[j] EXCEPT !.status = "running", !.secondary = secondary]
                  ELSE IF j \in refused THEN [doc[j] EXCEPT !.secondary = "rejected"]
                  ELSE doc[j]]
    /\ spc' = "idle" /\ started' = {} /\ refused' = {}
    /\ UNCHANGED <<killq, ending, batch, early, requests>>

Begun(J) ==
    /\ spc = "idle" /\ spc' = "run"
    /\ batch' = {j \in J : doc[j].status = "pending"}
    /\ UNCHANGED <<doc, tracked, snap, killq, ending, started, refused, early, requests>>

LEMMA BegunTyped ==
    ASSUME NEW J, Typed(J), Begun(J)
    PROVE  Typed(J)'
BY DEF Begun, Typed

\* The document of a job after Publish.
LEMMA PublishedDoc ==
    ASSUME NEW J, Typed(J), NEW s \in Secondary, Published(J, s), NEW j \in J
    PROVE  /\ doc'[j] \in Document
           /\ ~Stored(j) => doc'[j] = doc[j]
           /\ Stored(j) /\ j \in started => doc'[j].status = "running" /\ doc'[j].secondary = s
           /\ j \notin started => doc'[j].status = doc[j].status
           /\ doc'[j].fails = doc[j].fails
           /\ j \notin started => doc'[j].secondary \in {doc[j].secondary, "rejected"}
<1>1. doc[j] \in Document /\ "rejected" \in Secondary
  BY DEF Typed, Secondary
<1>2. doc'[j] = IF ~Stored(j) THEN doc[j]
                ELSE IF j \in started
                THEN [doc[j] EXCEPT !.status = "running", !.secondary = s]
                ELSE IF j \in refused THEN [doc[j] EXCEPT !.secondary = "rejected"]
                ELSE doc[j]
  BY DEF Published
<1>3. QED
  BY <1>1, <1>2 DEF Document, Status

LEMMA PublishedTyped ==
    ASSUME NEW J, Typed(J), NEW s \in Secondary, Published(J, s)
    PROVE  Typed(J)'
<1>1. \A j \in J : doc'[j] \in Document
  BY PublishedDoc
<1>2. doc' \in [J -> Document]
  <2>1. doc' = [j \in J |-> doc'[j]]
    BY DEF Published
  <2>2. QED
    BY <1>1, <2>1
<1>3. tracked' \in [J -> Nat]
  <2>1. \A j \in J : tracked[j] \in Nat
    BY DEF Typed
  <2>2. tracked' = [j \in J |-> IF j \in started THEN tracked[j] + 1 ELSE tracked[j]]
    BY DEF Published
  <2>3. QED
    BY <2>1, <2>2
<1>4. snap' \subseteq J
  <2>1. snap' = snap \cup started /\ snap \subseteq J /\ started \subseteq J
    BY DEF Published, Typed
  <2>2. QED
    BY <2>1
<1>5. /\ spc' = "idle" /\ started' = {} /\ refused' = {}
      /\ UNCHANGED <<killq, ending, batch, early, requests>>
  BY DEF Published
<1>6. QED
  BY <1>2, <1>3, <1>4, <1>5 DEF Typed

LEMMA DropTyped ==
    ASSUME NEW J, Typed(J), NEW j \in J, DropUnknown(j)
    PROVE  Typed(J)'
BY DEF DropUnknown, Typed, passVars

LEMMA TakeOutTyped ==
    ASSUME NEW J, Typed(J), NEW j \in J, NEW a \in Answers, TakeOut(j, a),
           doc' \in [J -> Document]
    PROVE  Typed(J)'
<1>1. tracked[j] - 1 \in Nat /\ tracked' = [tracked EXCEPT ![j] = @ - 1]
  BY DEF TakeOut, Examine, Typed
<1>2. tracked' \in [J -> Nat]
  BY <1>1 DEF Typed
<1>3. ending' \subseteq J \X Answers
  BY DEF TakeOut, Typed
<1>4. UNCHANGED <<snap, killq, passVars, early, requests>>
  BY DEF TakeOut
<1>5. QED
  BY <1>2, <1>3, <1>4 DEF Typed, passVars

LEMMA KillTyped ==
    ASSUME NEW J, Typed(J), NEW k \in killq, KillDone(k) \/ KillFails(k)
    PROVE  Typed(J)'
<1>1. k[1] \in J /\ k[2] \in 0 .. MaxTentatives
  BY DEF Typed
<1>2. CASE KillDone(k)
  <2>1. <<k[1], "kill">> \in J \X Answers
    BY <1>1 DEF Answers
  <2>2. QED
    BY <1>2, <2>1 DEF KillDone, Typed, passVars
<1>3. CASE KillFails(k)
  <2>1. killq' \subseteq J \X (0 .. MaxTentatives)
    <3>1. k[2] < MaxTentatives => k[2] + 1 \in 0 .. MaxTentatives
      BY <1>1, Bounds
    <3>2. k[2] < MaxTentatives => <<k[1], k[2] + 1>> \in J \X (0 .. MaxTentatives)
      BY <1>1, <3>1
    <3>3. QED
      BY <1>3, <3>2 DEF KillFails, Typed
  <2>2. doc' \in [J -> Document]
    <3>1. doc' = doc \/ doc' = [doc EXCEPT ![k[1]].secondary = "unknown"]
      BY <1>3 DEF KillFails
    <3>2. doc \in [J -> Document]
      BY DEF Typed
    <3>3. QED
      BY <1>1, <3>1, <3>2, SecondaryTyped DEF Secondary
  <2>3. QED
    BY <1>3, <2>1, <2>2 DEF KillFails, Typed, passVars
<1>4. QED
  BY <1>2, <1>3

\* The document of a job after its end.
LEMMA FinishDoc ==
    ASSUME NEW J, Typed(J), NEW e \in ending, Finish(e)
    PROVE  /\ doc' \in [J -> Document]
           /\ \A i \in J : i # e[1] => doc'[i] = doc[i]
           /\ ~Stored(e[1]) => doc'[e[1]] = doc[e[1]]
           /\ Stored(e[1]) /\ Requeued(e) =>
                 doc'[e[1]].status = "pending" /\ doc'[e[1]].secondary = "rescheduled"
           /\ Stored(e[1]) /\ ~Requeued(e) =>
                 doc'[e[1]].status = "over" /\ doc'[e[1]].secondary = "none"
           /\ \/ Requeued(e) /\ e[2] \notin {"kill", "again"}
              \/ doc'[e[1]].fails = doc[e[1]].fails
<1> DEFINE j == e[1]
           n == IF e[2] \in {"kill", "again"} THEN doc[j].fails ELSE doc[j].fails + 1
<1>1. j \in J /\ doc \in [J -> Document] /\ doc[j] \in Document
  BY DEF Typed
<1>2. CASE ~Stored(j)
  BY <1>1, <1>2 DEF Finish
<1>3. CASE Stored(j) /\ Requeued(e)
  <2>1. doc' = [doc EXCEPT ![j].status = "pending", ![j].secondary = "rescheduled",
                           ![j].fails = IF e[2] \in {"kill", "again"} THEN @ ELSE @ + 1]
    BY <1>3 DEF Finish
  <2>2. doc'[j] = [status |-> "pending", secondary |-> "rescheduled", fails |-> n]
    BY <1>1, <2>1 DEF Document
  <2>3. n \in 0 .. FailurePolicy
    <3>1. doc[j].fails \in 0 .. FailurePolicy
      BY <1>1 DEF Document
    <3>2. e[2] \notin {"kill", "again"} => doc[j].fails < FailurePolicy
      BY <1>3 DEF Requeued
    <3>3. QED
      BY <3>1, <3>2, Bounds
  <2>4. doc'[j] \in Document
    BY <2>2, <2>3 DEF Document, Status, Secondary
  <2>5. doc' \in [J -> Document] /\ \A i \in J : i # j => doc'[i] = doc[i]
    BY <1>1, <2>1, <2>4
  <2>6. QED
    BY <1>3, <2>2, <2>5
<1>4. CASE Stored(j) /\ ~Requeued(e)
  <2>1. doc' = [doc EXCEPT ![j].status = "over", ![j].secondary = "none"]
    BY <1>4 DEF Finish
  <2>2. doc'[j] = [status |-> "over", secondary |-> "none", fails |-> doc[j].fails]
    BY <1>1, <2>1 DEF Document
  <2>3. doc'[j] \in Document
    <3>1. doc[j].fails \in 0 .. FailurePolicy
      BY <1>1 DEF Document
    <3>2. QED
      BY <2>2, <3>1 DEF Document, Status, Secondary
  <2>4. doc' \in [J -> Document] /\ \A i \in J : i # j => doc'[i] = doc[i]
    BY <1>1, <2>1, <2>3
  <2>5. QED
    BY <1>4, <2>2, <2>4
<1>5. QED
  BY <1>2, <1>3, <1>4

LEMMA FinishTyped ==
    ASSUME NEW J, Typed(J), NEW e \in ending, Finish(e)
    PROVE  Typed(J)'
<1>1. doc' \in [J -> Document]
  BY FinishDoc
<1>2. QED
  BY <1>1 DEF Finish, Typed, passVars

-----------------------------------------------------------------------------
(* Where the client has a job.                                             *)

NoEnd(j) == \A a \in Answers : <<j, a>> \notin ending
NoKill(j) == \A k \in killq : k[1] # j
Away(j) == j \notin started /\ j \notin batch

\* Nothing was started, or what was started has been dealt with.
Idle(j) == doc[j].status \in {"new", "pending"} /\ tracked[j] = 0 /\ NoEnd(j) /\ j \notin started

\* From run_tasks to the publication of what it started, ...
AtLaunch(j) ==
    doc[j].status = "pending" /\ tracked[j] = 0 /\ NoEnd(j) /\ j \in started /\ NoKill(j)

\* ... then in the running list, with its key, until a watcher takes it out, ...
Tracked(j) ==
    doc[j].status = "running" /\ tracked[j] = 1 /\ j \in snap /\ NoEnd(j) /\ Away(j)

\* ... because it cannot be scheduled ...
GivenBack(j) ==
    /\ doc[j].status = "running" /\ tracked[j] = 0 /\ Away(j)
    /\ \A a \in Answers : <<j, a>> \in ending <=> a = "unschedulable"

\* ... or ended, ...
Ending(j) ==
    /\ doc[j].status = "running" /\ tracked[j] = 0 /\ Away(j)
    /\ \E b \in {"watch", "watch failed"} : \A a \in Answers : <<j, a>> \in ending <=> a = b

\* ... and is over.
Over(j) == doc[j].status = "over" /\ tracked[j] = 0 /\ NoEnd(j) /\ Away(j)

\* Nothing was started, and there is nothing to kill; the job may be over, killed as a
\* pending one.
Unrun(j) == (Idle(j) \/ Over(j)) /\ NoKill(j)

\* A job waits for run_tasks; a request to start it again is in its document, or in the
\* hands of a watcher.
ToRun(j) == j \in batch \/ (doc[j].status \in {"new", "pending"} /\ j \notin started)
Asked(j) == doc[j].secondary = "reschedule requested"
Again(j) == <<j, "again">> \in ending
Number(b) == IF b THEN 1 ELSE 0
Want(j) == Number(ToRun(j)) + Number(Asked(j) \/ Again(j))

Passes(J) ==
    /\ spc = "idle" => started = {} /\ batch = {}
    /\ \A j \in started \cup batch : doc[j].status # "new"

\* A step of the client leaves a job where it is.
Kept(j) ==
    /\ doc'[j].status = doc[j].status
    /\ Asked(j)' => Asked(j)
    /\ tracked'[j] = tracked[j]
    /\ j \in snap => j \in snap'
    /\ \A a \in Answers : <<j, a>> \in ending' <=> <<j, a>> \in ending
    /\ NoKill(j) => NoKill(j)'
    /\ j \in started' <=> j \in started
    /\ j \in batch' => j \in batch \/ (doc[j].status = "pending" /\ j \notin started)

LEMMA KeptPhases ==
    ASSUME NEW j, Kept(j)
    PROVE  /\ Idle(j) => Idle(j)'
           /\ Unrun(j) => Unrun(j)'
           /\ AtLaunch(j) => AtLaunch(j)'
           /\ Tracked(j) => Tracked(j)'
           /\ GivenBack(j) => GivenBack(j)'
           /\ Ending(j) => Ending(j)'
           /\ Over(j) => Over(j)'
BY DEF Kept, Idle, Unrun, AtLaunch, Tracked, GivenBack, Ending, Over, NoEnd, Away

LEMMA KeptWant ==
    ASSUME NEW j, Kept(j)
    PROVE  Want(j)' <= Want(j)
<1>1. Again(j)' => Again(j)
  BY DEF Kept, Again, Answers
<1>2. (ToRun(j)' => ToRun(j)) /\ (Asked(j)' => Asked(j))
  BY DEF Kept, ToRun
<1>3. QED
  BY <1>1, <1>2 DEF Want, Number

LEMMA WantType ==
    ASSUME NEW j
    PROVE  Want(j) \in Nat /\ Want(j)' \in Nat
BY DEF Want, Number

-----------------------------------------------------------------------------
(* The steps of the client, and the jobs they are not about.               *)

LEMMA UsersFrame ==
    ASSUME NEW J, Typed(J), NEW i \in J, NEW j \in J, j # i, Submit(i) \/ Request(i)
    PROVE  Kept(j)
<1>1. doc'[j] = doc[j]
  BY DEF Submit, Request, Typed
<1>2. \A k \in killq' : k \in killq \/ k[1] = i
  <2>1. killq' = killq \/ killq' = killq \cup {<<i, 0>>}
    BY DEF Submit, Request
  <2>2. QED
    BY <2>1
<1>3. UNCHANGED <<tracked, snap, ending, batch, started>>
  BY DEF Submit, Request, passVars
<1>4. QED
  BY <1>1, <1>2, <1>3 DEF Kept, Asked, NoKill

LEMMA TreatFrame ==
    ASSUME NEW J, Typed(J), NEW i \in J, NEW j \in J, Treat(i),
           \/ j # i /\ started' \in {started, started \cup {i}}
           \/ started' = started
    PROVE  Kept(j)
BY DEF Treat, Kept, Asked, NoKill

LEMMA AbortFrame ==
    ASSUME NEW J, Typed(J), NEW j \in J, j \notin started, Abort
    PROVE  Kept(j)
BY DEF Abort, Kept, Asked, NoKill

LEMMA BegunFrame ==
    ASSUME NEW J, Typed(J), Passes(J), NEW j \in J, Begun(J)
    PROVE  Kept(j)
BY DEF Begun, Passes, Kept, Asked, NoKill

LEMMA PublishedFrame ==
    ASSUME NEW J, Typed(J), NEW s \in Secondary, Published(J, s), NEW j \in J, j \notin started
    PROVE  Kept(j)
<1>1. doc'[j].status = doc[j].status /\ (Asked(j)' => Asked(j))
  BY PublishedDoc DEF Asked
<1>2. tracked'[j] = tracked[j]
  BY DEF Published
<1>3. snap' = snap \cup started /\ UNCHANGED <<killq, ending, batch>> /\ started' = {}
  BY DEF Published
<1>4. QED
  BY <1>1, <1>2, <1>3 DEF Kept, NoKill

LEMMA DropFrame ==
    ASSUME NEW J, Typed(J), NEW i \in J, NEW j \in J, j # i, DropUnknown(i)
    PROVE  Kept(j)
BY DEF DropUnknown, Typed, Kept, Asked, NoKill, passVars

\* A step that changes secondary statuses only.
LEMMA SecondaryFrame ==
    ASSUME NEW J, Typed(J), NEW j \in J,
           doc'[j].status = doc[j].status, Asked(j)' => Asked(j), snap \subseteq snap',
           UNCHANGED <<tracked, killq, ending, passVars>>
    PROVE  Kept(j)
BY DEF Kept, NoKill, passVars

LEMMA TakeOutFrame ==
    ASSUME NEW J, Typed(J), NEW i \in J, NEW j \in J, j # i, NEW a \in Answers,
           TakeOut(i, a), doc'[j].status = doc[j].status, Asked(j)' => Asked(j)
    PROVE  Kept(j)
<1>1. tracked'[j] = tracked[j]
  BY DEF TakeOut, Typed
<1>2. \A b \in Answers : <<j, b>> \in ending' <=> <<j, b>> \in ending
  BY DEF TakeOut
<1>3. UNCHANGED <<snap, killq, passVars>>
  BY DEF TakeOut
<1>4. QED
  BY <1>1, <1>2, <1>3 DEF Kept, NoKill, passVars

LEMMA KillFrame ==
    ASSUME NEW J, Typed(J), NEW k \in killq, NEW j \in J,
           (KillDone(k) /\ j # k[1]) \/ KillFails(k)
    PROVE  Kept(j)
<1>1. CASE KillDone(k) /\ j # k[1]
  <2>1. \A b \in Answers : <<j, b>> \in ending' <=> <<j, b>> \in ending
    BY <1>1 DEF KillDone
  <2>2. NoKill(j) => NoKill(j)'
    BY <1>1 DEF KillDone, NoKill
  <2>3. UNCHANGED <<doc, tracked, snap, passVars>>
    BY <1>1 DEF KillDone
  <2>4. QED
    BY <2>1, <2>2, <2>3 DEF Kept, Asked, passVars
<1>2. CASE KillFails(k)
  <2>1. NoKill(j) => NoKill(j)'
    <3>1. \A x \in killq' : x \in killq \/ x[1] = k[1]
      BY <1>2 DEF KillFails
    <3>2. QED
      BY <3>1 DEF NoKill
  <2>2. doc'[j].status = doc[j].status /\ (Asked(j)' => Asked(j))
    <3>1. doc' = doc \/ doc' = [doc EXCEPT ![k[1]].secondary = "unknown"]
      BY <1>2 DEF KillFails
    <3>2. k[1] \in J
      BY DEF Typed
    <3>3. CASE doc' = [doc EXCEPT ![k[1]].secondary = "unknown"]
      <4>1. "unknown" \in Secondary
        BY DEF Secondary
      <4>2. ASSUME NEW i \in J, doc' = [doc EXCEPT ![i].secondary = "unknown"]
            PROVE  /\ doc'[j].status = doc[j].status
                   /\ doc'[j].secondary \in {"unknown", doc[j].secondary}
        BY <4>1, <4>2, SecondaryTyped
      <4>3. QED
        BY <3>2, <3>3, <4>2 DEF Asked
    <3>4. QED
      BY <3>1, <3>3 DEF Asked
  <2>3. UNCHANGED <<tracked, snap, ending, passVars>>
    BY <1>2 DEF KillFails
  <2>4. QED
    BY <2>1, <2>2, <2>3 DEF Kept, passVars
<1>3. QED
  BY <1>1, <1>2

LEMMA FinishFrame ==
    ASSUME NEW J, Typed(J), NEW e \in ending, NEW j \in J, j # e[1], Finish(e)
    PROVE  Kept(j)
<1>1. doc'[j] = doc[j]
  BY FinishDoc
<1>2. j \in snap => j \in snap'
  BY DEF Finish
<1>3. \A a \in Answers : <<j, a>> \in ending' <=> <<j, a>> \in ending
  BY DEF Finish
<1>4. UNCHANGED <<tracked, killq, passVars>>
  BY DEF Finish
<1>5. QED
  BY <1>1, <1>2, <1>3, <1>4 DEF Kept, Asked, NoKill, passVars

-----------------------------------------------------------------------------
(* What the steps of the client do to the job they are about.              *)

LEMMA SubmitJob ==
    ASSUME NEW J, Typed(J), NEW j \in J, Submit(j)
    PROVE  /\ doc[j].status = "new" /\ doc'[j].status = "pending"
           /\ Idle(j) => Idle(j)'
           /\ Unrun(j) => Unrun(j)'
           /\ Want(j)' = Want(j)
<1>1. doc[j].status = "new" /\ doc'[j].status = "pending" /\ doc'[j].secondary = doc[j].secondary
  BY DEF Submit, Typed, Document
<1>2. UNCHANGED <<tracked, snap, killq, ending, spc, batch, started, refused>>
  BY DEF Submit, passVars
<1>3. (Idle(j) => Idle(j)') /\ (NoKill(j) => NoKill(j)') /\ ~Over(j)
  BY <1>1, <1>2 DEF Idle, NoEnd, NoKill, Over
<1>4. Want(j)' = Want(j)
  BY <1>1, <1>2 DEF Want, ToRun, Asked, Again, Number
<1>5. QED
  BY <1>1, <1>3, <1>4 DEF Unrun

LEMMA RequestJob ==
    ASSUME NEW J, Typed(J), NEW j \in J, Request(j)
    PROVE  /\ doc[j].status \in {"pending", "running"} /\ doc'[j].status = doc[j].status
           /\ doc[j].status = "pending" /\ NoKill(j) => NoKill(j)'
           /\ Idle(j) => Idle(j)'
           /\ Unrun(j) => Unrun(j)'
           /\ AtLaunch(j) => AtLaunch(j)'
           /\ Tracked(j) => Tracked(j)'
           /\ GivenBack(j) => GivenBack(j)'
           /\ Want(j)' <= Want(j) + 1
<1>1. PICK s \in Secondary : doc' = [doc EXCEPT ![j].secondary = s]
  BY DEF Request, Secondary
<1>2. doc'[j].status = doc[j].status
  BY <1>1, SecondaryTyped
<1>3. doc[j].status \in {"pending", "running"}
  BY DEF Request, Stored
<1>4. UNCHANGED <<tracked, snap, ending, spc, batch, started, refused>>
  BY DEF Request, passVars
<1>5. doc[j].status = "pending" /\ NoKill(j) => NoKill(j)'
  BY DEF Request, NoKill
<1>6. (Idle(j) => Idle(j)') /\ (AtLaunch(j) => AtLaunch(j)') /\ (Tracked(j) => Tracked(j)')
  BY <1>2, <1>4, <1>5 DEF Idle, AtLaunch, Tracked, NoEnd, Away
<1>7. Unrun(j) => Unrun(j)'
  BY <1>3, <1>5, <1>6 DEF Unrun, Over, Idle
<1>8. GivenBack(j) => GivenBack(j)'
  BY <1>2, <1>4 DEF GivenBack, Away
<1>9. Want(j)' <= Want(j) + 1
  BY <1>2, <1>4 DEF Want, ToRun, Again, Number
<1>10. QED
  BY <1>2, <1>3, <1>5, <1>6, <1>7, <1>8, <1>9

\* run_tasks starts a job of its batch.
LEMMA LaunchJob ==
    ASSUME NEW J, Typed(J), Passes(J), NEW j \in J, Treat(j), started' = started \cup {j}
    PROVE  /\ doc[j].status # "new"
           /\ Unrun(j) => AtLaunch(j)'
           /\ Want(j)' + 1 <= Want(j)
<1>1. j \in batch /\ doc[j].status # "new" /\ batch' = batch \ {j}
  BY DEF Treat, Passes
<1>2. UNCHANGED <<doc, tracked, snap, killq, ending, spc, early, requests>>
  BY DEF Treat
<1>3. Unrun(j) => AtLaunch(j)'
  BY <1>1, <1>2 DEF Unrun, Over, Away, Idle, AtLaunch, NoEnd, NoKill
<1>4. Want(j)' + 1 <= Want(j)
  BY <1>1, <1>2 DEF Want, ToRun, Asked, Again, Number
<1>5. QED
  BY <1>1, <1>3, <1>4

LEMMA AbortJob ==
    ASSUME NEW J, Typed(J), NEW j \in J, Abort
    PROVE  Want(j)' <= Want(j) + 1
<1>1. (Asked(j)' <=> Asked(j)) /\ (Again(j)' <=> Again(j))
  BY DEF Abort, Asked, Again
<1>2. QED
  BY <1>1 DEF Want, Number

\* What is published is in the running list.
Plain == Secondary \ {"reschedule requested"}

\* A request about a job, or its answer, that changes its secondary status and its key.
LEMMA SecondaryKept ==
    ASSUME NEW J, Typed(J), NEW i \in J, NEW s \in Plain,
           doc' = doc \/ doc' = [doc EXCEPT ![i].secondary = s],
           snap' = snap \/ snap' = snap \cup {i},
           UNCHANGED <<tracked, killq, ending, passVars>>
    PROVE  /\ doc' \in [J -> Document]
           /\ \A j \in J : /\ doc'[j].status = doc[j].status /\ doc'[j].fails = doc[j].fails
                           /\ Kept(j)
<1>1. s \in Secondary /\ s # "reschedule requested"
  BY DEF Plain
<1>2. /\ doc' \in [J -> Document]
      /\ \A j \in J : /\ doc'[j].status = doc[j].status /\ doc'[j].fails = doc[j].fails
                      /\ Asked(j)' => Asked(j)
  <2>1. CASE doc' = doc
    BY <2>1 DEF Typed, Asked
  <2>2. CASE doc' = [doc EXCEPT ![i].secondary = s]
    <3>1. /\ doc' \in [J -> Document]
          /\ \A j \in J : doc'[j].status = doc[j].status /\ doc'[j].fails = doc[j].fails
          /\ \A j \in J : doc'[j].secondary = IF j = i THEN s ELSE doc[j].secondary
      BY <1>1, <2>2, SecondaryTyped
    <3>2. \A j \in J : Asked(j)' => Asked(j)
      BY <1>1, <3>1 DEF Asked
    <3>3. QED
      BY <3>1, <3>2
  <2>3. QED
    BY <2>1, <2>2
<1>3. ASSUME NEW j \in J PROVE Kept(j)
  BY <1>2, SecondaryFrame
<1>4. QED
  BY <1>2, <1>3

LEMMA PublishedJob ==
    ASSUME NEW J, Typed(J), Passes(J), NEW s \in Plain,
           Published(J, s), NEW j \in J, j \in started
    PROVE  /\ AtLaunch(j) => Tracked(j)'
           /\ Want(j)' <= Want(j)
<1>1. /\ ~Stored(j) => doc'[j] = doc[j]
      /\ Stored(j) => doc'[j].status = "running" /\ doc'[j].secondary = s
  <2>1. ~Stored(j) => doc'[j] = doc[j]
    BY DEF Published
  <2>2. ASSUME Stored(j) PROVE doc'[j].status = "running" /\ doc'[j].secondary = s
    <3>1. doc[j] \in Document /\ doc'[j] = [doc[j] EXCEPT !.status = "running", !.secondary = s]
      BY <2>2 DEF Published, Typed
    <3>2. QED
      BY <3>1 DEF Document
  <2>3. QED
    BY <2>1, <2>2
<1>2. tracked'[j] = tracked[j] + 1 /\ j \in snap' /\ batch' = {} /\ started' = {}
      /\ ending' = ending
  BY DEF Published
<1>3. ASSUME AtLaunch(j) PROVE Tracked(j)'
  <2>1. doc[j].status = "pending" /\ tracked[j] = 0 /\ NoEnd(j)
    BY <1>3 DEF AtLaunch
  <2>2. doc'[j].status = "running"
    BY <1>1, <2>1 DEF Stored
  <2>3. NoEnd(j)' /\ Away(j)'
    BY <1>2, <2>1 DEF NoEnd, Away
  <2>4. tracked[j] = 0
    BY <2>1
  <2>5. tracked'[j] = tracked[j] + 1
    BY <1>2
  <2>6. tracked'[j] = 1
    BY <2>4, <2>5
  <2>7. QED
    BY <1>2, <2>2, <2>3, <2>6 DEF Tracked
<1>4. doc[j].status # "new" /\ doc[j] \in Document
  BY DEF Passes, Typed
<1>5. ~ToRun(j)' /\ (Asked(j)' => Asked(j))
  BY <1>1, <1>2, <1>4 DEF ToRun, Asked, Stored, Document, Status, Plain
<1>6. Want(j)' <= Want(j)
  BY <1>2, <1>5 DEF Want, Again, Number
<1>7. QED
  BY <1>3, <1>6

\* An id without its key: nothing is known of the job here.
LEMMA DropJob ==
    ASSUME NEW J, Typed(J), NEW j \in J, DropUnknown(j)
    PROVE  /\ ~Idle(j) /\ ~Unrun(j) /\ ~AtLaunch(j) /\ ~Tracked(j)
           /\ ~GivenBack(j) /\ ~Ending(j) /\ ~Over(j)
           /\ Want(j)' = Want(j)
<1>1. tracked[j] # 0 /\ j \notin snap
  BY DEF DropUnknown, Typed
<1>2. Want(j)' = Want(j)
  BY DEF DropUnknown, Want, ToRun, Asked, Again, Number, passVars
<1>3. ~Idle(j) /\ ~Unrun(j) /\ ~AtLaunch(j) /\ ~Tracked(j)
  BY <1>1 DEF Idle, Unrun, Over, AtLaunch, Tracked
<1>4. ~GivenBack(j) /\ ~Ending(j) /\ ~Over(j)
  BY <1>1 DEF GivenBack, Ending, Over
<1>5. QED
  BY <1>2, <1>3, <1>4

\* A watcher takes a job out of the running list.
LEMMA TakeOutJob ==
    ASSUME NEW J, Typed(J), NEW j \in J, NEW a \in Answers \ {"again"}, TakeOut(j, a),
           doc'[j].status = doc[j].status, Asked(j)' => Asked(j)
    PROVE  /\ ~Idle(j) /\ ~Unrun(j) /\ ~AtLaunch(j)
           /\ ~GivenBack(j) /\ ~Ending(j) /\ ~Over(j)
           /\ Tracked(j) /\ a = "unschedulable" => GivenBack(j)'
           /\ Tracked(j) /\ a \in {"watch", "watch failed"} => Ending(j)'
           /\ Want(j)' <= Want(j)
<1>1. /\ tracked[j] \in Nat /\ tracked[j] > 0 /\ tracked'[j] = tracked[j] - 1
      /\ UNCHANGED <<snap, killq, spc, batch, started, refused, early, requests>>
  BY DEF TakeOut, Examine, Typed, passVars
<1>2. NoEnd(j) => \A b \in Answers : <<j, b>> \in ending' <=> b = a
  BY DEF TakeOut, NoEnd
<1>3. Tracked(j) /\ a = "unschedulable" => GivenBack(j)'
  BY <1>1, <1>2 DEF Tracked, GivenBack, Away
<1>4. ASSUME Tracked(j), a \in {"watch", "watch failed"} PROVE Ending(j)'
  <2>1. \A b \in Answers : <<j, b>> \in ending' <=> b = a
    BY <1>2, <1>4 DEF Tracked
  <2>2. doc'[j].status = "running" /\ Away(j)'
    BY <1>1, <1>4 DEF Tracked, Away
  <2>3. tracked'[j] = 0
    <3>1. tracked[j] = 1
      BY <1>4 DEF Tracked
    <3>2. tracked'[j] = tracked[j] - 1
      BY <1>1
    <3>3. QED
      BY <3>1, <3>2
  <2>4. QED
    BY <1>4, <2>1, <2>2, <2>3 DEF Ending
<1>5. Want(j)' <= Want(j)
  <2>1. Again(j)' => Again(j)
    BY DEF TakeOut, Again
  <2>2. QED
    BY <1>1, <2>1 DEF Want, ToRun, Number
<1>6. tracked[j] # 0
  BY <1>1
<1>7. ~Idle(j) /\ ~Unrun(j) /\ ~AtLaunch(j)
  BY <1>6 DEF Idle, Unrun, Over, AtLaunch
<1>8. ~GivenBack(j) /\ ~Ending(j) /\ ~Over(j)
  BY <1>6 DEF GivenBack, Ending, Over
<1>9. QED
  BY <1>3, <1>4, <1>5, <1>7, <1>8

LEMMA KillJob ==
    ASSUME NEW J, Typed(J), NEW k \in killq, KillDone(k)
    PROVE  ~NoKill(k[1]) /\ Want(k[1])' = Want(k[1])
<1>1. ~NoKill(k[1])
  BY DEF NoKill
<1>2. /\ UNCHANGED <<doc, spc, batch, started, refused>>
      /\ Again(k[1])' <=> Again(k[1])
  BY DEF KillDone, Again, passVars
<1>3. QED
  BY <1>1, <1>2 DEF Want, ToRun, Asked, Number

\* The end of a job: back to the pending ones, or over.
LEMMA FinishJob ==
    ASSUME NEW J, Typed(J), NEW e \in ending, Finish(e), NEW j \in J, j = e[1]
    PROVE  /\ ~Idle(j) /\ ~Unrun(j) /\ ~AtLaunch(j) /\ ~Tracked(j) /\ ~GivenBack(j) /\ ~Over(j)
           /\ Ending(j) => Idle(j)' \/ Over(j)'
           /\ (Requeued(e) => e[2] = "again" \/ (e[2] = "kill" /\ ~Again(j))) => Want(j)' <= Want(j)
<1>1. e = <<j, e[2]>> /\ e[2] \in Answers /\ e[2] # "unschedulable"
  BY DEF Typed, Finish
<1>2. UNCHANGED <<tracked, killq, spc, batch, started, refused, early, requests>>
  BY DEF Finish, passVars
<1>3. /\ ~Stored(j) => doc'[j] = doc[j]
      /\ Stored(j) /\ Requeued(e) =>
            doc'[j].status = "pending" /\ doc'[j].secondary = "rescheduled"
      /\ Stored(j) /\ ~Requeued(e) =>
            doc'[j].status = "over" /\ doc'[j].secondary = "none"
  BY FinishDoc
<1>4. ASSUME Ending(j) PROVE Idle(j)' \/ Over(j)'
  <2>1. NoEnd(j)'
    <3>1. \A a \in Answers : <<j, a>> \in ending => a = e[2]
      BY <1>1, <1>4 DEF Ending
    <3>2. ending' = ending \ {<<j, e[2]>>}
      BY <1>1 DEF Finish
    <3>3. QED
      BY <3>1, <3>2 DEF NoEnd
  <2>2. doc'[j].status \in {"pending", "over"}
    BY <1>3, <1>4 DEF Ending, Stored
  <2>3. QED
    BY <1>2, <1>4, <2>1, <2>2 DEF Ending, Idle, Over, Away
<1>5. ASSUME Requeued(e) => e[2] = "again" \/ (e[2] = "kill" /\ ~Again(j))
      PROVE  Want(j)' <= Want(j)
  <2>1. (Again(j)' => Again(j)) /\ (e[2] = "again" => Again(j) /\ ~Again(j)')
    BY <1>1 DEF Finish, Again
  <2>2. CASE ~Stored(j)
    <3>1. doc'[j] = doc[j]
      BY <1>3, <2>2
    <3>2. (ToRun(j)' <=> ToRun(j)) /\ (Asked(j)' <=> Asked(j))
      BY <1>2, <3>1 DEF ToRun, Asked
    <3>3. QED
      BY <2>1, <3>2 DEF Want, Number
  <2>3. CASE Stored(j) /\ Requeued(e)
    <3>1. ~Asked(j)'
      BY <1>3, <2>3 DEF Asked
    <3>2. CASE e[2] = "again"
      BY <2>1, <3>1, <3>2 DEF Want, Number
    <3>3. CASE e[2] = "kill" /\ ~Again(j)
      <4>1. Asked(j)
        BY <1>1, <2>3, <3>3 DEF Requeued, Asked
      <4>2. QED
        BY <2>1, <3>1, <3>3, <4>1 DEF Want, Number
    <3>4. QED
      BY <1>5, <2>3, <3>2, <3>3
  <2>4. CASE Stored(j) /\ ~Requeued(e)
    <3>1. doc'[j].status = "over" /\ doc'[j].secondary = "none"
      BY <1>3, <2>4
    <3>2. (ToRun(j)' => ToRun(j)) /\ ~Asked(j)'
      BY <1>2, <3>1 DEF ToRun, Asked
    <3>3. QED
      BY <2>1, <3>2 DEF Want, Number
  <2>5. QED
    BY <2>2, <2>3, <2>4
<1>6. <<j, e[2]>> \in ending
  BY <1>1
<1>7. ~NoEnd(j) /\ ~GivenBack(j)
  BY <1>1, <1>6 DEF NoEnd, GivenBack
<1>8. QED
  BY <1>4, <1>5, <1>7 DEF Idle, Unrun, AtLaunch, Tracked, Over

\* The document of a job whose pending copy is killed.
LEMMA PendingDoc ==
    ASSUME NEW J, Typed(J), NEW j \in J, KillPending(j)
    PROVE  /\ doc' \in [J -> Document]
           /\ \A i \in J : i # j => doc'[i] = doc[i]
           /\ ~Stored(j) => doc'[j] = doc[j]
           /\ Stored(j) /\ Asked(j) =>
                 doc'[j].status = "pending" /\ doc'[j].secondary = "rescheduled"
           /\ Stored(j) /\ ~Asked(j) =>
                 doc'[j].status = "over" /\ doc'[j].secondary = "none"
           /\ doc'[j].fails = doc[j].fails
<1>1. doc \in [J -> Document] /\ doc[j] \in Document
  BY DEF Typed
<1>2. CASE ~Stored(j)
  BY <1>1, <1>2 DEF KillPending
<1>3. CASE Stored(j)
  <2>1. doc[j].fails \in 0 .. FailurePolicy
    BY <1>1 DEF Document
  <2>2. CASE Asked(j)
    <3>1. doc' = [doc EXCEPT ![j].status = "pending", ![j].secondary = "rescheduled"]
      BY <1>3, <2>2 DEF KillPending, Asked
    <3>2. doc'[j] = [status |-> "pending", secondary |-> "rescheduled", fails |-> doc[j].fails]
      BY <1>1, <3>1 DEF Document
    <3>3. doc'[j] \in Document
      BY <2>1, <3>2 DEF Document, Status, Secondary
    <3>4. doc' \in [J -> Document] /\ \A i \in J : i # j => doc'[i] = doc[i]
      BY <1>1, <3>1, <3>3
    <3>5. QED
      BY <1>3, <2>2, <3>2, <3>4
  <2>3. CASE ~Asked(j)
    <3>1. doc' = [doc EXCEPT ![j].status = "over", ![j].secondary = "none"]
      BY <1>3, <2>3 DEF KillPending, Asked
    <3>2. doc'[j] = [status |-> "over", secondary |-> "none", fails |-> doc[j].fails]
      BY <1>1, <3>1 DEF Document
    <3>3. doc'[j] \in Document
      BY <2>1, <3>2 DEF Document, Status, Secondary
    <3>4. doc' \in [J -> Document] /\ \A i \in J : i # j => doc'[i] = doc[i]
      BY <1>1, <3>1, <3>3
    <3>5. QED
      BY <1>3, <2>3, <3>2, <3>4
  <2>4. QED
    BY <2>2, <2>3
<1>4. QED
  BY <1>2, <1>3

\* A pending copy on the kill list is dealt with: what it does to the other jobs, ...
LEMMA PendingFrame ==
    ASSUME NEW J, Typed(J), NEW i \in J, KillPending(i)
    PROVE  /\ Typed(J)'
           /\ \A j \in J : doc'[j].fails = doc[j].fails
                           /\ (doc[j].status # "new" => doc'[j].status # "new")
           /\ \A j \in J : j # i => Kept(j)
           /\ UNCHANGED <<tracked, killq, ending, passVars, requests>>
<1>1. /\ doc' \in [J -> Document]
      /\ \A j \in J : j # i => doc'[j] = doc[j]
      /\ doc'[i].fails = doc[i].fails
      /\ doc'[i] = doc[i] \/ doc'[i].status \in {"pending", "over"}
  BY PendingDoc
<1>2. /\ UNCHANGED <<tracked, killq, ending, passVars, requests>>
      /\ early' \subseteq early /\ snap' \subseteq snap
      /\ \A j \in snap : j # i => j \in snap'
  BY DEF KillPending
<1>3. Typed(J)'
  BY <1>1, <1>2 DEF Typed, passVars
<1>4. ASSUME NEW j \in J, j # i PROVE Kept(j)
  BY <1>1, <1>2, <1>4 DEF Kept, Asked, NoKill, passVars
<1>5. QED
  BY <1>1, <1>2, <1>3, <1>4

\* ... and, unless run_tasks has the job or has started it, to its own.
LEMMA PendingJob ==
    ASSUME NEW J, Typed(J), NEW j \in J, KillPending(j)
    PROVE  /\ ~UnderWay(j) =>
                 /\ ~AtLaunch(j) /\ ~Tracked(j) /\ ~GivenBack(j) /\ ~Ending(j)
                 /\ Idle(j) \/ Over(j) => Idle(j)' \/ Over(j)'
                 /\ Unrun(j) => Unrun(j)'
           /\ ~UnderWay(j) \/ ~Again(j) => Want(j)' <= Want(j)
<1>1. UNCHANGED <<tracked, killq, ending, spc, batch, started, refused>>
  BY DEF KillPending, passVars
<1>2. /\ ~Stored(j) => doc'[j] = doc[j]
      /\ Stored(j) /\ Asked(j) => doc'[j].status = "pending" /\ doc'[j].secondary = "rescheduled"
      /\ Stored(j) /\ ~Asked(j) => doc'[j].status = "over" /\ doc'[j].secondary = "none"
  BY PendingDoc
<1>3. ASSUME ~UnderWay(j)
      PROVE  ~AtLaunch(j) /\ ~Tracked(j) /\ ~GivenBack(j) /\ ~Ending(j)
  BY <1>3 DEF UnderWay, AtLaunch, Tracked, GivenBack, Ending
<1>4. ASSUME ~UnderWay(j), Idle(j) \/ Over(j) PROVE Idle(j)' \/ Over(j)'
  <2>1. Away(j)' /\ NoEnd(j)' /\ tracked'[j] = 0 /\ j \notin started'
    BY <1>1, <1>4 DEF UnderWay, Idle, Over, Away, NoEnd
  <2>2. doc'[j].status \in {"new", "pending", "over"}
    BY <1>2, <1>4 DEF Idle, Over, Stored
  <2>3. QED
    BY <2>1, <2>2 DEF Idle, Over
<1>5. NoKill(j) => NoKill(j)'
  BY <1>1 DEF NoKill
<1>6. ASSUME ~UnderWay(j) \/ ~Again(j) PROVE Want(j)' <= Want(j)
  <2>1. Again(j)' <=> Again(j)
    BY <1>1 DEF Again
  <2>2. CASE ~Stored(j)
    <3>1. (ToRun(j)' <=> ToRun(j)) /\ (Asked(j)' <=> Asked(j))
      BY <1>1, <1>2, <2>2 DEF ToRun, Asked
    <3>2. QED
      BY <2>1, <3>1 DEF Want, Number
  <2>3. CASE Stored(j) /\ Asked(j)
    <3>1. ~Asked(j)'
      BY <1>2, <2>3 DEF Asked
    <3>2. CASE ~Again(j)
      BY <2>1, <2>3, <3>1, <3>2 DEF Want, Number
    <3>3. CASE ~UnderWay(j)
      <4>1. ToRun(j)
        BY <2>3, <3>3 DEF UnderWay, ToRun, Stored
      <4>2. QED
        BY <2>1, <2>3, <3>1, <4>1 DEF Want, Number
    <3>4. QED
      BY <1>6, <3>2, <3>3
  <2>4. CASE Stored(j) /\ ~Asked(j)
    <3>1. (ToRun(j)' => ToRun(j)) /\ ~Asked(j)'
      BY <1>1, <1>2, <2>4 DEF ToRun, Asked
    <3>2. QED
      BY <2>1, <3>1 DEF Want, Number
  <2>5. QED
    BY <2>2, <2>3, <2>4
<1>7. QED
  BY <1>3, <1>4, <1>5, <1>6 DEF Unrun

-----------------------------------------------------------------------------
(* What every step of the client keeps.                                    *)

\* Between two passes nothing is in the hands of the scheduler.
LEMMA PassesKept ==
    ASSUME NEW J, Typed(J), Passes(J),
           UNCHANGED passVars \/ (spc = "run" /\ spc' = spc /\ started' \cup batch' \subseteq started \cup batch),
           \A j \in J : doc[j].status # "new" => doc'[j].status # "new"
    PROVE  Passes(J)'
<1>1. started' \cup batch' \subseteq started \cup batch
  BY DEF passVars
<1>2. started \cup batch \subseteq J
  BY DEF Typed
<1>3. \A j \in started' \cup batch' : doc'[j].status # "new"
  BY <1>1, <1>2 DEF Passes
<1>4. spc' = "idle" => started' = {} /\ batch' = {}
  BY DEF passVars, Passes
<1>5. QED
  BY <1>3, <1>4 DEF Passes

LEMMA PassesEnds ==
    ASSUME NEW J, Typed(J), Passes(J), Begun(J) \/ Abort \/ \E s \in Secondary : Published(J, s)
    PROVE  Passes(J)'
BY DEF Begun, Abort, Published, Passes

\* No job of these plugins is started again because the system failed.
NoFailure(J, A) ==
    /\ \A j \in J : doc[j].fails = 0
    /\ \A e \in ending : e[2] \in A

\* What their watchers have in hand.
Told == {"watch", "kill"}
Decided == {"watch", "kill", "over", "again"}

LEMMA NoFailureRequeued ==
    ASSUME NEW J, Typed(J), NEW A \in SUBSET Decided, NoFailure(J, A), NEW e \in ending
    PROVE  Requeued(e) => e[2] \in {"kill", "again"}
<1>1. e[1] \in J
  BY DEF Typed
<1>2. doc[e[1]].fails = 0 /\ e[2] \in Decided
  BY <1>1 DEF NoFailure
<1>3. ~(doc[e[1]].fails > 0)
  BY <1>2
<1>4. QED
  BY <1>2, <1>3 DEF Requeued, Decided

LEMMA NoFailureKept ==
    ASSUME NEW J, NEW A, NoFailure(J, A), \A j \in J : doc'[j].fails = doc[j].fails,
           \A e \in ending' : e \in ending \/ e[2] \in A
    PROVE  NoFailure(J, A)'
BY DEF NoFailure

LEMMA NoFailureFinish ==
    ASSUME NEW J, Typed(J), NEW A \in SUBSET Decided, NoFailure(J, A), NEW e \in ending, Finish(e)
    PROVE  NoFailure(J, A)'
<1>1. Requeued(e) => e[2] \in {"kill", "again"}
  BY NoFailureRequeued
<1>2. e[1] \in J
  BY DEF Typed
<1>3. \A j \in J : doc'[j].fails = doc[j].fails
  BY <1>1, <1>2, FinishDoc
<1>4. ending' \subseteq ending
  BY DEF Finish
<1>5. QED
  BY <1>3, <1>4, NoFailureKept

-----------------------------------------------------------------------------
(* Grid Engine: the plugin does to the client what ExecutorClient says.    *)

LEMMA SGEClient ==
    /\ \A j : SGE!Submit(j) <=> Submit(j)
    /\ \A j : SGE!Request(j) <=> Request(j)
    /\ SGE!BeginPass => Begun(Job)
    /\ \A j : SGE!Treat(j) <=> Treat(j)
    /\ SGE!Abort <=> Abort
    /\ \A s : SGE!Publish(s) <=> Published(Job, s)
    /\ \A j : SGE!DropUnknown(j) <=> DropUnknown(j)
    /\ \A j : SGE!Examine(j) <=> Examine(j)
    /\ \A j, a : SGE!TakeOut(j, a) <=> TakeOut(j, a)
    /\ \A k : SGE!KillDone(k) <=> KillDone(k)
    /\ \A e : SGE!Finish(e) <=> Finish(e)
    /\ \A j : SGE!KillPending(j) <=> KillPending(j)
    /\ \A j : SGE!UnderWay(j) <=> UnderWay(j)
<1>1. /\ \A j : SGE!Submit(j) <=> Submit(j)
      /\ \A j : SGE!Request(j) <=> Request(j)
      /\ \A j : SGE!Treat(j) <=> Treat(j)
      /\ SGE!Abort <=> Abort
      /\ \A j : SGE!DropUnknown(j) <=> DropUnknown(j)
  BY Zenon DEF SGE!Submit, Submit, SGE!Request, Request, SGE!Treat, Treat, SGE!Abort, Abort,
     SGE!DropUnknown, DropUnknown, SGE!Stored, Stored, SGE!passVars, passVars
<1>2. SGE!BeginPass => Begun(Job)
  BY DEF SGE!BeginPass, Begun, SGE!Pending
<1>3. \A s : SGE!Publish(s) <=> Published(Job, s)
  BY Zenon DEF SGE!Publish, Published, SGE!Stored, Stored
<1>4. /\ \A j : SGE!Examine(j) <=> Examine(j)
      /\ \A j, a : SGE!TakeOut(j, a) <=> TakeOut(j, a)
      /\ \A k : SGE!KillDone(k) <=> KillDone(k)
      /\ \A j : SGE!KillPending(j) <=> KillPending(j)
  <2>1. SGE!Busy <=> Busy
    BY DEF SGE!Busy, Busy, SGE!Cardinality, Cardinality
  <2>2. QED
    BY Zenon, <2>1 DEF SGE!Examine, Examine, SGE!TakeOut, TakeOut, SGE!KillDone, KillDone,
       SGE!KillPending, KillPending, SGE!Stored, Stored, SGE!passVars, passVars
<1>5. /\ \A e : SGE!Finish(e) <=> Finish(e)
      /\ \A j : SGE!UnderWay(j) <=> UnderWay(j)
  BY Zenon DEF SGE!Finish, Finish, SGE!Stored, Stored, SGE!Requeued, Requeued, SGE!passVars, passVars,
     SGE!UnderWay, UnderWay
<1>6. QED
  BY <1>1, <1>2, <1>3, <1>4, <1>5

-----------------------------------------------------------------------------
(* Grid Engine: the invariant.                                             *)

Runs == SGE!Run
Listed == SGE!Listed

SGETyped ==
    /\ sge \in [Job -> [Runs -> SGE!State]]
    /\ submitted \in [Job -> Runs] /\ key \in [Job -> Runs] /\ asked \in [Job -> Runs]
    /\ faults \in 0 .. MaxFaults
    /\ left \subseteq Job

\* A submission is paid for by the first one, a request, or a failing command; the
\* latter leaves the job behind.
Paid(j) ==
    /\ submitted[j] + Want(j) <= 1 + requests + faults
    /\ j \notin left => submitted[j] + Want(j) <= 1 + requests

\* The only run of a job is on its way to the running list or in it, and who kills
\* the job kills that run.
OnlyRun(j) ==
    /\ submitted[j] = 0 => Unrun(j) /\ \A r \in Runs : sge[j][r] \notin Listed
    /\ submitted[j] = 1 =>
        /\ \A r \in Runs : r # 1 => sge[j][r] \notin Listed
        /\ sge[j][1] \in Listed =>
              AtLaunch(j) \/ (Tracked(j) /\ key[j] = 1 /\ (NoKill(j) \/ asked[j] = 1))

SGEJob(j) == Paid(j) /\ (j \notin left => OnlyRun(j))

SGEInv ==
    /\ Typed(Job) /\ SGETyped /\ Passes(Job) /\ NoFailure(Job, Told)
    /\ \A j \in Job : SGEJob(j)

\* A step of the plugin that is not about a job.
SGEKept(j) ==
    /\ submitted'[j] = submitted[j] /\ key'[j] = key[j] /\ asked'[j] = asked[j]
    /\ \A r \in Runs : sge'[j][r] \in Listed => sge[j][r] \in Listed
    /\ j \in left => j \in left'
    /\ faults' >= faults /\ requests' >= requests

LEMMA RunsType ==
    /\ MaxFaults \in Nat /\ MaxRequests \in Nat
    /\ Runs = 0 .. (1 + MaxRequests + MaxFaults)
    /\ 0 \in Runs /\ 1 \in Runs
    /\ \A r \in Runs : r \in Nat
<1>1. Runs = 0 .. (1 + MaxRequests + MaxFaults)
  BY DEF Runs, SGE!Run, SGE!MaxRuns
<1>2. QED
  BY <1>1, Bounds

LEMMA SGENumbers ==
    ASSUME Typed(Job), Typed(Job)', SGETyped, SGETyped'
    PROVE  /\ faults \in Nat /\ requests \in Nat /\ faults' \in Nat /\ requests' \in Nat
           /\ \A j \in Job : submitted[j] \in Nat /\ submitted'[j] \in Nat
<1>1. faults \in Nat /\ requests \in Nat /\ faults' \in Nat /\ requests' \in Nat
  BY Bounds DEF SGETyped, Typed
<1>2. \A j \in Job : submitted[j] \in Runs /\ submitted'[j] \in Runs
  BY DEF SGETyped
<1>3. \A r \in Runs : r \in Nat
  BY RunsType
<1>4. QED
  BY <1>1, <1>2, <1>3

\* What a job pays for.
LEMMA PaidKept ==
    ASSUME Typed(Job), Typed(Job)', SGETyped, SGETyped', NEW j \in Job, Paid(j),
           submitted'[j] + Want(j)' + requests <= submitted[j] + Want(j) + requests',
           faults' >= faults, j \in left => j \in left'
    PROVE  Paid(j)'
<1>1. /\ faults \in Nat /\ requests \in Nat /\ faults' \in Nat /\ requests' \in Nat
      /\ submitted[j] \in Nat /\ submitted'[j] \in Nat
  BY SGENumbers
<1>2. Want(j) \in Nat /\ Want(j)' \in Nat
  BY WantType
<1>3. QED
  BY <1>1, <1>2 DEF Paid

LEMMA SGEKeptJob ==
    ASSUME Typed(Job), Typed(Job)', SGETyped, SGETyped',
           NEW j \in Job, SGEJob(j), Kept(j), SGEKept(j)
    PROVE  SGEJob(j)'
<1>1. /\ requests \in Nat /\ requests' \in Nat /\ faults \in Nat /\ faults' \in Nat
      /\ submitted[j] \in Nat /\ Want(j) \in Nat /\ Want(j)' \in Nat
  BY SGENumbers, WantType
<1>2. Want(j)' <= Want(j)
  BY KeptWant
<1>3. submitted'[j] + Want(j)' + requests <= submitted[j] + Want(j) + requests'
  BY <1>1, <1>2 DEF SGEKept
<1>4. Paid(j)'
  BY <1>3, PaidKept DEF SGEJob, SGEKept
<1>5. ASSUME j \notin left' PROVE OnlyRun(j)'
  <2>1. OnlyRun(j)
    BY <1>5 DEF SGEJob, SGEKept
  <2>2. (AtLaunch(j) => AtLaunch(j)') /\ (Tracked(j) => Tracked(j)') /\ (Unrun(j) => Unrun(j)')
    BY KeptPhases
  <2>3. NoKill(j) => NoKill(j)'
    BY DEF Kept
  <2>4. /\ submitted'[j] = submitted[j] /\ key'[j] = key[j] /\ asked'[j] = asked[j]
        /\ \A r \in Runs : sge'[j][r] \in Listed => sge[j][r] \in Listed
    BY DEF SGEKept
  <2>5. QED
    BY <2>1, <2>2, <2>3, <2>4, RunsType DEF OnlyRun
<1>6. QED
  BY <1>4, <1>5 DEF SGEJob

-----------------------------------------------------------------------------
(* Grid Engine: the steps.                                                 *)

LEMMA BecomesRuns ==
    ASSUME SGETyped, NEW j \in Job, NEW r \in Runs, NEW s \in SGE!State, SGE!Becomes(j, r, s)
    PROVE  /\ sge' \in [Job -> [Runs -> SGE!State]]
           /\ \A i \in Job : \A q \in Runs :
                 sge'[i][q] = IF i = j /\ q = r THEN s ELSE sge[i][q]
<1>1. sge \in [Job -> [Runs -> SGE!State]]
  BY DEF SGETyped
<1>2. sge' = [sge EXCEPT ![j][r] = s]
  BY DEF SGE!Becomes
<1>3. QED
  BY <1>1, <1>2

LEMMA QdelRuns ==
    ASSUME SGETyped, NEW j \in Job, NEW r \in Runs, SGE!Qdel(j, r)
    PROVE  /\ sge' \in [Job -> [Runs -> SGE!State]]
           /\ \A i \in Job : \A q \in Runs : sge'[i][q] \in Listed => sge[i][q] \in Listed
           /\ sge'[j][r] \notin Listed
<1> DEFINE s == IF sge[j][r] = "running" THEN "ended"
                ELSE IF sge[j][r] \in SGE!Waiting THEN "deleted" ELSE sge[j][r]
<1>1. sge \in [Job -> [Runs -> SGE!State]]
  BY DEF SGETyped
<1>2. sge' = [sge EXCEPT ![j][r] = s]
  BY <1>1 DEF SGE!Qdel
<1>3. sge[j][r] \in SGE!State
  BY <1>1
<1>4. s \in SGE!State /\ s \notin Listed
  BY <1>3 DEF SGE!State, Listed, SGE!Listed, SGE!Waiting
<1> HIDE DEF s
<1>5. /\ sge' \in [Job -> [Runs -> SGE!State]]
      /\ \A i \in Job : \A q \in Runs :
            sge'[i][q] = IF i = j /\ q = r THEN s ELSE sge[i][q]
  BY <1>1, <1>2, <1>4
<1>6. QED
  BY <1>4, <1>5

\* A step of the client that leaves every job where it is, and the plugin alone.
LEMMA SGEFrame ==
    ASSUME SGEInv, Typed(Job)', SGETyped', NEW j \in Job, Kept(j),
           UNCHANGED <<sge, submitted, key, asked, faults>>, left \subseteq left',
           requests' = requests
    PROVE  SGEJob(j)'
<1>1. faults \in Nat /\ requests \in Nat
  BY SGENumbers DEF SGEInv
<1>2. SGEKept(j)
  BY <1>1 DEF SGEKept
<1>3. QED
  BY <1>2, SGEKeptJob DEF SGEInv

LEMMA SGESubmit ==
    ASSUME SGEInv, NEW i \in Job, Submit(i), SGE!Other
    PROVE  SGEInv'
<1> USE DEF SGEInv
<1>1. Typed(Job)'
  BY UsersTyped
<1>2. /\ UNCHANGED <<sge, submitted, key, asked, faults, left>>
      /\ UNCHANGED <<ending, passVars, early, requests>>
  BY DEF SGE!Other, SGE!cluster, Submit
<1>3. SGETyped'
  BY <1>2 DEF SGETyped
<1>4. \A j \in Job : doc'[j].fails = doc[j].fails
                     /\ (doc[j].status # "new" => doc'[j].status # "new")
  BY DEF Submit, Typed, Document
<1>5. Passes(Job)' /\ NoFailure(Job, Told)'
  BY <1>2, <1>4, PassesKept, NoFailureKept
<1>6. ASSUME NEW j \in Job PROVE SGEJob(j)'
  <2>1. CASE j # i
    BY <1>1, <1>2, <1>3, <2>1, UsersFrame, SGEFrame
  <2>2. CASE j = i
    <3>1. doc[j].status = "new" /\ (Unrun(j) => Unrun(j)') /\ Want(j)' = Want(j)
      BY <2>2, SubmitJob
    <3>2. ~AtLaunch(j) /\ ~Tracked(j)
      BY <3>1 DEF AtLaunch, Tracked
    <3>3. SGEJob(j)
      OBVIOUS
    <3>4. Paid(j)'
      BY <1>2, <3>1, <3>3 DEF Paid, SGEJob
    <3>5. OnlyRun(j) => OnlyRun(j)'
      BY <1>2, <3>1, <3>2 DEF OnlyRun
    <3>6. QED
      BY <1>2, <3>3, <3>4, <3>5 DEF SGEJob
  <2>3. QED
    BY <2>1, <2>2
<1>7. QED
  BY <1>1, <1>3, <1>5, <1>6

LEMMA SGERequest ==
    ASSUME SGEInv, NEW i \in Job, SGE!RequestRun(i)
    PROVE  SGEInv'
<1> USE DEF SGEInv
<1>1. Request(i)
  BY SGEClient DEF SGE!RequestRun
<1>2. Typed(Job)'
  BY <1>1, UsersTyped
<1>3. /\ UNCHANGED <<sge, submitted, key, faults, left>>
      /\ asked' = IF doc[i].status = "running" THEN [asked EXCEPT ![i] = key[i]] ELSE asked
  BY DEF SGE!RequestRun, SGE!cluster
<1>4. /\ UNCHANGED <<ending, passVars>> /\ requests' = requests + 1
  BY <1>1 DEF Request
<1>5. SGETyped'
  BY <1>3 DEF SGETyped
<1>6. \A j \in Job : doc'[j].fails = doc[j].fails /\ doc'[j].status = doc[j].status
  <2>1. \E s \in Secondary : doc' = [doc EXCEPT ![i].secondary = s]
    BY <1>1 DEF Request, Secondary
  <2>2. QED
    BY <2>1, SecondaryTyped
<1>7. Passes(Job)' /\ NoFailure(Job, Told)'
  BY <1>4, <1>6, PassesKept, NoFailureKept
<1>8. faults \in Nat /\ requests \in Nat /\ \A j \in Job : submitted[j] \in Nat
  BY <1>2, <1>5, SGENumbers
<1>9. ASSUME NEW j \in Job PROVE SGEJob(j)'
  <2>1. CASE j # i
    <3>1. asked'[j] = asked[j]
      BY <1>3, <2>1 DEF SGETyped
    <3>2. SGEKept(j)
      BY <1>3, <1>4, <1>8, <3>1 DEF SGEKept
    <3>3. QED
      BY <1>1, <1>2, <1>5, <2>1, <3>2, UsersFrame, SGEKeptJob
  <2>2. CASE j = i
    <3>1. /\ doc[j].status \in {"pending", "running"} /\ Want(j)' <= Want(j) + 1
          /\ (Unrun(j) => Unrun(j)') /\ (AtLaunch(j) => AtLaunch(j)')
          /\ (Tracked(j) => Tracked(j)')
      BY <1>1, <2>2, RequestJob
    <3>3. SGEJob(j)
      OBVIOUS
    <3>4. Paid(j)'
      <4>1. Want(j) \in Nat /\ Want(j)' \in Nat /\ submitted[j] \in Nat
        BY <1>8, WantType
      <4>2. submitted'[j] + Want(j)' + requests <= submitted[j] + Want(j) + requests'
        BY <1>3, <1>4, <1>8, <3>1, <4>1
      <4>3. QED
        BY <1>2, <1>3, <1>5, <1>8, <3>3, <4>2, PaidKept DEF SGEJob
    <3>5. Tracked(j) => asked'[j] = key[j]
      BY <1>3, <2>2 DEF SGETyped, Tracked
    <3>6. OnlyRun(j) => OnlyRun(j)'
      BY <1>3, <3>1, <3>5 DEF OnlyRun
    <3>7. QED
      BY <1>3, <3>3, <3>4, <3>6 DEF SGEJob
  <2>3. QED
    BY <2>1, <2>2
<1>10. QED
  BY <1>2, <1>5, <1>7, <1>9

LEMMA SGEBegin ==
    ASSUME SGEInv, SGE!BeginPass, SGE!Other
    PROVE  SGEInv'
<1> USE DEF SGEInv
<1>1. Begun(Job)
  BY SGEClient
<1>2. Typed(Job)' /\ Passes(Job)'
  BY <1>1, BegunTyped, PassesEnds
<1>3. UNCHANGED <<sge, submitted, key, asked, faults, left>> /\ UNCHANGED <<doc, ending, early, requests>>
  BY <1>1 DEF SGE!Other, SGE!cluster, Begun
<1>4. SGETyped' /\ NoFailure(Job, Told)'
  BY <1>3 DEF SGETyped, NoFailure
<1>5. ASSUME NEW j \in Job PROVE SGEJob(j)'
  BY <1>1, <1>2, <1>3, <1>4, BegunFrame, SGEFrame
<1>6. QED
  BY <1>2, <1>4, <1>5

\* qsub: the job was in the batch, so that another run of it was paid for.
LEMMA QsubRuns ==
    ASSUME Typed(Job), SGETyped, NEW i \in Job, i \in batch, Paid(i), SGE!Qsub(i)
    PROVE  /\ submitted' \in [Job -> Runs] /\ submitted'[i] = submitted[i] + 1
           /\ sge' \in [Job -> [Runs -> SGE!State]]
           /\ \A r \in Runs : r # submitted[i] + 1 => sge'[i][r] = sge[i][r]
           /\ \A j \in Job : j # i => submitted'[j] = submitted[j] /\ sge'[j] = sge[j]
<1>1. /\ submitted' = [submitted EXCEPT ![i] = @ + 1]
      /\ SGE!Becomes(i, submitted[i] + 1, "queued")
  BY DEF SGE!Qsub
<1>2. submitted \in [Job -> Runs] /\ submitted[i] \in Nat
  BY RunsType DEF SGETyped
<1>3. Want(i) >= 1
  BY DEF Want, ToRun, Number
<1>4. faults \in 0 .. MaxFaults /\ requests \in 0 .. MaxRequests
  BY DEF SGETyped, Typed
<1>5. submitted[i] + 1 \in Runs
  <2>1. submitted[i] + Want(i) <= 1 + requests + faults /\ Want(i) \in Nat
    BY WantType DEF Paid
  <2>2. submitted[i] + 1 <= 1 + MaxRequests + MaxFaults
    BY <1>2, <1>3, <1>4, <2>1, RunsType
  <2>3. QED
    BY <1>2, <2>2, RunsType
<1>6. "queued" \in SGE!State
  BY DEF SGE!State, SGE!Listed, SGE!Waiting
<1>7. /\ sge' \in [Job -> [Runs -> SGE!State]]
      /\ \A r \in Runs : r # submitted[i] + 1 => sge'[i][r] = sge[i][r]
  BY <1>1, <1>5, <1>6, BecomesRuns
<1>8. \A j \in Job : j # i => sge'[j] = sge[j]
  BY <1>1 DEF SGE!Becomes, SGETyped
<1>9. QED
  BY <1>1, <1>2, <1>5, <1>7, <1>8

LEMMA SGERun ==
    ASSUME SGEInv, NEW i \in Job, SGE!RunTask(i)
    PROVE  SGEInv'
<1> USE DEF SGEInv
<1>1. Treat(i) /\ started' = started \cup {i} /\ SGE!Qsub(i)
      /\ UNCHANGED <<refused, key, asked, faults, left>>
  BY SGEClient DEF SGE!RunTask
<1>2. Typed(Job)'
  BY <1>1, TreatTyped
<1>3. /\ i \in batch /\ spc = "run" /\ batch' = batch \ {i}
      /\ UNCHANGED <<doc, tracked, snap, killq, ending, spc, early, requests>>
  BY <1>1 DEF Treat
<1>4. Passes(Job)' /\ NoFailure(Job, Told)'
  BY <1>1, <1>3, PassesKept, NoFailureKept
<1>5. /\ submitted' \in [Job -> Runs] /\ submitted'[i] = submitted[i] + 1
      /\ sge' \in [Job -> [Runs -> SGE!State]]
      /\ \A r \in Runs : r # submitted[i] + 1 => sge'[i][r] = sge[i][r]
      /\ \A j \in Job : j # i => submitted'[j] = submitted[j] /\ sge'[j] = sge[j]
  BY <1>1, <1>3, QsubRuns DEF SGEJob
<1>6. SGETyped'
  BY <1>1, <1>5 DEF SGETyped
<1>7. faults \in Nat /\ requests \in Nat /\ \A j \in Job : submitted[j] \in Nat
  BY <1>2, <1>6, SGENumbers
<1>8. ASSUME NEW j \in Job PROVE SGEJob(j)'
  <2>1. CASE j # i
    <3>1. Kept(j)
      BY <1>1, <2>1, TreatFrame
    <3>2. SGEKept(j)
      BY <1>1, <1>3, <1>5, <1>7, <2>1 DEF SGEKept
    <3>3. QED
      BY <1>2, <1>6, <3>1, <3>2, SGEKeptJob
  <2>2. CASE j = i
    <3>1. (Unrun(j) => AtLaunch(j)') /\ Want(j)' + 1 <= Want(j)
      BY <1>1, <2>2, LaunchJob
    <3>2. SGEJob(j)
      OBVIOUS
    <3>3. Paid(j)'
      <4>1. Want(j) \in Nat /\ Want(j)' \in Nat
        BY WantType
      <4>2. submitted'[j] + Want(j)' + requests <= submitted[j] + Want(j) + requests'
        BY <1>3, <1>5, <1>7, <2>2, <3>1, <4>1
      <4>3. QED
        BY <1>1, <1>2, <1>6, <1>7, <3>2, <4>2, PaidKept DEF SGEJob
    <3>4. OnlyRun(j) => OnlyRun(j)'
      <4>1. submitted'[j] = submitted[j] + 1 /\ submitted[j] \in Nat
        BY <1>5, <1>7, <2>2
      <4>2. submitted'[j] # 0 /\ (submitted'[j] = 1 => submitted[j] = 0)
        BY <4>1
      <4>3. submitted[j] = 0 => \A r \in Runs : r # 1 => sge'[j][r] = sge[j][r]
        BY <1>5, <2>2
      <4>4. QED
        BY <3>1, <4>2, <4>3 DEF OnlyRun
    <3>5. QED
      BY <1>1, <3>2, <3>3, <3>4 DEF SGEJob
  <2>3. QED
    BY <2>1, <2>2
<1>9. QED
  BY <1>2, <1>4, <1>6, <1>8

LEMMA SGERefused ==
    ASSUME SGEInv, NEW i \in Job, SGE!RunRefused(i)
    PROVE  SGEInv'
<1> USE DEF SGEInv
<1>1. /\ Treat(i) /\ refused' = refused \cup {i} /\ started' = started
      /\ UNCHANGED <<sge, submitted, key, asked, left>>
      /\ faults < MaxFaults /\ faults' = faults + 1
  BY SGEClient DEF SGE!RunRefused, SGE!Fault, SGE!cluster
<1>2. Typed(Job)'
  BY <1>1, TreatTyped
<1>3. /\ spc = "run" /\ batch' = batch \ {i}
      /\ UNCHANGED <<doc, tracked, snap, killq, ending, spc, early, requests>>
  BY <1>1 DEF Treat
<1>4. Passes(Job)' /\ NoFailure(Job, Told)'
  BY <1>1, <1>3, PassesKept, NoFailureKept
<1>5. SGETyped'
  <2>1. faults' \in 0 .. MaxFaults
    BY <1>1, Bounds DEF SGETyped
  <2>2. QED
    BY <1>1, <2>1 DEF SGETyped
<1>6. faults \in Nat /\ requests \in Nat
  BY <1>2, <1>5, SGENumbers
<1>7. ASSUME NEW j \in Job PROVE SGEJob(j)'
  <2>1. Kept(j)
    BY <1>1, TreatFrame
  <2>2. SGEKept(j)
    BY <1>1, <1>3, <1>6 DEF SGEKept
  <2>3. QED
    BY <1>2, <1>5, <2>1, <2>2, SGEKeptJob
<1>8. QED
  BY <1>2, <1>4, <1>5, <1>7

\* The exception loses what was started in this pass: it may be submitted again.
LEMMA SGERaises ==
    ASSUME SGEInv, NEW i \in Job, SGE!RunRaises(i)
    PROVE  SGEInv'
<1> USE DEF SGEInv
<1>1. /\ Abort /\ i \in batch /\ faults < MaxFaults /\ faults' = faults + 1
      /\ UNCHANGED <<key, asked>>
      /\ \/ SGE!Qsub(i) /\ left' = left \cup started \cup {i}
         \/ UNCHANGED <<sge, submitted>> /\ left' = left \cup started
  BY SGEClient DEF SGE!RunRaises, SGE!Fault, SGE!cluster
<1>2. Typed(Job)' /\ Passes(Job)'
  BY <1>1, AbortTyped, PassesEnds
<1>3. UNCHANGED <<doc, tracked, snap, killq, ending, early, requests>>
  BY <1>1 DEF Abort
<1>4. NoFailure(Job, Told)'
  BY <1>3, NoFailureKept
<1>5. /\ SGE!Qsub(i) =>
            /\ submitted' \in [Job -> Runs] /\ submitted'[i] = submitted[i] + 1
            /\ sge' \in [Job -> [Runs -> SGE!State]]
            /\ \A j \in Job : j # i => submitted'[j] = submitted[j] /\ sge'[j] = sge[j]
  BY <1>1, QsubRuns DEF SGEJob
<1>6. SGETyped'
  <2>1. faults' \in 0 .. MaxFaults
    BY <1>1, Bounds DEF SGETyped
  <2>2. left' \subseteq Job
    BY <1>1 DEF SGETyped, Typed
  <2>3. QED
    BY <1>1, <1>5, <2>1, <2>2 DEF SGETyped
<1>7. /\ faults \in Nat /\ requests \in Nat
      /\ \A j \in Job : submitted[j] \in Nat /\ submitted'[j] \in Nat
  BY <1>2, <1>6, SGENumbers
<1>8. ASSUME NEW j \in Job PROVE SGEJob(j)'
  <2>1. CASE j \notin left'
    <3>1. j \notin started /\ (j # i \/ UNCHANGED <<sge, submitted>>) /\ left \subseteq left'
      BY <1>1, <2>1
    <3>2. Kept(j)
      BY <1>1, <3>1, AbortFrame
    <3>3. submitted'[j] = submitted[j] /\ sge'[j] = sge[j]
      BY <1>1, <1>5, <3>1
    <3>4. SGEKept(j)
      BY <1>1, <1>3, <1>7, <3>1, <3>3 DEF SGEKept
    <3>5. QED
      BY <1>2, <1>6, <3>2, <3>4, SGEKeptJob
  <2>2. CASE j \in left'
    <3>1. Want(j) \in Nat /\ Want(j)' \in Nat /\ Want(j)' <= Want(j) + 1
      BY <1>1, AbortJob, WantType
    <3>2. submitted[j] + Want(j) <= 1 + requests + faults
      BY DEF SGEJob, Paid
    <3>3. submitted'[j] + Want(j)' <= submitted[j] + Want(j) + 1
      <4>1. CASE submitted'[j] = submitted[j]
        BY <1>7, <3>1, <4>1
      <4>2. CASE submitted'[j] # submitted[j]
        <5>1. j = i /\ submitted'[j] = submitted[j] + 1
          BY <1>1, <1>5, <4>2
        <5>2. Want(j)' <= Want(j)
          <6>1. ToRun(j) /\ (Asked(j)' <=> Asked(j)) /\ (Again(j)' <=> Again(j))
            BY <1>1, <1>3, <5>1 DEF ToRun, Asked, Again
          <6>2. QED
            BY <6>1 DEF Want, Number
        <5>3. QED
          BY <1>7, <3>1, <5>1, <5>2
      <4>3. QED
        BY <4>1, <4>2
    <3>4. submitted'[j] + Want(j)' <= 1 + requests + faults'
      BY <1>1, <1>7, <3>1, <3>2, <3>3
    <3>5. requests' = requests
      BY <1>3
    <3>6. QED
      BY <2>2, <3>4, <3>5 DEF SGEJob, Paid
  <2>3. QED
    BY <2>1, <2>2
<1>9. QED
  BY <1>2, <1>4, <1>6, <1>8

LEMMA SGEPublish ==
    ASSUME SGEInv, SGE!PublishRuns
    PROVE  SGEInv'
<1> USE DEF SGEInv
<1>1. /\ Published(Job, "none") /\ UNCHANGED <<sge, submitted, asked, faults, left>>
      /\ key' = [j \in Job |-> IF j \in started THEN submitted[j] ELSE key[j]]
  BY SGEClient DEF SGE!PublishRuns, SGE!cluster
<1>2. "none" \in Plain /\ "none" \in Secondary
  BY DEF Plain, Secondary
<1>3. Typed(Job)' /\ Passes(Job)'
  BY <1>1, <1>2, PublishedTyped, PassesEnds
<1>4. SGETyped'
  BY <1>1 DEF SGETyped
<1>5. UNCHANGED <<killq, ending, early, requests>>
  BY <1>1 DEF Published
<1>6. NoFailure(Job, Told)'
  <2>1. \A j \in Job : doc'[j].fails = doc[j].fails
    BY <1>1, <1>2, PublishedDoc
  <2>2. QED
    BY <1>5, <2>1, NoFailureKept
<1>7. faults \in Nat /\ requests \in Nat /\ \A j \in Job : submitted[j] \in Nat
  BY <1>3, <1>4, SGENumbers
<1>8. ASSUME NEW j \in Job PROVE SGEJob(j)'
  <2>1. CASE j \notin started
    <3>1. SGEKept(j)
      BY <1>1, <1>5, <1>7, <2>1 DEF SGEKept
    <3>2. Kept(j)
      BY <1>1, <1>2, <2>1, PublishedFrame
    <3>3. QED
      BY <1>3, <1>4, <3>1, <3>2, SGEKeptJob
  <2>2. CASE j \in started
    <3>1. (AtLaunch(j) => Tracked(j)') /\ Want(j)' <= Want(j)
      BY <1>1, <1>2, <2>2, PublishedJob
    <3>2. SGEJob(j)
      OBVIOUS
    <3>3. Paid(j)'
      <4>1. Want(j) \in Nat /\ Want(j)' \in Nat
        BY WantType
      <4>2. submitted'[j] + Want(j)' + requests <= submitted[j] + Want(j) + requests'
        BY <1>1, <1>5, <1>7, <3>1, <4>1
      <4>3. QED
        BY <1>1, <1>3, <1>4, <1>7, <3>2, <4>2, PaidKept DEF SGEJob
    <3>4. OnlyRun(j) => OnlyRun(j)'
      <4>1. key'[j] = submitted[j]
        BY <1>1, <2>2
      <4>2. ~Unrun(j) /\ ~Tracked(j)
        BY <2>2 DEF Unrun, Idle, Over, Tracked, Away
      <4>3. AtLaunch(j) => NoKill(j)'
        BY <1>5 DEF AtLaunch, NoKill
      <4>4. QED
        BY <1>1, <3>1, <4>1, <4>2, <4>3 DEF OnlyRun
    <3>5. QED
      BY <1>1, <3>2, <3>3, <3>4 DEF SGEJob
  <2>3. QED
    BY <2>1, <2>2
<1>9. QED
  BY <1>3, <1>4, <1>6, <1>8

\* A watcher takes a job whose run is over, or has just been deleted, or is lost.
LEMMA SGETakenOut ==
    ASSUME SGEInv, Typed(Job)', SGETyped', NEW i \in Job,
           tracked[i] > 0, tracked' = [tracked EXCEPT ![i] = @ - 1],
           UNCHANGED <<doc, snap, killq, passVars, early, requests, submitted, key, asked>>,
           \A j \in Job : j # i =>
               \A a \in Answers : <<j, a>> \in ending' <=> <<j, a>> \in ending,
           Again(i)' => Again(i),
           left \subseteq left', faults' >= faults,
           \A j \in Job : \A r \in Runs : sge'[j][r] \in Listed => sge[j][r] \in Listed,
           sge'[i][key[i]] \notin Listed \/ i \in left',
           NEW j \in Job
    PROVE  SGEJob(j)'
<1> USE DEF SGEInv
<1>1. requests \in Nat /\ tracked \in [Job -> Nat]
  BY SGENumbers DEF Typed
<1>2. CASE j # i
  <2>1. Kept(j)
    BY <1>1, <1>2 DEF Kept, Asked, NoKill, passVars
  <2>2. SGEKept(j)
    BY <1>1 DEF SGEKept
  <2>3. QED
    BY <2>1, <2>2, SGEKeptJob
<1>3. CASE j = i
  <2>1. Want(j)' <= Want(j)
    <3>1. (ToRun(j)' <=> ToRun(j)) /\ (Asked(j)' <=> Asked(j)) /\ (Again(j)' => Again(j))
      BY <1>3 DEF ToRun, Asked, passVars
    <3>2. QED
      BY <3>1 DEF Want, Number
  <2>2. SGEJob(j)
    OBVIOUS
  <2>3. Paid(j)'
    <3>1. Want(j) \in Nat /\ Want(j)' \in Nat /\ submitted[j] \in Nat
      BY SGENumbers, WantType
    <3>2. submitted'[j] + Want(j)' + requests <= submitted[j] + Want(j) + requests'
      BY <1>1, <2>1, <3>1
    <3>3. QED
      BY <2>2, <3>2, PaidKept DEF SGEJob
  <2>4. tracked[j] # 0
    BY <1>1, <1>3
  <2>5. ~Unrun(j) /\ ~AtLaunch(j)
    BY <2>4 DEF Unrun, Idle, Over, AtLaunch
  <2>6. j \notin left' /\ OnlyRun(j) => OnlyRun(j)'
    BY <1>3, <2>5, RunsType DEF OnlyRun
  <2>7. QED
    BY <2>2, <2>3, <2>6 DEF SGEJob
<1>4. QED
  BY <1>2, <1>3

LEMMA SGEWatch ==
    ASSUME SGEInv, NEW i \in Job, SGE!WatchAccounted(i) \/ SGE!WatchError(i)
    PROVE  SGEInv'
<1> USE DEF SGEInv
<1>1. /\ TakeOut(i, "watch") /\ doc' = doc /\ UNCHANGED <<submitted, key, asked, faults, left>>
  BY SGEClient DEF SGE!WatchAccounted, SGE!WatchError, SGE!Other, SGE!cluster
<1>2. "watch" \in Answers
  BY DEF Answers
<1>3. doc' \in [Job -> Document]
  BY <1>1 DEF Typed
<1>4. Typed(Job)'
  BY <1>1, <1>2, <1>3, TakeOutTyped
<1>5. /\ tracked[i] > 0 /\ tracked' = [tracked EXCEPT ![i] = @ - 1]
      /\ ending' = ending \cup {<<i, "watch">>}
      /\ UNCHANGED <<snap, killq, passVars, early, requests>>
  BY <1>1 DEF TakeOut, Examine
<1>6. key[i] \in Runs /\ faults \in Nat
  BY Bounds DEF SGETyped
<1>7. /\ sge' \in [Job -> [Runs -> SGE!State]]
      /\ \A j \in Job : \A r \in Runs : sge'[j][r] \in Listed => sge[j][r] \in Listed
      /\ sge'[i][key[i]] \notin Listed
  <2>1. CASE SGE!WatchAccounted(i)
    <3>1. sge' = sge /\ sge[i][key[i]] = "accounted"
      BY <2>1 DEF SGE!WatchAccounted, SGE!Other, SGE!cluster
    <3>2. "accounted" \notin Listed
      BY DEF Listed, SGE!Listed, SGE!Waiting
    <3>3. QED
      BY <3>1, <3>2 DEF SGETyped
  <2>2. CASE SGE!WatchError(i)
    <3>1. SGE!Qdel(i, key[i])
      BY <2>2 DEF SGE!WatchError
    <3>2. QED
      BY <1>6, <3>1, QdelRuns
  <2>3. QED
    BY <2>1, <2>2
<1>8. SGETyped'
  BY <1>1, <1>7 DEF SGETyped
<1>9. Passes(Job)'
  BY <1>1, <1>5, PassesKept
<1>10. NoFailure(Job, Told)'
  <2>1. \A e \in ending' : e \in ending \/ e[2] \in Told
    BY <1>5 DEF Told
  <2>2. QED
    BY <1>1, <2>1, NoFailureKept
<1>11. \A j \in Job : j # i => \A a \in Answers : <<j, a>> \in ending' <=> <<j, a>> \in ending
  BY <1>5
<1>12. ASSUME NEW j \in Job PROVE SGEJob(j)'
  <2>1. /\ UNCHANGED <<doc, snap, killq, passVars, early, requests, submitted, key, asked>>
        /\ left \subseteq left' /\ faults' >= faults
    BY <1>1, <1>5, <1>6
  <2>2. Again(i)' => Again(i)
    BY <1>5 DEF Again
  <2>3. QED
    BY <1>4, <1>5, <1>7, <1>8, <1>11, <2>1, <2>2, SGETakenOut
<1>13. QED
  BY <1>4, <1>8, <1>9, <1>10, <1>12

LEMMA SGEWatchRaises ==
    ASSUME SGEInv, NEW i \in Job, SGE!WatchRaises(i)
    PROVE  SGEInv'
<1> USE DEF SGEInv
<1>1. /\ Examine(i) /\ faults < MaxFaults /\ faults' = faults + 1
      /\ tracked' = [tracked EXCEPT ![i] = @ - 1]
      /\ left' = left \cup {i}
      /\ UNCHANGED <<doc, snap, killq, ending, passVars, early, requests, sge, submitted, key, asked>>
  BY SGEClient DEF SGE!WatchRaises, SGE!Fault, SGE!cluster, SGE!passVars, passVars
<1>2. tracked[i] > 0
  BY <1>1 DEF Examine
<1>3. Typed(Job)'
  <2>1. tracked[i] - 1 \in Nat /\ tracked \in [Job -> Nat]
    BY <1>2 DEF Typed
  <2>2. tracked' \in [Job -> Nat]
    BY <1>1, <2>1
  <2>3. QED
    BY <1>1, <2>2 DEF Typed, passVars
<1>4. SGETyped'
  <2>1. faults' \in 0 .. MaxFaults
    BY <1>1, Bounds DEF SGETyped
  <2>2. QED
    BY <1>1, <2>1 DEF SGETyped
<1>5. Passes(Job)' /\ NoFailure(Job, Told)'
  BY <1>1, PassesKept, NoFailureKept
<1>6. faults' >= faults
  BY <1>1, Bounds DEF SGETyped
<1>7. \A j \in Job : SGEJob(j)'
  <2>1. Again(i)' => Again(i)
    BY <1>1 DEF Again
  <2>2. QED
    BY <1>1, <1>2, <1>3, <1>4, <1>6, <2>1, SGETakenOut
<1>8. QED
  BY <1>3, <1>4, <1>5, <1>7

LEMMA SGEDrop ==
    ASSUME SGEInv, NEW i \in Job, DropUnknown(i), SGE!Other
    PROVE  SGEInv'
<1> USE DEF SGEInv
<1>1. /\ UNCHANGED <<doc, snap, killq, ending, passVars, early, requests>>
      /\ UNCHANGED <<sge, submitted, key, asked, faults, left>>
  BY DEF DropUnknown, SGE!Other, SGE!cluster
<1>2. Typed(Job)'
  BY DropTyped
<1>3. SGETyped' /\ Passes(Job)' /\ NoFailure(Job, Told)'
  BY <1>1, PassesKept, NoFailureKept DEF SGETyped
<1>4. ASSUME NEW j \in Job PROVE SGEJob(j)'
  <2>1. CASE j # i
    BY <1>1, <1>2, <1>3, <2>1, DropFrame, SGEFrame
  <2>2. CASE j = i
    <3>1. ~Unrun(j) /\ ~AtLaunch(j) /\ ~Tracked(j) /\ Want(j)' = Want(j)
      BY <2>2, DropJob
    <3>2. SGEJob(j)
      OBVIOUS
    <3>3. QED
      BY <1>1, <3>1, <3>2 DEF SGEJob, Paid, OnlyRun
  <2>3. QED
    BY <2>1, <2>2
<1>5. QED
  BY <1>2, <1>3, <1>4

LEMMA SGEKill ==
    ASSUME SGEInv, NEW k \in killq, SGE!KillRun(k)
    PROVE  SGEInv'
<1> USE DEF SGEInv
<1> DEFINE i == k[1]
<1>1. /\ KillDone(k) /\ UNCHANGED <<submitted, key, asked>>
      /\ \/ SGE!Qdel(i, asked[i]) /\ UNCHANGED <<faults, left>>
         \/ faults < MaxFaults /\ faults' = faults + 1 /\ left' = left \cup {i} /\ sge' = sge
  BY SGEClient DEF SGE!KillRun, SGE!Fault
<1>2. i \in Job /\ asked[i] \in Runs
  BY DEF Typed, SGETyped
<1>3. Typed(Job)'
  BY <1>1, KillTyped
<1>4. /\ ending' = ending \cup {<<i, "kill">>}
      /\ UNCHANGED <<doc, tracked, snap, passVars, early, requests>>
  BY <1>1 DEF KillDone
<1>5. /\ sge' \in [Job -> [Runs -> SGE!State]]
      /\ \A j \in Job : \A r \in Runs : sge'[j][r] \in Listed => sge[j][r] \in Listed
      /\ sge'[i][asked[i]] \notin Listed \/ i \in left'
  <2>1. CASE SGE!Qdel(i, asked[i])
    BY <1>2, <2>1, QdelRuns
  <2>2. CASE left' = left \cup {i} /\ sge' = sge
    BY <2>2 DEF SGETyped
  <2>3. QED
    BY <1>1, <2>1, <2>2
<1>6. left \subseteq left' /\ left' \subseteq Job
  BY <1>1, <1>2 DEF SGETyped
<1>7. faults' \in 0 .. MaxFaults /\ faults' >= faults
  BY <1>1, Bounds DEF SGETyped
<1>8. SGETyped'
  BY <1>1, <1>5, <1>6, <1>7 DEF SGETyped
<1>9. Passes(Job)'
  BY <1>4, PassesKept
<1>10. NoFailure(Job, Told)'
  <2>1. \A e \in ending' : e \in ending \/ e[2] \in Told
    BY <1>4 DEF Told
  <2>2. QED
    BY <1>4, <2>1, NoFailureKept
<1>11. requests \in Nat
  BY <1>3, <1>8, SGENumbers
<1>12. ASSUME NEW j \in Job PROVE SGEJob(j)'
  <2>1. CASE j # i
    <3>1. Kept(j)
      BY <1>1, <2>1, KillFrame
    <3>2. SGEKept(j)
      BY <1>1, <1>4, <1>5, <1>6, <1>7, <1>11 DEF SGEKept
    <3>3. QED
      BY <1>3, <1>8, <3>1, <3>2, SGEKeptJob
  <2>2. CASE j = i
    <3>1. ~NoKill(j) /\ Want(j)' = Want(j)
      BY <1>1, <2>2, KillJob
    <3>2. SGEJob(j)
      OBVIOUS
    <3>3. Paid(j)'
      <4>1. Want(j) \in Nat /\ submitted[j] \in Nat
        BY <1>3, <1>8, SGENumbers, WantType
      <4>2. submitted'[j] + Want(j)' + requests <= submitted[j] + Want(j) + requests'
        BY <1>1, <1>4, <1>11, <3>1, <4>1
      <4>3. QED
        BY <1>3, <1>6, <1>7, <1>8, <3>2, <4>2, PaidKept DEF SGEJob
    <3>4. j \notin left' /\ OnlyRun(j) => OnlyRun(j)'
      <4>1. ~Unrun(j) /\ ~AtLaunch(j)
        BY <3>1 DEF Unrun, AtLaunch
      <4>2. QED
        BY <1>1, <1>5, <2>2, <3>1, <4>1, RunsType DEF OnlyRun
    <3>5. QED
      BY <1>6, <3>2, <3>3, <3>4 DEF SGEJob
  <2>3. QED
    BY <2>1, <2>2
<1>13. QED
  BY <1>3, <1>8, <1>9, <1>10, <1>12

LEMMA SGEFinish ==
    ASSUME SGEInv, NEW e \in ending, Finish(e), SGE!Other
    PROVE  SGEInv'
<1> USE DEF SGEInv
<1>1. /\ UNCHANGED <<tracked, killq, passVars, early, requests>>
      /\ UNCHANGED <<sge, submitted, key, asked, faults, left>>
  BY DEF Finish, SGE!Other, SGE!cluster
<1>2. Typed(Job)' /\ NoFailure(Job, Told)' /\ e[1] \in Job
  <2>1. Told \in SUBSET Decided
    BY DEF Told, Decided
  <2>2. QED
    BY <2>1, FinishTyped, NoFailureFinish DEF Typed
<1>3. Passes(Job)'
  <2>1. \A j \in Job : doc[j].status # "new" => doc'[j].status # "new"
    BY FinishDoc
  <2>2. QED
    BY <1>1, <2>1, PassesKept
<1>4. SGETyped'
  BY <1>1 DEF SGETyped
<1>5. ASSUME NEW j \in Job PROVE SGEJob(j)'
  <2>1. CASE j # e[1]
    BY <1>1, <1>2, <1>4, <2>1, FinishFrame, SGEFrame
  <2>2. CASE j = e[1]
    <3>1. ~Unrun(j) /\ ~AtLaunch(j) /\ ~Tracked(j) /\ Want(j)' <= Want(j)
      <4>1. ~Again(j) /\ (Requeued(e) => e[2] = "kill")
        <5>1. \A x \in ending : x[2] # "again"
          BY DEF NoFailure, Told
        <5>2. Told \in SUBSET Decided
          BY DEF Told, Decided
        <5>3. Requeued(e) => e[2] \in {"kill", "again"}
          BY <5>2, NoFailureRequeued
        <5>4. ~Again(j)
          BY <5>1 DEF Again
        <5>5. QED
          BY <5>1, <5>3, <5>4
      <4>2. QED
        BY <2>2, <4>1, FinishJob
    <3>2. SGEJob(j)
      OBVIOUS
    <3>3. Paid(j)'
      <4>1. /\ Want(j) \in Nat /\ Want(j)' \in Nat /\ submitted[j] \in Nat /\ requests \in Nat
            /\ faults \in Nat
        BY <1>2, <1>4, SGENumbers, WantType
      <4>2. submitted'[j] + Want(j)' + requests <= submitted[j] + Want(j) + requests'
        BY <1>1, <3>1, <4>1
      <4>3. QED
        BY <1>1, <1>2, <1>4, <3>2, <4>1, <4>2, PaidKept DEF SGEJob
    <3>4. OnlyRun(j) => OnlyRun(j)'
      BY <1>1, <3>1 DEF OnlyRun
    <3>5. QED
      BY <1>1, <3>2, <3>3, <3>4 DEF SGEJob
  <2>3. QED
    BY <2>1, <2>2
<1>6. QED
  BY <1>2, <1>3, <1>4, <1>5

\* The copy of a pending job is killed: what run_tasks has of it is left behind.
LEMMA SGEPending ==
    ASSUME SGEInv, NEW i \in Job, SGE!EndPending(i)
    PROVE  SGEInv'
<1> USE DEF SGEInv
<1>1. /\ KillPending(i) /\ left' = IF UnderWay(i) THEN left \cup {i} ELSE left
      /\ UNCHANGED <<sge, submitted, key, asked, faults>>
  BY SGEClient DEF SGE!EndPending, SGE!cluster
<1>2. /\ Typed(Job)'
      /\ \A j \in Job : doc'[j].fails = doc[j].fails
                        /\ (doc[j].status # "new" => doc'[j].status # "new")
      /\ \A j \in Job : j # i => Kept(j)
      /\ UNCHANGED <<tracked, killq, ending, passVars, requests>>
  BY <1>1, PendingFrame
<1>3. left \subseteq left' /\ left' \subseteq Job
  BY <1>1 DEF SGETyped
<1>4. SGETyped'
  BY <1>1, <1>3 DEF SGETyped
<1>5. Passes(Job)' /\ NoFailure(Job, Told)'
  BY <1>2, PassesKept, NoFailureKept
<1>6. ASSUME NEW j \in Job PROVE SGEJob(j)'
  <2>1. CASE j # i
    BY <1>1, <1>2, <1>3, <1>4, <2>1, SGEFrame
  <2>2. CASE j = i
    <3>1. ~Again(j)
      BY DEF NoFailure, Told, Again
    <3>2. /\ Want(j)' <= Want(j)
          /\ ~UnderWay(j) => ~AtLaunch(j) /\ ~Tracked(j) /\ (Unrun(j) => Unrun(j)')
      BY <1>1, <2>2, <3>1, PendingJob
    <3>3. SGEJob(j)
      OBVIOUS
    <3>4. Paid(j)'
      <4>1. /\ Want(j) \in Nat /\ Want(j)' \in Nat /\ submitted[j] \in Nat /\ requests \in Nat
            /\ faults \in Nat
        BY <1>2, <1>4, SGENumbers, WantType
      <4>2. submitted'[j] + Want(j)' + requests <= submitted[j] + Want(j) + requests'
        BY <1>1, <1>2, <3>2, <4>1
      <4>3. QED
        BY <1>1, <1>2, <1>3, <1>4, <3>3, <4>1, <4>2, PaidKept DEF SGEJob
    <3>5. j \notin left' /\ OnlyRun(j) => OnlyRun(j)'
      BY <1>1, <2>2, <3>2 DEF OnlyRun
    <3>6. QED
      BY <1>3, <3>3, <3>4, <3>5 DEF SGEJob
  <2>3. QED
    BY <2>1, <2>2
<1>7. QED
  BY <1>2, <1>4, <1>5, <1>6

LEMMA SGEEngine ==
    ASSUME SGEInv, NEW i \in Job, NEW q \in Runs, SGE!Engine(i, q)
    PROVE  SGEInv'
<1> USE DEF SGEInv
<1>1. UNCHANGED <<doc, tracked, snap, killq, ending, passVars, early, requests>>
      /\ UNCHANGED <<submitted, key, asked, faults, left>>
  BY DEF SGE!Engine, SGE!client, SGE!passVars, passVars
<1>2. /\ sge' \in [Job -> [Runs -> SGE!State]]
      /\ \A j \in Job : \A r \in Runs : sge'[j][r] \in Listed => sge[j][r] \in Listed
  <2>1. PICK s \in SGE!State : SGE!Becomes(i, q, s) /\ sge[i][q] \in Listed \cup {"ended"}
                               /\ (s \in Listed => sge[i][q] \in Listed)
    BY DEF SGE!Engine, SGE!State, Listed, SGE!Listed, SGE!Waiting
  <2>2. QED
    BY <2>1, BecomesRuns
<1>3. Typed(Job)' /\ SGETyped'
  BY <1>1, <1>2 DEF Typed, SGETyped, passVars
<1>4. Passes(Job)' /\ NoFailure(Job, Told)'
  BY <1>1, PassesKept, NoFailureKept
<1>5. requests \in Nat /\ faults \in Nat
  BY <1>3, SGENumbers
<1>6. ASSUME NEW j \in Job PROVE SGEJob(j)'
  <2>1. Kept(j)
    BY <1>1, SecondaryFrame DEF Asked
  <2>2. SGEKept(j)
    BY <1>1, <1>2, <1>5 DEF SGEKept
  <2>3. QED
    BY <1>3, <2>1, <2>2, SGEKeptJob
<1>7. QED
  BY <1>3, <1>4, <1>6

LEMMA SGEStep ==
    ASSUME SGEInv, SGE!Next
    PROVE  SGEInv'
<1>1. ASSUME NEW i \in Job, SGE!Submit(i), SGE!Other PROVE SGEInv'
  BY <1>1, SGEClient, SGESubmit
<1>2. ASSUME NEW i \in Job, SGE!RequestRun(i) PROVE SGEInv'
  BY <1>2, SGERequest
<1>3. CASE SGE!Scheduler
  <2>1. CASE SGE!BeginPass /\ SGE!Other
    BY <2>1, SGEBegin
  <2>2. ASSUME NEW i \in Job, SGE!RunTask(i) \/ SGE!RunRefused(i) \/ SGE!RunRaises(i)
        PROVE  SGEInv'
    BY <2>2, SGERun, SGERefused, SGERaises
  <2>3. CASE SGE!PublishRuns
    BY <2>3, SGEPublish
  <2>4. QED
    BY <1>3, <2>1, <2>2, <2>3 DEF SGE!Scheduler
<1>4. ASSUME NEW i \in Job, SGE!Watch(i) PROVE SGEInv'
  BY <1>4, SGEClient, SGEWatch, SGEWatchRaises, SGEDrop DEF SGE!Watch
<1>5. ASSUME NEW k \in killq, SGE!Kill(k) PROVE SGEInv'
  BY <1>5, SGEKill DEF SGE!Kill
<1>6. ASSUME NEW e \in ending, SGE!End(e) PROVE SGEInv'
  BY <1>6, SGEClient, SGEFinish DEF SGE!End
<1>7. ASSUME NEW i \in Job, NEW r \in SGE!Run, SGE!Engine(i, r) PROVE SGEInv'
  BY <1>7, SGEEngine DEF Runs
<1>8. ASSUME NEW i \in Job, SGE!EndPending(i) PROVE SGEInv'
  BY <1>8, SGEPending
<1>9. QED
  BY <1>1, <1>2, <1>3, <1>4, <1>5, <1>6, <1>7, <1>8 DEF SGE!Next

\* What the invariant says of a calm job.
LEMMA SGEFollows ==
    ASSUME SGEInv
    PROVE  /\ SGE!TypeOK
           /\ \A j \in Job : (SGE!Live(j) /\ SGE!Calm(j)) =>
                                doc[j].status # "over" /\ SGE!Followed(j)
<1> USE DEF SGEInv
<1>1. SGE!TypeOK
  BY DEF SGE!TypeOK, SGE!ClientTypeOK, SGE!Secondary, Typed, SGETyped, Runs, Document, Status,
     Answers, Secondary
<1>2. ASSUME NEW j \in Job, SGE!Live(j), SGE!Calm(j)
      PROVE  doc[j].status # "over" /\ SGE!Followed(j)
  <2>1. PICK r \in Runs : sge[j][r] \in Listed
    BY <1>2 DEF SGE!Live, Runs, Listed
  <2>2. j \notin left /\ (submitted[j] <= 1 \/ requests = 0)
    BY <1>2 DEF SGE!Calm
  <2>3. submitted[j] + Want(j) <= 1 + requests /\ OnlyRun(j)
    BY <2>2 DEF SGEJob, Paid
  <2>4. submitted[j] \in Nat /\ Want(j) \in Nat /\ requests \in Nat
    BY RunsType, WantType, Bounds DEF SGETyped, Typed
  <2>5. submitted[j] = 0 \/ submitted[j] = 1
    BY <2>2, <2>3, <2>4
  <2>6. submitted[j] = 1 /\ r = 1
    BY <2>1, <2>3, <2>5 DEF OnlyRun
  <2>7. AtLaunch(j) \/ Tracked(j)
    BY <2>1, <2>3, <2>6 DEF OnlyRun
  <2>8. tracked[j] = 1 => tracked[j] > 0
    OBVIOUS
  <2>9. QED
    BY <2>7, <2>8 DEF AtLaunch, Tracked, SGE!Followed
<1>3. QED
  BY <1>1, <1>2

-----------------------------------------------------------------------------
(* Swarm: the plugin does to the client what ExecutorClient says.          *)

LEMMA SwarmClient ==
    /\ \A j : Swarm!Submit(j) <=> Submit(j)
    /\ \A j : Swarm!Request(j) <=> Request(j)
    /\ Swarm!BeginPass => Begun(Job)
    /\ \A j : Swarm!Treat(j) <=> Treat(j)
    /\ Swarm!Abort <=> Abort
    /\ \A s : Swarm!Publish(s) <=> Published(Job, s)
    /\ \A j : Swarm!DropUnknown(j) <=> DropUnknown(j)
    /\ \A j, a : Swarm!TakeOut(j, a) <=> TakeOut(j, a)
    /\ \A k : Swarm!KillDone(k) <=> KillDone(k)
    /\ \A k : Swarm!KillFails(k) <=> KillFails(k)
    /\ \A e : Swarm!Finish(e) <=> Finish(e)
    /\ \A j : Swarm!KillPending(j) <=> KillPending(j)
    /\ \A j : Swarm!UnderWay(j) <=> UnderWay(j)
    /\ \A e : Swarm!Requeued(e) <=> Requeued(e)
    /\ \A j : Swarm!Stored(j) <=> Stored(j)
<1>1. /\ \A j : Swarm!Submit(j) <=> Submit(j)
      /\ \A j : Swarm!Request(j) <=> Request(j)
      /\ \A j : Swarm!Treat(j) <=> Treat(j)
      /\ Swarm!Abort <=> Abort
      /\ \A j : Swarm!DropUnknown(j) <=> DropUnknown(j)
  BY Zenon DEF Swarm!Submit, Submit, Swarm!Request, Request, Swarm!Treat, Treat, Swarm!Abort, Abort,
     Swarm!DropUnknown, DropUnknown, Swarm!Stored, Stored, Swarm!passVars, passVars
<1>2. Swarm!BeginPass => Begun(Job)
  BY DEF Swarm!BeginPass, Begun, Swarm!Pending
<1>3. \A s : Swarm!Publish(s) <=> Published(Job, s)
  BY Zenon DEF Swarm!Publish, Published, Swarm!Stored, Stored
<1>4. /\ \A j, a : Swarm!TakeOut(j, a) <=> TakeOut(j, a)
      /\ \A k : Swarm!KillDone(k) <=> KillDone(k)
      /\ \A k : Swarm!KillFails(k) <=> KillFails(k)
      /\ \A j : Swarm!KillPending(j) <=> KillPending(j)
  <2>1. Swarm!Busy <=> Busy
    BY DEF Swarm!Busy, Busy, Swarm!Cardinality, Cardinality
  <2>2. /\ \A j, a : Swarm!TakeOut(j, a) <=> TakeOut(j, a)
        /\ \A k : Swarm!KillDone(k) <=> KillDone(k)
    BY Zenon, <2>1 DEF Swarm!Examine, Examine, Swarm!TakeOut, TakeOut, Swarm!KillDone, KillDone,
       Swarm!passVars, passVars
  <2>3. /\ \A k : Swarm!KillFails(k) <=> KillFails(k)
        /\ \A j : Swarm!KillPending(j) <=> KillPending(j)
    BY Zenon, <2>1 DEF Swarm!KillFails, KillFails, Swarm!KillPending, KillPending, Swarm!Stored, Stored,
       Swarm!passVars, passVars
  <2>4. QED
    BY <2>2, <2>3
<1>5. /\ \A e : Swarm!Finish(e) <=> Finish(e)
      /\ \A e : Swarm!Requeued(e) <=> Requeued(e)
      /\ \A j : Swarm!Stored(j) <=> Stored(j)
      /\ \A j : Swarm!UnderWay(j) <=> UnderWay(j)
  BY Zenon DEF Swarm!UnderWay, UnderWay, Swarm!Finish, Finish, Swarm!Stored, Stored, Swarm!Requeued, Requeued,
     Swarm!passVars, passVars
<1>6. QED
  BY <1>1, <1>2, <1>3, <1>4, <1>5

-----------------------------------------------------------------------------
(* Swarm: the invariant.                                                   *)

Port == Swarm!Port
Boxes == [state : {"none", "running", "paused", "exited"}, port : 0 .. PortRange]

PortsTyped ==
    /\ orphans \subseteq Port
    /\ pool \in Seq(Port) /\ stray \subseteq Port
    /\ ports \in [Job -> Seq(Port)] /\ taken \in [Job -> Seq(Port)]
    /\ fills \in 0 .. 2 /\ kept \subseteq Job

SwarmTyped ==
    /\ box \in [Job -> Boxes]
    /\ pauseq \subseteq Job \X Swarm!PauseRequest
    /\ pauses \in 0 .. MaxPauses /\ faults \in 0 .. MaxFaults
    /\ runs \in [Job -> 0 .. 2] /\ left \subseteq Job

\* A run is paid for by the first one or by a request; the only run of a job is on its
\* way to the running list or in it.
SwarmRun(j) ==
    /\ runs[j] + Want(j) <= 1 + requests
    /\ runs[j] = 0 => Unrun(j) /\ ~Swarm!Live(j)
    /\ runs[j] = 1 /\ Swarm!Live(j) => AtLaunch(j) \/ Tracked(j)

SwarmInv ==
    /\ Typed(Job) /\ SwarmTyped /\ PortsTyped /\ Passes(Job) /\ NoFailure(Job, Decided)
    /\ \A j \in Job : j \notin left => SwarmRun(j)

\* A step of the plugin that is not about a job.
SwarmKept(j) ==
    /\ runs'[j] = runs[j]
    /\ Swarm!Live(j)' => Swarm!Live(j)
    /\ requests' >= requests

LEMMA SwarmNumbers ==
    ASSUME Typed(Job), Typed(Job)', SwarmTyped, SwarmTyped'
    PROVE  /\ requests \in Nat /\ requests' \in Nat
           /\ \A j \in Job : runs[j] \in 0 .. 2 /\ runs'[j] \in 0 .. 2
BY Bounds DEF SwarmTyped, Typed

LEMMA SwarmKeptRun ==
    ASSUME Typed(Job), Typed(Job)', SwarmTyped, SwarmTyped',
           NEW j \in Job, SwarmRun(j), Kept(j), SwarmKept(j)
    PROVE  SwarmRun(j)'
<1>1. /\ requests \in Nat /\ requests' \in Nat
      /\ runs[j] \in Nat /\ Want(j) \in Nat /\ Want(j)' \in Nat
  BY SwarmNumbers, WantType
<1>2. Want(j)' <= Want(j)
  BY KeptWant
<1>3. runs'[j] + Want(j)' <= 1 + requests'
  BY <1>1, <1>2 DEF SwarmRun, SwarmKept
<1>4. (AtLaunch(j) => AtLaunch(j)') /\ (Tracked(j) => Tracked(j)') /\ (Unrun(j) => Unrun(j)')
  BY KeptPhases
<1>5. QED
  BY <1>3, <1>4 DEF SwarmRun, SwarmKept

\* The containers of the other jobs.
LEMMA BoxRuns ==
    ASSUME SwarmTyped, NEW j \in Job, NEW b \in Boxes, box' = [box EXCEPT ![j] = b]
    PROVE  /\ box' \in [Job -> Boxes] /\ box'[j] = b
           /\ \A i \in Job : i # j => box'[i] = box[i]
BY DEF SwarmTyped

LEMMA MapPortTyped ==
    ASSUME PortsTyped, NEW j \in Job, Swarm!MapPort(j)
    PROVE  /\ pool' \in Seq(Port) /\ taken' \in [Job -> Seq(Port)] /\ fills' \in 0 .. 2
           /\ Swarm!Mapped(j) \in 0 .. PortRange
<1>1. /\ pool \in Seq(Port) /\ ports[j] \in Seq(Port) /\ taken \in [Job -> Seq(Port)]
      /\ fills \in 0 .. 2
  BY DEF PortsTyped
<1>2. Port = 1 .. PortRange /\ PortRange \in Nat
  BY Bounds DEF Port, Swarm!Port
<1>3. CASE j \in Interactive
  <2>1. Swarm!Filled \in Seq(Port) /\ Swarm!Filled # <<>>
    <3>1. CASE pool # <<>>
      BY <1>1, <3>1 DEF Swarm!Filled
    <3>2. CASE pool = <<>>
      <4>1. Swarm!Filled = [p \in 1 .. PortRange |-> p]
        BY <3>2 DEF Swarm!Filled, Swarm!Port
      <4>2. PortRange > 0
        BY <1>3, Bounds
      <4>3. QED
        BY <1>2, <4>1, <4>2
    <3>3. QED
      BY <3>1, <3>2
  <2>2. Head(Swarm!Filled) \in Port /\ Tail(Swarm!Filled) \in Seq(Port)
    BY <2>1
  <2>3. /\ pool' = Tail(Swarm!Filled)
        /\ taken' = [taken EXCEPT ![j] = Append(ports[j], Head(Swarm!Filled))]
        /\ fills' = IF pool = <<>> /\ fills < 2 THEN fills + 1 ELSE fills
    BY <1>3 DEF Swarm!MapPort
  <2>4. taken' \in [Job -> Seq(Port)]
    BY <1>1, <2>2, <2>3
  <2>5. fills' \in 0 .. 2
    BY <1>1, <2>3
  <2>6. Swarm!Mapped(j) \in 0 .. PortRange
    BY <1>2, <1>3, <2>2 DEF Swarm!Mapped
  <2>7. QED
    BY <2>2, <2>3, <2>4, <2>5, <2>6
<1>4. CASE j \notin Interactive
  <2>1. pool' = pool /\ fills' = fills /\ taken' = [taken EXCEPT ![j] = ports[j]]
    BY <1>4 DEF Swarm!MapPort
  <2>2. Swarm!Mapped(j) = 0
    BY <1>4 DEF Swarm!Mapped
  <2>3. QED
    BY <1>1, <1>2, <2>1, <2>2
<1>5. QED
  BY <1>3, <1>4

-----------------------------------------------------------------------------
(* Swarm: the steps.                                                       *)

LEMMA SwarmOther ==
    ASSUME Swarm!Other
    PROVE  UNCHANGED <<box, orphans, pool, ports, taken, stray, pauseq, pauses, faults,
                       fills, runs, left, kept>>
BY DEF Swarm!Other, Swarm!portVars, Swarm!bounds, Swarm!history

\* A step that leaves every job where it is, and the runs alone.
LEMMA SwarmFrame ==
    ASSUME SwarmInv, Typed(Job)', SwarmTyped', NEW j \in Job, Kept(j),
           runs'[j] = runs[j], Swarm!Live(j)' => Swarm!Live(j), left \subseteq left',
           requests' = requests
    PROVE  j \notin left' => SwarmRun(j)'
<1>1. requests \in Nat
  BY SwarmNumbers DEF SwarmInv
<1>2. SwarmKept(j)
  BY <1>1 DEF SwarmKept
<1>3. QED
  BY <1>2, SwarmKeptRun DEF SwarmInv

LEMMA SwarmSubmit ==
    ASSUME SwarmInv, NEW i \in Job, Submit(i), Swarm!Other
    PROVE  SwarmInv'
<1> USE DEF SwarmInv
<1>1. Typed(Job)'
  BY UsersTyped
<1>2. /\ UNCHANGED <<box, orphans, pool, ports, taken, stray, pauseq, pauses, faults,
                     fills, runs, left, kept>>
      /\ UNCHANGED <<ending, passVars, early, requests>>
  BY SwarmOther DEF Submit
<1>3. SwarmTyped' /\ PortsTyped'
  BY <1>2 DEF SwarmTyped, PortsTyped
<1>4. \A j \in Job : doc'[j].fails = doc[j].fails
                     /\ (doc[j].status # "new" => doc'[j].status # "new")
  BY DEF Submit, Typed, Document
<1>5. Passes(Job)' /\ NoFailure(Job, Decided)'
  BY <1>2, <1>4, PassesKept, NoFailureKept
<1>6. \A j \in Job : Swarm!Live(j)' <=> Swarm!Live(j)
  BY <1>2 DEF Swarm!Live
<1>7. ASSUME NEW j \in Job, j \notin left' PROVE SwarmRun(j)'
  <2>1. CASE j # i
    BY <1>1, <1>2, <1>3, <1>6, <1>7, <2>1, UsersFrame, SwarmFrame
  <2>2. CASE j = i
    <3>1. doc[j].status = "new" /\ (Unrun(j) => Unrun(j)') /\ Want(j)' = Want(j)
      BY <2>2, SubmitJob
    <3>2. ~AtLaunch(j) /\ ~Tracked(j)
      BY <3>1 DEF AtLaunch, Tracked
    <3>3. SwarmRun(j)
      BY <1>2, <1>7
    <3>4. QED
      BY <1>2, <1>6, <3>1, <3>2, <3>3 DEF SwarmRun
  <2>3. QED
    BY <2>1, <2>2
<1>8. QED
  BY <1>1, <1>3, <1>5, <1>7

LEMMA SwarmRequest ==
    ASSUME SwarmInv, NEW i \in Job, Request(i), Swarm!Other
    PROVE  SwarmInv'
<1> USE DEF SwarmInv
<1>1. Typed(Job)'
  BY UsersTyped
<1>2. /\ UNCHANGED <<box, orphans, pool, ports, taken, stray, pauseq, pauses, faults,
                     fills, runs, left, kept>>
      /\ UNCHANGED <<ending, passVars>> /\ requests' = requests + 1
  BY SwarmOther DEF Request
<1>3. SwarmTyped' /\ PortsTyped'
  BY <1>2 DEF SwarmTyped, PortsTyped
<1>4. \A j \in Job : doc'[j].fails = doc[j].fails /\ doc'[j].status = doc[j].status
  <2>1. \E s \in Secondary : doc' = [doc EXCEPT ![i].secondary = s]
    BY DEF Request, Secondary
  <2>2. QED
    BY <2>1, SecondaryTyped
<1>5. Passes(Job)' /\ NoFailure(Job, Decided)'
  BY <1>2, <1>4, PassesKept, NoFailureKept
<1>6. \A j \in Job : Swarm!Live(j)' <=> Swarm!Live(j)
  BY <1>2 DEF Swarm!Live
<1>7. requests \in Nat /\ \A j \in Job : runs[j] \in 0 .. 2
  BY <1>1, <1>3, SwarmNumbers
<1>8. ASSUME NEW j \in Job, j \notin left' PROVE SwarmRun(j)'
  <2>1. SwarmRun(j)
    BY <1>2, <1>8
  <2>2. CASE j # i
    <3>1. SwarmKept(j)
      BY <1>2, <1>6, <1>7 DEF SwarmKept
    <3>2. QED
      BY <1>1, <1>3, <2>1, <2>2, <3>1, UsersFrame, SwarmKeptRun
  <2>3. CASE j = i
    <3>1. /\ Want(j)' <= Want(j) + 1
          /\ (Unrun(j) => Unrun(j)') /\ (AtLaunch(j) => AtLaunch(j)')
          /\ (Tracked(j) => Tracked(j)')
      BY <2>3, RequestJob
    <3>3. Want(j) \in Nat /\ Want(j)' \in Nat /\ runs[j] \in Nat
      BY <1>7, WantType
    <3>4. runs'[j] + Want(j)' <= 1 + requests'
      BY <1>2, <1>7, <2>1, <3>1, <3>3 DEF SwarmRun
    <3>5. QED
      BY <1>2, <1>6, <2>1, <3>1, <3>4 DEF SwarmRun
  <2>4. QED
    BY <2>2, <2>3
<1>9. QED
  BY <1>1, <1>3, <1>5, <1>8

\* A request to suspend or resume, and its answer: the secondary status changes, and
\* the key may be written again.
LEMMA SwarmSecondary ==
    ASSUME SwarmInv, PortsTyped', box' \in [Job -> Boxes],
           \A j \in Job : Swarm!Live(j)' => Swarm!Live(j),
           pauseq' \subseteq Job \X Swarm!PauseRequest, pauses' \in 0 .. MaxPauses,
           NEW i \in Job, NEW s \in Plain,
           doc' = doc \/ doc' = [doc EXCEPT ![i].secondary = s],
           snap' = snap \/ snap' = snap \cup {i},
           UNCHANGED <<tracked, killq, ending, passVars, early, requests, faults, runs, left>>
    PROVE  SwarmInv'
<1> USE DEF SwarmInv
<1>1. /\ doc' \in [Job -> Document]
      /\ \A j \in Job : /\ doc'[j].status = doc[j].status /\ doc'[j].fails = doc[j].fails
                        /\ Kept(j)
  BY SecondaryKept
<1>2. Typed(Job)'
  BY <1>1 DEF Typed, passVars
<1>3. SwarmTyped'
  BY DEF SwarmTyped
<1>4. Passes(Job)' /\ NoFailure(Job, Decided)'
  BY <1>1, PassesKept, NoFailureKept
<1>5. ASSUME NEW j \in Job, j \notin left' PROVE SwarmRun(j)'
  BY <1>1, <1>2, <1>3, <1>5, SwarmFrame
<1>6. QED
  BY <1>2, <1>3, <1>4, <1>5

LEMMA SwarmRequestPause ==
    ASSUME SwarmInv, NEW i \in Job, Swarm!RequestPause(i)
    PROVE  SwarmInv'
<1> USE DEF SwarmInv
<1>1. /\ UNCHANGED <<tracked, snap, killq, ending, passVars, early, requests, box, orphans, pool, ports,
                     taken, stray, faults, fills, runs, left, kept>>
      /\ pauses < MaxPauses /\ pauses' = pauses + 1
  BY DEF Swarm!RequestPause, Swarm!portVars, Swarm!history, Swarm!passVars, passVars
<1>2. \E q \in Swarm!PauseRequest : pauseq' = pauseq \cup {<<i, q>>}
  BY DEF Swarm!RequestPause
<1>3. \E s \in Plain : doc' = [doc EXCEPT ![i].secondary = s]
  <2>1. "suspend requested" \in Plain /\ "resume requested" \in Plain
    BY DEF Plain, Secondary
  <2>2. \/ doc' = [doc EXCEPT ![i].secondary = "suspend requested"]
        \/ doc' = [doc EXCEPT ![i].secondary = "resume requested"]
    BY DEF Swarm!RequestPause
  <2>3. QED
    BY <2>1, <2>2
<1>4. pauseq' \subseteq Job \X Swarm!PauseRequest
  BY <1>2 DEF SwarmTyped
<1>5. pauses' \in 0 .. MaxPauses
  BY <1>1, Bounds DEF SwarmTyped
<1>6. /\ PortsTyped' /\ box' \in [Job -> Boxes]
      /\ \A j \in Job : Swarm!Live(j)' => Swarm!Live(j)
  BY <1>1 DEF PortsTyped, SwarmTyped, Swarm!Live
<1>7. QED
  BY <1>1, <1>3, <1>4, <1>5, <1>6, SwarmSecondary

LEMMA SwarmAnswer ==
    ASSUME SwarmInv, NEW i \in Job, NEW q, NEW s \in Plain, Swarm!Answer(<<i, q>>, s),
           box' \in [Job -> Boxes], \A j \in Job : Swarm!Live(j)' => Swarm!Live(j)
    PROVE  SwarmInv'
<1> USE DEF SwarmInv
<1>1. /\ pauseq' = pauseq \ {<<i, q>>}
      /\ snap' = snap \cup {i}
      /\ doc' = doc \/ doc' = [doc EXCEPT ![i].secondary = s]
      /\ UNCHANGED <<tracked, killq, ending, passVars, early, requests, orphans, pool, ports, taken, stray,
                     pauses, faults, fills, runs, left, kept>>
  BY DEF Swarm!Answer, Swarm!portVars, Swarm!history, Swarm!bounds, Swarm!passVars, passVars
<1>2. PortsTyped'
  BY <1>1 DEF PortsTyped
<1>3. pauseq' \subseteq Job \X Swarm!PauseRequest /\ pauses' \in 0 .. MaxPauses
  BY <1>1 DEF SwarmTyped
<1>4. QED
  BY <1>1, <1>2, <1>3, SwarmSecondary

LEMMA SwarmPause ==
    ASSUME SwarmInv, NEW i \in Job,
           Swarm!Suspend(i) \/ Swarm!Resume(i) \/ Swarm!RejectPause(i)
    PROVE  SwarmInv'
<1>1. {"suspended", "resumed", "suspend rejected", "resume rejected"} \subseteq Plain
  BY DEF Plain, Secondary
<1>2. box \in [Job -> Boxes]
  BY DEF SwarmInv, SwarmTyped
<1>3. CASE Swarm!Suspend(i)
  <2>1. box' = [box EXCEPT ![i].state = IF @ = "running" THEN "paused" ELSE @]
    BY <1>3 DEF Swarm!Suspend
  <2>2. box' \in [Job -> Boxes] /\ \A j \in Job : Swarm!Live(j)' => Swarm!Live(j)
    BY <1>2, <2>1 DEF Boxes, Swarm!Live
  <2>3. QED
    BY <1>1, <1>3, <2>2, SwarmAnswer DEF Swarm!Suspend
<1>4. CASE Swarm!Resume(i)
  <2>1. box' = [box EXCEPT ![i].state = IF @ = "paused" THEN "running" ELSE @]
    BY <1>4 DEF Swarm!Resume
  <2>2. box' \in [Job -> Boxes] /\ \A j \in Job : Swarm!Live(j)' => Swarm!Live(j)
    BY <1>2, <2>1 DEF Boxes, Swarm!Live
  <2>3. QED
    BY <1>1, <1>4, <2>2, SwarmAnswer DEF Swarm!Resume
<1>5. CASE Swarm!RejectPause(i)
  <2>1. box' = box
    BY <1>5 DEF Swarm!RejectPause
  <2>2. box' \in [Job -> Boxes] /\ \A j \in Job : Swarm!Live(j)' => Swarm!Live(j)
    BY <1>2, <2>1 DEF Swarm!Live
  <2>3. QED
    BY <1>1, <1>5, <2>2, SwarmAnswer DEF Swarm!RejectPause
<1>6. QED
  BY <1>3, <1>4, <1>5

LEMMA SwarmBegin ==
    ASSUME SwarmInv, Swarm!BeginPass, Swarm!Other
    PROVE  SwarmInv'
<1> USE DEF SwarmInv
<1>1. Begun(Job)
  BY SwarmClient
<1>2. Typed(Job)' /\ Passes(Job)'
  BY <1>1, BegunTyped, PassesEnds
<1>3. /\ UNCHANGED <<box, orphans, pool, ports, taken, stray, pauseq, pauses, faults,
                     fills, runs, left, kept>>
      /\ UNCHANGED <<doc, ending, early, requests>>
  BY <1>1, SwarmOther DEF Begun
<1>4. SwarmTyped' /\ PortsTyped' /\ NoFailure(Job, Decided)'
  BY <1>3 DEF SwarmTyped, PortsTyped, NoFailure
<1>5. \A j \in Job : Swarm!Live(j)' => Swarm!Live(j)
  BY <1>3 DEF Swarm!Live
<1>6. ASSUME NEW j \in Job, j \notin left' PROVE SwarmRun(j)'
  BY <1>1, <1>2, <1>3, <1>4, <1>5, <1>6, BegunFrame, SwarmFrame
<1>7. QED
  BY <1>2, <1>4, <1>6

\* A container that starts.
LEMMA SwarmStart ==
    ASSUME SwarmInv, NEW i \in Job, Swarm!RunTask(i)
    PROVE  SwarmInv'
<1> USE DEF SwarmInv
<1>1. /\ Treat(i) /\ started' = started \cup {i} /\ refused' = refused
      /\ Swarm!MapPort(i)
      /\ box' = [box EXCEPT ![i] = [state |-> "running", port |-> Swarm!Mapped(i)]]
      /\ runs' = [runs EXCEPT ![i] = IF @ < 2 THEN @ + 1 ELSE @]
      /\ UNCHANGED <<orphans, ports, stray, pauseq, pauses, faults, left, kept>>
  BY SwarmClient DEF Swarm!RunTask, Swarm!Again, Swarm!bounds
<1>2. Typed(Job)'
  BY <1>1, TreatTyped
<1>3. /\ spc = "run" /\ batch' = batch \ {i}
      /\ UNCHANGED <<doc, tracked, snap, killq, ending, spc, early, requests>>
  BY <1>1 DEF Treat
<1>4. Passes(Job)' /\ NoFailure(Job, Decided)'
  <2>1. started' \cup batch' \subseteq started \cup batch
    BY <1>1, <1>3 DEF Treat
  <2>2. Passes(Job)'
    BY <1>3, <2>1, PassesKept
  <2>3. QED
    BY <1>3, <2>2, NoFailureKept
<1>5. PortsTyped' /\ Swarm!Mapped(i) \in 0 .. PortRange
  BY <1>1, MapPortTyped DEF PortsTyped
<1>6. /\ box' \in [Job -> Boxes]
      /\ \A j \in Job : j # i => box'[j] = box[j]
  <2>1. [state |-> "running", port |-> Swarm!Mapped(i)] \in Boxes
    BY <1>5 DEF Boxes
  <2>2. QED
    BY <1>1, <2>1, BoxRuns
<1>7. runs' \in [Job -> 0 .. 2] /\ \A j \in Job : j # i => runs'[j] = runs[j]
  BY <1>1 DEF SwarmTyped
<1>8. SwarmTyped'
  BY <1>1, <1>6, <1>7 DEF SwarmTyped
<1>9. ASSUME NEW j \in Job, j \notin left' PROVE SwarmRun(j)'
  <2>1. CASE j # i
    <3>1. Kept(j)
      BY <1>1, <2>1, TreatFrame
    <3>2. runs'[j] = runs[j] /\ (Swarm!Live(j)' => Swarm!Live(j)) /\ left \subseteq left'
      BY <1>1, <1>6, <1>7, <2>1 DEF Swarm!Live
    <3>3. QED
      BY <1>2, <1>3, <1>8, <1>9, <3>1, <3>2, SwarmFrame
  <2>2. CASE j = i
    <3>1. (Unrun(j) => AtLaunch(j)') /\ Want(j)' + 1 <= Want(j)
      BY <1>1, <2>2, LaunchJob
    <3>2. SwarmRun(j)
      BY <1>1, <1>9
    <3>3. /\ Want(j) \in Nat /\ Want(j)' \in Nat /\ runs[j] \in 0 .. 2 /\ requests \in Nat
          /\ runs'[j] = IF runs[j] < 2 THEN runs[j] + 1 ELSE runs[j]
      BY <1>1, <1>2, <1>8, <2>2, WantType, SwarmNumbers DEF SwarmTyped
    <3>4. runs'[j] + Want(j)' <= 1 + requests'
      BY <1>3, <3>1, <3>2, <3>3 DEF SwarmRun
    <3>5. runs'[j] # 0 /\ (runs'[j] = 1 => runs[j] = 0)
      BY <3>3
    <3>6. QED
      BY <3>1, <3>2, <3>4, <3>5 DEF SwarmRun
  <2>3. QED
    BY <2>1, <2>2
<1>10. QED
  BY <1>2, <1>4, <1>5, <1>8, <1>9

LEMMA SwarmRefused ==
    ASSUME SwarmInv, NEW i \in Job, Swarm!RunRefused(i)
    PROVE  SwarmInv'
<1> USE DEF SwarmInv
<1>1. /\ Treat(i) /\ refused' = refused \cup {i} /\ started' = started
      /\ Swarm!MapPort(i)
      /\ faults' = faults \/ (faults < MaxFaults /\ faults' = faults + 1)
      /\ UNCHANGED <<box, orphans, ports, stray, pauseq, pauses, runs, left, kept>>
  BY SwarmClient DEF Swarm!RunRefused, Swarm!Fault
<1>2. Typed(Job)'
  BY <1>1, TreatTyped
<1>3. /\ spc = "run" /\ batch' = batch \ {i}
      /\ UNCHANGED <<doc, tracked, snap, killq, ending, spc, early, requests>>
  BY <1>1 DEF Treat
<1>4. Passes(Job)' /\ NoFailure(Job, Decided)'
  <2>1. started' \cup batch' \subseteq started \cup batch
    BY <1>1, <1>3
  <2>2. Passes(Job)'
    BY <1>3, <2>1, PassesKept
  <2>3. QED
    BY <1>3, <2>2, NoFailureKept
<1>5. PortsTyped'
  BY <1>1, MapPortTyped DEF PortsTyped
<1>6. SwarmTyped'
  <2>1. faults' \in 0 .. MaxFaults
    BY <1>1, Bounds DEF SwarmTyped
  <2>2. QED
    BY <1>1, <2>1 DEF SwarmTyped
<1>7. \A j \in Job : Swarm!Live(j)' => Swarm!Live(j)
  BY <1>1 DEF Swarm!Live
<1>8. ASSUME NEW j \in Job, j \notin left' PROVE SwarmRun(j)'
  <2>1. Kept(j)
    BY <1>1, TreatFrame
  <2>2. QED
    BY <1>1, <1>2, <1>3, <1>6, <1>7, <1>8, <2>1, SwarmFrame
<1>9. QED
  BY <1>2, <1>4, <1>5, <1>6, <1>8

\* The exception loses what was started in this pass.
LEMMA SwarmRaises ==
    ASSUME SwarmInv, NEW i \in Job, Swarm!RunRaises(i)
    PROVE  SwarmInv'
<1> USE DEF SwarmInv
<1>1. /\ Abort /\ faults < MaxFaults /\ faults' = faults + 1
      /\ Swarm!MapPort(i)
      /\ orphans' = (orphans \cup {Swarm!Mapped(i)} \cup {box[j].port : j \in started}) \ {0}
      /\ box' = [j \in Job |-> IF j \in started THEN Swarm!NoBox ELSE box[j]]
      /\ left' = left \cup {i} \cup started
      /\ UNCHANGED <<ports, stray, pauseq, pauses, runs, kept>>
  BY SwarmClient DEF Swarm!RunRaises, Swarm!Fault
<1>2. Typed(Job)' /\ Passes(Job)'
  BY <1>1, AbortTyped, PassesEnds
<1>3. UNCHANGED <<doc, tracked, snap, killq, ending, early, requests>>
  BY <1>1 DEF Abort
<1>4. NoFailure(Job, Decided)'
  BY <1>3, NoFailureKept
<1>5. started \subseteq Job /\ box \in [Job -> Boxes] /\ left \subseteq Job
  BY DEF Typed, SwarmTyped
<1>6. box' \in [Job -> Boxes]
  <2>1. Swarm!NoBox \in Boxes
    BY Bounds DEF Boxes, Swarm!NoBox
  <2>2. QED
    BY <1>1, <1>5, <2>1
<1>7. PortsTyped'
  <2>1. \A j \in started : box[j].port \in 0 .. PortRange
    BY <1>5 DEF Boxes
  <2>2. Port = 1 .. PortRange /\ 0 .. PortRange \subseteq Port \cup {0}
    BY Bounds DEF Port, Swarm!Port
  <2>3. Swarm!Mapped(i) \in 0 .. PortRange
    BY <1>1, MapPortTyped
  <2>4. orphans' \subseteq Port
    BY <1>1, <2>1, <2>2, <2>3 DEF PortsTyped
  <2>5. QED
    BY <1>1, <2>4, MapPortTyped DEF PortsTyped
<1>8. SwarmTyped'
  <2>1. faults' \in 0 .. MaxFaults
    BY <1>1, Bounds DEF SwarmTyped
  <2>2. QED
    BY <1>1, <1>5, <1>6, <2>1 DEF SwarmTyped
<1>9. ASSUME NEW j \in Job, j \notin left' PROVE SwarmRun(j)'
  <2>1. j \notin started /\ left \subseteq left'
    BY <1>1, <1>9
  <2>2. Kept(j)
    BY <1>1, <2>1, AbortFrame
  <2>3. Swarm!Live(j)' => Swarm!Live(j)
    BY <1>1, <2>1 DEF Swarm!Live
  <2>4. runs'[j] = runs[j] /\ requests' = requests
    BY <1>1, <1>3
  <2>5. QED
    BY <1>2, <1>8, <1>9, <2>1, <2>2, <2>3, <2>4, SwarmFrame
<1>10. QED
  BY <1>2, <1>4, <1>7, <1>8, <1>9

LEMMA SwarmPublish ==
    ASSUME SwarmInv, Swarm!PublishBoxes
    PROVE  SwarmInv'
<1> USE DEF SwarmInv
<1>1. /\ Published(Job, "none")
      /\ ports' = [j \in Job |-> IF ~Stored(j) THEN ports[j]
                                 ELSE IF j \in started THEN taken[j]
                                 ELSE IF j \in refused THEN <<>> ELSE ports[j]]
      /\ stray' = stray \cup UNION {Swarm!ToSet(taken[j]) : j \in refused}
      /\ taken' = [j \in Job |-> <<>>]
      /\ UNCHANGED <<box, orphans, pool, pauseq, pauses, faults, fills, runs, left, kept>>
  BY SwarmClient DEF Swarm!PublishBoxes, Swarm!bounds, Swarm!history
<1>2. "none" \in Plain /\ "none" \in Secondary
  BY DEF Plain, Secondary
<1>3. Typed(Job)' /\ Passes(Job)'
  BY <1>1, <1>2, PublishedTyped, PassesEnds
<1>4. UNCHANGED <<killq, ending, early, requests>>
  BY <1>1 DEF Published
<1>5. NoFailure(Job, Decided)'
  <2>1. \A j \in Job : doc'[j].fails = doc[j].fails
    BY <1>1, <1>2, PublishedDoc
  <2>2. QED
    BY <1>4, <2>1, NoFailureKept
<1>6. SwarmTyped'
  BY <1>1 DEF SwarmTyped
<1>7. PortsTyped'
  <2>1. <<>> \in Seq(Port)
    OBVIOUS
  <2>2. ports' \in [Job -> Seq(Port)] /\ taken' \in [Job -> Seq(Port)]
    BY <1>1, <2>1 DEF PortsTyped
  <2>3. ASSUME NEW j \in refused PROVE Swarm!ToSet(taken[j]) \subseteq Port
    <3>1. taken[j] \in Seq(Port)
      BY DEF PortsTyped, Typed
    <3>2. QED
      BY <3>1 DEF Swarm!ToSet
  <2>4. stray' \subseteq Port
    BY <1>1, <2>3 DEF PortsTyped
  <2>5. QED
    BY <1>1, <2>2, <2>4 DEF PortsTyped
<1>8. \A j \in Job : Swarm!Live(j)' <=> Swarm!Live(j)
  BY <1>1 DEF Swarm!Live
<1>9. ASSUME NEW j \in Job, j \notin left' PROVE SwarmRun(j)'
  <2>1. CASE j \notin started
    <3>1. Kept(j)
      BY <1>1, <1>2, <2>1, PublishedFrame
    <3>2. QED
      BY <1>1, <1>3, <1>4, <1>6, <1>8, <1>9, <3>1, SwarmFrame
  <2>2. CASE j \in started
    <3>1. (AtLaunch(j) => Tracked(j)') /\ Want(j)' <= Want(j)
      BY <1>1, <1>2, <2>2, PublishedJob
    <3>2. SwarmRun(j)
      BY <1>1, <1>9
    <3>3. Want(j) \in Nat /\ Want(j)' \in Nat /\ runs[j] \in 0 .. 2 /\ requests \in Nat
      BY <1>3, <1>6, WantType, SwarmNumbers
    <3>4. runs'[j] + Want(j)' <= 1 + requests'
      BY <1>1, <1>4, <3>1, <3>2, <3>3 DEF SwarmRun
    <3>5. ~Unrun(j) /\ ~Tracked(j)
      BY <2>2 DEF Unrun, Idle, Over, Tracked, Away
    <3>6. QED
      BY <1>1, <1>8, <3>1, <3>2, <3>4, <3>5 DEF SwarmRun
  <2>3. QED
    BY <2>1, <2>2
<1>10. QED
  BY <1>3, <1>5, <1>6, <1>7, <1>9

\* What a watcher takes out has no container, or one that a failure hid.
LEMMA SwarmWatch ==
    ASSUME SwarmInv, NEW i \in Job, Swarm!WatchEnded(i) \/ Swarm!WatchBlind(i)
    PROVE  SwarmInv'
<1> USE DEF SwarmInv
<1>1. /\ TakeOut(i, "watch")
      /\ UNCHANGED <<doc, orphans, pool, ports, taken, stray, pauseq, pauses, fills, runs, kept>>
      /\ \/ /\ ~Swarm!Live(i) /\ box' = [box EXCEPT ![i] = Swarm!NoBox]
            /\ UNCHANGED <<faults, left>>
         \/ faults < MaxFaults /\ faults' = faults + 1 /\ left' = left \cup {i} /\ box' = box
  BY SwarmClient DEF Swarm!WatchEnded, Swarm!WatchBlind, Swarm!Fault, Swarm!portVars,
     Swarm!bounds, Swarm!history
<1>2. "watch" \in Answers /\ doc' \in [Job -> Document]
  BY <1>1 DEF Answers, Typed
<1>3. Typed(Job)'
  BY <1>1, <1>2, TakeOutTyped
<1>4. /\ ending' = ending \cup {<<i, "watch">>}
      /\ UNCHANGED <<snap, killq, passVars, early, requests>>
  BY <1>1 DEF TakeOut
<1>5. Passes(Job)'
  BY <1>1, <1>4, PassesKept
<1>6. NoFailure(Job, Decided)'
  <2>1. \A e \in ending' : e \in ending \/ e[2] \in Decided
    BY <1>4 DEF Decided
  <2>2. QED
    BY <1>1, <2>1, NoFailureKept
<1>7. PortsTyped'
  BY <1>1 DEF PortsTyped
<1>8. /\ box' \in [Job -> Boxes] /\ left' \subseteq Job /\ left \subseteq left'
      /\ faults' \in 0 .. MaxFaults
      /\ \A j \in Job : Swarm!Live(j)' => Swarm!Live(j)
      /\ i \in left' \/ ~Swarm!Live(i)'
  <2>1. CASE ~Swarm!Live(i) /\ box' = [box EXCEPT ![i] = Swarm!NoBox] /\ UNCHANGED <<faults, left>>
    <3>1. Swarm!NoBox \in Boxes /\ Swarm!NoBox.state = "none"
      BY Bounds DEF Boxes, Swarm!NoBox
    <3>2. /\ box' \in [Job -> Boxes] /\ box'[i] = Swarm!NoBox
          /\ \A j \in Job : j # i => box'[j] = box[j]
      BY <2>1, <3>1, BoxRuns
    <3>3. ~Swarm!Live(i)'
      BY <3>1, <3>2 DEF Swarm!Live
    <3>4. \A j \in Job : Swarm!Live(j)' => Swarm!Live(j)
      BY <3>2, <3>3 DEF Swarm!Live
    <3>5. QED
      BY <2>1, <3>2, <3>3, <3>4 DEF SwarmTyped
  <2>2. CASE faults < MaxFaults /\ faults' = faults + 1 /\ left' = left \cup {i} /\ box' = box
    <3>1. faults' \in 0 .. MaxFaults
      BY <2>2, Bounds DEF SwarmTyped
    <3>2. QED
      BY <2>2, <3>1 DEF SwarmTyped, Swarm!Live
  <2>3. QED
    BY <1>1, <2>1, <2>2
<1>9. SwarmTyped'
  BY <1>1, <1>8 DEF SwarmTyped
<1>10. ASSUME NEW j \in Job, j \notin left' PROVE SwarmRun(j)'
  <2>1. SwarmRun(j)
    BY <1>8, <1>10
  <2>2. doc'[j].status = doc[j].status /\ (Asked(j)' => Asked(j))
    BY <1>1 DEF Asked
  <2>3. CASE j # i
    <3>1. Kept(j)
      BY <1>1, <1>2, <2>2, <2>3, TakeOutFrame
    <3>2. QED
      BY <1>1, <1>3, <1>4, <1>8, <1>9, <1>10, <3>1, SwarmFrame
  <2>4. CASE j = i
    <3>1. ~Unrun(j) /\ ~AtLaunch(j) /\ Want(j)' <= Want(j)
      BY <1>1, <1>2, <2>2, <2>4, TakeOutJob
    <3>2. Want(j) \in Nat /\ Want(j)' \in Nat /\ runs[j] \in 0 .. 2 /\ requests \in Nat
      BY <1>3, <1>9, WantType, SwarmNumbers
    <3>3. runs'[j] + Want(j)' <= 1 + requests'
      BY <1>1, <1>4, <2>1, <3>1, <3>2 DEF SwarmRun
    <3>4. ~Swarm!Live(j)'
      BY <1>8, <1>10, <2>4
    <3>5. QED
      BY <1>1, <2>1, <3>1, <3>3, <3>4 DEF SwarmRun
  <2>5. QED
    BY <2>3, <2>4
<1>11. QED
  BY <1>3, <1>5, <1>6, <1>7, <1>9, <1>10

LEMMA SwarmDrop ==
    ASSUME SwarmInv, NEW i \in Job, DropUnknown(i), Swarm!Other
    PROVE  SwarmInv'
<1> USE DEF SwarmInv
<1>1. /\ UNCHANGED <<doc, snap, killq, ending, passVars, early, requests>>
      /\ UNCHANGED <<box, orphans, pool, ports, taken, stray, pauseq, pauses, faults,
                     fills, runs, left, kept>>
  BY SwarmOther DEF DropUnknown
<1>2. Typed(Job)'
  BY DropTyped
<1>3. SwarmTyped' /\ PortsTyped' /\ Passes(Job)' /\ NoFailure(Job, Decided)'
  BY <1>1, PassesKept, NoFailureKept DEF SwarmTyped, PortsTyped
<1>4. \A j \in Job : Swarm!Live(j)' <=> Swarm!Live(j)
  BY <1>1 DEF Swarm!Live
<1>5. ASSUME NEW j \in Job, j \notin left' PROVE SwarmRun(j)'
  <2>1. CASE j # i
    BY <1>1, <1>2, <1>3, <1>4, <1>5, <2>1, DropFrame, SwarmFrame
  <2>2. CASE j = i
    <3>1. ~Unrun(j) /\ ~AtLaunch(j) /\ ~Tracked(j) /\ Want(j)' = Want(j)
      BY <2>2, DropJob
    <3>2. SwarmRun(j)
      BY <1>1, <1>5
    <3>3. QED
      BY <1>1, <1>4, <3>1, <3>2 DEF SwarmRun
  <2>3. QED
    BY <2>1, <2>2
<1>6. QED
  BY <1>2, <1>3, <1>5

LEMMA SwarmKill ==
    ASSUME SwarmInv, NEW k \in killq, Swarm!KillBox(k)
    PROVE  SwarmInv'
<1> USE DEF SwarmInv
<1> DEFINE i == k[1]
<1>1. /\ KillDone(k) /\ box' = [box EXCEPT ![i] = Swarm!NoBox]
      /\ UNCHANGED <<orphans, pool, ports, taken, stray, pauseq, pauses, faults,
                     fills, runs, left, kept>>
  BY SwarmClient DEF Swarm!KillBox, Swarm!portVars, Swarm!bounds, Swarm!history
<1>2. i \in Job
  BY DEF Typed
<1>3. Typed(Job)'
  BY <1>1, KillTyped
<1>4. /\ ending' = ending \cup {<<i, "kill">>}
      /\ UNCHANGED <<doc, tracked, snap, passVars, early, requests>>
  BY <1>1 DEF KillDone
<1>5. Passes(Job)'
  BY <1>4, PassesKept
<1>6. NoFailure(Job, Decided)'
  <2>1. \A e \in ending' : e \in ending \/ e[2] \in Decided
    BY <1>4 DEF Decided
  <2>2. QED
    BY <1>4, <2>1, NoFailureKept
<1>7. PortsTyped'
  BY <1>1 DEF PortsTyped
<1>8. /\ box' \in [Job -> Boxes]
      /\ \A j \in Job : Swarm!Live(j)' => Swarm!Live(j)
      /\ ~Swarm!Live(i)'
  <2>1. Swarm!NoBox \in Boxes /\ Swarm!NoBox.state = "none"
    BY Bounds DEF Boxes, Swarm!NoBox
  <2>2. /\ box' \in [Job -> Boxes] /\ box'[i] = Swarm!NoBox
        /\ \A j \in Job : j # i => box'[j] = box[j]
    BY <1>1, <1>2, <2>1, BoxRuns
  <2>3. ~Swarm!Live(i)'
    BY <2>1, <2>2 DEF Swarm!Live
  <2>4. QED
    BY <2>2, <2>3 DEF Swarm!Live
<1>9. SwarmTyped'
  BY <1>1, <1>8 DEF SwarmTyped
<1>10. ASSUME NEW j \in Job, j \notin left' PROVE SwarmRun(j)'
  <2>1. SwarmRun(j)
    BY <1>1, <1>10
  <2>2. CASE j # i
    <3>1. Kept(j)
      BY <1>1, <2>2, KillFrame
    <3>2. QED
      BY <1>1, <1>3, <1>4, <1>8, <1>9, <1>10, <3>1, SwarmFrame
  <2>3. CASE j = i
    <3>1. ~NoKill(j) /\ Want(j)' = Want(j)
      BY <1>1, <2>3, KillJob
    <3>2. ~Unrun(j)
      BY <3>1 DEF Unrun
    <3>3. QED
      BY <1>1, <1>4, <1>8, <2>1, <2>3, <3>1, <3>2 DEF SwarmRun
  <2>4. QED
    BY <2>2, <2>3
<1>11. QED
  BY <1>3, <1>5, <1>6, <1>7, <1>9, <1>10

LEMMA SwarmKillFails ==
    ASSUME SwarmInv, NEW k \in killq, Swarm!KillBoxFails(k)
    PROVE  SwarmInv'
<1> USE DEF SwarmInv
<1>1. /\ KillFails(k) /\ faults < MaxFaults /\ faults' = faults + 1
      /\ UNCHANGED <<box, orphans, pool, ports, taken, stray, pauseq, pauses,
                     fills, runs, left, kept>>
  BY SwarmClient DEF Swarm!KillBoxFails, Swarm!Fault, Swarm!portVars, Swarm!history
<1>2. Typed(Job)'
  BY <1>1, KillTyped
<1>3. UNCHANGED <<tracked, snap, ending, passVars, early, requests>>
  BY <1>1 DEF KillFails
<1>4. k[1] \in Job
  BY DEF Typed
<1>5. \A j \in Job : doc'[j].status = doc[j].status /\ doc'[j].fails = doc[j].fails
  <2>1. doc' = doc \/ doc' = [doc EXCEPT ![k[1]].secondary = "unknown"]
    BY <1>1 DEF KillFails
  <2>2. "unknown" \in Secondary
    BY DEF Secondary
  <2>3. QED
    BY <1>4, <2>1, <2>2, SecondaryTyped
<1>6. Passes(Job)' /\ NoFailure(Job, Decided)'
  BY <1>3, <1>5, PassesKept, NoFailureKept
<1>7. SwarmTyped' /\ PortsTyped'
  <2>1. faults' \in 0 .. MaxFaults
    BY <1>1, Bounds DEF SwarmTyped
  <2>2. QED
    BY <1>1, <2>1 DEF SwarmTyped, PortsTyped
<1>8. \A j \in Job : Swarm!Live(j)' <=> Swarm!Live(j)
  BY <1>1 DEF Swarm!Live
<1>9. ASSUME NEW j \in Job, j \notin left' PROVE SwarmRun(j)'
  <2>1. Kept(j)
    BY <1>1, KillFrame
  <2>2. QED
    BY <1>1, <1>2, <1>3, <1>7, <1>8, <1>9, <2>1, SwarmFrame
<1>10. QED
  BY <1>2, <1>6, <1>7, <1>9

LEMMA SwarmKillRaises ==
    ASSUME SwarmInv, NEW k \in killq, Swarm!KillBoxRaises(k)
    PROVE  SwarmInv'
<1> USE DEF SwarmInv
<1>1. /\ killq' = killq \ {k} /\ left' = left \cup {k[1]}
      /\ faults < MaxFaults /\ faults' = faults + 1
      /\ UNCHANGED <<doc, tracked, snap, ending, passVars, early, requests>>
      /\ UNCHANGED <<box, orphans, pool, ports, taken, stray, pauseq, pauses, fills, runs, kept>>
  BY DEF Swarm!KillBoxRaises, Swarm!Fault, Swarm!portVars, Swarm!passVars, passVars
<1>2. k[1] \in Job
  BY DEF Typed
<1>3. Typed(Job)'
  BY <1>1 DEF Typed, passVars
<1>4. Passes(Job)' /\ NoFailure(Job, Decided)'
  BY <1>1, PassesKept, NoFailureKept
<1>5. SwarmTyped' /\ PortsTyped'
  <2>1. faults' \in 0 .. MaxFaults /\ left' \subseteq Job
    BY <1>1, <1>2, Bounds DEF SwarmTyped
  <2>2. QED
    BY <1>1, <2>1 DEF SwarmTyped, PortsTyped
<1>6. \A j \in Job : Swarm!Live(j)' <=> Swarm!Live(j)
  BY <1>1 DEF Swarm!Live
<1>7. ASSUME NEW j \in Job, j \notin left' PROVE SwarmRun(j)'
  <2>1. Kept(j)
    BY <1>1 DEF Kept, Asked, NoKill, passVars
  <2>2. left \subseteq left'
    BY <1>1
  <2>3. QED
    BY <1>1, <1>3, <1>5, <1>6, <1>7, <2>1, <2>2, SwarmFrame
<1>8. QED
  BY <1>3, <1>4, <1>5, <1>7

\* The ports of a job are given back: its end is decided.
LEMMA SwarmRelease ==
    ASSUME SwarmInv, NEW e \in ending, Swarm!Release(e)
    PROVE  SwarmInv'
<1> USE DEF SwarmInv
<1> DEFINE i == e[1]
<1>1. /\ UNCHANGED <<doc, tracked, snap, killq, passVars, early, requests>>
      /\ UNCHANGED <<box, orphans, ports, taken, stray, pauseq, pauses, faults, fills, runs, left>>
      /\ pool' \in {pool, pool \o ports[i]} /\ kept' \in {kept, kept \cup {i}}
      /\ \/ ending' = ending \ {e}
         \/ ending' = (ending \ {e}) \cup {<<i, IF Requeued(e) THEN "again" ELSE "over">>}
      /\ e[2] \in {"watch", "kill"}
  BY SwarmClient DEF Swarm!Release, Swarm!bounds, Swarm!passVars, passVars
<1>2. i \in Job /\ e = <<i, e[2]>>
  BY DEF Typed
<1>3. Requeued(e) => Asked(i)
  <2>1. Decided \in SUBSET Decided
    OBVIOUS
  <2>2. Requeued(e) => e[2] = "kill"
    BY <1>1, <2>1, NoFailureRequeued
  <2>3. ASSUME Requeued(e) PROVE Asked(i)
    <3>1. e[2] = "kill"
      BY <2>2, <2>3
    <3>2. QED
      BY <2>3, <3>1 DEF Requeued, Asked
  <2>4. QED
    BY <2>3
<1>4. /\ ending' \subseteq Job \X Answers
      /\ \A x \in ending' : x \in ending \/ x[2] \in Decided
      /\ \A j \in Job : j # i => \A a \in Answers : <<j, a>> \in ending' <=> <<j, a>> \in ending
      /\ Again(i)' => Again(i) \/ Asked(i)
  <2>1. ending \subseteq Job \X Answers
    BY DEF Typed
  <2>2. CASE ending' = ending \ {e}
    BY <1>2, <2>1, <2>2 DEF Again
  <2>3. ASSUME NEW a \in {"again", "over"}, a = "again" => Asked(i),
               ending' = (ending \ {e}) \cup {<<i, a>>}
        PROVE  /\ ending' \subseteq Job \X Answers
               /\ \A x \in ending' : x \in ending \/ x[2] \in Decided
               /\ \A j \in Job : j # i =>
                     \A b \in Answers : <<j, b>> \in ending' <=> <<j, b>> \in ending
               /\ Again(i)' => Again(i) \/ Asked(i)
    <3>1. a \in Answers /\ a \in Decided
      BY <2>3 DEF Answers, Decided
    <3>2. \A x \in ending' : x \in ending \/ x = <<i, a>>
      BY <2>3
    <3>3. Again(i)' => Again(i) \/ a = "again"
      BY <3>2 DEF Again
    <3>4. \A j \in Job : j # i =>
             \A b \in Answers : <<j, b>> \in ending' <=> <<j, b>> \in ending
      BY <1>2, <2>3
    <3>5. QED
      BY <1>2, <2>1, <2>3, <3>1, <3>2, <3>3, <3>4
  <2>4. QED
    BY <1>1, <1>3, <2>2, <2>3
<1>5. Typed(Job)'
  BY <1>1, <1>4 DEF Typed, passVars
<1>6. Passes(Job)' /\ NoFailure(Job, Decided)'
  BY <1>1, <1>4, PassesKept, NoFailureKept
<1>7. SwarmTyped'
  BY <1>1 DEF SwarmTyped
<1>8. PortsTyped'
  <2>1. pool \in Seq(Port) /\ ports \in [Job -> Seq(Port)] /\ kept \subseteq Job
    BY DEF PortsTyped
  <2>2. pool \o ports[i] \in Seq(Port)
    BY <1>2, <2>1
  <2>3. kept \cup {i} \subseteq Job
    BY <1>2, <2>1
  <2>4. QED
    BY <1>1, <2>1, <2>2, <2>3 DEF PortsTyped
<1>9. \A j \in Job : Swarm!Live(j)' <=> Swarm!Live(j)
  BY <1>1 DEF Swarm!Live
<1>10. ASSUME NEW j \in Job, j \notin left' PROVE SwarmRun(j)'
  <2>1. SwarmRun(j)
    BY <1>1, <1>10
  <2>2. CASE j # i
    <3>1. Kept(j)
      BY <1>1, <1>4, <2>2 DEF Kept, Asked, NoKill, passVars
    <3>2. QED
      BY <1>1, <1>5, <1>7, <1>9, <1>10, <3>1, SwarmFrame
  <2>3. CASE j = i
    <3>1. ~NoEnd(j)
      <4>1. e[2] \in Answers
        BY <1>1 DEF Answers
      <4>2. QED
        BY <1>2, <2>3, <4>1 DEF NoEnd
    <3>2. ~Unrun(j) /\ ~AtLaunch(j) /\ ~Tracked(j)
      BY <3>1 DEF Unrun, Idle, Over, AtLaunch, Tracked
    <3>3. Want(j)' <= Want(j)
      <4>1. (ToRun(j)' <=> ToRun(j)) /\ (Asked(j)' <=> Asked(j))
        BY <1>1 DEF ToRun, Asked, passVars
      <4>2. QED
        BY <1>4, <2>3, <4>1 DEF Want, Number
    <3>4. Want(j) \in Nat /\ Want(j)' \in Nat /\ runs[j] \in 0 .. 2 /\ requests \in Nat
      BY <1>5, <1>7, WantType, SwarmNumbers
    <3>5. runs'[j] + Want(j)' <= 1 + requests'
      BY <1>1, <2>1, <3>3, <3>4 DEF SwarmRun
    <3>6. QED
      BY <1>1, <1>9, <2>1, <3>2, <3>5 DEF SwarmRun
  <2>4. QED
    BY <2>2, <2>3
<1>11. QED
  BY <1>5, <1>6, <1>7, <1>8, <1>10

LEMMA SwarmFinish ==
    ASSUME SwarmInv, NEW e \in ending, Swarm!FinishBox(e)
    PROVE  SwarmInv'
<1> USE DEF SwarmInv
<1>1. /\ Finish(e) /\ e[2] \in {"over", "again"}
      /\ UNCHANGED <<box, orphans, pool, taken, stray, pauseq, pauses, faults, fills, runs, left>>
      /\ ports' \in {ports, [ports EXCEPT ![e[1]] = <<>>]}
      /\ kept' \in {kept, kept \cup {e[1]}}
  BY SwarmClient DEF Swarm!FinishBox, Swarm!bounds
<1>2. UNCHANGED <<tracked, killq, passVars, early, requests>>
  BY <1>1 DEF Finish
<1>3. Typed(Job)' /\ NoFailure(Job, Decided)' /\ e[1] \in Job
  <2>1. Decided \in SUBSET Decided
    OBVIOUS
  <2>2. QED
    BY <1>1, <2>1, FinishTyped, NoFailureFinish DEF Typed
<1>4. Passes(Job)'
  <2>1. \A j \in Job : doc[j].status # "new" => doc'[j].status # "new"
    BY <1>1, FinishDoc
  <2>2. QED
    BY <1>2, <2>1, PassesKept
<1>5. SwarmTyped'
  BY <1>1 DEF SwarmTyped
<1>6. PortsTyped'
  <2>1. pool \in Seq(Port) /\ ports \in [Job -> Seq(Port)] /\ kept \subseteq Job
    BY DEF PortsTyped
  <2>2. [ports EXCEPT ![e[1]] = <<>>] \in [Job -> Seq(Port)]
    <3>1. <<>> \in Seq(Port)
      OBVIOUS
    <3>2. QED
      BY <2>1, <3>1
  <2>3. kept \cup {e[1]} \subseteq Job
    BY <1>3, <2>1
  <2>4. QED
    BY <1>1, <2>1, <2>2, <2>3 DEF PortsTyped
<1>7. \A j \in Job : Swarm!Live(j)' <=> Swarm!Live(j)
  BY <1>1 DEF Swarm!Live
<1>8. ASSUME NEW j \in Job, j \notin left' PROVE SwarmRun(j)'
  <2>1. SwarmRun(j)
    BY <1>1, <1>8
  <2>2. CASE j # e[1]
    BY <1>1, <1>2, <1>3, <1>5, <1>7, <1>8, <2>2, FinishFrame, SwarmFrame
  <2>3. CASE j = e[1]
    <3>1. ~Unrun(j) /\ ~AtLaunch(j) /\ ~Tracked(j) /\ Want(j)' <= Want(j)
      <4>1. Requeued(e) => e[2] = "again"
        <5>1. Decided \in SUBSET Decided
          OBVIOUS
        <5>2. Requeued(e) => e[2] \in {"kill", "again"}
          BY <5>1, NoFailureRequeued
        <5>3. QED
          BY <1>1, <5>2
      <4>2. QED
        BY <1>1, <2>3, <4>1, FinishJob
    <3>2. Want(j) \in Nat /\ Want(j)' \in Nat /\ runs[j] \in 0 .. 2 /\ requests \in Nat
      BY <1>3, <1>5, WantType, SwarmNumbers
    <3>3. runs'[j] + Want(j)' <= 1 + requests'
      BY <1>1, <1>2, <2>1, <3>1, <3>2 DEF SwarmRun
    <3>4. QED
      BY <1>1, <1>7, <2>1, <3>1, <3>3 DEF SwarmRun
  <2>4. QED
    BY <2>2, <2>3
<1>9. QED
  BY <1>3, <1>4, <1>5, <1>6, <1>8

\* The copy of a pending job is killed: what run_tasks has of it is left behind.
LEMMA SwarmPending ==
    ASSUME SwarmInv, NEW i \in Job, Swarm!EndPending(i)
    PROVE  SwarmInv'
<1> USE DEF SwarmInv
<1>1. /\ KillPending(i) /\ left' = IF UnderWay(i) THEN left \cup {i} ELSE left
      /\ UNCHANGED <<box, orphans, taken, stray, pauseq, pauses, faults, fills, runs>>
      /\ pool' \in {pool, pool \o ports[i]}
      /\ ports' \in {ports, [ports EXCEPT ![i] = <<>>]}
      /\ kept' \in {kept, kept \cup {i}}
  BY SwarmClient DEF Swarm!EndPending, Swarm!bounds
<1>2. /\ Typed(Job)'
      /\ \A j \in Job : doc'[j].fails = doc[j].fails
                        /\ (doc[j].status # "new" => doc'[j].status # "new")
      /\ \A j \in Job : j # i => Kept(j)
      /\ UNCHANGED <<tracked, killq, ending, passVars, requests>>
  BY <1>1, PendingFrame
<1>3. Passes(Job)' /\ NoFailure(Job, Decided)'
  BY <1>2, PassesKept, NoFailureKept
<1>4. left \subseteq left' /\ left' \subseteq Job
  BY <1>1 DEF SwarmTyped
<1>5. SwarmTyped'
  BY <1>1, <1>4 DEF SwarmTyped
<1>6. PortsTyped'
  <2>1. pool \in Seq(Port) /\ ports \in [Job -> Seq(Port)] /\ kept \subseteq Job
    BY DEF PortsTyped
  <2>2. pool \o ports[i] \in Seq(Port)
    BY <2>1
  <2>3. [ports EXCEPT ![i] = <<>>] \in [Job -> Seq(Port)]
    <3>1. <<>> \in Seq(Port)
      OBVIOUS
    <3>2. QED
      BY <2>1, <3>1
  <2>4. kept \cup {i} \subseteq Job
    BY <2>1
  <2>5. QED
    BY <1>1, <2>1, <2>2, <2>3, <2>4 DEF PortsTyped
<1>7. \A j \in Job : Swarm!Live(j)' <=> Swarm!Live(j)
  BY <1>1 DEF Swarm!Live
<1>8. ASSUME NEW j \in Job, j \notin left' PROVE SwarmRun(j)'
  <2>1. SwarmRun(j)
    BY <1>4, <1>8
  <2>2. CASE j # i
    BY <1>1, <1>2, <1>4, <1>5, <1>7, <1>8, <2>2, SwarmFrame
  <2>3. CASE j = i
    <3>1. ~UnderWay(j)
      BY <1>1, <1>8, <2>3
    <3>2. /\ ~AtLaunch(j) /\ ~Tracked(j) /\ (Unrun(j) => Unrun(j)')
          /\ Want(j)' <= Want(j)
      BY <1>1, <2>3, <3>1, PendingJob
    <3>3. Want(j) \in Nat /\ Want(j)' \in Nat /\ runs[j] \in 0 .. 2 /\ requests \in Nat
      BY <1>2, <1>5, WantType, SwarmNumbers
    <3>4. runs'[j] + Want(j)' <= 1 + requests'
      BY <1>1, <1>2, <2>1, <3>2, <3>3 DEF SwarmRun
    <3>5. QED
      BY <1>1, <1>7, <2>1, <3>2, <3>4 DEF SwarmRun
  <2>4. QED
    BY <2>2, <2>3
<1>9. QED
  BY <1>2, <1>3, <1>5, <1>6, <1>8

LEMMA SwarmBoxEnds ==
    ASSUME SwarmInv, NEW i \in Job, Swarm!ContainerEnds(i)
    PROVE  SwarmInv'
<1> USE DEF SwarmInv
<1>1. /\ UNCHANGED <<doc, tracked, snap, killq, ending, passVars, early, requests>>
      /\ UNCHANGED <<orphans, pool, ports, taken, stray, pauseq, pauses, faults,
                     fills, runs, left, kept>>
  BY DEF Swarm!ContainerEnds, Swarm!client, Swarm!passVars, passVars, Swarm!portVars,
     Swarm!bounds, Swarm!history
<1>2. box' \in [Job -> Boxes] /\ \A j \in Job : Swarm!Live(j)' => Swarm!Live(j)
  <2>1. box \in [Job -> Boxes] /\ box' = [box EXCEPT ![i].state = "exited"]
    BY DEF Swarm!ContainerEnds, SwarmTyped
  <2>2. QED
    BY <2>1 DEF Boxes, Swarm!Live
<1>3. Typed(Job)' /\ SwarmTyped' /\ PortsTyped'
  BY <1>1, <1>2 DEF Typed, SwarmTyped, PortsTyped, passVars
<1>4. Passes(Job)' /\ NoFailure(Job, Decided)'
  BY <1>1, PassesKept, NoFailureKept
<1>5. ASSUME NEW j \in Job, j \notin left' PROVE SwarmRun(j)'
  <2>1. Kept(j)
    BY <1>1, SecondaryFrame DEF Asked
  <2>2. QED
    BY <1>1, <1>2, <1>3, <1>5, <2>1, SwarmFrame
<1>6. QED
  BY <1>3, <1>4, <1>5

LEMMA SwarmStep ==
    ASSUME SwarmInv, Swarm!Next
    PROVE  SwarmInv'
<1>1. ASSUME NEW i \in Job, Swarm!Submit(i) \/ Swarm!Request(i), Swarm!Other PROVE SwarmInv'
  BY <1>1, SwarmClient, SwarmSubmit, SwarmRequest
<1>2. ASSUME NEW i \in Job,
             Swarm!RequestPause(i) \/ Swarm!Suspend(i) \/ Swarm!Resume(i) \/ Swarm!RejectPause(i)
      PROVE  SwarmInv'
  BY <1>2, SwarmRequestPause, SwarmPause
<1>3. CASE Swarm!Scheduler
  <2>1. CASE Swarm!BeginPass /\ Swarm!Other
    BY <2>1, SwarmBegin
  <2>2. ASSUME NEW i \in Job, Swarm!RunTask(i) \/ Swarm!RunRefused(i) \/ Swarm!RunRaises(i)
        PROVE  SwarmInv'
    BY <2>2, SwarmStart, SwarmRefused, SwarmRaises
  <2>3. CASE Swarm!PublishBoxes
    BY <2>3, SwarmPublish
  <2>4. QED
    BY <1>3, <2>1, <2>2, <2>3 DEF Swarm!Scheduler
<1>4. ASSUME NEW i \in Job, Swarm!Watch(i) PROVE SwarmInv'
  BY <1>4, SwarmClient, SwarmWatch, SwarmDrop DEF Swarm!Watch
<1>5. ASSUME NEW k \in killq, Swarm!Kill(k) \/ Swarm!KillBoxFails(k) \/ Swarm!KillBoxRaises(k)
      PROVE  SwarmInv'
  BY <1>5, SwarmKill, SwarmKillFails, SwarmKillRaises DEF Swarm!Kill
<1>6. ASSUME NEW e \in ending, Swarm!End(e) PROVE SwarmInv'
  BY <1>6, SwarmRelease, SwarmFinish DEF Swarm!End
<1>7. ASSUME NEW i \in Job, Swarm!ContainerEnds(i) PROVE SwarmInv'
  BY <1>7, SwarmBoxEnds
<1>8. ASSUME NEW i \in Job, Swarm!EndPending(i) PROVE SwarmInv'
  BY <1>8, SwarmPending
<1>9. QED
  BY <1>1, <1>2, <1>3, <1>4, <1>5, <1>6, <1>7, <1>8 DEF Swarm!Next

\* What the invariant says of a calm job.
LEMMA SwarmFollows ==
    ASSUME SwarmInv
    PROVE  /\ Swarm!TypeOK
           /\ \A j \in Job : (Swarm!Live(j) /\ Swarm!Calm(j)) =>
                                doc[j].status # "over" /\ Swarm!Followed(j)
<1> USE DEF SwarmInv
<1>1. Swarm!TypeOK
  BY DEF Swarm!TypeOK, Swarm!ClientTypeOK, Swarm!Secondary, Typed, SwarmTyped, PortsTyped,
     Port, Boxes, Document, Status, Answers, Secondary
<1>2. ASSUME NEW j \in Job, Swarm!Live(j), Swarm!Calm(j)
      PROVE  doc[j].status # "over" /\ Swarm!Followed(j)
  <2>1. j \notin left /\ (runs[j] <= 1 \/ requests = 0)
    BY <1>2 DEF Swarm!Calm
  <2>2. SwarmRun(j)
    BY <2>1
  <2>3. runs[j] \in Nat /\ Want(j) \in Nat /\ requests \in Nat
    BY WantType, Bounds DEF SwarmTyped, Typed
  <2>4. runs[j] = 0 \/ runs[j] = 1
    BY <2>1, <2>2, <2>3 DEF SwarmRun
  <2>5. AtLaunch(j) \/ Tracked(j)
    BY <1>2, <2>2, <2>4 DEF SwarmRun
  <2>6. tracked[j] = 1 => tracked[j] > 0
    OBVIOUS
  <2>7. QED
    BY <2>5, <2>6 DEF AtLaunch, Tracked, Swarm!Followed
<1>3. QED
  BY <1>1, <1>2

-----------------------------------------------------------------------------
(* Kubernetes: the plugin does to the client what ExecutorClient says.     *)

LEMMA KubernetesClient ==
    /\ \A j : Kubernetes!Submit(j) <=> Submit(j)
    /\ \A j : Kubernetes!Request(j) <=> Request(j)
    /\ Kubernetes!BeginPass => Begun(KubernetesJob)
    /\ \A j : Kubernetes!Treat(j) <=> Treat(j)
    /\ \A s : Kubernetes!Publish(s) <=> Published(KubernetesJob, s)
    /\ \A j : Kubernetes!DropUnknown(j) <=> DropUnknown(j)
    /\ \A j, a : Kubernetes!TakeOut(j, a) <=> TakeOut(j, a)
    /\ \A k : Kubernetes!KillDone(k) <=> KillDone(k)
    /\ \A k : Kubernetes!KillFails(k) <=> KillFails(k)
    /\ \A e : Kubernetes!Finish(e) <=> Finish(e)
    /\ \A j : Kubernetes!KillPending(j) <=> KillPending(j)
    /\ \A j : Kubernetes!UnderWay(j) <=> UnderWay(j)
    /\ \A j : Kubernetes!Stored(j) <=> Stored(j)
<1>1. /\ \A j : Kubernetes!Submit(j) <=> Submit(j)
      /\ \A j : Kubernetes!Request(j) <=> Request(j)
      /\ \A j : Kubernetes!Treat(j) <=> Treat(j)
      /\ \A j : Kubernetes!DropUnknown(j) <=> DropUnknown(j)
  BY Zenon DEF Kubernetes!Submit, Submit, Kubernetes!Request, Request, Kubernetes!Treat, Treat,
     Kubernetes!DropUnknown, DropUnknown, Kubernetes!Stored, Stored, Kubernetes!passVars, passVars
<1>2. Kubernetes!BeginPass => Begun(KubernetesJob)
  BY DEF Kubernetes!BeginPass, Begun, Kubernetes!Pending
<1>3. \A s : Kubernetes!Publish(s) <=> Published(KubernetesJob, s)
  BY Zenon DEF Kubernetes!Publish, Published, Kubernetes!Stored, Stored
<1>4. /\ \A j, a : Kubernetes!TakeOut(j, a) <=> TakeOut(j, a)
      /\ \A k : Kubernetes!KillDone(k) <=> KillDone(k)
      /\ \A k : Kubernetes!KillFails(k) <=> KillFails(k)
      /\ \A j : Kubernetes!KillPending(j) <=> KillPending(j)
  <2>1. Kubernetes!Busy <=> Busy
    BY DEF Kubernetes!Busy, Busy, Kubernetes!Cardinality, Cardinality
  <2>2. /\ \A j, a : Kubernetes!TakeOut(j, a) <=> TakeOut(j, a)
        /\ \A k : Kubernetes!KillDone(k) <=> KillDone(k)
    BY Zenon, <2>1 DEF Kubernetes!Examine, Examine, Kubernetes!TakeOut, TakeOut,
       Kubernetes!KillDone, KillDone, Kubernetes!passVars, passVars
  <2>3. /\ \A k : Kubernetes!KillFails(k) <=> KillFails(k)
        /\ \A j : Kubernetes!KillPending(j) <=> KillPending(j)
    BY Zenon, <2>1 DEF Kubernetes!KillFails, KillFails, Kubernetes!KillPending, KillPending,
       Kubernetes!Stored, Stored, Kubernetes!passVars, passVars
  <2>4. QED
    BY <2>2, <2>3
<1>5. /\ \A e : Kubernetes!Finish(e) <=> Finish(e)
      /\ \A j : Kubernetes!Stored(j) <=> Stored(j)
      /\ \A j : Kubernetes!UnderWay(j) <=> UnderWay(j)
  BY Zenon DEF Kubernetes!UnderWay, UnderWay, Kubernetes!Finish, Finish, Kubernetes!Stored, Stored, Kubernetes!Requeued, Requeued,
     Kubernetes!passVars, passVars
<1>6. QED
  BY <1>1, <1>2, <1>3, <1>4, <1>5

-----------------------------------------------------------------------------
(* Kubernetes: the invariant.                                              *)

Phase == Kubernetes!Phase
NoPod(j) == pod[j] = "none"

KubeTyped ==
    /\ pod \in [KubernetesJob -> Phase] /\ known \in [KubernetesJob -> Phase]
    /\ unfit \subseteq KubernetesJob
    /\ faults \in 0 .. MaxFaults
    /\ pods \in [KubernetesJob -> 0 .. 2] /\ left \subseteq KubernetesJob

\* Where a job with a pod is, and one without a pod.
WithPod(j) == AtLaunch(j) \/ Tracked(j) \/ GivenBack(j)
Without(j) == Idle(j) \/ Ending(j) \/ Over(j)

\* The first pod of a job is followed, whatever the requests; so are the others, as
\* long as there was no request.
KubePod(j) ==
    /\ pods[j] = 0 => Unrun(j) /\ NoPod(j)
    /\ pods[j] = 1 => NoPod(j) \/ WithPod(j)
    /\ requests = 0 => NoKill(j) /\ IF NoPod(j) THEN Without(j) ELSE WithPod(j)

KubeInv ==
    /\ Typed(KubernetesJob) /\ KubeTyped /\ Passes(KubernetesJob)
    /\ \A j \in KubernetesJob : j \notin left => KubePod(j)

\* A step that leaves the job where it is, and its pod alone.
LEMMA KubeKept ==
    ASSUME KubeInv, NEW j \in KubernetesJob, Kept(j), j \notin left', left \subseteq left',
           pods'[j] = pods[j], NoPod(j)' <=> NoPod(j), requests' = requests
    PROVE  KubePod(j)'
<1>1. KubePod(j)
  BY DEF KubeInv
<1>2. /\ Idle(j) => Idle(j)'
      /\ Unrun(j) => Unrun(j)'
      /\ AtLaunch(j) => AtLaunch(j)'
      /\ Tracked(j) => Tracked(j)'
      /\ GivenBack(j) => GivenBack(j)'
      /\ Ending(j) => Ending(j)'
      /\ Over(j) => Over(j)'
  BY KeptPhases
<1>3. (WithPod(j) => WithPod(j)') /\ (Without(j) => Without(j)')
  BY <1>2 DEF WithPod, Without
<1>4. NoKill(j) => NoKill(j)'
  BY DEF Kept
<1>5. QED
  BY <1>1, <1>2, <1>3, <1>4 DEF KubePod

-----------------------------------------------------------------------------
(* Kubernetes: the steps.                                                  *)

LEMMA KubeOther ==
    ASSUME Kubernetes!Other
    PROVE  UNCHANGED <<pod, unfit, known, faults, pods, left>>
BY DEF Kubernetes!Other, Kubernetes!cluster, Kubernetes!history

LEMMA KubeUsers ==
    ASSUME KubeInv, NEW i \in KubernetesJob, Submit(i) \/ Request(i), Kubernetes!Other
    PROVE  KubeInv'
<1> USE DEF KubeInv
<1>1. Typed(KubernetesJob)'
  BY UsersTyped
<1>2. UNCHANGED <<pod, unfit, known, faults, pods, left>> /\ UNCHANGED <<ending, passVars>>
  BY KubeOther DEF Submit, Request
<1>3. KubeTyped'
  BY <1>2 DEF KubeTyped
<1>4. Passes(KubernetesJob)'
  <2>1. \A j \in KubernetesJob : doc[j].status # "new" => doc'[j].status # "new"
    <3>1. ASSUME NEW j \in KubernetesJob PROVE doc[j].status # "new" => doc'[j].status # "new"
      <4>1. CASE j # i
        BY <4>1, UsersFrame DEF Kept
      <4>2. CASE j = i
        BY <4>2, SubmitJob, RequestJob
      <4>3. QED
        BY <4>1, <4>2
    <3>2. QED
      BY <3>1
  <2>2. QED
    BY <1>2, <2>1, PassesKept
<1>5. ASSUME NEW j \in KubernetesJob, j \notin left' PROVE KubePod(j)'
  <2>1. KubePod(j)
    BY <1>2, <1>5
  <2>2. NoPod(j)' <=> NoPod(j)
    BY <1>2 DEF NoPod
  <2>3. CASE Submit(i)
    <3>1. requests' = requests /\ killq' = killq
      BY <2>3 DEF Submit
    <3>2. CASE j # i
      BY <1>2, <1>5, <2>2, <3>1, <3>2, UsersFrame, KubeKept
    <3>3. CASE j = i
      <4>1. /\ doc[j].status = "new" /\ (Unrun(j) => Unrun(j)') /\ (Idle(j) => Idle(j)')
        BY <2>3, <3>3, SubmitJob
      <4>2. ~WithPod(j) /\ ~Ending(j) /\ ~Over(j)
        BY <4>1 DEF WithPod, AtLaunch, Tracked, GivenBack, Ending, Over
      <4>3. NoKill(j) => NoKill(j)'
        BY <3>1 DEF NoKill
      <4>4. QED
        BY <1>2, <2>1, <2>2, <3>1, <4>1, <4>2, <4>3 DEF KubePod, Without
    <3>4. QED
      BY <3>2, <3>3
  <2>4. CASE Request(i)
    <3>1. requests' # 0
      <4>1. requests \in Nat
        BY Bounds DEF Typed
      <4>2. requests' = requests + 1
        BY <2>4 DEF Request
      <4>3. QED
        BY <4>1, <4>2
    <3>2. /\ Unrun(j) => Unrun(j)'
          /\ WithPod(j) => WithPod(j)'
      <4>1. CASE j # i
        BY <2>4, <4>1, UsersFrame, KeptPhases DEF WithPod
      <4>2. CASE j = i
        BY <2>4, <4>2, RequestJob DEF WithPod
      <4>3. QED
        BY <4>1, <4>2
    <3>3. QED
      BY <1>2, <2>1, <2>2, <3>1, <3>2 DEF KubePod
  <2>5. QED
    BY <2>3, <2>4
<1>6. QED
  BY <1>1, <1>3, <1>4, <1>5

LEMMA KubeBegin ==
    ASSUME KubeInv, Kubernetes!BeginPass, Kubernetes!Other
    PROVE  KubeInv'
<1> USE DEF KubeInv
<1>1. Begun(KubernetesJob)
  BY KubernetesClient
<1>2. Typed(KubernetesJob)' /\ Passes(KubernetesJob)'
  BY <1>1, BegunTyped, PassesEnds
<1>3. /\ UNCHANGED <<pod, unfit, known, faults, pods, left>> /\ requests' = requests
  BY <1>1, KubeOther DEF Begun
<1>4. KubeTyped'
  BY <1>3 DEF KubeTyped
<1>5. \A j \in KubernetesJob : NoPod(j)' <=> NoPod(j)
  BY <1>3 DEF NoPod
<1>6. ASSUME NEW j \in KubernetesJob, j \notin left' PROVE KubePod(j)'
  BY <1>1, <1>3, <1>5, <1>6, BegunFrame, KubeKept
<1>7. QED
  BY <1>2, <1>4, <1>6

\* The pod of a job, and the number of pods it had.
LEMMA CreateTyped ==
    ASSUME KubeTyped, NEW i \in KubernetesJob, Kubernetes!Create(i)
    PROVE  /\ pod' \in [KubernetesJob -> Phase] /\ pods' \in [KubernetesJob -> 0 .. 2]
           /\ ~NoPod(i)' /\ pods'[i] # 0 /\ (pods'[i] = 1 => pods[i] = 0)
           /\ \A j \in KubernetesJob : j # i => pods'[j] = pods[j] /\ (NoPod(j)' <=> NoPod(j))
<1>1. /\ pod' = [pod EXCEPT ![i] = "pending"]
      /\ pods' = [pods EXCEPT ![i] = IF @ < 2 THEN @ + 1 ELSE @]
  BY DEF Kubernetes!Create
<1>2. "pending" \in Phase
  BY DEF Phase, Kubernetes!Phase
<1>3. /\ pod' \in [KubernetesJob -> Phase] /\ ~NoPod(i)'
      /\ \A j \in KubernetesJob : j # i => (NoPod(j)' <=> NoPod(j))
  BY <1>1, <1>2 DEF KubeTyped, NoPod
<1>4. pods \in [KubernetesJob -> 0 .. 2]
  BY DEF KubeTyped
<1>5. pods' = [pods EXCEPT ![i] = IF @ < 2 THEN @ + 1 ELSE @]
  BY <1>1
<1>6. /\ pods' \in [KubernetesJob -> 0 .. 2]
      /\ pods'[i] # 0 /\ (pods'[i] = 1 => pods[i] = 0)
      /\ \A j \in KubernetesJob : j # i => pods'[j] = pods[j]
  BY <1>4, <1>5
<1>7. QED
  BY <1>3, <1>6

LEMMA KubeRun ==
    ASSUME KubeInv, NEW i \in KubernetesJob, Kubernetes!RunTask(i)
    PROVE  KubeInv'
<1> USE DEF KubeInv
<1>1. /\ Treat(i) /\ started' = started \cup {i} /\ refused' = refused
      /\ NoPod(i) /\ Kubernetes!Create(i)
      /\ UNCHANGED <<unfit, known, faults, left>>
  BY KubernetesClient DEF Kubernetes!RunTask, NoPod
<1>2. Typed(KubernetesJob)'
  BY <1>1, TreatTyped
<1>3. /\ i \in batch /\ spc = "run" /\ batch' = batch \ {i}
      /\ UNCHANGED <<doc, tracked, snap, killq, ending, spc, early, requests>>
  BY <1>1 DEF Treat
<1>4. Passes(KubernetesJob)'
  BY <1>1, <1>3, PassesKept
<1>5. /\ pod' \in [KubernetesJob -> Phase] /\ pods' \in [KubernetesJob -> 0 .. 2]
      /\ ~NoPod(i)' /\ pods'[i] # 0 /\ (pods'[i] = 1 => pods[i] = 0)
      /\ \A j \in KubernetesJob : j # i => pods'[j] = pods[j] /\ (NoPod(j)' <=> NoPod(j))
  BY <1>1, CreateTyped
<1>6. KubeTyped'
  BY <1>1, <1>5 DEF KubeTyped
<1>7. ASSUME NEW j \in KubernetesJob, j \notin left' PROVE KubePod(j)'
  <2>1. CASE j # i
    BY <1>1, <1>3, <1>5, <1>7, <2>1, TreatFrame, KubeKept
  <2>2. CASE j = i
    <3>1. Unrun(j) => AtLaunch(j)'
      BY <1>1, <2>2, LaunchJob
    <3>2. KubePod(j)
      BY <1>1, <1>7
    <3>3. requests = 0 => Unrun(j)
      <4>1. ~Ending(j) /\ ~Over(j)
        BY <1>3, <2>2 DEF Ending, Over, Away
      <4>2. QED
        BY <1>1, <2>2, <3>2, <4>1 DEF KubePod, Without, Unrun
    <3>4. Unrun(j) => NoKill(j)'
      BY <1>3 DEF Unrun, NoKill
    <3>5. QED
      BY <1>3, <1>5, <2>2, <3>1, <3>2, <3>3, <3>4 DEF KubePod, WithPod
  <2>3. QED
    BY <2>1, <2>2
<1>8. QED
  BY <1>2, <1>4, <1>6, <1>7

\* A refusal, or an answer that is lost or says that the pod failed: what has a pod
\* of which the plugin says nothing is left behind.
LEMMA KubeNotRun ==
    ASSUME KubeInv, NEW i \in KubernetesJob,
           Kubernetes!RunConflict(i) \/ Kubernetes!RunLostAnswer(i) \/ Kubernetes!RunFailed(i)
    PROVE  KubeInv'
<1> USE DEF KubeInv
<1>1. /\ Treat(i) /\ started' = started /\ refused' \in {refused, refused \cup {i}}
      /\ UNCHANGED <<unfit, known>>
      /\ faults' = faults \/ (faults < MaxFaults /\ faults' = faults + 1)
      /\ \/ UNCHANGED <<pod, pods, left>>
         \/ Kubernetes!Create(i) /\ left' = left \cup {i}
         \/ pod' = [pod EXCEPT ![i] = "failed"] /\ left' = left \cup {i} /\ pods' = pods
  BY KubernetesClient DEF Kubernetes!RunConflict, Kubernetes!RunLostAnswer, Kubernetes!RunFailed,
     Kubernetes!cluster, Kubernetes!history
<1>2. Typed(KubernetesJob)'
  BY <1>1, TreatTyped
<1>3. /\ spc = "run" /\ batch' = batch \ {i}
      /\ UNCHANGED <<doc, tracked, snap, killq, ending, spc, early, requests>>
  BY <1>1 DEF Treat
<1>4. Passes(KubernetesJob)'
  <2>1. started' \cup batch' \subseteq started \cup batch
    BY <1>1, <1>3
  <2>2. QED
    BY <1>3, <2>1, PassesKept
<1>5. /\ pod' \in [KubernetesJob -> Phase] /\ pods' \in [KubernetesJob -> 0 .. 2]
      /\ left' \subseteq KubernetesJob /\ left \subseteq left'
      /\ \A j \in KubernetesJob :
            j \notin left' => pods'[j] = pods[j] /\ (NoPod(j)' <=> NoPod(j))
  <2>1. CASE UNCHANGED <<pod, pods, left>>
    BY <2>1 DEF KubeTyped, NoPod
  <2>2. CASE Kubernetes!Create(i) /\ left' = left \cup {i}
    BY <2>2, CreateTyped DEF KubeTyped
  <2>3. CASE pod' = [pod EXCEPT ![i] = "failed"] /\ left' = left \cup {i} /\ pods' = pods
    <3>1. "failed" \in Phase
      BY DEF Phase, Kubernetes!Phase, Kubernetes!Ended
    <3>2. QED
      BY <2>3, <3>1 DEF KubeTyped, NoPod
  <2>4. QED
    BY <1>1, <2>1, <2>2, <2>3
<1>6. KubeTyped'
  <2>1. faults' \in 0 .. MaxFaults
    BY <1>1, Bounds DEF KubeTyped
  <2>2. QED
    BY <1>1, <1>5, <2>1 DEF KubeTyped
<1>7. ASSUME NEW j \in KubernetesJob, j \notin left' PROVE KubePod(j)'
  <2>1. Kept(j)
    BY <1>1, TreatFrame
  <2>2. QED
    BY <1>3, <1>5, <1>7, <2>1, KubeKept
<1>8. QED
  BY <1>2, <1>4, <1>6, <1>7

LEMMA KubePublish ==
    ASSUME KubeInv, Kubernetes!PublishPods
    PROVE  KubeInv'
<1> USE DEF KubeInv
<1>1. /\ Published(KubernetesJob, "phase") /\ UNCHANGED <<pod, unfit, faults, pods, left>>
      /\ known' = [j \in KubernetesJob |-> IF j \in started THEN "pending" ELSE known[j]]
  BY KubernetesClient DEF Kubernetes!PublishPods, Kubernetes!cluster, Kubernetes!history
<1>2. "phase" \in Plain /\ "phase" \in Secondary
  BY DEF Plain, Secondary
<1>3. Typed(KubernetesJob)' /\ Passes(KubernetesJob)'
  BY <1>1, <1>2, PublishedTyped, PassesEnds
<1>4. KubeTyped'
  <2>1. "pending" \in Phase
    BY DEF Phase, Kubernetes!Phase
  <2>2. QED
    BY <1>1, <2>1 DEF KubeTyped
<1>5. UNCHANGED <<killq, ending, early, requests>>
  BY <1>1 DEF Published
<1>6. ASSUME NEW j \in KubernetesJob, j \notin left' PROVE KubePod(j)'
  <2>1. NoPod(j)' <=> NoPod(j)
    BY <1>1 DEF NoPod
  <2>2. CASE j \notin started
    <3>1. Kept(j)
      BY <1>1, <1>2, <2>2, PublishedFrame
    <3>2. QED
      BY <1>1, <1>5, <1>6, <2>1, <3>1, KubeKept
  <2>3. CASE j \in started
    <3>1. AtLaunch(j) => Tracked(j)'
      BY <1>1, <1>2, <2>3, PublishedJob
    <3>2. ~Unrun(j) /\ ~Without(j) /\ ~Tracked(j) /\ ~GivenBack(j)
      BY <2>3 DEF Unrun, Without, Idle, Ending, Over, Tracked, GivenBack, Away
    <3>3. KubePod(j)
      BY <1>1, <1>6
    <3>4. NoKill(j) => NoKill(j)'
      BY <1>5 DEF NoKill
    <3>5. QED
      BY <1>1, <1>5, <2>1, <3>1, <3>2, <3>3, <3>4 DEF KubePod, WithPod
  <2>4. QED
    BY <2>2, <2>3
<1>7. QED
  BY <1>3, <1>4, <1>6

\* The phase of a pod in the document.
LEMMA OverwriteDoc ==
    ASSUME Typed(KubernetesJob), NEW i \in KubernetesJob, Kubernetes!Overwrite(i) \/ doc' = doc
    PROVE  /\ doc' \in [KubernetesJob -> Document]
           /\ \A j \in KubernetesJob : doc'[j].status = doc[j].status /\ (Asked(j)' => Asked(j))
<1>1. CASE doc' = doc
  BY <1>1 DEF Typed, Asked
<1>2. CASE doc' = [doc EXCEPT ![i].secondary = "phase"]
  <2>1. "phase" \in Plain
    BY DEF Plain, Secondary
  <2>2. ASSUME NEW s \in Plain, doc' = [doc EXCEPT ![i].secondary = s]
        PROVE  /\ doc' \in [KubernetesJob -> Document]
               /\ \A j \in KubernetesJob :
                     doc'[j].status = doc[j].status /\ (Asked(j)' => Asked(j))
    <3>1. s \in Secondary
      BY DEF Plain
    <3>2. s # "reschedule requested"
      BY DEF Plain
    <3>3. /\ doc' \in [KubernetesJob -> Document]
          /\ \A j \in KubernetesJob : doc'[j].status = doc[j].status /\ doc'[j].fails = doc[j].fails
          /\ \A j \in KubernetesJob : doc'[j].secondary = IF j = i THEN s ELSE doc[j].secondary
      BY <2>2, <3>1, SecondaryTyped
    <3>4. QED
      BY <3>2, <3>3 DEF Asked
  <2>3. QED
    BY <1>2, <2>1, <2>2
<1>3. QED
  BY <1>1, <1>2 DEF Kubernetes!Overwrite

\* A step of the cluster, and a watcher that finds the job running.
LEMMA KubeCluster ==
    ASSUME KubeInv,
           doc' \in [KubernetesJob -> Document],
           \A j \in KubernetesJob : doc'[j].status = doc[j].status /\ (Asked(j)' => Asked(j)),
           UNCHANGED <<tracked, snap, killq, ending, passVars, early, requests, faults, pods, left>>,
           pod' \in [KubernetesJob -> Phase], known' \in [KubernetesJob -> Phase],
           unfit' \subseteq KubernetesJob,
           \A j \in KubernetesJob : NoPod(j)' <=> NoPod(j)
    PROVE  KubeInv'
<1> USE DEF KubeInv
<1>1. Typed(KubernetesJob)'
  BY DEF Typed, passVars
<1>2. KubeTyped'
  BY DEF KubeTyped
<1>3. Passes(KubernetesJob)'
  BY PassesKept
<1>4. ASSUME NEW j \in KubernetesJob, j \notin left' PROVE KubePod(j)'
  <2>1. Kept(j)
    BY SecondaryFrame
  <2>2. QED
    BY <1>4, <2>1, KubeKept
<1>5. QED
  BY <1>1, <1>2, <1>3, <1>4

LEMMA KubeRunning ==
    ASSUME KubeInv, NEW i \in KubernetesJob, Kubernetes!WatchRunning(i)
    PROVE  KubeInv'
<1>1. /\ UNCHANGED <<tracked, snap, killq, ending, passVars, early, requests, pod, unfit, faults, pods, left>>
      /\ known' = [known EXCEPT ![i] = "running"]
      /\ Kubernetes!Overwrite(i)
  BY DEF Kubernetes!WatchRunning, Kubernetes!cluster, Kubernetes!history, Kubernetes!passVars,
     passVars
<1>2. "running" \in Phase
  BY DEF Phase, Kubernetes!Phase
<1>3. /\ pod' \in [KubernetesJob -> Phase] /\ known' \in [KubernetesJob -> Phase]
      /\ unfit' \subseteq KubernetesJob
      /\ \A j \in KubernetesJob : NoPod(j)' <=> NoPod(j)
  BY <1>1, <1>2 DEF KubeInv, KubeTyped, NoPod
<1>4. /\ doc' \in [KubernetesJob -> Document]
      /\ \A j \in KubernetesJob : doc'[j].status = doc[j].status /\ (Asked(j)' => Asked(j))
  BY <1>1, OverwriteDoc DEF KubeInv
<1>5. QED
  BY <1>1, <1>3, <1>4, KubeCluster

LEMMA KubeEnvironment ==
    ASSUME KubeInv, NEW i \in KubernetesJob,
           \/ Kubernetes!CannotSchedule(i) \/ Kubernetes!PodStarts(i)
           \/ Kubernetes!PodEnds(i) \/ Kubernetes!EventsExpire(i)
    PROVE  KubeInv'
<1>1. /\ UNCHANGED <<doc, tracked, snap, killq, ending, passVars, early, requests>>
      /\ UNCHANGED <<known, faults, pods, left>>
  BY DEF Kubernetes!CannotSchedule, Kubernetes!PodStarts, Kubernetes!PodEnds,
     Kubernetes!EventsExpire, Kubernetes!client, Kubernetes!passVars, passVars,
     Kubernetes!history
<1>2. pod \in [KubernetesJob -> Phase] /\ known \in [KubernetesJob -> Phase]
      /\ unfit \subseteq KubernetesJob
  BY DEF KubeInv, KubeTyped
<1>3. unfit' \subseteq KubernetesJob
  BY <1>2 DEF Kubernetes!CannotSchedule, Kubernetes!PodStarts, Kubernetes!PodEnds,
     Kubernetes!EventsExpire
<1>4. \/ pod' = pod
      \/ \E p \in Phase \ {"none"} : ~NoPod(i) /\ pod' = [pod EXCEPT ![i] = p]
  BY <1>2 DEF Kubernetes!CannotSchedule, Kubernetes!PodStarts, Kubernetes!PodEnds,
     Kubernetes!EventsExpire, Phase, Kubernetes!Phase, Kubernetes!Ended, NoPod
<1>5. /\ pod' \in [KubernetesJob -> Phase] /\ \A j \in KubernetesJob : NoPod(j)' <=> NoPod(j)
  BY <1>2, <1>4 DEF NoPod
<1>6. /\ doc' \in [KubernetesJob -> Document]
      /\ \A j \in KubernetesJob : doc'[j].status = doc[j].status /\ (Asked(j)' => Asked(j))
  BY <1>1 DEF KubeInv, Typed, Asked
<1>7. known' \in [KubernetesJob -> Phase]
  BY <1>1, <1>2
<1>8. QED
  BY <1>1, <1>3, <1>5, <1>6, <1>7, KubeCluster

\* The deletion of a pod: when it fails the job is left behind.
LEMMA DeleteTyped ==
    ASSUME KubeTyped, NEW i \in KubernetesJob, Kubernetes!Delete(i)
    PROVE  /\ pod' \in [KubernetesJob -> Phase]
           /\ faults' \in 0 .. MaxFaults
           /\ left \subseteq left' /\ left' \subseteq KubernetesJob
           /\ i \notin left' => NoPod(i)'
           /\ \A j \in KubernetesJob : j # i => (NoPod(j)' <=> NoPod(j))
<1>1. CASE pod' = [pod EXCEPT ![i] = "none"] /\ UNCHANGED <<faults, left>>
  <2>1. "none" \in Phase
    BY DEF Phase, Kubernetes!Phase
  <2>2. QED
    BY <1>1, <2>1 DEF KubeTyped, NoPod
<1>2. CASE /\ faults < MaxFaults /\ faults' = faults + 1
           /\ left' = left \cup {i} /\ pod' = pod
  BY <1>2, Bounds DEF KubeTyped, NoPod
<1>3. QED
  BY <1>1, <1>2 DEF Kubernetes!Delete

\* A watcher takes out a job whose pod ended, which it deletes, or cannot be scheduled.
LEMMA KubeWatch ==
    ASSUME KubeInv, NEW i \in KubernetesJob,
           Kubernetes!WatchEnded(i) \/ Kubernetes!WatchPending(i)
    PROVE  KubeInv'
<1> USE DEF KubeInv
<1>1. PICK a \in Answers :
        /\ TakeOut(i, a)
        /\ Kubernetes!Overwrite(i) \/ doc' = doc
        /\ UNCHANGED <<unfit, known, pods>>
        /\ \/ a \in {"watch", "watch failed"} /\ Kubernetes!Delete(i)
           \/ a = "unschedulable" /\ UNCHANGED <<pod, faults, left>>
        /\ ~NoPod(i)
  <2>1. CASE Kubernetes!WatchEnded(i)
    <3>1. (IF pod[i] = "failed" THEN "watch failed" ELSE "watch") \in Answers
      BY DEF Answers
    <3>2. ~NoPod(i)
      BY <2>1 DEF Kubernetes!WatchEnded, Kubernetes!Ended, NoPod
    <3>3. QED
      BY <2>1, <3>1, <3>2, KubernetesClient DEF Kubernetes!WatchEnded
  <2>2. CASE Kubernetes!WatchPending(i)
    <3>1. "unschedulable" \in Answers
      BY DEF Answers
    <3>2. ~NoPod(i)
      BY <2>2 DEF Kubernetes!WatchPending, NoPod
    <3>3. QED
      BY <2>2, <3>1, <3>2, KubernetesClient DEF Kubernetes!WatchPending, Kubernetes!cluster,
         Kubernetes!history
  <2>3. QED
    BY <2>1, <2>2
<1>2. /\ doc' \in [KubernetesJob -> Document]
      /\ \A j \in KubernetesJob : doc'[j].status = doc[j].status /\ (Asked(j)' => Asked(j))
  BY <1>1, OverwriteDoc
<1>3. Typed(KubernetesJob)'
  BY <1>1, <1>2, TakeOutTyped
<1>4. UNCHANGED <<snap, killq, passVars, early, requests>>
  BY <1>1 DEF TakeOut
<1>5. Passes(KubernetesJob)'
  BY <1>2, <1>4, PassesKept
<1>6. /\ pod' \in [KubernetesJob -> Phase] /\ faults' \in 0 .. MaxFaults
      /\ left \subseteq left' /\ left' \subseteq KubernetesJob
      /\ \A j \in KubernetesJob : j # i => (NoPod(j)' <=> NoPod(j))
      /\ a \in {"watch", "watch failed"} /\ i \notin left' => NoPod(i)'
      /\ a = "unschedulable" => ~NoPod(i)'
      /\ a \in {"watch", "watch failed", "unschedulable"}
  <2>1. CASE a \in {"watch", "watch failed"} /\ Kubernetes!Delete(i)
    BY <2>1, DeleteTyped
  <2>2. CASE a = "unschedulable" /\ UNCHANGED <<pod, faults, left>>
    BY <1>1, <2>2 DEF KubeTyped, NoPod
  <2>3. QED
    BY <1>1, <2>1, <2>2
<1>7. KubeTyped'
  BY <1>1, <1>6 DEF KubeTyped
<1>8. ASSUME NEW j \in KubernetesJob, j \notin left' PROVE KubePod(j)'
  <2>1. KubePod(j)
    BY <1>6, <1>8
  <2>2. CASE j # i
    <3>1. Kept(j)
      BY <1>1, <1>2, <2>2, TakeOutFrame
    <3>2. QED
      BY <1>1, <1>4, <1>6, <1>8, <2>2, <3>1, KubeKept
  <2>3. CASE j = i
    <3>1. /\ ~Idle(j) /\ ~Unrun(j) /\ ~AtLaunch(j)
          /\ ~GivenBack(j) /\ ~Ending(j) /\ ~Over(j)
          /\ Tracked(j) /\ a = "unschedulable" => GivenBack(j)'
          /\ Tracked(j) /\ a \in {"watch", "watch failed"} => Ending(j)'
      <4>1. a \in Answers \ {"again"}
        BY <1>6
      <4>2. QED
        BY <1>1, <1>2, <2>3, <4>1, TakeOutJob
    <3>2. NoKill(j) => NoKill(j)'
      BY <1>4 DEF NoKill
    <3>3. CASE a = "unschedulable"
      BY <1>1, <1>4, <1>6, <2>1, <2>3, <3>1, <3>2, <3>3 DEF KubePod, WithPod, Without
    <3>4. CASE a \in {"watch", "watch failed"}
      BY <1>1, <1>4, <1>6, <1>8, <2>1, <2>3, <3>1, <3>2, <3>4 DEF KubePod, WithPod, Without
    <3>5. QED
      BY <1>6, <3>3, <3>4
  <2>4. QED
    BY <2>2, <2>3
<1>9. QED
  BY <1>3, <1>5, <1>7, <1>8

LEMMA KubeDrop ==
    ASSUME KubeInv, NEW i \in KubernetesJob, DropUnknown(i), Kubernetes!Other
    PROVE  KubeInv'
<1> USE DEF KubeInv
<1>1. /\ UNCHANGED <<doc, snap, killq, ending, passVars, early, requests>>
      /\ UNCHANGED <<pod, unfit, known, faults, pods, left>>
  BY KubeOther DEF DropUnknown
<1>2. Typed(KubernetesJob)'
  BY DropTyped
<1>3. KubeTyped' /\ Passes(KubernetesJob)'
  BY <1>1, PassesKept DEF KubeTyped
<1>4. ASSUME NEW j \in KubernetesJob, j \notin left' PROVE KubePod(j)'
  <2>1. NoPod(j)' <=> NoPod(j)
    BY <1>1 DEF NoPod
  <2>2. CASE j # i
    BY <1>1, <1>4, <2>1, <2>2, DropFrame, KubeKept
  <2>3. CASE j = i
    <3>1. ~Unrun(j) /\ ~WithPod(j) /\ ~Without(j)
      BY <2>3, DropJob DEF WithPod, Without
    <3>2. KubePod(j)
      BY <1>1, <1>4
    <3>3. QED
      BY <1>1, <2>1, <3>1, <3>2 DEF KubePod
  <2>4. QED
    BY <2>2, <2>3
<1>5. QED
  BY <1>2, <1>3, <1>4

LEMMA KubeKill ==
    ASSUME KubeInv, NEW k \in killq, Kubernetes!KillPod(k)
    PROVE  KubeInv'
<1> USE DEF KubeInv
<1> DEFINE i == k[1]
<1>1. /\ KillDone(k) /\ pod' = [pod EXCEPT ![i] = "none"]
      /\ UNCHANGED <<unfit, known, faults, pods, left>>
  BY KubernetesClient DEF Kubernetes!KillPod, Kubernetes!history
<1>2. i \in KubernetesJob
  BY DEF Typed
<1>3. Typed(KubernetesJob)'
  BY <1>1, KillTyped
<1>4. UNCHANGED <<doc, tracked, snap, passVars, early, requests>>
  BY <1>1 DEF KillDone
<1>5. Passes(KubernetesJob)'
  BY <1>4, PassesKept
<1>6. /\ pod' \in [KubernetesJob -> Phase] /\ NoPod(i)'
      /\ \A j \in KubernetesJob : j # i => (NoPod(j)' <=> NoPod(j))
  <2>1. "none" \in Phase
    BY DEF Phase, Kubernetes!Phase
  <2>2. QED
    BY <1>1, <1>2, <2>1 DEF KubeTyped, NoPod
<1>7. KubeTyped'
  BY <1>1, <1>6 DEF KubeTyped
<1>8. ASSUME NEW j \in KubernetesJob, j \notin left' PROVE KubePod(j)'
  <2>1. CASE j # i
    <3>1. Kept(j)
      BY <1>1, <2>1, KillFrame
    <3>2. QED
      BY <1>1, <1>4, <1>6, <1>8, <2>1, <3>1, KubeKept
  <2>2. CASE j = i
    <3>1. ~NoKill(j)
      BY <1>1, <2>2, KillJob
    <3>2. KubePod(j)
      BY <1>1, <1>8
    <3>3. QED
      BY <1>1, <1>4, <1>6, <2>2, <3>1, <3>2 DEF KubePod, Unrun
  <2>3. QED
    BY <2>1, <2>2
<1>9. QED
  BY <1>3, <1>5, <1>7, <1>8

LEMMA KubeKillFails ==
    ASSUME KubeInv, NEW k \in killq, Kubernetes!KillPodFails(k)
    PROVE  KubeInv'
<1> USE DEF KubeInv
<1>1. /\ KillFails(k) /\ faults < MaxFaults /\ faults' = faults + 1
      /\ UNCHANGED <<pod, unfit, known, pods, left>>
  BY KubernetesClient DEF Kubernetes!KillPodFails, Kubernetes!cluster, Kubernetes!history
<1>2. Typed(KubernetesJob)'
  BY <1>1, KillTyped
<1>3. UNCHANGED <<tracked, snap, ending, passVars, early, requests>>
  BY <1>1 DEF KillFails
<1>4. \A j \in KubernetesJob : Kept(j)
  BY <1>1, KillFrame
<1>5. Passes(KubernetesJob)'
  <2>1. \A j \in KubernetesJob : doc[j].status # "new" => doc'[j].status # "new"
    BY <1>4 DEF Kept
  <2>2. QED
    BY <1>3, <2>1, PassesKept
<1>6. KubeTyped'
  <2>1. faults' \in 0 .. MaxFaults
    BY <1>1, Bounds DEF KubeTyped
  <2>2. QED
    BY <1>1, <2>1 DEF KubeTyped
<1>7. ASSUME NEW j \in KubernetesJob, j \notin left' PROVE KubePod(j)'
  <2>1. NoPod(j)' <=> NoPod(j)
    BY <1>1 DEF NoPod
  <2>2. QED
    BY <1>1, <1>3, <1>4, <1>7, <2>1, KubeKept
<1>8. QED
  BY <1>2, <1>5, <1>6, <1>7

LEMMA KubeFinish ==
    ASSUME KubeInv, NEW e \in ending, Finish(e), Kubernetes!Other
    PROVE  KubeInv'
<1> USE DEF KubeInv
<1>1. UNCHANGED <<pod, unfit, known, faults, pods, left>>
      /\ UNCHANGED <<tracked, killq, passVars, early, requests>>
  BY KubeOther DEF Finish
<1>2. Typed(KubernetesJob)' /\ e[1] \in KubernetesJob
  BY FinishTyped DEF Typed
<1>3. Passes(KubernetesJob)'
  <2>1. \A j \in KubernetesJob : doc[j].status # "new" => doc'[j].status # "new"
    BY FinishDoc
  <2>2. QED
    BY <1>1, <2>1, PassesKept
<1>4. KubeTyped'
  BY <1>1 DEF KubeTyped
<1>5. ASSUME NEW j \in KubernetesJob, j \notin left' PROVE KubePod(j)'
  <2>1. NoPod(j)' <=> NoPod(j)
    BY <1>1 DEF NoPod
  <2>2. CASE j # e[1]
    BY <1>1, <1>5, <2>1, <2>2, FinishFrame, KubeKept
  <2>3. CASE j = e[1]
    <3>1. /\ ~Idle(j) /\ ~Unrun(j) /\ ~AtLaunch(j) /\ ~Tracked(j) /\ ~GivenBack(j) /\ ~Over(j)
          /\ Ending(j) => Idle(j)' \/ Over(j)'
      BY <2>3, FinishJob
    <3>2. KubePod(j)
      BY <1>1, <1>5
    <3>3. NoKill(j) => NoKill(j)'
      BY <1>1 DEF NoKill
    <3>4. QED
      BY <1>1, <2>1, <3>1, <3>2, <3>3 DEF KubePod, WithPod, Without
  <2>4. QED
    BY <2>2, <2>3
<1>6. QED
  BY <1>2, <1>3, <1>4, <1>5

\* A pod that cannot be scheduled is deleted, and its job waits again.
LEMMA KubeGiveBack ==
    ASSUME KubeInv, NEW i \in KubernetesJob, Kubernetes!GiveBack(i)
    PROVE  KubeInv'
<1> USE DEF KubeInv
<1>1. /\ <<i, "unschedulable">> \in ending
      /\ ending' = ending \ {<<i, "unschedulable">>}
      /\ Kubernetes!Delete(i)
      /\ doc' = IF Stored(i)
                THEN [doc EXCEPT ![i].status = "pending", ![i].secondary = "rejected"] ELSE doc
      /\ UNCHANGED <<tracked, snap, killq, passVars, early, requests>>
      /\ UNCHANGED <<unfit, known, pods>>
  BY KubernetesClient DEF Kubernetes!GiveBack, Kubernetes!passVars, passVars
<1>2. /\ doc' \in [KubernetesJob -> Document]
      /\ \A j \in KubernetesJob : j # i => doc'[j] = doc[j]
      /\ doc'[i].status = IF Stored(i) THEN "pending" ELSE doc[i].status
  <2>1. doc \in [KubernetesJob -> Document]
    BY DEF Typed
  <2>2. CASE ~Stored(i)
    BY <1>1, <2>1, <2>2
  <2>3. CASE Stored(i)
    <3>1. doc' = [doc EXCEPT ![i].status = "pending", ![i].secondary = "rejected"]
      BY <1>1, <2>3
    <3>2. doc'[i] = [status |-> "pending", secondary |-> "rejected", fails |-> doc[i].fails]
      BY <2>1, <3>1 DEF Document
    <3>3. doc[i].fails \in 0 .. FailurePolicy
      BY <2>1 DEF Document
    <3>4. doc'[i] \in Document
      BY <3>2, <3>3 DEF Document, Status, Secondary
    <3>5. doc' \in [KubernetesJob -> Document]
          /\ \A j \in KubernetesJob : j # i => doc'[j] = doc[j]
      BY <2>1, <3>1, <3>4
    <3>6. QED
      BY <2>3, <3>2, <3>5
  <2>4. QED
    BY <2>2, <2>3
<1>3. Typed(KubernetesJob)'
  BY <1>1, <1>2 DEF Typed, passVars
<1>4. Passes(KubernetesJob)'
  <2>1. \A j \in KubernetesJob : doc[j].status # "new" => doc'[j].status # "new"
    BY <1>2
  <2>2. QED
    BY <1>1, <2>1, PassesKept
<1>5. /\ pod' \in [KubernetesJob -> Phase] /\ faults' \in 0 .. MaxFaults
      /\ left \subseteq left' /\ left' \subseteq KubernetesJob
      /\ i \notin left' => NoPod(i)'
      /\ \A j \in KubernetesJob : j # i => (NoPod(j)' <=> NoPod(j))
  BY <1>1, DeleteTyped
<1>6. KubeTyped'
  BY <1>1, <1>5 DEF KubeTyped
<1>7. ASSUME NEW j \in KubernetesJob, j \notin left' PROVE KubePod(j)'
  <2>1. CASE j # i
    <3>1. Kept(j)
      BY <1>1, <1>2, <2>1 DEF Kept, Asked, NoKill, passVars
    <3>2. QED
      BY <1>1, <1>5, <1>7, <2>1, <3>1, KubeKept
  <2>2. CASE j = i
    <3>1. "unschedulable" \in Answers
      BY DEF Answers
    <3>2. ~NoEnd(j) /\ ~Ending(j)
      BY <1>1, <2>2, <3>1 DEF NoEnd, Ending
    <3>3. ~Unrun(j) /\ ~Without(j) /\ ~AtLaunch(j) /\ ~Tracked(j)
      BY <3>2 DEF Unrun, Without, Idle, Over, AtLaunch, Tracked
    <3>4. GivenBack(j) => Idle(j)'
      <4>1. ASSUME GivenBack(j) PROVE NoEnd(j)'
        BY <1>1, <2>2, <4>1 DEF GivenBack, NoEnd
      <4>2. GivenBack(j) => doc'[j].status = "pending"
        BY <1>2, <2>2 DEF GivenBack, Stored
      <4>3. QED
        BY <1>1, <4>1, <4>2 DEF GivenBack, Idle, Away, passVars
    <3>5. KubePod(j)
      BY <1>5, <1>7
    <3>6. NoKill(j) => NoKill(j)'
      BY <1>1 DEF NoKill
    <3>7. QED
      BY <1>1, <1>5, <1>7, <2>2, <3>3, <3>4, <3>5, <3>6 DEF KubePod, WithPod, Without
  <2>3. QED
    BY <2>1, <2>2
<1>8. QED
  BY <1>3, <1>4, <1>6, <1>7

\* The copy of a pending job is killed: what run_tasks has of it is left behind.
LEMMA KubePending ==
    ASSUME KubeInv, NEW i \in KubernetesJob, Kubernetes!EndPending(i)
    PROVE  KubeInv'
<1> USE DEF KubeInv
<1>1. /\ KillPending(i) /\ left' = IF UnderWay(i) THEN left \cup {i} ELSE left
      /\ UNCHANGED <<pod, unfit, known, faults, pods>>
  BY KubernetesClient DEF Kubernetes!EndPending, Kubernetes!cluster
<1>2. /\ Typed(KubernetesJob)'
      /\ \A j \in KubernetesJob : doc[j].status # "new" => doc'[j].status # "new"
      /\ \A j \in KubernetesJob : j # i => Kept(j)
      /\ UNCHANGED <<tracked, killq, ending, passVars, requests>>
  BY <1>1, PendingFrame
<1>3. Passes(KubernetesJob)'
  BY <1>2, PassesKept
<1>4. left \subseteq left' /\ left' \subseteq KubernetesJob
  BY <1>1 DEF KubeTyped
<1>5. KubeTyped' /\ \A j \in KubernetesJob : NoPod(j)' <=> NoPod(j)
  BY <1>1, <1>4 DEF KubeTyped, NoPod
<1>6. ASSUME NEW j \in KubernetesJob, j \notin left' PROVE KubePod(j)'
  <2>1. KubePod(j)
    BY <1>4, <1>6
  <2>2. CASE j # i
    BY <1>1, <1>2, <1>4, <1>5, <1>6, <2>2, KubeKept
  <2>3. CASE j = i
    <3>1. ~UnderWay(j)
      BY <1>1, <1>6, <2>3
    <3>2. /\ ~AtLaunch(j) /\ ~Tracked(j) /\ ~GivenBack(j) /\ ~Ending(j)
          /\ Idle(j) \/ Over(j) => Idle(j)' \/ Over(j)'
          /\ Unrun(j) => Unrun(j)'
      BY <1>1, <2>3, <3>1, PendingJob
    <3>3. NoKill(j) => NoKill(j)'
      BY <1>2 DEF NoKill
    <3>4. QED
      BY <1>1, <1>2, <1>5, <2>1, <3>2, <3>3 DEF KubePod, WithPod, Without
  <2>4. QED
    BY <2>2, <2>3
<1>7. QED
  BY <1>2, <1>3, <1>5, <1>6

LEMMA KubeStep ==
    ASSUME KubeInv, Kubernetes!Next
    PROVE  KubeInv'
<1>1. ASSUME NEW i \in KubernetesJob, Kubernetes!Submit(i) \/ Kubernetes!Request(i),
             Kubernetes!Other
      PROVE  KubeInv'
  BY <1>1, KubernetesClient, KubeUsers
<1>2. CASE Kubernetes!Scheduler
  <2>1. CASE Kubernetes!BeginPass /\ Kubernetes!Other
    BY <2>1, KubeBegin
  <2>2. ASSUME NEW i \in KubernetesJob,
               \/ Kubernetes!RunTask(i) \/ Kubernetes!RunConflict(i)
               \/ Kubernetes!RunLostAnswer(i) \/ Kubernetes!RunFailed(i)
        PROVE  KubeInv'
    BY <2>2, KubeRun, KubeNotRun
  <2>3. CASE Kubernetes!PublishPods
    BY <2>3, KubePublish
  <2>4. QED
    BY <1>2, <2>1, <2>2, <2>3 DEF Kubernetes!Scheduler
<1>3. ASSUME NEW i \in KubernetesJob, Kubernetes!Watch(i) PROVE KubeInv'
  BY <1>3, KubernetesClient, KubeRunning, KubeWatch, KubeDrop DEF Kubernetes!Watch
<1>4. ASSUME NEW k \in killq, Kubernetes!Kill(k) \/ Kubernetes!KillPodFails(k) PROVE KubeInv'
  BY <1>4, KubeKill, KubeKillFails DEF Kubernetes!Kill
<1>5. ASSUME NEW e \in ending, Kubernetes!End(e) PROVE KubeInv'
  <2>1. e[1] \in KubernetesJob
    BY <1>5 DEF KubeInv, Typed
  <2>2. QED
    BY <1>5, <2>1, KubernetesClient, KubeFinish, KubeGiveBack DEF Kubernetes!End
<1>6. ASSUME NEW i \in KubernetesJob,
             \/ Kubernetes!CannotSchedule(i) \/ Kubernetes!PodStarts(i)
             \/ Kubernetes!PodEnds(i) \/ Kubernetes!EventsExpire(i)
      PROVE  KubeInv'
  BY <1>6, KubeEnvironment
<1>7. ASSUME NEW i \in KubernetesJob, Kubernetes!EndPending(i) PROVE KubeInv'
  BY <1>7, KubePending
<1>8. QED
  BY <1>1, <1>2, <1>3, <1>4, <1>5, <1>6, <1>7 DEF Kubernetes!Next

\* What the invariant says of a calm job.
LEMMA KubeFollows ==
    ASSUME KubeInv
    PROVE  /\ Kubernetes!TypeOK
           /\ \A j \in KubernetesJob : (Kubernetes!Live(j) /\ Kubernetes!Calm(j)) =>
                                          doc[j].status # "over" /\ Kubernetes!Followed(j)
<1> USE DEF KubeInv
<1>1. Kubernetes!TypeOK
  BY DEF Kubernetes!TypeOK, Kubernetes!ClientTypeOK, Kubernetes!Secondary, Typed, KubeTyped,
     Phase, Document, Status, Answers, Secondary
<1>2. ASSUME NEW j \in KubernetesJob, Kubernetes!Live(j), Kubernetes!Calm(j)
      PROVE  doc[j].status # "over" /\ Kubernetes!Followed(j)
  <2>1. j \notin left /\ (pods[j] <= 1 \/ requests = 0) /\ ~NoPod(j)
    BY <1>2 DEF Kubernetes!Calm, Kubernetes!Live, NoPod
  <2>2. KubePod(j) /\ pods[j] \in 0 .. 2
    BY <2>1 DEF KubeTyped
  <2>3. pods[j] <= 1 => pods[j] = 0 \/ pods[j] = 1
    BY <2>2
  <2>4. WithPod(j)
    BY <2>1, <2>2, <2>3 DEF KubePod
  <2>5. tracked[j] = 1 => tracked[j] > 0
    OBVIOUS
  <2>6. "unschedulable" \in Answers
    BY DEF Answers
  <2>7. QED
    BY <2>4, <2>5, <2>6 DEF WithPod, AtLaunch, Tracked, GivenBack, Kubernetes!Followed
<1>3. QED
  BY <1>1, <1>2

-----------------------------------------------------------------------------
(* The three plugins.                                                      *)

PluginInv ==
    \/ plugin = "kubernetes" /\ KubeInv
    \/ plugin = "sge" /\ SGEInv
    \/ plugin = "swarm" /\ SwarmInv

\* The client at the beginning.
Fresh(J) ==
    /\ doc = [j \in J |-> [status |-> "new", secondary |-> "none", fails |-> 0]]
    /\ tracked = [j \in J |-> 0]
    /\ snap = {} /\ killq = {} /\ early = {} /\ ending = {}
    /\ spc = "idle" /\ batch = {} /\ started = {} /\ refused = {}
    /\ requests = 0

LEMMA FreshClient ==
    ASSUME NEW J, Fresh(J)
    PROVE  /\ Typed(J) /\ Passes(J) /\ NoFailure(J, Told) /\ NoFailure(J, Decided)
           /\ \A j \in J : Unrun(j) /\ Want(j) = 1
<1>1. \A j \in J : doc[j].status = "new" /\ doc[j].secondary = "none" /\ doc[j].fails = 0
  BY DEF Fresh
<1>2. Typed(J)
  <2>1. 0 \in 0 .. FailurePolicy /\ 0 \in 0 .. MaxRequests
    BY Bounds
  <2>2. [status |-> "new", secondary |-> "none", fails |-> 0] \in Document
    BY <2>1 DEF Document, Status, Secondary
  <2>3. QED
    BY <2>1, <2>2 DEF Fresh, Typed
<1>3. Passes(J) /\ NoFailure(J, Told) /\ NoFailure(J, Decided)
  BY <1>1 DEF Fresh, Passes, NoFailure
<1>4. ASSUME NEW j \in J PROVE Unrun(j) /\ Want(j) = 1
  <2>1. Unrun(j)
    BY <1>1 DEF Fresh, Unrun, Idle, NoEnd, NoKill
  <2>2. ToRun(j) /\ ~Asked(j) /\ ~Again(j)
    BY <1>1 DEF Fresh, ToRun, Asked, Again
  <2>3. QED
    BY <2>1, <2>2 DEF Want, Number
<1>5. QED
  BY <1>2, <1>3, <1>4

LEMMA KubeStarts ==
    ASSUME Kubernetes!ClientInit, Kubernetes!PluginInit
    PROVE  KubeInv
<1>1. Fresh(KubernetesJob)
  BY DEF Kubernetes!ClientInit, Fresh
<1>2. /\ Typed(KubernetesJob) /\ Passes(KubernetesJob) /\ requests = 0
      /\ \A j \in KubernetesJob : Unrun(j)
  BY <1>1, FreshClient DEF Fresh
<1>3. KubeTyped
  <2>1. 0 \in 0 .. MaxFaults /\ 0 \in 0 .. 2 /\ "none" \in Phase
    BY Bounds DEF Phase, Kubernetes!Phase
  <2>2. QED
    BY <2>1 DEF KubeTyped, Kubernetes!PluginInit
<1>4. ASSUME NEW j \in KubernetesJob PROVE KubePod(j)
  <2>1. NoPod(j) /\ pods[j] = 0
    BY DEF Kubernetes!PluginInit, NoPod
  <2>2. pods[j] # 1
    BY <2>1
  <2>3. Unrun(j) /\ NoKill(j) /\ Without(j)
    BY <1>2 DEF Unrun, Without
  <2>4. QED
    BY <1>2, <2>1, <2>2, <2>3 DEF KubePod
<1>5. QED
  BY <1>2, <1>3, <1>4 DEF KubeInv

LEMMA SGEStarts ==
    ASSUME ClientInit, SGE!PluginInit
    PROVE  SGEInv
<1>1. Fresh(Job)
  BY DEF ClientInit, Fresh
<1>2. /\ Typed(Job) /\ Passes(Job) /\ NoFailure(Job, Told) /\ requests = 0
      /\ \A j \in Job : Unrun(j) /\ Want(j) = 1
  BY <1>1, FreshClient DEF Fresh
<1>3. "none" \in SGE!State /\ "none" \notin Listed
  BY DEF SGE!State, Listed, SGE!Listed, SGE!Waiting
<1>4. SGETyped
  <2>1. 0 \in 0 .. MaxFaults /\ 0 \in Runs
    BY Bounds, RunsType
  <2>2. QED
    BY <1>3, <2>1 DEF SGETyped, SGE!PluginInit, Runs
<1>5. ASSUME NEW j \in Job PROVE SGEJob(j)
  <2>1. submitted[j] = 0 /\ faults = 0 /\ \A r \in Runs : sge[j][r] = "none"
    BY DEF SGE!PluginInit, Runs
  <2>2. Paid(j)
    <3>1. submitted[j] = 0 /\ faults = 0
      BY <2>1
    <3>2. QED
      BY <1>2, <3>1 DEF Paid
  <2>3. submitted[j] # 1 /\ \A r \in Runs : sge[j][r] \notin Listed
    BY <1>3, <2>1
  <2>4. QED
    BY <1>2, <2>2, <2>3 DEF SGEJob, OnlyRun
<1>6. QED
  BY <1>2, <1>4, <1>5 DEF SGEInv

LEMMA SwarmStarts ==
    ASSUME ClientInit, Swarm!PluginInit
    PROVE  SwarmInv
<1>1. Fresh(Job)
  BY DEF ClientInit, Fresh
<1>2. /\ Typed(Job) /\ Passes(Job) /\ NoFailure(Job, Decided) /\ requests = 0
      /\ \A j \in Job : Unrun(j) /\ Want(j) = 1
  BY <1>1, FreshClient DEF Fresh
<1>3. SwarmTyped
  <2>1. 0 \in 0 .. MaxFaults /\ 0 \in 0 .. MaxPauses /\ 0 \in 0 .. 2 /\ 0 \in 0 .. PortRange
    BY Bounds
  <2>2. Swarm!NoBox \in Boxes
    BY <2>1 DEF Boxes, Swarm!NoBox
  <2>3. QED
    BY <2>1, <2>2 DEF SwarmTyped, Swarm!PluginInit
<1>4. PortsTyped
  <2>1. <<>> \in Seq(Port) /\ 0 \in 0 .. 2
    OBVIOUS
  <2>2. QED
    BY <2>1 DEF PortsTyped, Swarm!PluginInit
<1>5. ASSUME NEW j \in Job PROVE SwarmRun(j)
  <2>1. runs[j] = 0 /\ box[j] = Swarm!NoBox
    BY DEF Swarm!PluginInit
  <2>2. ~Swarm!Live(j)
    BY <2>1 DEF Swarm!Live, Swarm!NoBox
  <2>3. runs[j] + Want(j) <= 1 + requests /\ runs[j] # 1
    BY <1>2, <2>1
  <2>4. QED
    BY <1>2, <2>2, <2>3 DEF SwarmRun
<1>6. QED
  BY <1>2, <1>3, <1>4, <1>5 DEF SwarmInv

LEMMA PluginStarts ==
    ASSUME Init
    PROVE  PluginInv
BY KubeStarts, SGEStarts, SwarmStarts DEF Init, PluginInv

\* Nothing happens.
LEMMA PluginStutters ==
    ASSUME PluginInv, UNCHANGED vars
    PROVE  PluginInv'
<1>1. /\ UNCHANGED <<doc, tracked, snap, killq, ending, passVars, early, requests>>
      /\ UNCHANGED <<plugin, pod, unfit, known, pods, sge, submitted, key, asked, faults, left>>
      /\ UNCHANGED <<box, orphans, pool, ports, taken, stray, pauseq, pauses, fills, runs, kept>>
  BY DEF vars, client, kubernetesVars, sgeVars, swarmVars
<1>2. ASSUME NEW J, Typed(J), Passes(J)
      PROVE  Typed(J)' /\ Passes(J)' /\ \A j \in J : Kept(j)
  <2>1. \A j \in J : Kept(j)
    BY <1>1, <1>2, SecondaryFrame DEF Asked
  <2>2. Typed(J)'
    BY <1>1, <1>2 DEF Typed, passVars
  <2>3. QED
    BY <1>1, <1>2, <2>1, <2>2, PassesKept
<1>3. ASSUME KubeInv PROVE KubeInv'
  <2>1. KubeTyped' /\ \A j \in KubernetesJob : NoPod(j)' <=> NoPod(j)
    BY <1>1, <1>3 DEF KubeInv, KubeTyped, NoPod
  <2>2. ASSUME NEW j \in KubernetesJob, j \notin left' PROVE KubePod(j)'
    BY <1>1, <1>2, <1>3, <2>1, <2>2, KubeKept DEF KubeInv
  <2>3. QED
    BY <1>2, <1>3, <2>1, <2>2 DEF KubeInv
<1>4. ASSUME SGEInv PROVE SGEInv'
  <2>1. Typed(Job)' /\ Passes(Job)' /\ SGETyped' /\ NoFailure(Job, Told)'
    BY <1>1, <1>2, <1>4 DEF SGEInv, SGETyped, NoFailure
  <2>2. ASSUME NEW j \in Job PROVE SGEJob(j)'
    BY <1>1, <1>2, <1>4, <2>1, SGEFrame DEF SGEInv
  <2>3. QED
    BY <2>1, <2>2 DEF SGEInv
<1>5. ASSUME SwarmInv PROVE SwarmInv'
  <2>1. Typed(Job)' /\ Passes(Job)' /\ SwarmTyped' /\ PortsTyped' /\ NoFailure(Job, Decided)'
    BY <1>1, <1>2, <1>5 DEF SwarmInv, SwarmTyped, PortsTyped, NoFailure
  <2>2. \A j \in Job : Swarm!Live(j)' <=> Swarm!Live(j)
    BY <1>1 DEF Swarm!Live
  <2>3. ASSUME NEW j \in Job, j \notin left' PROVE SwarmRun(j)'
    BY <1>1, <1>2, <1>5, <2>1, <2>2, <2>3, SwarmFrame DEF SwarmInv
  <2>4. QED
    BY <2>1, <2>3 DEF SwarmInv
<1>6. QED
  BY <1>1, <1>3, <1>4, <1>5 DEF PluginInv

LEMMA PluginStep ==
    ASSUME PluginInv, [Next]_vars
    PROVE  PluginInv'
<1>1. CASE IsKubernetes /\ Kubernetes!Next
  BY <1>1, KubeStep DEF PluginInv, IsKubernetes
<1>2. CASE IsSGE /\ SGE!Next
  BY <1>2, SGEStep DEF PluginInv, IsSGE
<1>3. CASE IsSwarm /\ Swarm!Next
  BY <1>3, SwarmStep DEF PluginInv, IsSwarm
<1>4. QED
  BY <1>1, <1>2, <1>3, PluginStutters DEF Next

LEMMA PluginInvariant == Spec => []PluginInv
<1>1. Init => PluginInv
  BY PluginStarts
<1>2. PluginInv /\ [Next]_vars => PluginInv'
  BY PluginStep
<1>3. QED
  BY <1>1, <1>2, PTL DEF Spec

\* The types: the client's variables and those of the plugin that serves the jobs keep
\* their types, whatever fails.
THEOREM TypeCorrect == Spec => []TypeOK
<1>1. PluginInv => TypeOK
  BY KubeFollows, SGEFollows, SwarmFollows DEF PluginInv, TypeOK
<1>2. QED
  BY <1>1, PluginInvariant, PTL

\* What the plugins start is followed (run_tasks, watch_tasks and kill_task of the
\* three plugins): a pod, a run or a container of a calm job belongs to a job that is
\* not over, and is on its way to the running list, or there with its key, or in the
\* hands of a watcher.
THEOREM LiveIsFollowedCorrect == Spec => []LiveIsFollowed
<1>1. PluginInv => LiveIsFollowed
  <2>1. ASSUME plugin = "kubernetes", KubeInv PROVE LiveIsFollowed
    BY <2>1, KubeFollows DEF LiveIsFollowed, Served, Live, Calm, Followed
  <2>2. ASSUME plugin = "sge", SGEInv PROVE LiveIsFollowed
    BY <2>2, SGEFollows DEF LiveIsFollowed, Served, Live, Calm, Followed
  <2>3. ASSUME plugin = "swarm", SwarmInv PROVE LiveIsFollowed
    BY <2>3, SwarmFollows DEF LiveIsFollowed, Served, Live, Calm, Followed
  <2>4. QED
    BY <2>1, <2>2, <2>3 DEF PluginInv
<1>2. QED
  BY <1>1, PluginInvariant, PTL

-----------------------------------------------------------------------------
(* Swarm: the ports.                                                       *)

\* Until the list of ports is filled again, a failure hides a job, run_tasks has one that
\* is killed, two handlers give the ports of a job back, or it starts again, ...
Untouched == left = {} /\ kept = {} /\ fills <= 1

\* ... every job is in its first run: it has no port before that run, and none after it,
\* and run_tasks deals with it once in a pass.
FirstRun(j) ==
    /\ doc[j].status \in {"new", "pending"} =>
          tracked[j] = 0 /\ NoEnd(j) /\ NoKill(j) /\ ports[j] = <<>>
    /\ doc[j].status = "over" => ports[j] = <<>>
    /\ j \in batch \cup started => doc[j].status = "pending"
    /\ j \in refused => doc[j].status \in {"pending", "over"}
    /\ j \in batch => j \notin started \cup refused
    /\ j \in started => j \notin refused
    /\ taken[j] # <<>> => j \in started \cup refused

FirstRuns == (spc = "idle" => refused = {}) /\ \A j \in Job : FirstRun(j)

AtMostOne(s) == s = <<>> \/ \E p \in Port : s = <<p>>
Back(j) == \E a \in {"over", "again"} : <<j, a>> \in ending
OwnedBy(p, j) == taken[j] = <<p>> \/ (ports[j] = <<p>> /\ ~Back(j))
In(p, s) == \E n \in DOMAIN s : s[n] = p

\* A port is in the list s, astray, or with one job.
OnePlace(p, s) ==
    /\ p \in stray \/ In(p, s) \/ \E j \in Job : OwnedBy(p, j)
    /\ p \in stray => ~In(p, s)
    /\ \A j \in Job : OwnedBy(p, j) => p \notin stray /\ ~In(p, s)
    /\ \A i, j \in Job : OwnedBy(p, i) /\ OwnedBy(p, j) => i = j
    /\ \A m, n \in DOMAIN s : s[m] = p /\ s[n] = p => m = n

Placed ==
    /\ \A j \in Job : AtMostOne(ports[j]) /\ AtMostOne(taken[j])
    /\ fills = 0 => /\ pool = <<>> /\ stray = {}
                    /\ \A j \in Job : ports[j] = <<>> /\ taken[j] = <<>>
    /\ fills = 1 => \A p \in Port : OnePlace(p, pool)

Apart == FirstRuns /\ Placed

LEMMA EmptyIsNotOne == \A p : <<>> # <<p>>
<1>1. ASSUME NEW p PROVE <<>> # <<p>>
  <2>1. Len(<<>>) = 0 /\ Len(<<p>>) = 1
    OBVIOUS
  <2>2. QED
    BY <2>1
<1>2. QED
  BY <1>1

LEMMA PlacedKept ==
    ASSUME Placed, UNCHANGED <<pool, ports, taken, stray, fills>>,
           \A j \in Job : ports[j] = <<>> \/ (Back(j)' <=> Back(j))
    PROVE  Placed'
<1>1. ASSUME NEW p \in Port, NEW j \in Job PROVE OwnedBy(p, j)' <=> OwnedBy(p, j)
  BY EmptyIsNotOne DEF OwnedBy
<1>2. ASSUME NEW p \in Port, OnePlace(p, pool) PROVE OnePlace(p, pool)'
  BY <1>1, <1>2 DEF OnePlace
<1>3. QED
  BY <1>2 DEF Placed

LEMMA KeptBack ==
    ASSUME NEW j, Kept(j)
    PROVE  Back(j)' <=> Back(j)
BY DEF Kept, Back, Answers

LEMMA PendingNotBack ==
    ASSUME NEW j, NoEnd(j)
    PROVE  ~Back(j)
BY DEF NoEnd, Back, Answers

\* A step that leaves every job where it is.
LEMMA FirstRunsKept ==
    ASSUME FirstRuns, \A j \in Job : Kept(j), UNCHANGED <<refused, ports, taken>>,
           spc' = "idle" => spc = "idle" \/ refused = {},
           batch' = batch \/ refused = {}
    PROVE  FirstRuns'
<1>1. ASSUME NEW j \in Job PROVE FirstRun(j)'
  <2>1. FirstRun(j) /\ Kept(j)
    BY DEF FirstRuns
  <2>2. NoEnd(j) => NoEnd(j)'
    BY <2>1 DEF Kept, NoEnd
  <2>3. QED
    BY <2>1, <2>2 DEF FirstRun, Kept
<1>2. QED
  BY <1>1 DEF FirstRuns

\* A step about a job that was started.
LEMMA FirstRunsBut ==
    ASSUME FirstRuns, NEW i \in Job, \A j \in Job : j # i => Kept(j) /\ ports'[j] = ports[j],
           UNCHANGED <<passVars, taken>>,
           doc[i].status \notin {"new", "pending"}, doc'[i].status \notin {"new", "pending"},
           doc[i].status = "over" => doc'[i].status = "over",
           doc'[i].status = "over" => ports'[i] = <<>>
    PROVE  FirstRuns'
<1>1. ASSUME NEW j \in Job PROVE FirstRun(j)'
  <2>1. FirstRun(j)
    BY DEF FirstRuns
  <2>2. CASE j # i
    <3>1. Kept(j) /\ ports'[j] = ports[j]
      BY <2>2
    <3>2. NoEnd(j) => NoEnd(j)'
      BY <3>1 DEF Kept, NoEnd
    <3>3. QED
      BY <2>1, <3>1, <3>2 DEF FirstRun, Kept, passVars
  <2>3. CASE j = i
    BY <2>1, <2>3 DEF FirstRun, passVars
  <2>4. QED
    BY <2>2, <2>3
<1>2. QED
  BY <1>1 DEF FirstRuns, passVars

-----------------------------------------------------------------------------
(* Swarm: a port is taken, ...                                             *)

LEMMA FilledPlaced ==
    ASSUME PortsTyped, Placed, fills <= 1, PortRange > 0, pool # <<>> \/ fills = 0
    PROVE  /\ Swarm!Filled \in Seq(Port) /\ Swarm!Filled # <<>>
           /\ \A p \in Port : OnePlace(p, Swarm!Filled)
<1>1. PortRange \in Nat /\ Port = 1 .. PortRange
  BY Bounds DEF Port, Swarm!Port
<1>2. CASE pool # <<>>
  <2>1. fills = 1
    <3>1. fills \in 0 .. 2 /\ fills # 0
      BY <1>2 DEF PortsTyped, Placed
    <3>2. QED
      BY <3>1
  <2>2. Swarm!Filled = pool
    BY <1>2 DEF Swarm!Filled
  <2>3. QED
    BY <1>2, <2>1, <2>2 DEF PortsTyped, Placed
<1>3. CASE pool = <<>>
  <2>1. fills = 0
    BY <1>3
  <2>2. Swarm!Filled = [n \in 1 .. PortRange |-> n]
    BY <1>3 DEF Swarm!Filled, Swarm!Port
  <2>3. Swarm!Filled \in Seq(Port) /\ Swarm!Filled # <<>>
    BY <1>1, <2>2
  <2>4. ASSUME NEW p \in Port PROVE OnePlace(p, Swarm!Filled)
    <3>1. stray = {} /\ \A j \in Job : ~OwnedBy(p, j)
      BY <2>1 DEF Placed, OwnedBy
    <3>2. In(p, Swarm!Filled)
      BY <1>1, <2>2 DEF In
    <3>3. \A m, n \in DOMAIN Swarm!Filled : Swarm!Filled[m] = p /\ Swarm!Filled[n] = p => m = n
      BY <2>2
    <3>4. QED
      BY <3>1, <3>2, <3>3 DEF OnePlace
  <2>5. QED
    BY <2>3, <2>4
<1>4. QED
  BY <1>2, <1>3

LEMMA MapPortPlaced ==
    ASSUME PortsTyped, Placed, fills <= 1, fills' <= 1, NEW i \in Job, Swarm!MapPort(i),
           ports[i] = <<>>, taken[i] = <<>>, UNCHANGED <<ports, stray, ending>>
    PROVE  /\ Placed'
           /\ \A j \in Job : j # i => taken'[j] = taken[j]
<1>1. taken \in [Job -> Seq(Port)] /\ fills \in 0 .. 2 /\ pool \in Seq(Port)
  BY DEF PortsTyped
<1>2. CASE i \notin Interactive
  <2>1. UNCHANGED <<pool, fills>> /\ taken' = [taken EXCEPT ![i] = <<>>]
    BY <1>2 DEF Swarm!MapPort
  <2>2. taken' = taken
    BY <1>1, <2>1
  <2>3. \A j \in Job : Back(j)' <=> Back(j)
    BY DEF Back
  <2>4. QED
    BY <2>1, <2>2, <2>3, PlacedKept
<1>3. CASE i \in Interactive
  <2> DEFINE s == Swarm!Filled
             q == Head(s)
  <2>1. /\ pool' = Tail(s) /\ taken' = [taken EXCEPT ![i] = Append(<<>>, q)]
        /\ fills' = IF pool = <<>> /\ fills < 2 THEN fills + 1 ELSE fills
    BY <1>3 DEF Swarm!MapPort
  <2>2. pool # <<>> \/ fills = 0
    BY <1>1, <2>1
  <2>3. PortRange > 0
    BY <1>3, Bounds
  <2>4. s \in Seq(Port) /\ s # <<>> /\ \A p \in Port : OnePlace(p, s)
    BY <2>2, <2>3, FilledPlaced
  <2>5. fills' = 1
    <3>1. pool # <<>> => fills = 1
      BY <1>1 DEF Placed
    <3>2. QED
      BY <1>1, <2>1, <2>2, <3>1
  <2> HIDE DEF s
  <2>6. q \in Port /\ q = s[1] /\ Append(<<>>, q) = <<q>> /\ 1 \in DOMAIN s
    BY <2>4
  <2>7. /\ taken'[i] = <<q>>
        /\ \A j \in Job : j # i => taken'[j] = taken[j]
    BY <1>1, <2>1, <2>6
  <2>8. /\ \A n \in DOMAIN Tail(s) : n + 1 \in DOMAIN s /\ Tail(s)[n] = s[n + 1] /\ n \in Nat
        /\ \A n \in DOMAIN s : n # 1 => n - 1 \in DOMAIN Tail(s) /\ Tail(s)[n - 1] = s[n]
    BY <2>4
  <2> HIDE DEF q
  <2>9. ASSUME NEW p \in Port PROVE OnePlace(p, pool)'
    <3>1. OnePlace(p, s) /\ OnePlace(q, s) /\ In(q, s)
      BY <2>4, <2>6 DEF In
    <3>2. In(p, pool') <=> In(p, s) /\ p # q
      <4>1. ASSUME In(p, pool') PROVE In(p, s) /\ p # q
        <5>1. PICK n \in DOMAIN Tail(s) : Tail(s)[n] = p
          BY <2>1, <4>1 DEF In
        <5>2. n + 1 \in DOMAIN s /\ s[n + 1] = p /\ n \in Nat
          BY <2>8, <5>1
        <5>3. n + 1 # 1
          <6>1. n \in 1 .. Len(Tail(s))
            BY <2>4, <5>1
          <6>2. QED
            BY <6>1
        <5>4. p # q
          BY <2>6, <3>1, <5>2, <5>3 DEF OnePlace
        <5>5. QED
          BY <5>2, <5>4 DEF In
      <4>2. ASSUME In(p, s), p # q PROVE In(p, pool')
        <5>1. PICK n \in DOMAIN s : s[n] = p
          BY <4>2 DEF In
        <5>2. n # 1
          BY <2>6, <4>2, <5>1
        <5>3. QED
          BY <2>1, <2>8, <5>1, <5>2 DEF In
      <4>3. QED
        BY <4>1, <4>2
    <3>3. ASSUME NEW j \in Job PROVE OwnedBy(p, j)' <=> OwnedBy(p, j) \/ (j = i /\ p = q)
      <4>1. Back(j)' <=> Back(j)
        BY DEF Back
      <4>2. CASE j = i
        BY <2>7, <4>1, <4>2, EmptyIsNotOne DEF OwnedBy
      <4>3. CASE j # i
        BY <2>7, <4>1, <4>3 DEF OwnedBy
      <4>4. QED
        BY <4>2, <4>3
    <3>4. \A m, n \in DOMAIN pool' : pool'[m] = p /\ pool'[n] = p => m = n
      <4>1. ASSUME NEW m \in DOMAIN Tail(s), NEW n \in DOMAIN Tail(s),
                   Tail(s)[m] = p, Tail(s)[n] = p
            PROVE  m = n
        <5>1. m + 1 = n + 1
          BY <2>8, <3>1, <4>1 DEF OnePlace
        <5>2. m \in Nat /\ n \in Nat
          BY <2>8, <4>1
        <5>3. QED
          BY <5>1, <5>2
      <4>2. QED
        BY <2>1, <4>1
    <3>5. stray' = stray
      OBVIOUS
    <3>6. QED
      BY <3>1, <3>2, <3>3, <3>4, <3>5 DEF OnePlace
  <2>10. \A j \in Job : AtMostOne(ports'[j]) /\ AtMostOne(taken'[j])
    BY <2>6, <2>7 DEF Placed, AtMostOne
  <2>11. QED
    BY <2>5, <2>7, <2>9, <2>10 DEF Placed
<1>4. QED
  BY <1>2, <1>3

-----------------------------------------------------------------------------
(* ... published or put astray, ...                                        *)

LEMMA PublishFirstRuns ==
    ASSUME Typed(Job), FirstRuns, Published(Job, "none"),
           \A j \in Job : j \notin started => ports'[j] = <<>> \/ ports'[j] = ports[j],
           \A j \in Job : taken'[j] = <<>>
    PROVE  FirstRuns'
<1>1. /\ batch = {} /\ spc' = "idle" /\ started' = {} /\ refused' = {}
      /\ UNCHANGED <<killq, ending, batch>>
  BY DEF Published
<1>2. "none" \in Secondary
  BY DEF Secondary
<1>3. ASSUME NEW j \in Job PROVE FirstRun(j)'
  <2>1. FirstRun(j)
    BY DEF FirstRuns
  <2>2. CASE j \in started
    <3>1. doc[j].status = "pending"
      BY <2>1, <2>2 DEF FirstRun
    <3>2. doc'[j].status = "running"
      BY <1>2, <2>2, <3>1, PublishedDoc DEF Stored
    <3>3. QED
      BY <1>1, <3>2 DEF FirstRun
  <2>3. CASE j \notin started
    <3>1. doc'[j].status = doc[j].status /\ tracked'[j] = tracked[j]
      <4>1. doc'[j].status = doc[j].status
        BY <1>2, <2>3, PublishedDoc
      <4>2. tracked'[j] = tracked[j]
        BY <2>3 DEF Published
      <4>3. QED
        BY <4>1, <4>2
    <3>2. (NoEnd(j) => NoEnd(j)') /\ (NoKill(j) => NoKill(j)')
      BY <1>1 DEF NoEnd, NoKill
    <3>3. ports'[j] = <<>> \/ ports'[j] = ports[j]
      BY <2>3
    <3>4. QED
      BY <1>1, <2>1, <3>1, <3>2, <3>3 DEF FirstRun
  <2>4. QED
    BY <2>2, <2>3
<1>4. QED
  BY <1>1, <1>3 DEF FirstRuns

LEMMA PublishPlaced ==
    ASSUME Typed(Job), PortsTyped, FirstRuns, Placed, Swarm!PublishBoxes
    PROVE  FirstRuns' /\ Placed'
<1>1. /\ Published(Job, "none")
      /\ ports' = [j \in Job |-> IF ~Stored(j) THEN ports[j]
                                 ELSE IF j \in started THEN taken[j]
                                 ELSE IF j \in refused THEN <<>> ELSE ports[j]]
      /\ stray' = stray \cup UNION {Swarm!ToSet(taken[j]) : j \in refused}
      /\ taken' = [j \in Job |-> <<>>]
      /\ UNCHANGED <<pool, fills>>
  BY SwarmClient DEF Swarm!PublishBoxes, Swarm!history
<1>2. ASSUME NEW j \in Job
      PROVE  /\ taken'[j] = <<>>
             /\ j \in started => /\ ports'[j] = taken[j] /\ ports[j] = <<>>
                                /\ j \notin refused /\ ~Back(j)
             /\ j \in refused => ports'[j] = <<>> /\ ports[j] = <<>>
             /\ j \notin started \cup refused => ports'[j] = ports[j] /\ taken[j] = <<>>
  <2>1. FirstRun(j)
    BY DEF FirstRuns
  <2>2. taken'[j] = <<>>
    BY <1>1
  <2>3. ports'[j] = IF ~Stored(j) THEN ports[j]
                    ELSE IF j \in started THEN taken[j]
                    ELSE IF j \in refused THEN <<>> ELSE ports[j]
    BY <1>1
  <2>4. /\ j \in started => Stored(j) /\ NoEnd(j)
        /\ j \in started \cup refused => ports[j] = <<>>
    BY <2>1 DEF FirstRun, Stored
  <2>5. j \in started => ~Back(j)
    BY <2>4, PendingNotBack
  <2>6. QED
    BY <2>1, <2>2, <2>3, <2>4, <2>5 DEF FirstRun
<1>3. FirstRuns'
  <2>1. \A j \in Job : j \notin started => ports'[j] = <<>> \/ ports'[j] = ports[j]
    BY <1>2
  <2>2. QED
    BY <1>1, <1>2, <2>1, PublishFirstRuns
<1>4. ASSUME NEW p \in Port, NEW j \in Job
      PROVE  OwnedBy(p, j)' <=> OwnedBy(p, j) /\ j \notin refused
  <2>1. Back(j)' <=> Back(j)
    BY <1>1 DEF Back, Published
  <2>2. CASE j \in started
    BY <1>2, <2>1, <2>2, EmptyIsNotOne DEF OwnedBy
  <2>3. CASE j \in refused
    BY <1>2, <2>3, EmptyIsNotOne DEF OwnedBy
  <2>4. CASE j \notin started \cup refused
    BY <1>2, <2>1, <2>4 DEF OwnedBy
  <2>5. QED
    BY <2>2, <2>3, <2>4
<1>5. ASSUME NEW p \in Port
      PROVE  p \in stray' <=> p \in stray \/ \E j \in refused : OwnedBy(p, j)
  <2>1. ASSUME NEW j \in refused PROVE p \in Swarm!ToSet(taken[j]) <=> OwnedBy(p, j)
    <3>1. j \in Job /\ AtMostOne(taken[j])
      BY DEF Typed, Placed
    <3>2. ports[j] = <<>>
      BY <1>2, <3>1
    <3>3. CASE taken[j] = <<>>
      BY <3>2, <3>3, EmptyIsNotOne DEF OwnedBy, Swarm!ToSet
    <3>4. CASE \E q \in Port : taken[j] = <<q>>
      <4>1. PICK q \in Port : taken[j] = <<q>>
        BY <3>4
      <4>2. Swarm!ToSet(<<q>>) = {q}
        BY DEF Swarm!ToSet
      <4>3. OwnedBy(p, j) <=> p = q
        BY <3>2, <4>1, EmptyIsNotOne DEF OwnedBy
      <4>4. QED
        BY <4>1, <4>2, <4>3
    <3>5. QED
      BY <3>1, <3>3, <3>4 DEF AtMostOne
  <2>2. p \in stray' <=> p \in stray \/ \E j \in refused : p \in Swarm!ToSet(taken[j])
    BY <1>1
  <2>3. QED
    BY <2>1, <2>2
<1>6. ASSUME fills = 1, NEW p \in Port PROVE OnePlace(p, pool)'
  <2>1. OnePlace(p, pool) /\ refused \subseteq Job
    BY <1>6 DEF Placed, Typed
  <2>2. pool' = pool
    BY <1>1
  <2>3. p \in stray' => ~In(p, pool)
    BY <1>5, <2>1 DEF OnePlace
  <2>4. ASSUME NEW j \in Job, OwnedBy(p, j)' PROVE p \notin stray' /\ ~In(p, pool)
    BY <1>4, <1>5, <2>1, <2>4 DEF OnePlace
  <2>5. p \in stray' \/ In(p, pool) \/ \E j \in Job : OwnedBy(p, j)'
    BY <1>4, <1>5, <2>1 DEF OnePlace
  <2>6. QED
    BY <1>4, <2>1, <2>2, <2>3, <2>4, <2>5 DEF OnePlace
<1>7. ASSUME NEW j \in Job PROVE AtMostOne(ports'[j]) /\ AtMostOne(taken'[j])
  BY <1>2 DEF Placed, AtMostOne
<1>8. fills = 0 => stray' = {} /\ pool' = <<>> /\ \A j \in Job : ports'[j] = <<>> /\ taken'[j] = <<>>
  <2>1. ASSUME fills = 0 PROVE stray' = {}
    <3>1. \A j \in refused : Swarm!ToSet(taken[j]) = {}
      <4>1. \A j \in refused : taken[j] = <<>>
        BY <2>1 DEF Placed, Typed
      <4>2. Swarm!ToSet(<<>>) = {}
        BY DEF Swarm!ToSet
      <4>3. QED
        BY <4>1, <4>2
    <3>2. QED
      BY <1>1, <2>1, <3>1 DEF Placed
  <2>2. QED
    BY <1>1, <1>2, <2>1 DEF Placed
<1>9. QED
  BY <1>1, <1>3, <1>6, <1>7, <1>8 DEF Placed

-----------------------------------------------------------------------------
(* ... and given back.                                                     *)

LEMMA ReleasePlaced ==
    ASSUME PortsTyped, Placed, NEW i \in Job, taken[i] = <<>>, ~Back(i), Back(i)',
           \A j \in Job : j # i => (Back(j)' <=> Back(j)),
           pool' = pool \o ports[i], UNCHANGED <<ports, taken, stray, fills>>
    PROVE  Placed'
<1>1. ports \in [Job -> Seq(Port)] /\ pool \in Seq(Port)
  BY DEF PortsTyped
<1>2. CASE ports[i] = <<>>
  <2>1. pool' = pool
    BY <1>1, <1>2
  <2>2. QED
    BY <1>2, <2>1, PlacedKept
<1>3. ASSUME NEW q \in Port, ports[i] = <<q>> PROVE Placed'
  <2>1. pool' = Append(pool, q) /\ fills # 0 /\ fills' = fills /\ OwnedBy(q, i)
    <3>1. pool' = Append(pool, q) /\ OwnedBy(q, i)
      BY <1>1, <1>3 DEF OwnedBy
    <3>2. fills # 0
      BY <1>3, EmptyIsNotOne DEF Placed
    <3>3. QED
      BY <3>1, <3>2
  <2>3. DOMAIN pool = 1 .. Len(pool) /\ Len(pool) \in Nat
    BY <1>1
  <2>4. /\ DOMAIN pool' = 1 .. Len(pool) + 1
        /\ pool'[Len(pool) + 1] = q
        /\ \A n \in 1 .. Len(pool) : pool'[n] = pool[n]
    BY <1>1, <2>1
  <2>5. ASSUME fills = 1, NEW p \in Port PROVE OnePlace(p, pool)'
    <3>1. OnePlace(p, pool) /\ OnePlace(q, pool)
      BY <2>5 DEF Placed
    <3>2. ~In(q, pool) /\ q \notin stray
      BY <2>1, <3>1 DEF OnePlace
    <3>3. In(p, pool') <=> In(p, pool) \/ p = q
      <4>1. In(p, pool') => In(p, pool) \/ p = q
        BY <2>3, <2>4 DEF In
      <4>2. p = q => In(p, pool')
        BY <2>3, <2>4 DEF In
      <4>3. In(p, pool) => In(p, pool')
        BY <2>3, <2>4 DEF In
      <4>4. QED
        BY <4>1, <4>2, <4>3
    <3>4. ASSUME NEW j \in Job PROVE OwnedBy(p, j)' <=> OwnedBy(p, j) /\ j # i
      <4>1. CASE j # i
        BY <4>1 DEF OwnedBy
      <4>2. CASE j = i
        BY <4>2, EmptyIsNotOne DEF OwnedBy
      <4>3. QED
        BY <4>1, <4>2
    <3>5. OwnedBy(p, i) => p = q
      BY <1>3, EmptyIsNotOne DEF OwnedBy
    <3>6. \A m, n \in DOMAIN pool' : pool'[m] = p /\ pool'[n] = p => m = n
      <4>1. p = q => \A n \in 1 .. Len(pool) : pool[n] # p
        BY <2>3, <3>2 DEF In
      <4>2. \A m, n \in 1 .. Len(pool) : pool[m] = p /\ pool[n] = p => m = n
        BY <2>3, <3>1 DEF OnePlace
      <4>3. QED
        BY <2>3, <2>4, <4>1, <4>2
    <3>7. \A j \in Job : OwnedBy(p, j) /\ j # i => p # q
      BY <2>1, <3>1 DEF OnePlace
    <3>8. stray' = stray
      OBVIOUS
    <3>9. p \in stray \/ In(p, pool') \/ \E j \in Job : OwnedBy(p, j)'
      BY <3>1, <3>3, <3>4, <3>5 DEF OnePlace
    <3>10. p \in stray => ~In(p, pool')
      BY <3>1, <3>2, <3>3 DEF OnePlace
    <3>11. \A j \in Job : OwnedBy(p, j)' => p \notin stray /\ ~In(p, pool')
      BY <3>1, <3>3, <3>4, <3>7 DEF OnePlace
    <3>12. \A j, k \in Job : OwnedBy(p, j)' /\ OwnedBy(p, k)' => j = k
      BY <3>1, <3>4 DEF OnePlace
    <3>13. QED
      BY <3>6, <3>8, <3>9, <3>10, <3>11, <3>12 DEF OnePlace
  <2>6. \A j \in Job : AtMostOne(ports'[j]) /\ AtMostOne(taken'[j])
    BY DEF Placed, AtMostOne
  <2>7. QED
    BY <2>1, <2>5, <2>6 DEF Placed
<1>4. QED
  BY <1>2, <1>3 DEF Placed, AtMostOne

-----------------------------------------------------------------------------
(* Swarm: the ports, step by step.                                         *)

LEMMA ApartKept ==
    ASSUME Untouched => Apart, \A j \in Job : Kept(j),
           UNCHANGED <<refused, pool, ports, taken, stray, fills, left, kept>>,
           spc' = "idle" => spc = "idle" \/ refused = {},
           batch' = batch \/ (spc = "idle" /\ spc' # "idle")
    PROVE  Untouched' => Apart'
<1>1. SUFFICES ASSUME Untouched' PROVE Apart'
  OBVIOUS
<1>2. FirstRuns /\ Placed
  BY <1>1 DEF Untouched, Apart
<1>3. batch' = batch \/ refused = {}
  BY <1>2 DEF FirstRuns
<1>4. FirstRuns'
  BY <1>2, <1>3, FirstRunsKept
<1>5. Placed'
  BY <1>2, KeptBack, PlacedKept
<1>6. QED
  BY <1>4, <1>5 DEF Apart

\* A step about a job that runs or ran.
LEMMA ApartBut ==
    ASSUME Untouched => Apart, NEW i \in Job, \A j \in Job : j # i => Kept(j),
           UNCHANGED <<passVars, pool, ports, taken, stray, fills, left, kept>>,
           doc'[i].status = doc[i].status, Back(i)' <=> Back(i),
           Untouched /\ FirstRun(i) => doc[i].status \notin {"new", "pending"}
    PROVE  Untouched' => Apart'
<1>1. SUFFICES ASSUME Untouched' PROVE Apart'
  OBVIOUS
<1>2. FirstRuns /\ Placed /\ Untouched
  BY <1>1 DEF Untouched, Apart
<1>3. FirstRun(i)
  BY <1>2 DEF FirstRuns
<1>4. doc[i].status \notin {"new", "pending"} /\ (doc[i].status = "over" => ports[i] = <<>>)
  BY <1>2, <1>3 DEF FirstRun
<1>5. FirstRuns'
  BY <1>2, <1>4, FirstRunsBut
<1>6. \A j \in Job : Back(j)' <=> Back(j)
  BY KeptBack
<1>7. QED
  BY <1>2, <1>5, <1>6, PlacedKept DEF Apart

LEMMA ApartSubmit ==
    ASSUME Typed(Job), Untouched => Apart, NEW i \in Job, Submit(i), Swarm!Other
    PROVE  Untouched' => Apart'
<1>1. SUFFICES ASSUME Untouched' PROVE Apart'
  OBVIOUS
<1>2. /\ UNCHANGED <<pool, ports, taken, stray, fills, left, kept>>
      /\ UNCHANGED <<tracked, killq, ending, spc, batch, started, refused>>
  BY SwarmOther DEF Submit, passVars
<1>3. FirstRuns /\ Placed
  BY <1>1, <1>2 DEF Untouched, Apart
<1>4. doc[i].status = "new" /\ doc'[i].status = "pending"
  BY SubmitJob
<1>5. ASSUME NEW j \in Job PROVE FirstRun(j)'
  <2>1. FirstRun(j)
    BY <1>3 DEF FirstRuns
  <2>2. j = i \/ doc'[j].status = doc[j].status
    BY UsersFrame DEF Kept
  <2>3. (NoEnd(j) => NoEnd(j)') /\ (NoKill(j) => NoKill(j)')
    BY <1>2 DEF NoEnd, NoKill
  <2>4. QED
    BY <1>2, <1>4, <2>1, <2>2, <2>3 DEF FirstRun
<1>6. FirstRuns'
  BY <1>2, <1>3, <1>5 DEF FirstRuns
<1>7. \A j \in Job : Back(j)' <=> Back(j)
  BY <1>2 DEF Back
<1>8. QED
  BY <1>2, <1>3, <1>6, <1>7, PlacedKept DEF Apart

\* A request about a job that runs, or that is pending.
LEMMA ApartRequest ==
    ASSUME Typed(Job), Untouched => Apart, NEW i \in Job, Request(i), Swarm!Other
    PROVE  Untouched' => Apart'
<1>1. SUFFICES ASSUME Untouched' PROVE Apart'
  OBVIOUS
<1>2. /\ UNCHANGED <<pool, ports, taken, stray, fills, left, kept>>
      /\ UNCHANGED <<tracked, ending, spc, batch, started, refused>>
  BY SwarmOther DEF Request, passVars
<1>3. FirstRuns /\ Placed
  BY <1>1, <1>2 DEF Untouched, Apart
<1>4. doc'[i].status = doc[i].status /\ (doc[i].status = "pending" /\ NoKill(i) => NoKill(i)')
      /\ doc[i].status # "new"
  BY RequestJob
<1>5. ASSUME NEW j \in Job PROVE FirstRun(j)'
  <2>1. FirstRun(j)
    BY <1>3 DEF FirstRuns
  <2>2. doc'[j].status = doc[j].status
    BY <1>4, UsersFrame DEF Kept
  <2>3. NoEnd(j) => NoEnd(j)'
    BY <1>2 DEF NoEnd
  <2>4. doc[j].status \in {"new", "pending"} /\ NoKill(j) => NoKill(j)'
    BY <1>4, UsersFrame DEF Kept
  <2>5. QED
    BY <1>2, <2>1, <2>2, <2>3, <2>4 DEF FirstRun
<1>6. FirstRuns'
  BY <1>2, <1>3, <1>5 DEF FirstRuns
<1>7. \A j \in Job : Back(j)' <=> Back(j)
  BY <1>2 DEF Back
<1>8. QED
  BY <1>2, <1>3, <1>6, <1>7, PlacedKept DEF Apart

\* run_tasks deals with a job: its port is with the task that is started or refused.
LEMMA ApartRun ==
    ASSUME SwarmInv, Untouched => Apart, NEW i \in Job, Swarm!RunTask(i) \/ Swarm!RunRefused(i)
    PROVE  Untouched' => Apart'
<1>1. SUFFICES ASSUME Untouched' PROVE Apart'
  OBVIOUS
<1>2. /\ Treat(i) /\ Swarm!MapPort(i)
      /\ \/ started' = started \cup {i} /\ refused' = refused
         \/ refused' = refused \cup {i} /\ started' = started
      /\ UNCHANGED <<ports, stray, left, kept>>
  BY SwarmClient DEF Swarm!RunTask, Swarm!RunRefused
<1>3. Typed(Job) /\ PortsTyped
  BY DEF SwarmInv
<1>4. /\ spc = "run" /\ i \in batch /\ batch' = batch \ {i}
      /\ UNCHANGED <<doc, tracked, killq, ending, spc>>
  BY <1>2 DEF Treat
<1>5. fills \in 0 .. 2 /\ fills' <= 1 /\ fills <= 1
  <2>1. fills \in 0 .. 2 /\ fills' <= 1
    BY <1>1, <1>3 DEF PortsTyped, Untouched
  <2>2. fills' = fills \/ fills' = fills + 1 
    BY <1>2 DEF Swarm!MapPort
  <2>3. QED
    BY <2>1, <2>2
<1>6. FirstRuns /\ Placed
  BY <1>1, <1>2, <1>5 DEF Untouched, Apart
<1>7. ports[i] = <<>> /\ taken[i] = <<>>
  <2>1. FirstRun(i)
    BY <1>6 DEF FirstRuns
  <2>2. QED
    BY <1>4, <2>1 DEF FirstRun
<1>8. Placed' /\ \A j \in Job : j # i => taken'[j] = taken[j]
  BY <1>2, <1>3, <1>4, <1>5, <1>6, <1>7, MapPortPlaced
<1>9. ASSUME NEW j \in Job PROVE FirstRun(j)'
  <2>1. FirstRun(j)
    BY <1>6 DEF FirstRuns
  <2>2. (NoEnd(j) => NoEnd(j)') /\ (NoKill(j) => NoKill(j)')
    BY <1>4 DEF NoEnd, NoKill
  <2>3. CASE j = i
    BY <1>2, <1>4, <2>1, <2>2, <2>3 DEF FirstRun
  <2>4. CASE j # i
    BY <1>2, <1>4, <1>8, <2>1, <2>2, <2>4 DEF FirstRun
  <2>5. QED
    BY <2>3, <2>4
<1>10. FirstRuns'
  BY <1>4, <1>9 DEF FirstRuns
<1>11. QED
  BY <1>8, <1>10 DEF Apart

LEMMA ApartPublish ==
    ASSUME SwarmInv, Untouched => Apart, Swarm!PublishBoxes
    PROVE  Untouched' => Apart'
<1>1. UNCHANGED <<fills, left, kept>>
  BY DEF Swarm!PublishBoxes, Swarm!history
<1>2. QED
  BY <1>1, PublishPlaced DEF SwarmInv, Untouched, Apart

\* A handler gives the port of a job back, ...
LEMMA ApartRelease ==
    ASSUME SwarmInv, Untouched => Apart, NEW e \in ending, Swarm!Release(e)
    PROVE  Untouched' => Apart'
<1> DEFINE i == e[1]
           a == IF Requeued(e) THEN "again" ELSE "over"
<1>1. SUFFICES ASSUME Untouched' PROVE Apart'
  OBVIOUS
<1>2. /\ e[2] \in {"watch", "kill"}
      /\ ending' = IF Stored(i) THEN (ending \ {e}) \cup {<<i, a>>} ELSE ending \ {e}
      /\ pool' = IF Stored(i) THEN pool \o ports[i] ELSE pool
      /\ kept' = IF Stored(i) /\ Swarm!Released(i) THEN kept \cup {i} ELSE kept
      /\ UNCHANGED <<doc, tracked, snap, killq, passVars, ports, taken, stray, fills, left>>
  BY SwarmClient DEF Swarm!Release, Swarm!passVars, passVars
<1>3. PortsTyped /\ i \in Job /\ e = <<i, e[2]>> /\ e[2] \in Answers /\ a \in {"again", "over"}
  <2>1. PortsTyped /\ ending \subseteq Job \X Answers
    BY DEF SwarmInv, Typed
  <2>2. i \in Job /\ e = <<i, e[2]>> /\ e[2] \in Answers
    BY <2>1
  <2>3. QED
    BY <2>1, <2>2
<1> HIDE DEF a
<1>4. (Stored(i) => ~Back(i)) /\ kept' = kept
  BY <1>1, <1>2 DEF Untouched, Swarm!Released, Back
<1>5. FirstRuns /\ Placed
  BY <1>1, <1>2, <1>4 DEF Untouched, Apart
<1>6. FirstRun(i)
  BY <1>3, <1>5 DEF FirstRuns
<1>7. doc[i].status \notin {"new", "pending"} /\ (doc[i].status = "over" => ports[i] = <<>>)
  <2>1. ~NoEnd(i)
    BY <1>3 DEF NoEnd
  <2>2. QED
    BY <1>6, <2>1 DEF FirstRun
<1>8. ASSUME NEW j \in Job, j # i PROVE Kept(j)
  <2>1. \A b \in Answers : <<j, b>> \in ending' <=> <<j, b>> \in ending
    BY <1>2, <1>3, <1>8
  <2>2. QED
    BY <1>2, <2>1 DEF Kept, Asked, NoKill, passVars
<1>9. FirstRuns'
  BY <1>2, <1>3, <1>5, <1>7, <1>8, FirstRunsBut
<1>10. CASE Stored(i)
  <2>1. Back(i)' /\ ~Back(i)
    BY <1>2, <1>3, <1>4, <1>10 DEF Back
  <2>2. taken[i] = <<>>
    BY <1>6, <1>7, <1>10 DEF FirstRun, Stored
  <2>3. \A j \in Job : j # i => (Back(j)' <=> Back(j))
    BY <1>8, KeptBack
  <2>4. pool' = pool \o ports[i]
    BY <1>2, <1>10
  <2>5. Placed'
    BY <1>2, <1>3, <1>5, <2>1, <2>2, <2>3, <2>4, ReleasePlaced
  <2>6. QED
    BY <1>9, <2>5 DEF Apart
<1>11. CASE ~Stored(i)
  <2>1. pool' = pool
    BY <1>2, <1>11
  <2>2. ports[i] = <<>>
    <3>1. doc[i].status \in Status
      BY <1>3 DEF SwarmInv, Typed, Document
    <3>2. QED
      BY <1>7, <1>11, <3>1 DEF Stored, Status
  <2>3. \A j \in Job : ports[j] = <<>> \/ (Back(j)' <=> Back(j))
    BY <1>8, <2>2, KeptBack
  <2>4. Placed'
    BY <1>2, <1>5, <2>1, <2>3, PlacedKept
  <2>5. QED
    BY <1>9, <2>4 DEF Apart
<1>12. QED
  BY <1>10, <1>11

\* ... and ends it; if it starts again, it is touched.
LEMMA ApartFinish ==
    ASSUME SwarmInv, Untouched => Apart, NEW e \in ending, Swarm!FinishBox(e)
    PROVE  Untouched' => Apart'
<1> DEFINE i == e[1]
<1>1. SUFFICES ASSUME Untouched' PROVE Apart'
  OBVIOUS
<1>2. /\ Finish(e) /\ e[2] \in {"over", "again"}
      /\ ports' = IF Stored(i) /\ e[2] = "over" THEN [ports EXCEPT ![i] = <<>>] ELSE ports
      /\ kept' = IF Stored(i) /\ e[2] = "again" THEN kept \cup {i} ELSE kept
      /\ UNCHANGED <<pool, taken, stray, fills, left>>
  BY SwarmClient DEF Swarm!FinishBox
<1>3. Typed(Job) /\ PortsTyped
  BY DEF SwarmInv
<1>4. i \in Job /\ e[2] \in Answers /\ e = <<i, e[2]>>
  BY <1>3 DEF Typed
<1>5. (Stored(i) => e[2] = "over") /\ kept' = kept
  BY <1>1, <1>2 DEF Untouched
<1>6. FirstRuns /\ Placed
  BY <1>1, <1>2, <1>5 DEF Untouched, Apart
<1>7. FirstRun(i)
  BY <1>4, <1>6 DEF FirstRuns
<1>8. doc[i].status \notin {"new", "pending"} /\ doc[i].status \in Status
  <2>1. ~NoEnd(i)
    BY <1>4 DEF NoEnd
  <2>2. doc[i].status \in Status
    BY <1>3, <1>4 DEF Typed, Document
  <2>3. QED
    BY <1>7, <2>1, <2>2 DEF FirstRun
<1>9. UNCHANGED passVars
  BY <1>2 DEF Finish
<1>10. \A j \in Job : j # i => Kept(j)
  BY <1>2, <1>3, FinishFrame
<1>11. Back(i)
  BY <1>2, <1>4 DEF Back
<1>12. ports'[i] = <<>> /\ doc'[i].status = "over" /\ \A j \in Job : j # i => ports'[j] = ports[j]
  <2>1. CASE Stored(i)
    <3>1. ~Requeued(e)
      BY <1>5, <2>1 DEF Requeued
    <3>2. doc'[i].status = "over"
      BY <1>2, <1>3, <2>1, <3>1, FinishDoc
    <3>3. ports' = [ports EXCEPT ![i] = <<>>]
      BY <1>2, <1>5, <2>1
    <3>4. QED
      BY <1>3, <1>4, <3>2, <3>3 DEF PortsTyped
  <2>2. CASE ~Stored(i)
    <3>1. ports' = ports /\ doc'[i] = doc[i]
      BY <1>2, <1>3, <2>2, FinishDoc
    <3>2. doc[i].status = "over"
      BY <1>8, <2>2 DEF Stored, Status
    <3>3. QED
      BY <1>7, <3>1, <3>2 DEF FirstRun
  <2>3. QED
    BY <2>1, <2>2
<1>13. FirstRuns'
  BY <1>2, <1>4, <1>6, <1>8, <1>9, <1>10, <1>12, FirstRunsBut
<1>14. ASSUME NEW p \in Port, NEW j \in Job PROVE OwnedBy(p, j)' <=> OwnedBy(p, j)
  <2>1. CASE j = i
    BY <1>2, <1>11, <1>12, <2>1, EmptyIsNotOne DEF OwnedBy
  <2>2. CASE j # i
    <3>1. Back(j)' <=> Back(j)
      BY <1>10, <2>2, KeptBack
    <3>2. QED
      BY <1>2, <1>12, <2>2, <3>1 DEF OwnedBy
  <2>3. QED
    BY <2>1, <2>2
<1>15. ASSUME fills = 1, NEW p \in Port PROVE OnePlace(p, pool)'
  <2>1. OnePlace(p, pool)
    BY <1>6, <1>15 DEF Placed
  <2>2. QED
    BY <1>2, <1>14, <2>1 DEF OnePlace
<1>16. \A j \in Job : ports'[j] \in {<<>>, ports[j]}
  BY <1>12
<1>17. Placed'
  BY <1>2, <1>6, <1>15, <1>16 DEF Placed, AtMostOne
<1>18. QED
  BY <1>13, <1>17 DEF Apart

\* The copy of a pending job is killed, before run_tasks has the job: it has no port.
LEMMA ApartPending ==
    ASSUME SwarmInv, Untouched => Apart, NEW i \in Job, Swarm!EndPending(i)
    PROVE  Untouched' => Apart'
<1>1. SUFFICES ASSUME Untouched' PROVE Apart'
  OBVIOUS
<1>2. Typed(Job) /\ PortsTyped
  BY DEF SwarmInv
<1>3. /\ KillPending(i)
      /\ pool' = IF Stored(i) THEN pool \o ports[i] ELSE pool
      /\ ports' = IF Stored(i) /\ ~Asked(i) THEN [ports EXCEPT ![i] = <<>>] ELSE ports
      /\ kept' = IF Stored(i) /\ Asked(i) THEN kept \cup {i} ELSE kept
      /\ left' = IF UnderWay(i) THEN left \cup {i} ELSE left
      /\ UNCHANGED <<taken, stray, fills>>
  BY SwarmClient DEF Swarm!EndPending, Asked
<1>4. ~UnderWay(i) /\ ~(Stored(i) /\ Asked(i)) /\ UNCHANGED <<left, kept>>
  BY <1>1, <1>3 DEF Untouched
<1>5. FirstRuns /\ Placed
  BY <1>1, <1>3, <1>4 DEF Untouched, Apart
<1>6. FirstRun(i)
  BY <1>5 DEF FirstRuns
<1>7. /\ UNCHANGED <<tracked, killq, ending, passVars>>
      /\ \A j \in Job : j # i => Kept(j)
  BY <1>2, <1>3, PendingFrame
<1>8. Stored(i) => doc[i].status = "pending" /\ ports[i] = <<>> /\ doc'[i].status = "over"
  <2>1. ASSUME Stored(i) PROVE doc[i].status = "pending" /\ ports[i] = <<>>
    BY <1>4, <1>6, <2>1 DEF Stored, UnderWay, FirstRun
  <2>2. Stored(i) => doc'[i].status = "over"
    BY <1>2, <1>3, <1>4, PendingDoc
  <2>3. QED
    BY <2>1, <2>2
<1>9. UNCHANGED <<pool, ports>>
  <2>1. pool \in Seq(Port) /\ ports \in [Job -> Seq(Port)]
    BY <1>2 DEF PortsTyped
  <2>2. pool \o <<>> = pool
    BY <2>1
  <2>3. ports[i] = <<>> => [ports EXCEPT ![i] = <<>>] = ports
    BY <2>1
  <2>4. QED
    BY <1>3, <1>8, <2>2, <2>3
<1>10. ASSUME NEW j \in Job PROVE FirstRun(j)'
  <2>1. FirstRun(j)
    BY <1>5 DEF FirstRuns
  <2>2. (NoEnd(j) => NoEnd(j)') /\ (NoKill(j) => NoKill(j)')
    BY <1>7 DEF NoEnd, NoKill
  <2>3. doc'[j].status = doc[j].status \/ (j = i /\ Stored(i))
    BY <1>2, <1>3, <1>7, PendingDoc DEF Kept
  <2>4. CASE doc'[j].status = doc[j].status
    BY <1>3, <1>7, <1>9, <2>1, <2>2, <2>4 DEF FirstRun, passVars
  <2>5. CASE j = i /\ Stored(i)
    <3>1. i \notin batch \cup started
      BY <1>4 DEF UnderWay
    <3>2. QED
      BY <1>3, <1>7, <1>8, <1>9, <2>1, <2>5, <3>1 DEF FirstRun, passVars
  <2>6. QED
    BY <2>3, <2>4, <2>5
<1>11. FirstRuns'
  BY <1>5, <1>7, <1>10 DEF FirstRuns, passVars
<1>12. \A j \in Job : Back(j)' <=> Back(j)
  BY <1>7 DEF Back
<1>13. Placed'
  BY <1>3, <1>5, <1>9, <1>12, PlacedKept
<1>14. QED
  BY <1>11, <1>13 DEF Apart

LEMMA ApartUsers ==
    ASSUME SwarmInv, Untouched => Apart, NEW i \in Job,
           \/ (Swarm!Submit(i) \/ Swarm!Request(i)) /\ Swarm!Other
           \/ Swarm!RequestPause(i) \/ Swarm!Suspend(i) \/ Swarm!Resume(i) \/ Swarm!RejectPause(i)
    PROVE  Untouched' => Apart'
<1>1. Typed(Job)
  BY DEF SwarmInv
<1>2. CASE Swarm!Submit(i) /\ Swarm!Other
  BY <1>1, <1>2, SwarmClient, ApartSubmit
<1>3. CASE Swarm!Request(i) /\ Swarm!Other
  BY <1>1, <1>3, SwarmClient, ApartRequest
<1>4. CASE Swarm!RequestPause(i) \/ Swarm!Suspend(i) \/ Swarm!Resume(i) \/ Swarm!RejectPause(i)
  <2>1. /\ \E s \in Plain : doc' = doc \/ doc' = [doc EXCEPT ![i].secondary = s]
        /\ snap' = snap \/ snap' = snap \cup {i}
        /\ UNCHANGED <<tracked, killq, ending, passVars, pool, ports, taken, stray, fills, left, kept>>
    <3>1. {"suspend requested", "resume requested", "suspended", "resumed", "suspend rejected",
           "resume rejected"} \subseteq Plain
      BY DEF Plain, Secondary
    <3>2. CASE Swarm!RequestPause(i)
      <4>1. \/ doc' = [doc EXCEPT ![i].secondary = "suspend requested"]
            \/ doc' = [doc EXCEPT ![i].secondary = "resume requested"]
        BY <3>2 DEF Swarm!RequestPause
      <4>2. UNCHANGED <<snap, tracked, killq, ending, passVars, pool, ports, taken, stray, fills,
                        left, kept>>
        BY <3>2 DEF Swarm!RequestPause, Swarm!portVars, Swarm!history, Swarm!passVars, passVars
      <4>3. QED
        BY <3>1, <4>1, <4>2
    <3>3. ASSUME NEW q, NEW s \in Plain, Swarm!Answer(<<i, q>>, s)
          PROVE  /\ doc' = doc \/ doc' = [doc EXCEPT ![i].secondary = s]
                 /\ snap' = snap \cup {i}
                 /\ UNCHANGED <<tracked, killq, ending, passVars, pool, ports, taken, stray, fills,
                                left, kept>>
      BY <3>3 DEF Swarm!Answer, Swarm!portVars, Swarm!history, Swarm!passVars, passVars
    <3>4. CASE Swarm!Suspend(i) \/ Swarm!Resume(i) \/ Swarm!RejectPause(i)
      <4>1. \E q : \E s \in Plain : Swarm!Answer(<<i, q>>, s)
        BY <3>1, <3>4 DEF Swarm!Suspend, Swarm!Resume, Swarm!RejectPause
      <4>2. QED
        BY <3>3, <4>1
    <3>5. QED
      BY <1>4, <3>2, <3>4
  <2>2. \A j \in Job : Kept(j)
    BY <1>1, <2>1, SecondaryKept
  <2>3. QED
    BY <2>1, <2>2, ApartKept DEF passVars
<1>5. QED
  BY <1>2, <1>3, <1>4

LEMMA ApartScheduler ==
    ASSUME SwarmInv, Untouched => Apart, Swarm!Scheduler
    PROVE  Untouched' => Apart'
<1>1. CASE Swarm!BeginPass /\ Swarm!Other
  <2>1. Begun(Job)
    BY <1>1, SwarmClient
  <2>2. \A j \in Job : Kept(j)
    BY <2>1, BegunFrame DEF SwarmInv
  <2>3. /\ UNCHANGED <<refused, pool, ports, taken, stray, fills, left, kept>>
        /\ spc = "idle" /\ spc' = "run"
    BY <1>1, <2>1, SwarmOther DEF Begun
  <2>4. QED
    BY <2>2, <2>3, ApartKept
<1>2. ASSUME NEW i \in Job, Swarm!RunRaises(i) PROVE Untouched' => Apart'
  BY <1>2 DEF Swarm!RunRaises, Untouched
<1>3. QED
  BY <1>1, <1>2, ApartRun, ApartPublish DEF Swarm!Scheduler

LEMMA ApartWatch ==
    ASSUME SwarmInv, Untouched => Apart, NEW i \in Job, Swarm!Watch(i)
    PROVE  Untouched' => Apart'
<1>1. Typed(Job)
  BY DEF SwarmInv
<1>2. tracked[i] # 0 => ~(Untouched /\ FirstRun(i) /\ doc[i].status \in {"new", "pending"})
  BY DEF FirstRun
<1>3. CASE Swarm!WatchEnded(i)
  <2>1. TakeOut(i, "watch") /\ doc' = doc
        /\ UNCHANGED <<pool, ports, taken, stray, fills, left, kept>>
    BY <1>3, SwarmClient DEF Swarm!WatchEnded, Swarm!portVars, Swarm!history
  <2>2. "watch" \in Answers
    BY DEF Answers
  <2>3. \A j \in Job : j # i => Kept(j)
    BY <1>1, <2>1, <2>2, TakeOutFrame DEF Asked
  <2>4. tracked[i] # 0 /\ UNCHANGED passVars
    BY <1>1, <2>1 DEF TakeOut, Examine, Typed
  <2>5. Back(i)' <=> Back(i)
    BY <2>1 DEF TakeOut, Back
  <2>6. QED
    BY <1>2, <2>1, <2>3, <2>4, <2>5, ApartBut
<1>4. CASE Swarm!WatchBlind(i)
  BY <1>4 DEF Swarm!WatchBlind, Untouched
<1>5. CASE Swarm!DropUnknown(i) /\ Swarm!Other
  <2>1. DropUnknown(i)
    BY <1>5, SwarmClient
  <2>2. /\ tracked[i] # 0
        /\ UNCHANGED <<doc, passVars, pool, ports, taken, stray, fills, left, kept>>
    BY <1>1, <1>5, <2>1, SwarmOther DEF DropUnknown, Typed
  <2>3. \A j \in Job : j # i => Kept(j)
    BY <1>1, <2>1, DropFrame
  <2>4. Back(i)' <=> Back(i)
    BY <2>1 DEF DropUnknown, Back
  <2>5. QED
    BY <1>2, <2>2, <2>3, <2>4, ApartBut
<1>6. QED
  BY <1>3, <1>4, <1>5 DEF Swarm!Watch

LEMMA ApartKill ==
    ASSUME SwarmInv, Untouched => Apart, NEW k \in killq,
           Swarm!Kill(k) \/ Swarm!KillBoxFails(k) \/ Swarm!KillBoxRaises(k)
    PROVE  Untouched' => Apart'
<1> DEFINE i == k[1]
<1>1. Typed(Job) /\ i \in Job
  BY DEF SwarmInv, Typed
<1>2. CASE Swarm!KillBox(k)
  <2>1. /\ KillDone(k)
        /\ UNCHANGED <<pool, ports, taken, stray, fills, left, kept>>
    BY <1>2, SwarmClient DEF Swarm!KillBox, Swarm!portVars, Swarm!history
  <2>2. UNCHANGED <<doc, passVars>>
    BY <2>1 DEF KillDone
  <2>3. \A j \in Job : j # i => Kept(j)
    BY <1>1, <2>1, KillFrame
  <2>4. ~NoKill(i)
    BY DEF NoKill
  <2>5. FirstRun(i) => doc[i].status \notin {"new", "pending"}
    BY <2>4 DEF FirstRun
  <2>6. Back(i)' <=> Back(i)
    BY <2>1 DEF KillDone, Back
  <2>7. QED
    BY <1>1, <2>1, <2>2, <2>3, <2>5, <2>6, ApartBut
<1>3. CASE Swarm!KillBoxFails(k)
  <2>1. /\ KillFails(k)
        /\ UNCHANGED <<pool, ports, taken, stray, fills, left, kept>>
    BY <1>3, SwarmClient DEF Swarm!KillBoxFails, Swarm!portVars, Swarm!history
  <2>2. UNCHANGED passVars
    BY <2>1 DEF KillFails
  <2>3. \A j \in Job : Kept(j)
    BY <1>1, <2>1, KillFrame
  <2>4. QED
    BY <2>1, <2>2, <2>3, ApartKept DEF passVars
<1>4. CASE Swarm!KillBoxRaises(k)
  BY <1>4 DEF Swarm!KillBoxRaises, Untouched
<1>5. QED
  BY <1>2, <1>3, <1>4 DEF Swarm!Kill

LEMMA ApartBoxEnds ==
    ASSUME SwarmInv, Untouched => Apart, NEW i \in Job, Swarm!ContainerEnds(i)
    PROVE  Untouched' => Apart'
<1>1. /\ UNCHANGED <<doc, tracked, snap, killq, ending, passVars>>
      /\ UNCHANGED <<pool, ports, taken, stray, fills, left, kept>>
  BY DEF Swarm!ContainerEnds, Swarm!client, Swarm!passVars, passVars, Swarm!portVars, Swarm!history
<1>2. \A j \in Job : Kept(j)
  BY <1>1, SecondaryFrame DEF SwarmInv, Asked
<1>3. QED
  BY <1>1, <1>2, ApartKept DEF passVars

LEMMA ApartStep ==
    ASSUME SwarmInv, Untouched => Apart, Swarm!Next
    PROVE  Untouched' => Apart'
<1>1. ASSUME NEW i \in Job, (Swarm!Submit(i) \/ Swarm!Request(i)) /\ Swarm!Other
      PROVE  Untouched' => Apart'
  BY <1>1, ApartUsers
<1>2. ASSUME NEW i \in Job,
             Swarm!RequestPause(i) \/ Swarm!Suspend(i) \/ Swarm!Resume(i) \/ Swarm!RejectPause(i)
      PROVE  Untouched' => Apart'
  BY <1>2, ApartUsers
<1>3. ASSUME NEW e \in ending, Swarm!End(e) PROVE Untouched' => Apart'
  BY <1>3, ApartRelease, ApartFinish DEF Swarm!End
<1>4. QED
  BY <1>1, <1>2, <1>3, ApartScheduler, ApartWatch, ApartKill, ApartPending, ApartBoxEnds DEF Swarm!Next

-----------------------------------------------------------------------------
(* Swarm: what follows of the ports.                                       *)

\* How often a port is in a list.
LEMMA TimesIn ==
    ASSUME NEW p \in Port, NEW s \in Seq(Port),
           \A m, n \in DOMAIN s : s[m] = p /\ s[n] = p => m = n
    PROVE  Swarm!Times(p, s) = IF In(p, s) THEN 1 ELSE 0
<1> DEFINE T == {n \in DOMAIN s : s[n] = p}
<1>1. Swarm!Times(p, s) = Cardinality(T)
  BY DEF Swarm!Times, Swarm!Cardinality, Cardinality
<1>2. CASE In(p, s)
  <2>1. PICK n \in DOMAIN s : s[n] = p
    BY <1>2 DEF In
  <2>2. T = {n}
    BY <2>1
  <2>3. QED
    BY <1>1, <1>2, <2>2, FS_Singleton
<1>3. CASE ~In(p, s)
  <2>1. T = {}
    BY <1>3 DEF In
  <2>2. QED
    BY <1>1, <1>3, <2>1, FS_EmptySet
<1>4. QED
  BY <1>2, <1>3

LEMMA TimesOne ==
    ASSUME NEW p \in Port, NEW s \in Seq(Port), AtMostOne(s)
    PROVE  Swarm!Times(p, s) = IF s = <<p>> THEN 1 ELSE 0
<1>1. CASE s = <<>>
  <2>1. ~In(p, s) /\ Len(s) = 0 /\ Len(<<p>>) = 1
    BY <1>1 DEF In
  <2>2. s # <<p>>
    BY <2>1
  <2>3. \A m, n \in DOMAIN s : s[m] = p /\ s[n] = p => m = n
    BY <2>1 DEF In
  <2>4. QED
    BY <2>1, <2>2, <2>3, TimesIn
<1>2. ASSUME NEW q \in Port, s = <<q>>
      PROVE  Swarm!Times(p, s) = IF s = <<p>> THEN 1 ELSE 0
  <2>1. DOMAIN s = {1} /\ s[1] = q
    BY <1>2
  <2>2. (In(p, s) <=> p = q) /\ (s = <<p>> <=> p = q)
    BY <1>2, <2>1 DEF In
  <2>3. QED
    BY <2>1, <2>2, TimesIn
<1>3. QED
  BY <1>1, <1>2 DEF AtMostOne

LEMMA PortsFollow ==
    ASSUME SwarmInv, Untouched => Apart
    PROVE  Swarm!PortsApart
<1>1. SUFFICES ASSUME fills = 1, left = {}, kept = {}, NEW p \in Port
               PROVE  LET owners == {j \in Job : \/ Swarm!Times(p, taken[j]) > 0
                                                 \/ /\ Swarm!Times(p, ports[j]) > 0
                                                    /\ ~Swarm!Released(j)}
                      IN  Swarm!Times(p, pool) + Swarm!Cardinality(owners) = IF p \in stray THEN 0 ELSE 1
  BY DEF Swarm!PortsApart, Port
<1> DEFINE owners == {j \in Job : \/ Swarm!Times(p, taken[j]) > 0
                                  \/ (Swarm!Times(p, ports[j]) > 0 /\ ~Swarm!Released(j))}
<1>2. PortsTyped /\ Placed
  <2>1. Untouched
    BY <1>1 DEF Untouched
  <2>2. QED
    BY <2>1 DEF SwarmInv, Apart
<1>3. OnePlace(p, pool) /\ pool \in Seq(Port)
  BY <1>1, <1>2 DEF Placed, PortsTyped
<1>4. Swarm!Times(p, pool) = IF In(p, pool) THEN 1 ELSE 0
  BY <1>3, TimesIn DEF OnePlace
<1>5. ASSUME NEW j \in Job PROVE j \in owners <=> OwnedBy(p, j)
  <2>1. ports[j] \in Seq(Port) /\ taken[j] \in Seq(Port) /\ AtMostOne(ports[j]) /\ AtMostOne(taken[j])
    BY <1>2 DEF Placed, PortsTyped
  <2>2. /\ Swarm!Times(p, ports[j]) = IF ports[j] = <<p>> THEN 1 ELSE 0
        /\ Swarm!Times(p, taken[j]) = IF taken[j] = <<p>> THEN 1 ELSE 0
    BY <2>1, TimesOne
  <2>3. Swarm!Released(j) <=> Back(j)
    BY DEF Swarm!Released, Back
  <2>4. QED
    BY <2>2, <2>3 DEF OwnedBy
<1>6. Swarm!Cardinality(owners) = Cardinality(owners)
  BY DEF Swarm!Cardinality, Cardinality
<1>7. CASE \E j \in Job : OwnedBy(p, j)
  <2>1. PICK j \in Job : OwnedBy(p, j)
    BY <1>7
  <2>2. owners = {j}
    <3>1. \A i \in Job : i \in owners <=> i = j
      BY <1>3, <1>5, <2>1 DEF OnePlace
    <3>2. QED
      BY <3>1
  <2>3. Cardinality(owners) = 1
    BY <2>2, FS_Singleton
  <2>4. ~In(p, pool) /\ p \notin stray
    BY <1>3, <2>1 DEF OnePlace
  <2>5. QED
    BY <1>4, <1>6, <2>3, <2>4
<1>8. CASE ~\E j \in Job : OwnedBy(p, j)
  <2>1. owners = {}
    <3>1. \A i \in Job : i \notin owners
      BY <1>5, <1>8
    <3>2. QED
      BY <3>1
  <2>2. Cardinality(owners) = 0
    BY <2>1, FS_EmptySet
  <2>3. In(p, pool) <=> p \notin stray
    BY <1>3, <1>8 DEF OnePlace
  <2>4. QED
    BY <1>4, <1>6, <2>2, <2>3
<1>9. QED
  BY <1>7, <1>8

LEMMA ApartStarts ==
    ASSUME ClientInit, Swarm!PluginInit
    PROVE  Apart
<1>1. /\ doc = [j \in Job |-> [status |-> "new", secondary |-> "none", fails |-> 0]]
      /\ tracked = [j \in Job |-> 0]
      /\ killq = {} /\ ending = {} /\ batch = {} /\ started = {} /\ refused = {}
  BY DEF ClientInit
<1>2. /\ pool = <<>> /\ stray = {} /\ fills = 0
      /\ ports = [j \in Job |-> <<>>] /\ taken = [j \in Job |-> <<>>]
  BY DEF Swarm!PluginInit
<1>3. ASSUME NEW j \in Job PROVE FirstRun(j)
  <2>1. doc[j].status = "new" /\ tracked[j] = 0 /\ ports[j] = <<>> /\ taken[j] = <<>>
    BY <1>1, <1>2
  <2>2. QED
    BY <1>1, <2>1 DEF FirstRun, NoEnd, NoKill
<1>4. FirstRuns
  BY <1>1, <1>3 DEF FirstRuns
<1>5. Placed
  BY <1>2 DEF Placed, AtMostOne
<1>6. QED
  BY <1>4, <1>5 DEF Apart

ApartInv == plugin = "swarm" => (Untouched => Apart)

LEMMA ApartStutters ==
    ASSUME Typed(Job), Untouched => Apart, UNCHANGED vars
    PROVE  Untouched' => Apart'
<1>1. /\ UNCHANGED <<doc, tracked, snap, killq, ending, passVars>>
      /\ UNCHANGED <<pool, ports, taken, stray, fills, left, kept>>
  BY DEF vars, client, swarmVars
<1>2. \A j \in Job : Kept(j)
  BY <1>1, SecondaryFrame DEF Asked
<1>3. QED
  BY <1>1, <1>2, ApartKept DEF passVars

\* The ports of the interactive jobs (get_mapping_port and release_port): until the list
\* is filled again, a failure hides a container, run_tasks has a job that was killed, two
\* handlers give the ports of one job back, or a job starts again, each port is in one
\* place, the list, a document, a task of the pass or the list of a node, so no two jobs
\* have the same; the document whose ports a handler has given back does not count.
THEOREM PortsApartCorrect == Spec => []PortsApart
<1>1. Init => ApartInv
  BY ApartStarts DEF Init, ApartInv
<1>2. PluginInv /\ ApartInv /\ [Next]_vars => ApartInv'
  <2>1. SUFFICES ASSUME PluginInv, ApartInv, [Next]_vars, plugin' = "swarm"
                 PROVE  Untouched' => Apart'
    BY DEF ApartInv
  <2>2. CASE IsSwarm /\ Swarm!Next
    BY <2>1, <2>2, ApartStep DEF PluginInv, ApartInv, IsSwarm
  <2>3. CASE UNCHANGED vars
    BY <2>1, <2>3, ApartStutters DEF PluginInv, ApartInv, SwarmInv, vars
  <2>4. QED
    BY <2>1, <2>2, <2>3 DEF Next, IsKubernetes, IsSGE
<1>3. PluginInv /\ ApartInv => PortsApart
  BY PortsFollow DEF PluginInv, ApartInv, PortsApart
<1>4. QED
  BY <1>1, <1>2, <1>3, PluginInvariant, PTL DEF Spec
=============================================================================
