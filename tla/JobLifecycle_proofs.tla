------------------------ MODULE JobLifecycle_proofs ------------------------
(***************************************************************************)
(* Theorems about JobLifecycle, for any jobs, watchers and bounds: the     *)
(* types, then what happens to the record of a job and to the state users  *)
(* see.  A job is never in jobs and in jobsover at once, whatever crashes, *)
(* and each crash loses the record of one job at most.  It goes through    *)
(* its states in the promised order (JobLifecycle implements JobStates),   *)
(* and runs after the jobs it depends on.                                  *)
(***************************************************************************)
EXTENDS JobLifecycle, ListLemmas, FiniteSetTheorems, TLAPS

-----------------------------------------------------------------------------
(* Lemmas about the types of the values the handlers compute.              *)

\* A part of the state that an action leaves alone keeps its type.
LEMMA Frame ==
    ASSUME TypeOK
    PROVE  /\ UNCHANGED mongo => MongoTyped'
           /\ UNCHANGED lists => ListsTyped'
           /\ UNCHANGED keys => KeysTyped'
           /\ UNCHANGED executor => ExecutorTyped'
           /\ UNCHANGED scheduler => SchedulerTyped'
           /\ UNCHANGED watchers => WatchersTyped'
           /\ UNCHANGED bounds => BoundsTyped'
<1>1. UNCHANGED mongo => MongoTyped'
  BY DEF TypeOK, mongo, MongoTyped
<1>2. UNCHANGED lists => ListsTyped'
  BY DEF TypeOK, lists, ListsTyped
<1>3. UNCHANGED keys => KeysTyped'
  BY DEF TypeOK, keys, KeysTyped
<1>4. UNCHANGED executor => ExecutorTyped'
  BY DEF TypeOK, executor, ExecutorTyped
<1>5. UNCHANGED scheduler => SchedulerTyped'
  BY DEF TypeOK, scheduler, SchedulerTyped
<1>6. UNCHANGED watchers => WatchersTyped'
  BY DEF TypeOK, watchers, WatchersTyped
<1>7. UNCHANGED bounds => BoundsTyped'
  BY DEF TypeOK, bounds, BoundsTyped
<1>8. QED
  BY <1>1, <1>2, <1>3, <1>4, <1>5, <1>6, <1>7

\* What a watcher that is not idle has in hand, field by field.
LEMMA HandType ==
    ASSUME TypeOK, NEW w \in Watcher, wpc[w] # "idle"
    PROVE  /\ hand[w] \in Task
           /\ hand[w].job \in Job
           /\ hand[w].run \in Nat
           /\ hand[w].tries \in Nat
           /\ hand[w].fails \in Nat
<1>1. hand[w] \in Task
  BY DEF TypeOK, WatchersTyped
<1>2. QED
  BY <1>1 DEF Task

\* The three ways a handler changes what its watcher does.
LEMMA TakeTyped ==
    ASSUME TypeOK, NEW w \in Watcher, NEW t \in Task, NEW pc \in WatcherPC,
           Take(w, t, pc)
    PROVE  WatchersTyped'
BY DEF TypeOK, WatchersTyped, Take, Goto

LEMMA ReleaseTyped ==
    ASSUME TypeOK, NEW w \in Watcher, Release(w)
    PROVE  WatchersTyped'
BY DEF TypeOK, WatchersTyped, Release, Take, Goto, WatcherPC

LEMMA GotoTyped ==
    ASSUME TypeOK, NEW w \in Watcher, NEW pc \in WatcherPC, wpc[w] # "idle",
           Goto(w, pc), UNCHANGED hand
    PROVE  WatchersTyped'
BY DEF TypeOK, WatchersTyped, Goto

\* A document stays a document when some of its fields are set.
LEMMA DocumentType ==
    ASSUME NEW d \in Document
    PROVE  /\ \A p \in Primary : [d EXCEPT !.primary = p] \in Document
           /\ \A s \in Secondary : [d EXCEPT !.secondary = s] \in Document
           /\ \A p \in Primary, s \in Secondary, n \in Nat :
                 /\ [d EXCEPT !.primary = p, !.secondary = s, !.run = n] \in Document
                 /\ [d EXCEPT !.primary = p, !.secondary = s, !.fails = n] \in Document
           /\ d.run \in Nat /\ d.fails \in Nat
BY DEF Document

LEMMA UpdateDocTyped ==
    ASSUME TypeOK, NEW j \in Job, NEW d \in Document, UpdateDoc(j, d)
    PROVE  jobs' \in [Job -> Document]
BY DEF TypeOK, MongoTyped, UpdateDoc

LEMMA SetSecondaryTyped ==
    ASSUME TypeOK, NEW j \in Job, NEW s \in Secondary, SetSecondary(j, s)
    PROVE  jobs' \in [Job -> Document]
<1>1. jobs[j] \in Document
  BY DEF TypeOK, MongoTyped
<1>2. [jobs[j] EXCEPT !.secondary = s] \in Document
  BY <1>1, DocumentType
<1>3. QED
  BY <1>2, UpdateDocTyped DEF SetSecondary

LEMMA RemoveDocTyped ==
    ASSUME TypeOK, NEW j \in Job, RemoveDoc(j)
    PROVE  MongoTyped'
<1>1. jobs[j] \in Document /\ "gone" \in Primary
  BY DEF TypeOK, MongoTyped, Primary
<1>2. [jobs[j] EXCEPT !.primary = "gone"] \in Document
  BY <1>1, DocumentType
<1>3. QED
  BY <1>2 DEF TypeOK, MongoTyped, RemoveDoc

LEMMA InsertRecordTyped ==
    ASSUME TypeOK, NEW j \in Job, InsertRecord(j)
    PROVE  jobsover' \in [Job -> Nat]
BY DEF TypeOK, MongoTyped, InsertRecord

LEMMA DeleteSnapshotTyped ==
    ASSUME TypeOK, NEW j \in Job, DeleteSnapshot(j)
    PROVE  snap' \in [Job -> Nat]
BY DEF TypeOK, KeysTyped, DeleteSnapshot

\* A copy of a stored document is a task.
LEMMA CopyType ==
    ASSUME TypeOK, NEW j \in Job, Stored(j)
    PROVE  Copy(j) \in Task
<1>1. jobs[j] \in Document
  BY DEF TypeOK, MongoTyped
<1>2. jobs[j].primary \in {"pending", "running"} /\ jobs[j].run \in Nat
  BY <1>1 DEF Stored, Document
<1>3. QED
  BY <1>2 DEF Copy, Task

LEMMA SnapshotType ==
    ASSUME TypeOK, NEW j \in Job, NEW f \in BOOLEAN
    PROVE  Snapshot(j, f) \in Task
<1>1. snap[j] \in Nat
  BY DEF TypeOK, KeysTyped
<1>2. QED
  BY <1>1 DEF Snapshot, Task

-----------------------------------------------------------------------------
\* Every variable keeps its type: in particular a watcher that is not idle has
\* a task in hand, and the scheduler knows which job it is publishing.
THEOREM TypeCorrect == Spec => []TypeOK
<1>1. Init => TypeOK
  <2>1. NewDocument \in Document
    BY DEF NewDocument, Document, Primary, Secondary
  <2>2. QED
    BY <2>1 DEF Init, TypeOK, MongoTyped, ListsTyped, KeysTyped, ExecutorTyped,
                SchedulerTyped, WatchersTyped, BoundsTyped, SchedulerPC, WatcherPC
<1>2. TypeOK /\ [Next]_vars => TypeOK'
  <2> SUFFICES ASSUME TypeOK, [Next]_vars PROVE TypeOK'
    OBVIOUS
  <2>1. ASSUME NEW j \in Job, Count(j) PROVE TypeOK'
    <3>1. jobs[j] \in Document /\ "counted" \in Primary
      BY DEF TypeOK, MongoTyped, Primary
    <3>2. [jobs[j] EXCEPT !.primary = "counted"] \in Document
      BY <3>1, DocumentType
    <3>3. MongoTyped'
      BY <2>1, <3>2 DEF Count, TypeOK, MongoTyped
    <3>4. KeysTyped'
      BY <2>1 DEF Count, TypeOK, KeysTyped
    <3>5. QED
      BY <2>1, <3>3, <3>4, Frame DEF Count, TypeOK
  <2>2. ASSUME NEW j \in Job, Submit(j) PROVE TypeOK'
    <3>1. jobs[j] \in Document /\ "pending" \in Primary
      BY DEF TypeOK, MongoTyped, Primary
    <3>2. [jobs[j] EXCEPT !.primary = "pending"] \in Document
      BY <3>1, DocumentType
    <3>3. MongoTyped'
      BY <2>2, <3>2 DEF Submit, TypeOK, MongoTyped
    <3>4. QED
      BY <2>2, <3>3, Frame DEF Submit, TypeOK
  <2>3. ASSUME NEW j \in Job, RequestKill(j) PROVE TypeOK'
    <3>1. Copy(j) \in Task
      BY <2>3, CopyType DEF RequestKill
    <3>2. jobs' \in [Job -> Document]
      BY <2>3, SetSecondaryTyped DEF RequestKill, Secondary
    <3>3. MongoTyped'
      BY <2>3, <3>2 DEF RequestKill, TypeOK, MongoTyped
    <3>4. Append(killq, Copy(j)) \in Seq(Task)
      BY <3>1, AppendType DEF TypeOK, ListsTyped
    <3>5. /\ killq' = Append(killq, Copy(j))
          /\ UNCHANGED <<running, reschedq>>
      BY <2>3 DEF RequestKill
    <3>6. ListsTyped'
      BY <3>4, <3>5 DEF TypeOK, ListsTyped
    <3>7. kills' = kills + 1 /\ UNCHANGED <<reschedules, crashes, outages>>
      BY <2>3 DEF RequestKill
    <3>8. BoundsTyped'
      BY <3>7 DEF TypeOK, BoundsTyped
    <3>9. QED
      BY <2>3, <3>3, <3>6, <3>8, Frame DEF RequestKill, TypeOK
  <2>4. ASSUME NEW j \in Job, RequestReschedule(j) PROVE TypeOK'
    <3>1. Copy(j) \in Task
      BY <2>4, CopyType DEF RequestReschedule, Stored
    <3>2. ListsTyped'
      BY <2>4, <3>1, AppendType DEF RequestReschedule, TypeOK, ListsTyped
    <3>3. BoundsTyped'
      BY <2>4 DEF RequestReschedule, TypeOK, BoundsTyped
    <3>4. QED
      BY <2>4, <3>2, <3>3, Frame DEF RequestReschedule, TypeOK
  <2>5. ASSUME NEW c \in up, ContainerEnds(c) PROVE TypeOK'
    <3>1. ExecutorTyped'
      BY <2>5 DEF ContainerEnds, TypeOK, ExecutorTyped
    <3>2. QED
      BY <2>5, <3>1, Frame DEF ContainerEnds, TypeOK
  <2>6. CASE SchedulerRead
    <3>1. SchedulerTyped'
      BY <2>6 DEF SchedulerRead, Eligible, TypeOK, SchedulerTyped, SchedulerPC
    <3>2. ExecutorTyped'
      <4>1. Eligible \subseteq Job /\ launched \in [Job -> Nat]
        BY DEF Eligible, TypeOK, ExecutorTyped
      <4>2. {<<j, launched[j] + 1>> : j \in {i \in Eligible : jobs[i].fails > 0}}
              \subseteq Job \X Nat
        BY <4>1
      <4>3. QED
        BY <2>6, <4>2 DEF SchedulerRead, TypeOK, ExecutorTyped
    <3>3. QED
      BY <2>6, <3>1, <3>2, Frame DEF SchedulerRead, TypeOK
  <2>7. ASSUME NEW j \in Job, SchedulerSkip(j) PROVE TypeOK'
    <3>1. SchedulerTyped'
      BY <2>7 DEF SchedulerSkip, TypeOK, SchedulerTyped, SchedulerPC
    <3>2. QED
      BY <2>7, <3>1, Frame DEF SchedulerSkip, TypeOK
  <2>8. ASSUME NEW j \in Job, SchedulerAccept(j) PROVE TypeOK'
    <3>1. SchedulerTyped'
      BY <2>8 DEF SchedulerAccept, TypeOK, SchedulerTyped, SchedulerPC
    <3>2. QED
      BY <2>8, <3>1, Frame DEF SchedulerAccept, TypeOK
  <2>9. ASSUME NEW j \in Job, SchedulerRejectQuota(j) PROVE TypeOK'
    <3>1. MongoTyped'
      BY <2>9, RemoveDocTyped DEF SchedulerRejectQuota
    <3>2. SchedulerTyped'
      BY <2>9 DEF SchedulerRejectQuota, TypeOK, SchedulerTyped, SchedulerPC
    <3>3. QED
      BY <2>9, <3>1, <3>2, Frame DEF SchedulerRejectQuota, TypeOK
  <2>10. CASE SchedulerInsertRejected
    <3>1. scur \in Job
      BY <2>10 DEF SchedulerInsertRejected, TypeOK, SchedulerTyped
    <3>2. MongoTyped'
      BY <2>10, <3>1, InsertRecordTyped DEF SchedulerInsertRejected, TypeOK,
         MongoTyped
    <3>3. KeysTyped'
      BY <2>10, <3>1, DeleteSnapshotTyped DEF SchedulerInsertRejected, TypeOK,
         KeysTyped
    <3>4. SchedulerTyped'
      BY <2>10 DEF SchedulerInsertRejected, TypeOK, SchedulerTyped,
         SchedulerPC
    <3>5. QED
      BY <2>10, <3>2, <3>3, <3>4, Frame DEF SchedulerInsertRejected, TypeOK
  <2>11. ASSUME NEW R \in SUBSET accepted, SchedulerLaunch(R) PROVE TypeOK'
    <3>1. R \subseteq Job /\ launched \in [Job -> Nat]
      BY DEF TypeOK, SchedulerTyped, ExecutorTyped
    <3>2. launched' \in [Job -> Nat]
      BY <2>11, <3>1 DEF SchedulerLaunch
    <3>3. {<<j, launched[j] + 1>> : j \in R} \subseteq Job \X Nat
      BY <3>1
    <3>4. ExecutorTyped'
      BY <2>11, <3>2, <3>3 DEF SchedulerLaunch, TypeOK, ExecutorTyped
    <3>5. SchedulerTyped'
      BY <2>11, <3>1 DEF SchedulerLaunch, TypeOK, SchedulerTyped, SchedulerPC
    <3>6. QED
      BY <2>11, <3>4, <3>5, Frame DEF SchedulerLaunch, TypeOK
  <2>12. ASSUME NEW j \in Job, SchedulerPush(j) PROVE TypeOK'
    <3>1. ListsTyped'
      BY <2>12, AppendType DEF SchedulerPush, TypeOK, ListsTyped
    <3>2. SchedulerTyped'
      BY <2>12 DEF SchedulerPush, TypeOK, SchedulerTyped, SchedulerPC
    <3>3. QED
      BY <2>12, <3>1, <3>2, Frame DEF SchedulerPush, TypeOK
  <2>13. CASE SchedulerSnapshot
    <3>1. scur \in Job /\ launched[scur] \in Nat
      BY <2>13 DEF SchedulerSnapshot, TypeOK, SchedulerTyped, ExecutorTyped
    <3>2. KeysTyped'
      BY <2>13, <3>1 DEF SchedulerSnapshot, TypeOK, KeysTyped
    <3>3. SchedulerTyped'
      BY <2>13 DEF SchedulerSnapshot, TypeOK, SchedulerTyped, SchedulerPC
    <3>4. QED
      BY <2>13, <3>2, <3>3, Frame DEF SchedulerSnapshot, TypeOK
  <2>13a. CASE SchedulerCountOut
    <3>1. KeysTyped'
      BY <2>13a DEF SchedulerCountOut, TypeOK, KeysTyped
    <3>2. SchedulerTyped'
      BY <2>13a DEF SchedulerCountOut, TypeOK, SchedulerTyped, SchedulerPC
    <3>3. QED
      BY <2>13a, <3>1, <3>2, Frame DEF SchedulerCountOut, TypeOK
  <2>14. CASE SchedulerMark
    <3>1. scur \in Job
      BY <2>14 DEF SchedulerMark, TypeOK, SchedulerTyped
    <3>2. /\ jobs[scur] \in Document
          /\ launched[scur] \in Nat
          /\ "running" \in Primary
          /\ "none" \in Secondary
      BY <3>1 DEF TypeOK, MongoTyped, ExecutorTyped, Primary, Secondary
    <3>3. [jobs[scur] EXCEPT !.primary = "running", !.secondary = "none",
                             !.run = launched[scur]] \in Document
      BY <3>2, DocumentType
    <3>4. jobs' \in [Job -> Document]
      BY <2>14, <3>1, <3>3, UpdateDocTyped DEF SchedulerMark
    <3>5. MongoTyped'
      BY <2>14, <3>4 DEF SchedulerMark, TypeOK, MongoTyped
    <3>6. SchedulerTyped'
      BY <2>14 DEF SchedulerMark, TypeOK, SchedulerTyped, SchedulerPC
    <3>7. QED
      BY <2>14, <3>5, <3>6, Frame DEF SchedulerMark, TypeOK
  <2>15. ASSUME NEW j \in Job, SchedulerRefuse(j) PROVE TypeOK'
    <3>1. jobs' \in [Job -> Document]
      BY <2>15, SetSecondaryTyped DEF SchedulerRefuse, Secondary
    <3>2. MongoTyped'
      BY <2>15, <3>1 DEF SchedulerRefuse, TypeOK, MongoTyped
    <3>3. SchedulerTyped'
      BY <2>15 DEF SchedulerRefuse, TypeOK, SchedulerTyped, SchedulerPC
    <3>4. QED
      BY <2>15, <3>2, <3>3, Frame DEF SchedulerRefuse, TypeOK
  <2>16. CASE SchedulerEndPass
    <3>1. SchedulerTyped'
      BY <2>16 DEF SchedulerEndPass, TypeOK, SchedulerTyped, SchedulerPC
    <3>2. QED
      BY <2>16, <3>1, Frame DEF SchedulerEndPass, TypeOK
  <2>17. CASE SchedulerReschedule
    <3>1. Head(reschedq) \in Task /\ Tail(reschedq) \in Seq(Task)
      BY <2>17, HeadTailType DEF SchedulerReschedule, TypeOK, ListsTyped
    <3>2. Head(reschedq).job \in Job
      BY <3>1 DEF Task
    <3>3. jobs' \in [Job -> Document]
      BY <2>17, <3>2, SetSecondaryTyped DEF SchedulerReschedule, Secondary
    <3>4. MongoTyped'
      BY <2>17, <3>3 DEF SchedulerReschedule, TypeOK, MongoTyped
    <3>5. ListsTyped'
      BY <2>17, <3>1, AppendType DEF SchedulerReschedule, TypeOK, ListsTyped
    <3>6. QED
      BY <2>17, <3>4, <3>5, Frame DEF SchedulerReschedule, TypeOK
  <2>18. CASE SchedulerCrash
    <3>1. running' = running \/ running' = <<>>
      BY <2>18 DEF SchedulerCrash
    <3>2. <<>> \in Seq(Job)
      OBVIOUS
    <3>3. ListsTyped'
      BY <2>18, <3>1, <3>2 DEF SchedulerCrash, TypeOK, ListsTyped
    <3>4. KeysTyped'
      BY <2>18 DEF SchedulerCrash, TypeOK, KeysTyped
    <3>5. SchedulerTyped'
      BY <2>18 DEF SchedulerCrash, TypeOK, SchedulerTyped, SchedulerPC
    <3>6. BoundsTyped'
      BY <2>18 DEF SchedulerCrash, TypeOK, BoundsTyped
    <3>7. QED
      BY <2>18, <3>3, <3>4, <3>5, <3>6, Frame DEF SchedulerCrash, TypeOK
  <2>19. ASSUME NEW w \in Watcher, PopKill(w) PROVE TypeOK'
    <3>1. Head(killq) \in Task /\ Tail(killq) \in Seq(Task)
      BY <2>19, HeadTailType DEF PopKill, TypeOK, ListsTyped
    <3>2. ListsTyped'
      BY <2>19, <3>1 DEF PopKill, TypeOK, ListsTyped
    <3>3. WatchersTyped'
      BY <2>19, <3>1, TakeTyped DEF PopKill, WatcherPC
    <3>4. QED
      BY <2>19, <3>2, <3>3, Frame DEF PopKill, TypeOK
  <2>20. ASSUME NEW w \in Watcher, KillPending(w) PROVE TypeOK'
    <3>1. KeysTyped'
      BY <2>20 DEF KillPending, TypeOK, KeysTyped
    <3>2. WatchersTyped'
      BY <2>20, GotoTyped DEF KillPending, WatcherPC
    <3>3. QED
      BY <2>20, <3>1, <3>2, Frame DEF KillPending, TypeOK
  <2>21. ASSUME NEW w \in Watcher, KillContainer(w) PROVE TypeOK'
    <3>1. ExecutorTyped'
      BY <2>21 DEF KillContainer, TypeOK, ExecutorTyped
    <3>2. WatchersTyped'
      BY <2>21, GotoTyped DEF KillContainer, WatcherPC
    <3>3. QED
      BY <2>21, <3>1, <3>2, Frame DEF KillContainer, TypeOK
  <2>22. ASSUME NEW w \in Watcher, KillFails(w) PROVE TypeOK'
    <3> DEFINE task == [hand[w] EXCEPT !.tries = @ + 1]
    <3>1. hand[w] \in Task /\ hand[w].tries \in Nat
      BY <2>22, HandType DEF KillFails
    <3>2. task \in Task /\ task.job \in Job
      BY <3>1 DEF Task
    <3>3. MongoTyped' /\ ListsTyped'
      <4>1. CASE SetSecondary(task.job, "unknown") /\ UNCHANGED killq
        <5>1. jobs' \in [Job -> Document]
          BY <4>1, <3>2, SetSecondaryTyped DEF Secondary
        <5>2. QED
          BY <2>22, <4>1, <5>1 DEF KillFails, TypeOK, MongoTyped, ListsTyped
      <4>2. CASE killq' = Append(killq, task) /\ UNCHANGED jobs
        BY <2>22, <4>2, <3>2, AppendType DEF KillFails, TypeOK, MongoTyped, ListsTyped
      <4>3. QED
        BY <2>22, <4>1, <4>2 DEF KillFails
    <3>4. WatchersTyped'
      BY <2>22, ReleaseTyped DEF KillFails
    <3>5. QED
      BY <2>22, <3>3, <3>4, Frame DEF KillFails, TypeOK
  <2>23. ASSUME NEW w \in Watcher, OriginalGone(w) PROVE TypeOK'
    <3>1. WatchersTyped'
      BY <2>23, ReleaseTyped DEF OriginalGone
    <3>2. QED
      BY <2>23, <3>1, Frame DEF OriginalGone, TypeOK
  <2>24. ASSUME NEW w \in Watcher, OriginalRequeue(w) PROVE TypeOK'
    <3>1. hand[w] \in Task /\ hand[w].job \in Job
      BY <2>24, HandType DEF OriginalRequeue
    <3>2. jobs[hand[w].job].fails \in Nat
      BY <3>1, DocumentType DEF TypeOK, MongoTyped
    <3>3. [hand[w] EXCEPT !.fails = jobs[hand[w].job].fails + 1] \in Task
      BY <3>1, <3>2 DEF Task
    <3>4. WatchersTyped'
      BY <2>24, <3>3, TakeTyped DEF OriginalRequeue, WatcherPC
    <3>5. QED
      BY <2>24, <3>4, Frame DEF OriginalRequeue, TypeOK
  <2>25. ASSUME NEW w \in Watcher, OriginalFinish(w) PROVE TypeOK'
    <3>1. WatchersTyped'
      BY <2>25, GotoTyped DEF OriginalFinish, WatcherPC
    <3>2. QED
      BY <2>25, <3>1, Frame DEF OriginalFinish, TypeOK
  <2>26. ASSUME NEW w \in Watcher, Requeue(w) PROVE TypeOK'
    <3>1. hand[w].job \in Job
      BY <2>26, HandType DEF Requeue
    <3>2. KeysTyped'
      BY <2>26, <3>1, DeleteSnapshotTyped DEF Requeue, TypeOK, KeysTyped
    <3>3. WatchersTyped'
      BY <2>26, GotoTyped DEF Requeue, WatcherPC
    <3>4. QED
      BY <2>26, <3>2, <3>3, Frame DEF Requeue, TypeOK
  <2>27. ASSUME NEW w \in Watcher, ResetPending(w) PROVE TypeOK'
    <3> DEFINE j == hand[w].job
    <3> DEFINE n == IF hand[w].over THEN hand[w].fails ELSE jobs[j].fails
    <3>1. j \in Job /\ hand[w].fails \in Nat
      BY <2>27, HandType DEF ResetPending
    <3>2. /\ jobs[j] \in Document
          /\ "pending" \in Primary
          /\ "rescheduled" \in Secondary
      BY <3>1 DEF TypeOK, MongoTyped, Primary, Secondary
    <3>3. n \in Nat
      BY <3>1, <3>2, DocumentType
    <3>4. [jobs[j] EXCEPT !.primary = "pending", !.secondary = "rescheduled",
                          !.fails = n] \in Document
      BY <3>2, <3>3, DocumentType
    <3>5. jobs' \in [Job -> Document]
      BY <2>27, <3>1, <3>4, UpdateDocTyped DEF ResetPending
    <3>6. MongoTyped'
      BY <2>27, <3>5 DEF ResetPending, TypeOK, MongoTyped
    <3>7. WatchersTyped'
      BY <2>27, GotoTyped, ReleaseTyped DEF ResetPending, WatcherPC
    <3>8. QED
      BY <2>27, <3>6, <3>7, Frame DEF ResetPending, TypeOK
  <2>28. ASSUME NEW w \in Watcher, DeleteSnapshotAgain(w) PROVE TypeOK'
    <3>1. hand[w].job \in Job
      BY <2>28, HandType DEF DeleteSnapshotAgain
    <3>2. KeysTyped'
      BY <2>28, <3>1, DeleteSnapshotTyped DEF DeleteSnapshotAgain, TypeOK,
         KeysTyped
    <3>3. WatchersTyped'
      BY <2>28, ReleaseTyped DEF DeleteSnapshotAgain
    <3>4. QED
      BY <2>28, <3>2, <3>3, Frame DEF DeleteSnapshotAgain, TypeOK
  <2>29. ASSUME NEW w \in Watcher, Remove(w) PROVE TypeOK'
    <3>1. hand[w].job \in Job
      BY <2>29, HandType DEF Remove
    <3>2. MongoTyped'
      BY <2>29, <3>1, RemoveDocTyped DEF Remove
    <3>3. WatchersTyped'
      BY <2>29, GotoTyped DEF Remove, WatcherPC
    <3>4. QED
      BY <2>29, <3>2, <3>3, Frame DEF Remove, TypeOK
  <2>30. ASSUME NEW w \in Watcher, InsertOver(w) PROVE TypeOK'
    <3>1. hand[w].job \in Job
      BY <2>30, HandType DEF InsertOver
    <3>2. MongoTyped'
      BY <2>30, <3>1, InsertRecordTyped DEF InsertOver, TypeOK, MongoTyped
    <3>3. WatchersTyped'
      BY <2>30, GotoTyped DEF InsertOver, WatcherPC
    <3>4. QED
      BY <2>30, <3>2, <3>3, Frame DEF InsertOver, TypeOK
  <2>31. ASSUME NEW w \in Watcher, Close(w) PROVE TypeOK'
    <3>1. hand[w].job \in Job
      BY <2>31, HandType DEF Close
    <3>2. snap' \in [Job -> Nat]
      BY <2>31, <3>1, DeleteSnapshotTyped DEF Close
    <3>3. usage' \in [Job -> Nat]
      BY <2>31, <3>1 DEF Close, TypeOK, KeysTyped
    <3>4. KeysTyped'
      BY <2>31, <3>2, <3>3 DEF Close, TypeOK, KeysTyped
    <3>5. WatchersTyped'
      BY <2>31, ReleaseTyped DEF Close
    <3>6. QED
      BY <2>31, <3>4, <3>5, Frame DEF Close, TypeOK
  <2>32. ASSUME NEW w \in Watcher, PopUnknown(w) PROVE TypeOK'
    <3>1. ListsTyped'
      BY <2>32, HeadTailType DEF PopUnknown, TypeOK, ListsTyped
    <3>2. QED
      BY <2>32, <3>1, Frame DEF PopUnknown, TypeOK
  <2>33. ASSUME NEW w \in Watcher, PopAlive(w) PROVE TypeOK'
    <3>1. Head(running) \in Job /\ Tail(running) \in Seq(Job)
      BY <2>33, HeadTailType DEF PopAlive, TypeOK, ListsTyped
    <3>2. ListsTyped'
      BY <2>33, <3>1 DEF PopAlive, TypeOK, ListsTyped
    <3>3. Snapshot(Head(running), FALSE) \in Task
      BY <3>1, SnapshotType
    <3>4. WatchersTyped'
      BY <2>33, <3>3, TakeTyped DEF PopAlive, WatcherPC
    <3>5. QED
      BY <2>33, <3>2, <3>4, Frame DEF PopAlive, TypeOK
  <2>34. ASSUME NEW w \in Watcher, PopOver(w) PROVE TypeOK'
    <3> DEFINE j == Head(running)
    <3> DEFINE task == Snapshot(j, <<j, snap[j]>> \in failed \cup retries)
    <3>1. j \in Job /\ Tail(running) \in Seq(Job)
      BY <2>34, HeadTailType DEF PopOver, TypeOK, ListsTyped
    <3>2. task \in Task
      <4>1. (<<j, snap[j]>> \in failed \cup retries) \in BOOLEAN
        OBVIOUS
      <4> HIDE DEF j
      <4>2. QED
        BY <3>1, <4>1, SnapshotType
    <3>3. Take(w, task, "original") /\ "original" \in WatcherPC
      BY <2>34 DEF PopOver, WatcherPC
    <3>4. WatchersTyped'
      <4> HIDE DEF task
      <4> QED
        BY <3>2, <3>3, TakeTyped
    <3>5. ListsTyped'
      BY <2>34, <3>1 DEF PopOver, TypeOK, ListsTyped
    <3>6. ExecutorTyped'
      BY <2>34 DEF PopOver, TypeOK, ExecutorTyped
    <3>7. QED
      BY <2>34, <3>4, <3>5, <3>6, Frame DEF PopOver, TypeOK
  <2>35. ASSUME NEW w \in Watcher, PushBack(w) PROVE TypeOK'
    <3>1. hand[w].job \in Job
      BY <2>35, HandType DEF PushBack
    <3>2. ListsTyped'
      BY <2>35, <3>1, AppendType DEF PushBack, TypeOK, ListsTyped
    <3>3. WatchersTyped'
      BY <2>35, GotoTyped DEF PushBack, WatcherPC
    <3>4. QED
      BY <2>35, <3>2, <3>3, Frame DEF PushBack, TypeOK
  <2>36. ASSUME NEW w \in Watcher, Stamp(w) PROVE TypeOK'
    <3>1. hand[w].job \in Job /\ hand[w].run \in Nat
      BY <2>36, HandType DEF Stamp
    <3>2. KeysTyped'
      BY <2>36, <3>1 DEF Stamp, TypeOK, KeysTyped
    <3>3. WatchersTyped'
      BY <2>36, ReleaseTyped DEF Stamp
    <3>4. QED
      BY <2>36, <3>2, <3>3, Frame DEF Stamp, TypeOK
  <2>37. ASSUME NEW w \in Watcher, Expire(w) PROVE TypeOK'
    <3>1. hand[w] \in Task /\ hand[w].job \in Job
      BY <2>37, HandType DEF Expire
    <3>2. [hand[w] EXCEPT !.over = FALSE] \in Task
      BY <3>1 DEF Task
    <3>3. jobs' \in [Job -> Document]
      BY <2>37, <3>1, SetSecondaryTyped DEF Expire, Secondary
    <3>4. MongoTyped'
      BY <2>37, <3>3 DEF Expire, TypeOK, MongoTyped
    <3>5. ListsTyped'
      BY <2>37, <3>2, AppendType DEF Expire, TypeOK, ListsTyped
    <3>6. WatchersTyped'
      BY <2>37, ReleaseTyped DEF Expire
    <3>7. QED
      BY <2>37, <3>4, <3>5, <3>6, Frame DEF Expire, TypeOK
  <2>38. ASSUME NEW w \in Watcher, WatcherCrash(w) PROVE TypeOK'
    <3>1. WatchersTyped'
      BY <2>38, ReleaseTyped DEF WatcherCrash
    <3>2. BoundsTyped'
      BY <2>38 DEF WatcherCrash, TypeOK, BoundsTyped
    <3>3. QED
      BY <2>38, <3>1, <3>2, Frame DEF WatcherCrash, TypeOK
  <2>39. CASE UNCHANGED vars
    BY <2>39, Frame DEF vars, TypeOK
  <2>40. QED
    BY <2>1, <2>2, <2>3, <2>4, <2>5, <2>6, <2>7, <2>8, <2>9, <2>10, <2>11,
       <2>12, <2>13, <2>13a, <2>14, <2>15, <2>16, <2>17, <2>18, <2>19, <2>20, <2>21,
       <2>22, <2>23, <2>24, <2>25, <2>26, <2>27, <2>28, <2>29, <2>30, <2>31,
       <2>32, <2>33, <2>34, <2>35, <2>36, <2>37, <2>38, <2>39
    DEF Next, Users, Containers, Scheduler, WatcherStep, PopRunning, Handle
<1>3. QED
  BY <1>1, <1>2, PTL DEF Spec

-----------------------------------------------------------------------------
(* The records.                                                            *)

\* What every step does to the documents: a job never becomes unsubmitted, and
\* a removed document never comes back.
Monotone ==
    /\ Submitted \subseteq Submitted'
    /\ \A j \in Job : Gone(j) => Gone(j)'

SubmittedTask == {t \in Task : t.job \in Submitted}

-----------------------------------------------------------------------------
(* The calls on jobs are monotone.                                         *)

LEMMA SameMonotone ==
    ASSUME TypeOK, UNCHANGED jobs
    PROVE  Monotone
BY DEF Monotone, Submitted, Gone

LEMMA UpdateMonotone ==
    ASSUME TypeOK, NEW j \in Job, NEW d \in Document, UpdateDoc(j, d),
           d.primary \in {"pending", "running"}
    PROVE  Monotone
BY DEF TypeOK, MongoTyped, UpdateDoc, Stored, Monotone, Submitted, Gone

LEMMA SecondaryMonotone ==
    ASSUME TypeOK, NEW j \in Job, NEW s \in Secondary, SetSecondary(j, s)
    PROVE  Monotone
<1>1. CASE Stored(j)
  <2> DEFINE d == [jobs[j] EXCEPT !.secondary = s]
  <2>1. jobs[j] \in Document
    BY DEF TypeOK, MongoTyped
  <2>2. d \in Document /\ d.primary = jobs[j].primary
    BY <2>1 DEF Document
  <2>3. d.primary \in {"pending", "running"}
    BY <1>1, <2>2 DEF Stored
  <2>4. QED
    BY <2>2, <2>3, UpdateMonotone DEF SetSecondary
<1>2. CASE ~Stored(j)
  BY <1>2, SameMonotone DEF SetSecondary, UpdateDoc
<1>3. QED
  BY <1>1, <1>2

\* The document a removal leaves behind is gone, whether it was there or not.
LEMMA RemoveMonotone ==
    ASSUME TypeOK, NEW j \in Submitted, RemoveDoc(j)
    PROVE  Monotone /\ Gone(j)'
<1>1. j \in Job /\ jobs \in [Job -> Document]
  BY DEF Submitted, TypeOK, MongoTyped
<1>2. CASE Stored(j) /\ jobs' = [jobs EXCEPT ![j].primary = "gone"]
  BY <1>1, <1>2 DEF Monotone, Submitted, Gone, Document
<1>3. CASE ~Stored(j) /\ UNCHANGED jobs
  BY <1>1, <1>3 DEF Monotone, Submitted, Gone, Stored, Document, Primary
<1>4. QED
  BY <1>2, <1>3 DEF RemoveDoc

-----------------------------------------------------------------------------
(* The parts of the invariant that an action leaves alone.                 *)

LEMMA SeqMonotone ==
    ASSUME NEW S, NEW T, S \subseteq T, NEW s \in Seq(S)
    PROVE  s \in Seq(T)
OBVIOUS

\* A list keeps its type when more jobs are submitted.
LEMMA ListsMonotone ==
    ASSUME Monotone
    PROVE  /\ \A s \in Seq(Submitted) : s \in Seq(Submitted')
           /\ \A s \in Seq(SubmittedTask) : s \in Seq(SubmittedTask')
<1>1. Submitted \subseteq Submitted' /\ SubmittedTask \subseteq SubmittedTask'
  BY DEF Monotone, SubmittedTask
<1>2. QED
  BY <1>1, SeqMonotone

LEMMA FrameRemoved ==
    ASSUME TypeOK, RemovedFirst, Monotone
    PROVE  /\ UNCHANGED lists => ListsSubmitted'
           /\ UNCHANGED scheduler => SchedulerRemovedFirst'
           /\ UNCHANGED watchers => WatchersRemovedFirst'
           /\ UNCHANGED jobsover => NeverInBoth'
<1>1. UNCHANGED lists => ListsSubmitted'
  BY ListsMonotone DEF lists, RemovedFirst, ListsSubmitted, SubmittedTask
<1>2. UNCHANGED scheduler => SchedulerRemovedFirst'
  BY DEF scheduler, RemovedFirst, SchedulerRemovedFirst, Monotone, TypeOK,
         SchedulerTyped, Gone
<1>3. UNCHANGED watchers => WatchersRemovedFirst'
  <2> SUFFICES ASSUME UNCHANGED watchers, NEW w \in Watcher
               PROVE  /\ wpc'[w] # "idle" => hand'[w].job \in Submitted'
                      /\ wpc'[w] = "insert" => Gone(hand[w].job)'
    BY DEF WatchersRemovedFirst
  <2>1. wpc' = wpc /\ hand' = hand
    BY DEF watchers
  <2>2. wpc[w] # "idle" => hand[w].job \in Job
    BY HandType
  <2>3. QED
    BY <2>1, <2>2 DEF RemovedFirst, WatchersRemovedFirst, Monotone, Gone
<1>4. UNCHANGED jobsover => NeverInBoth'
  BY DEF RemovedFirst, NeverInBoth, Monotone, Gone
<1>5. QED
  BY <1>1, <1>2, <1>3, <1>4

\* The ways a handler changes what its watcher does, but for Remove.
LEMMA HandRemoved ==
    ASSUME TypeOK, RemovedFirst, Monotone, NEW w \in Watcher,
           \/ Release(w)
           \/ /\ wpc[w] # "idle"
              /\ \E pc \in WatcherPC \ {"insert"} : Goto(w, pc)
              /\ UNCHANGED hand
           \/ \E t \in SubmittedTask, pc \in WatcherPC \ {"insert"} : Take(w, t, pc)
    PROVE  WatchersRemovedFirst'
<1> SUFFICES ASSUME NEW v \in Watcher
             PROVE  /\ wpc'[v] # "idle" => hand'[v].job \in Submitted'
                    /\ wpc'[v] = "insert" => Gone(hand[v].job)'
  BY DEF WatchersRemovedFirst
<1>1. CASE v # w
  <2>1. wpc'[v] = wpc[v] /\ hand'[v] = hand[v]
    BY <1>1 DEF TypeOK, WatchersTyped, Release, Take, Goto
  <2>2. wpc[v] # "idle" => hand[v].job \in Job
    BY HandType
  <2>3. QED
    BY <2>1, <2>2 DEF RemovedFirst, WatchersRemovedFirst, Monotone, Gone
<1>2. CASE v = w
  <2>1. wpc'[w] # "insert"
    BY DEF TypeOK, WatchersTyped, Release, Take, Goto
  <2>2. \/ wpc'[w] = "idle"
        \/ wpc[w] # "idle" /\ hand'[w] = hand[w]
        \/ hand'[w] \in SubmittedTask
    BY DEF TypeOK, WatchersTyped, Release, Take, Goto
  <2>3. QED
    BY <1>2, <2>1, <2>2 DEF RemovedFirst, WatchersRemovedFirst, Monotone,
                            SubmittedTask
<1>3. QED
  BY <1>1, <1>2

LEMMA HandSubmitted ==
    ASSUME TypeOK, RemovedFirst, NEW w \in Watcher, wpc[w] # "idle"
    PROVE  hand[w] \in Task /\ hand[w].job \in Submitted /\ hand[w].job \in Job
BY HandType DEF RemovedFirst, WatchersRemovedFirst

LEMMA CopySubmitted ==
    ASSUME TypeOK, NEW j \in Job, Stored(j)
    PROVE  Copy(j) \in SubmittedTask
BY CopyType DEF Stored, Copy, SubmittedTask, Submitted

LEMMA SnapshotSubmitted ==
    ASSUME TypeOK, NEW j \in Submitted, NEW f \in BOOLEAN
    PROVE  Snapshot(j, f) \in SubmittedTask
BY SnapshotType DEF Snapshot, SubmittedTask, Submitted

-----------------------------------------------------------------------------
\* The insertion into jobsover always comes after the removal from jobs, and
\* nothing puts a removed job back.
THEOREM RemovedFirstCorrect == Spec => []RemovedFirst
<1>1. Init => RemovedFirst
  BY DEF Init, RemovedFirst, ListsSubmitted, SchedulerRemovedFirst,
         WatchersRemovedFirst, NeverInBoth
<1>2. TypeOK /\ TypeOK' /\ RemovedFirst /\ [Next]_vars => RemovedFirst'
  <2> SUFFICES ASSUME TypeOK, TypeOK', RemovedFirst, [Next]_vars PROVE RemovedFirst'
    OBVIOUS
  <2>1. ASSUME NEW j \in Job, Count(j) PROVE RemovedFirst'
    <3>1. Monotone
      BY <2>1 DEF Count, Monotone, Submitted, Gone, TypeOK, MongoTyped,
         Document
    <3>2. QED
      BY <2>1, <3>1, FrameRemoved DEF Count, RemovedFirst, mongo
  <2>2. ASSUME NEW j \in Job, Submit(j) PROVE RemovedFirst'
    <3>1. Monotone
      BY <2>2 DEF Submit, Monotone, Submitted, Gone, TypeOK, MongoTyped,
         Document
    <3>2. QED
      BY <2>2, <3>1, FrameRemoved DEF Submit, RemovedFirst, mongo
  <2>3. ASSUME NEW j \in Job, RequestKill(j) PROVE RemovedFirst'
    <3>1. Monotone
      BY <2>3, SecondaryMonotone DEF RequestKill, Secondary
    <3>2. Append(killq, Copy(j)) \in Seq(SubmittedTask)
      BY <2>3, CopySubmitted, AppendType DEF RequestKill, RemovedFirst,
         ListsSubmitted, SubmittedTask
    <3>3. /\ running' \in Seq(Submitted)
          /\ killq' \in Seq(SubmittedTask)
          /\ reschedq' \in Seq(SubmittedTask)
      BY <2>3, <3>2 DEF RequestKill, RemovedFirst, ListsSubmitted,
         SubmittedTask
    <3>4. ListsSubmitted'
      BY <3>1, <3>3, ListsMonotone DEF RemovedFirst, ListsSubmitted,
         SubmittedTask
    <3>5. QED
      BY <2>3, <3>1, <3>4, FrameRemoved DEF RequestKill, RemovedFirst, mongo
  <2>4. ASSUME NEW j \in Job, RequestReschedule(j) PROVE RemovedFirst'
    <3>1. Monotone
      BY <2>4, SameMonotone DEF RequestReschedule, mongo
    <3>2. Append(reschedq, Copy(j)) \in Seq(SubmittedTask)
      BY <2>4, CopySubmitted, AppendType DEF RequestReschedule, Stored,
         RemovedFirst, ListsSubmitted, SubmittedTask
    <3>3. /\ running' \in Seq(Submitted)
          /\ killq' \in Seq(SubmittedTask)
          /\ reschedq' \in Seq(SubmittedTask)
      BY <2>4, <3>2 DEF RequestReschedule, RemovedFirst, ListsSubmitted,
         SubmittedTask
    <3>4. ListsSubmitted'
      BY <3>1, <3>3, ListsMonotone DEF RemovedFirst, ListsSubmitted,
         SubmittedTask
    <3>5. QED
      BY <2>4, <3>1, <3>4, FrameRemoved DEF RequestReschedule, RemovedFirst,
         mongo
  <2>5. ASSUME NEW c \in up, ContainerEnds(c) PROVE RemovedFirst'
    <3>1. Monotone
      BY <2>5, SameMonotone DEF ContainerEnds, mongo
    <3>2. QED
      BY <2>5, <3>1, FrameRemoved DEF ContainerEnds, RemovedFirst, mongo
  <2>6. CASE SchedulerRead
    <3>1. Monotone
      BY <2>6, SameMonotone DEF SchedulerRead, mongo
    <3>2. Eligible \subseteq Submitted
      BY DEF Eligible, Submitted
    <3>3. SchedulerRemovedFirst'
      BY <2>6, <3>1, <3>2 DEF SchedulerRead, RemovedFirst,
         SchedulerRemovedFirst, Monotone
    <3>4. QED
      BY <2>6, <3>1, <3>3, FrameRemoved DEF SchedulerRead, RemovedFirst, mongo
  <2>7. ASSUME NEW j \in Job, SchedulerSkip(j) PROVE RemovedFirst'
    <3>1. Monotone
      BY <2>7, SameMonotone DEF SchedulerSkip, mongo
    <3>2. SchedulerRemovedFirst'
      BY <2>7, <3>1 DEF SchedulerSkip, RemovedFirst, SchedulerRemovedFirst,
         Monotone, TypeOK, SchedulerTyped, SchedulerPC, Gone
    <3>3. QED
      BY <2>7, <3>1, <3>2, FrameRemoved DEF SchedulerSkip, RemovedFirst, mongo
  <2>8. ASSUME NEW j \in Job, SchedulerAccept(j) PROVE RemovedFirst'
    <3>1. Monotone
      BY <2>8, SameMonotone DEF SchedulerAccept, mongo
    <3>2. SchedulerRemovedFirst'
      BY <2>8, <3>1 DEF SchedulerAccept, RemovedFirst, SchedulerRemovedFirst,
         Monotone, TypeOK, SchedulerTyped, SchedulerPC, Gone
    <3>3. QED
      BY <2>8, <3>1, <3>2, FrameRemoved DEF SchedulerAccept, RemovedFirst,
         mongo
  <2>9. ASSUME NEW j \in Job, SchedulerRejectQuota(j) PROVE RemovedFirst'
    <3>1. j \in Submitted
      BY <2>9 DEF SchedulerRejectQuota, RemovedFirst, SchedulerRemovedFirst
    <3>2. Monotone /\ Gone(j)'
      BY <2>9, <3>1, RemoveMonotone DEF SchedulerRejectQuota
    <3>3. NeverInBoth'
      BY <2>9, <3>2 DEF SchedulerRejectQuota, RemoveDoc, RemovedFirst,
         NeverInBoth, Monotone, Gone, TypeOK, MongoTyped
    <3>4. SchedulerRemovedFirst'
      BY <2>9, <3>1, <3>2 DEF SchedulerRejectQuota, RemovedFirst,
         SchedulerRemovedFirst, Monotone, Gone
    <3>5. QED
      BY <2>9, <3>2, <3>3, <3>4, FrameRemoved DEF SchedulerRejectQuota,
         RemovedFirst, mongo
  <2>10. CASE SchedulerInsertRejected
    <3>1. Monotone
      BY <2>10, SameMonotone DEF SchedulerInsertRejected
    <3>2. scur \in Job /\ Gone(scur)
      BY <2>10 DEF SchedulerInsertRejected, RemovedFirst,
         SchedulerRemovedFirst, TypeOK, SchedulerTyped
    <3>3. NeverInBoth'
      BY <2>10, <3>1, <3>2 DEF SchedulerInsertRejected, InsertRecord,
         RemovedFirst, NeverInBoth, Monotone, Gone, TypeOK, MongoTyped
    <3>4. SchedulerRemovedFirst'
      BY <2>10, <3>1 DEF SchedulerInsertRejected, RemovedFirst,
         SchedulerRemovedFirst, Monotone, TypeOK, SchedulerTyped, SchedulerPC,
         Gone
    <3>5. QED
      BY <2>10, <3>1, <3>3, <3>4, FrameRemoved DEF SchedulerInsertRejected,
         RemovedFirst, mongo
  <2>11. ASSUME NEW R \in SUBSET accepted, SchedulerLaunch(R) PROVE RemovedFirst'
    <3>1. Monotone
      BY <2>11, SameMonotone DEF SchedulerLaunch, mongo
    <3>2. SchedulerRemovedFirst'
      BY <2>11, <3>1 DEF SchedulerLaunch, RemovedFirst, SchedulerRemovedFirst,
         Monotone, TypeOK, SchedulerTyped, SchedulerPC, Gone
    <3>3. QED
      BY <2>11, <3>1, <3>2, FrameRemoved DEF SchedulerLaunch, RemovedFirst,
         mongo
  <2>12. ASSUME NEW j \in Job, SchedulerPush(j) PROVE RemovedFirst'
    <3>1. Monotone
      BY <2>12, SameMonotone DEF SchedulerPush, mongo
    <3>2. j \in Submitted
      BY <2>12 DEF SchedulerPush, RemovedFirst, SchedulerRemovedFirst
    <3>3. /\ running' \in Seq(Submitted)
          /\ killq' \in Seq(SubmittedTask)
          /\ reschedq' \in Seq(SubmittedTask)
      BY <2>12, <3>2, AppendType DEF SchedulerPush, RemovedFirst,
         ListsSubmitted, SubmittedTask
    <3>4. ListsSubmitted'
      BY <3>1, <3>3, ListsMonotone DEF RemovedFirst, ListsSubmitted,
         SubmittedTask
    <3>5. SchedulerRemovedFirst'
      BY <2>12, <3>1, <3>2 DEF SchedulerPush, RemovedFirst,
         SchedulerRemovedFirst, Monotone
    <3>6. QED
      BY <2>12, <3>1, <3>4, <3>5, FrameRemoved DEF SchedulerPush,
         RemovedFirst, mongo
  <2>13. CASE SchedulerSnapshot
    <3>1. Monotone
      BY <2>13, SameMonotone DEF SchedulerSnapshot, mongo
    <3>2. SchedulerRemovedFirst'
      BY <2>13, <3>1 DEF SchedulerSnapshot, RemovedFirst,
         SchedulerRemovedFirst, Monotone, TypeOK, SchedulerTyped, SchedulerPC,
         Gone
    <3>3. QED
      BY <2>13, <3>1, <3>2, FrameRemoved DEF SchedulerSnapshot, RemovedFirst,
         mongo
  <2>13a. CASE SchedulerCountOut
    <3>1. Monotone
      BY <2>13a, SameMonotone DEF SchedulerCountOut, mongo
    <3>2. SchedulerRemovedFirst'
      BY <2>13a, <3>1 DEF SchedulerCountOut, RemovedFirst,
         SchedulerRemovedFirst, Monotone, TypeOK, SchedulerTyped, SchedulerPC,
         Gone
    <3>3. QED
      BY <2>13a, <3>1, <3>2, FrameRemoved DEF SchedulerCountOut, RemovedFirst,
         mongo
  <2>14. CASE SchedulerMark
    <3>1. /\ scur \in Job
          /\ jobs[scur] \in Document
          /\ launched[scur] \in Nat
          /\ "running" \in Primary
          /\ "none" \in Secondary
      BY <2>14 DEF SchedulerMark, TypeOK, SchedulerTyped, MongoTyped, ExecutorTyped,
                Primary, Secondary
    <3> DEFINE d == [jobs[scur] EXCEPT !.primary = "running", !.secondary = "none",
                                       !.run = launched[scur]]
    <3>2. d \in Document
      BY <3>1, DocumentType
    <3>3. d.primary = "running"
      BY <3>1 DEF Document
    <3>4. Monotone
      BY <2>14, <3>1, <3>2, <3>3, UpdateMonotone DEF SchedulerMark
    <3>5. SchedulerRemovedFirst'
      BY <2>14, <3>4 DEF SchedulerMark, RemovedFirst, SchedulerRemovedFirst, Monotone
    <3>6. QED
      BY <2>14, <3>4, <3>5, FrameRemoved DEF SchedulerMark, RemovedFirst, mongo
  <2>15. ASSUME NEW j \in Job, SchedulerRefuse(j) PROVE RemovedFirst'
    <3>1. Monotone
      BY <2>15, SecondaryMonotone DEF SchedulerRefuse, Secondary
    <3>2. SchedulerRemovedFirst'
      BY <2>15, <3>1 DEF SchedulerRefuse, RemovedFirst, SchedulerRemovedFirst,
         Monotone, TypeOK, SchedulerTyped, SchedulerPC, Gone
    <3>3. QED
      BY <2>15, <3>1, <3>2, FrameRemoved DEF SchedulerRefuse, RemovedFirst,
         mongo
  <2>16. CASE SchedulerEndPass
    <3>1. Monotone
      BY <2>16, SameMonotone DEF SchedulerEndPass, mongo
    <3>2. SchedulerRemovedFirst'
      BY <2>16, <3>1 DEF SchedulerEndPass, RemovedFirst,
         SchedulerRemovedFirst, Monotone, TypeOK, SchedulerTyped, SchedulerPC,
         Gone
    <3>3. QED
      BY <2>16, <3>1, <3>2, FrameRemoved DEF SchedulerEndPass, RemovedFirst,
         mongo
  <2>17. CASE SchedulerReschedule
    <3>1. Head(reschedq) \in SubmittedTask /\ Tail(reschedq) \in Seq(SubmittedTask)
      BY <2>17, HeadTailType DEF SchedulerReschedule, RemovedFirst,
         ListsSubmitted, SubmittedTask
    <3>2. Head(reschedq).job \in Job
      BY <3>1 DEF SubmittedTask, Task
    <3>3. Monotone
      BY <2>17, <3>2, SecondaryMonotone DEF SchedulerReschedule, Secondary
    <3>4. /\ running' \in Seq(Submitted)
          /\ killq' \in Seq(SubmittedTask)
          /\ reschedq' \in Seq(SubmittedTask)
      BY <2>17, <3>1, AppendType DEF SchedulerReschedule, RemovedFirst,
         ListsSubmitted, SubmittedTask
    <3>5. ListsSubmitted'
      BY <3>3, <3>4, ListsMonotone DEF RemovedFirst, ListsSubmitted,
         SubmittedTask
    <3>6. QED
      BY <2>17, <3>3, <3>5, FrameRemoved DEF SchedulerReschedule,
         RemovedFirst, mongo
  <2>18. CASE SchedulerCrash
    <3>1. Monotone
      BY <2>18, SameMonotone DEF SchedulerCrash, mongo
    <3>2. running' = running \/ running' = <<>>
      BY <2>18 DEF SchedulerCrash
    <3>3. <<>> \in Seq(Submitted)
      OBVIOUS
    <3>4. /\ running' \in Seq(Submitted)
          /\ killq' \in Seq(SubmittedTask)
          /\ reschedq' \in Seq(SubmittedTask)
      BY <2>18, <3>2, <3>3 DEF SchedulerCrash, RemovedFirst, ListsSubmitted,
         SubmittedTask
    <3>5. ListsSubmitted'
      BY <3>1, <3>4, ListsMonotone DEF RemovedFirst, ListsSubmitted,
         SubmittedTask
    <3>6. SchedulerRemovedFirst'
      BY <2>18 DEF SchedulerCrash, SchedulerRemovedFirst
    <3>7. QED
      BY <2>18, <3>1, <3>5, <3>6, FrameRemoved DEF SchedulerCrash,
         RemovedFirst, mongo
  <2>19. ASSUME NEW w \in Watcher, PopKill(w) PROVE RemovedFirst'
    <3>1. Monotone
      BY <2>19, SameMonotone DEF PopKill, mongo
    <3>2. Head(killq) \in SubmittedTask /\ Tail(killq) \in Seq(SubmittedTask)
      BY <2>19, HeadTailType DEF PopKill, RemovedFirst, ListsSubmitted,
         SubmittedTask
    <3>3. /\ running' \in Seq(Submitted)
          /\ killq' \in Seq(SubmittedTask)
          /\ reschedq' \in Seq(SubmittedTask)
      BY <2>19, <3>2 DEF PopKill, RemovedFirst, ListsSubmitted, SubmittedTask
    <3>4. ListsSubmitted'
      BY <3>1, <3>3, ListsMonotone DEF RemovedFirst, ListsSubmitted,
         SubmittedTask
    <3>5. WatchersRemovedFirst'
      BY <2>19, <3>1, <3>2, HandRemoved DEF PopKill, WatcherPC
    <3>6. QED
      BY <2>19, <3>1, <3>4, <3>5, FrameRemoved DEF PopKill, RemovedFirst,
         mongo
  <2>20. ASSUME NEW w \in Watcher, KillPending(w) PROVE RemovedFirst'
    <3>1. Monotone
      BY <2>20, SameMonotone DEF KillPending, mongo
    <3>2. WatchersRemovedFirst'
      BY <2>20, <3>1, HandRemoved DEF KillPending, WatcherPC
    <3>3. QED
      BY <2>20, <3>1, <3>2, FrameRemoved DEF KillPending, RemovedFirst, mongo
  <2>21. ASSUME NEW w \in Watcher, KillContainer(w) PROVE RemovedFirst'
    <3>1. Monotone
      BY <2>21, SameMonotone DEF KillContainer, mongo
    <3>2. WatchersRemovedFirst'
      BY <2>21, <3>1, HandRemoved DEF KillContainer, WatcherPC
    <3>3. QED
      BY <2>21, <3>1, <3>2, FrameRemoved DEF KillContainer, RemovedFirst,
         mongo
  <2>22. ASSUME NEW w \in Watcher, KillFails(w) PROVE RemovedFirst'
    <3> DEFINE task == [hand[w] EXCEPT !.tries = @ + 1]
    <3>1. /\ hand[w] \in Task
          /\ hand[w].tries \in Nat
          /\ hand[w].job \in Submitted
          /\ hand[w].job \in Job
      BY <2>22, HandType, HandSubmitted DEF KillFails
    <3>2. task \in SubmittedTask /\ task.job = hand[w].job
      BY <3>1 DEF Task, SubmittedTask
    <3>3. Monotone /\ killq' \in Seq(SubmittedTask)
      <4>1. CASE SetSecondary(task.job, "unknown") /\ UNCHANGED killq
        BY <4>1, <3>1, <3>2, SecondaryMonotone
        DEF Secondary, RemovedFirst, ListsSubmitted, SubmittedTask
      <4>2. CASE killq' = Append(killq, task) /\ UNCHANGED jobs
        BY <4>2, <3>2, SameMonotone, AppendType
        DEF RemovedFirst, ListsSubmitted, SubmittedTask
      <4>3. QED
        BY <2>22, <4>1, <4>2 DEF KillFails
    <3>4. ListsSubmitted'
      BY <2>22, <3>3, ListsMonotone
      DEF KillFails, RemovedFirst, ListsSubmitted, SubmittedTask
    <3>5. WatchersRemovedFirst'
      BY <2>22, <3>3, HandRemoved DEF KillFails
    <3>6. QED
      BY <2>22, <3>3, <3>4, <3>5, FrameRemoved DEF KillFails, RemovedFirst, mongo
  <2>23. ASSUME NEW w \in Watcher, OriginalGone(w) PROVE RemovedFirst'
    <3>1. Monotone
      BY <2>23, SameMonotone DEF OriginalGone, mongo
    <3>2. WatchersRemovedFirst'
      BY <2>23, <3>1, HandRemoved DEF OriginalGone
    <3>3. QED
      BY <2>23, <3>1, <3>2, FrameRemoved DEF OriginalGone, RemovedFirst, mongo
  <2>24. ASSUME NEW w \in Watcher, OriginalRequeue(w) PROVE RemovedFirst'
    <3>1. Monotone
      BY <2>24, SameMonotone DEF OriginalRequeue, mongo
    <3>2. hand[w] \in Task /\ hand[w].job \in Submitted /\ hand[w].job \in Job
      BY <2>24, HandSubmitted DEF OriginalRequeue
    <3>3. jobs[hand[w].job] \in Document
      BY <3>2 DEF TypeOK, MongoTyped
    <3>4. jobs[hand[w].job].fails \in Nat
      BY <3>3, DocumentType
    <3>5. [hand[w] EXCEPT !.fails = jobs[hand[w].job].fails + 1] \in SubmittedTask
      BY <3>2, <3>4 DEF SubmittedTask, Task
    <3>6. WatchersRemovedFirst'
      BY <2>24, <3>1, <3>5, HandRemoved DEF OriginalRequeue, WatcherPC
    <3>7. QED
      BY <2>24, <3>1, <3>6, FrameRemoved DEF OriginalRequeue, RemovedFirst,
         mongo
  <2>25. ASSUME NEW w \in Watcher, OriginalFinish(w) PROVE RemovedFirst'
    <3>1. Monotone
      BY <2>25, SameMonotone DEF OriginalFinish, mongo
    <3>2. WatchersRemovedFirst'
      BY <2>25, <3>1, HandRemoved DEF OriginalFinish, WatcherPC
    <3>3. QED
      BY <2>25, <3>1, <3>2, FrameRemoved DEF OriginalFinish, RemovedFirst,
         mongo
  <2>26. ASSUME NEW w \in Watcher, Requeue(w) PROVE RemovedFirst'
    <3>1. Monotone
      BY <2>26, SameMonotone DEF Requeue, mongo
    <3>2. WatchersRemovedFirst'
      BY <2>26, <3>1, HandRemoved DEF Requeue, WatcherPC
    <3>3. QED
      BY <2>26, <3>1, <3>2, FrameRemoved DEF Requeue, RemovedFirst, mongo
  <2>27. ASSUME NEW w \in Watcher, ResetPending(w) PROVE RemovedFirst'
    <3> DEFINE j == hand[w].job
    <3> DEFINE n == IF hand[w].over THEN hand[w].fails ELSE jobs[j].fails
    <3> DEFINE d == [jobs[j] EXCEPT !.primary = "pending",
                                    !.secondary = "rescheduled", !.fails = n]
    <3>1. j \in Job /\ hand[w].fails \in Nat
      BY <2>27, HandType DEF ResetPending
    <3>2. jobs[j] \in Document /\ "pending" \in Primary /\ "rescheduled" \in Secondary
      BY <3>1 DEF TypeOK, MongoTyped, Primary, Secondary
    <3>3. n \in Nat
      BY <3>1, <3>2, DocumentType
    <3>4. d \in Document
      BY <3>2, <3>3, DocumentType
    <3>5. d.primary = "pending" /\ UpdateDoc(j, d)
      BY <2>27, <3>2 DEF ResetPending, Document
    <3>6. Monotone
      <4> HIDE DEF d, j
      <4> QED
        BY <3>1, <3>4, <3>5, UpdateMonotone
    <3>7. WatchersRemovedFirst'
      BY <2>27, <3>6, HandRemoved DEF ResetPending, WatcherPC
    <3>8. QED
      BY <2>27, <3>6, <3>7, FrameRemoved DEF ResetPending, RemovedFirst, mongo
  <2>28. ASSUME NEW w \in Watcher, DeleteSnapshotAgain(w) PROVE RemovedFirst'
    <3>1. Monotone
      BY <2>28, SameMonotone DEF DeleteSnapshotAgain, mongo
    <3>2. WatchersRemovedFirst'
      BY <2>28, <3>1, HandRemoved DEF DeleteSnapshotAgain
    <3>3. QED
      BY <2>28, <3>1, <3>2, FrameRemoved DEF DeleteSnapshotAgain,
         RemovedFirst, mongo
  <2>29. ASSUME NEW w \in Watcher, Remove(w) PROVE RemovedFirst'
    <3> DEFINE j == hand[w].job
    <3>1. j \in Submitted /\ j \in Job
      BY <2>29, HandSubmitted DEF Remove
    <3>2. Monotone /\ Gone(j)'
      BY <2>29, <3>1, RemoveMonotone DEF Remove
    <3>3. NeverInBoth'
      BY <2>29, <3>1, <3>2 DEF Remove, RemoveDoc, RemovedFirst, NeverInBoth, Monotone,
                            Gone, TypeOK, MongoTyped
    <3>4. WatchersRemovedFirst'
      <4> SUFFICES ASSUME NEW v \in Watcher
                   PROVE  /\ wpc'[v] # "idle" => hand'[v].job \in Submitted'
                          /\ wpc'[v] = "insert" => Gone(hand[v].job)'
        BY DEF WatchersRemovedFirst
      <4>1. hand'[v] = hand[v]
        BY <2>29 DEF Remove
      <4>2. CASE v = w
        BY <4>1, <4>2, <3>1, <3>2 DEF Monotone, Gone
      <4>3. CASE v # w
        <5>1. wpc'[v] = wpc[v]
          BY <2>29, <4>3 DEF Remove, Goto, TypeOK, WatchersTyped
        <5>2. wpc[v] # "idle" => hand[v].job \in Job
          BY HandType
        <5>3. QED
          BY <4>1, <5>1, <5>2, <3>2 DEF RemovedFirst, WatchersRemovedFirst,
                                       Monotone, Gone
      <4>4. QED
        BY <4>2, <4>3
    <3>5. QED
      BY <2>29, <3>2, <3>3, <3>4, FrameRemoved DEF Remove, RemovedFirst
  <2>30. ASSUME NEW w \in Watcher, InsertOver(w) PROVE RemovedFirst'
    <3>1. Monotone
      BY <2>30, SameMonotone DEF InsertOver
    <3>2. hand[w] \in Task /\ hand[w].job \in Submitted /\ hand[w].job \in Job
      BY <2>30, HandSubmitted DEF InsertOver
    <3>3. Gone(hand[w].job)
      BY <2>30 DEF InsertOver, RemovedFirst, WatchersRemovedFirst
    <3>4. NeverInBoth'
      BY <2>30, <3>1, <3>2, <3>3 DEF InsertOver, InsertRecord, RemovedFirst,
         NeverInBoth, Monotone, Gone, TypeOK, MongoTyped
    <3>5. WatchersRemovedFirst'
      BY <2>30, <3>1, HandRemoved DEF InsertOver, WatcherPC
    <3>6. QED
      BY <2>30, <3>1, <3>4, <3>5, FrameRemoved DEF InsertOver, RemovedFirst,
         mongo
  <2>31. ASSUME NEW w \in Watcher, Close(w) PROVE RemovedFirst'
    <3>1. Monotone
      BY <2>31, SameMonotone DEF Close, mongo
    <3>2. WatchersRemovedFirst'
      BY <2>31, <3>1, HandRemoved DEF Close
    <3>3. QED
      BY <2>31, <3>1, <3>2, FrameRemoved DEF Close, RemovedFirst, mongo
  <2>32. ASSUME NEW w \in Watcher, PopUnknown(w) PROVE RemovedFirst'
    <3>1. Monotone
      BY <2>32, SameMonotone DEF PopUnknown, mongo
    <3>2. Tail(running) \in Seq(Submitted)
      BY <2>32, HeadTailType DEF PopUnknown, RemovedFirst, ListsSubmitted,
         SubmittedTask
    <3>3. /\ running' \in Seq(Submitted)
          /\ killq' \in Seq(SubmittedTask)
          /\ reschedq' \in Seq(SubmittedTask)
      BY <2>32, <3>2 DEF PopUnknown, RemovedFirst, ListsSubmitted,
         SubmittedTask
    <3>4. ListsSubmitted'
      BY <3>1, <3>3, ListsMonotone DEF RemovedFirst, ListsSubmitted,
         SubmittedTask
    <3>5. QED
      BY <2>32, <3>1, <3>4, FrameRemoved DEF PopUnknown, RemovedFirst, mongo
  <2>33. ASSUME NEW w \in Watcher, PopAlive(w) PROVE RemovedFirst'
    <3>1. Monotone
      BY <2>33, SameMonotone DEF PopAlive, mongo
    <3>2. Head(running) \in Submitted /\ Tail(running) \in Seq(Submitted)
      BY <2>33, HeadTailType DEF PopAlive, RemovedFirst, ListsSubmitted,
         SubmittedTask
    <3>3. /\ running' \in Seq(Submitted)
          /\ killq' \in Seq(SubmittedTask)
          /\ reschedq' \in Seq(SubmittedTask)
      BY <2>33, <3>2 DEF PopAlive, RemovedFirst, ListsSubmitted, SubmittedTask
    <3>4. ListsSubmitted'
      BY <3>1, <3>3, ListsMonotone DEF RemovedFirst, ListsSubmitted,
         SubmittedTask
    <3>5. Snapshot(Head(running), FALSE) \in SubmittedTask
      BY <3>2, SnapshotSubmitted
    <3>6. WatchersRemovedFirst'
      BY <2>33, <3>1, <3>5, HandRemoved DEF PopAlive, WatcherPC
    <3>7. QED
      BY <2>33, <3>1, <3>4, <3>6, FrameRemoved DEF PopAlive, RemovedFirst,
         mongo
  <2>34. ASSUME NEW w \in Watcher, PopOver(w) PROVE RemovedFirst'
    <3> DEFINE j == Head(running)
    <3> DEFINE task == Snapshot(j, <<j, snap[j]>> \in failed \cup retries)
    <3>1. Monotone
      BY <2>34, SameMonotone DEF PopOver, mongo
    <3>2. j \in Submitted /\ Tail(running) \in Seq(Submitted)
      BY <2>34, HeadTailType DEF PopOver, RemovedFirst, ListsSubmitted
    <3>3. task \in SubmittedTask
      <4>1. (<<j, snap[j]>> \in failed \cup retries) \in BOOLEAN
        OBVIOUS
      <4> HIDE DEF j
      <4>2. QED
        BY <3>2, <4>1, SnapshotSubmitted
    <3>4. Take(w, task, "original") /\ "original" \in WatcherPC
      BY <2>34 DEF PopOver, WatcherPC
    <3>5. WatchersRemovedFirst'
      <4> HIDE DEF task
      <4> QED
        BY <3>1, <3>3, <3>4, HandRemoved
    <3>6. ListsSubmitted'
      BY <2>34, <3>1, <3>2, ListsMonotone
      DEF PopOver, RemovedFirst, ListsSubmitted, SubmittedTask
    <3>7. QED
      BY <2>34, <3>1, <3>5, <3>6, FrameRemoved DEF PopOver, RemovedFirst, mongo
  <2>35. ASSUME NEW w \in Watcher, PushBack(w) PROVE RemovedFirst'
    <3>1. Monotone
      BY <2>35, SameMonotone DEF PushBack, mongo
    <3>2. hand[w] \in Task /\ hand[w].job \in Submitted /\ hand[w].job \in Job
      BY <2>35, HandSubmitted DEF PushBack
    <3>3. /\ running' \in Seq(Submitted)
          /\ killq' \in Seq(SubmittedTask)
          /\ reschedq' \in Seq(SubmittedTask)
      BY <2>35, <3>2, AppendType DEF PushBack, RemovedFirst, ListsSubmitted,
         SubmittedTask
    <3>4. ListsSubmitted'
      BY <3>1, <3>3, ListsMonotone DEF RemovedFirst, ListsSubmitted,
         SubmittedTask
    <3>5. WatchersRemovedFirst'
      BY <2>35, <3>1, HandRemoved DEF PushBack, WatcherPC
    <3>6. QED
      BY <2>35, <3>1, <3>4, <3>5, FrameRemoved DEF PushBack, RemovedFirst,
         mongo
  <2>36. ASSUME NEW w \in Watcher, Stamp(w) PROVE RemovedFirst'
    <3>1. Monotone
      BY <2>36, SameMonotone DEF Stamp, mongo
    <3>2. WatchersRemovedFirst'
      BY <2>36, <3>1, HandRemoved DEF Stamp
    <3>3. QED
      BY <2>36, <3>1, <3>2, FrameRemoved DEF Stamp, RemovedFirst, mongo
  <2>37. ASSUME NEW w \in Watcher, Expire(w) PROVE RemovedFirst'
    <3>1. hand[w] \in Task /\ hand[w].job \in Submitted /\ hand[w].job \in Job
      BY <2>37, HandSubmitted DEF Expire
    <3>2. Monotone
      BY <2>37, <3>1, SecondaryMonotone DEF Expire, Secondary
    <3>3. [hand[w] EXCEPT !.over = FALSE] \in SubmittedTask
      BY <3>1 DEF SubmittedTask, Task
    <3>4. /\ running' \in Seq(Submitted)
          /\ killq' \in Seq(SubmittedTask)
          /\ reschedq' \in Seq(SubmittedTask)
      BY <2>37, <3>3, AppendType DEF Expire, RemovedFirst, ListsSubmitted,
         SubmittedTask
    <3>5. ListsSubmitted'
      BY <3>2, <3>4, ListsMonotone DEF RemovedFirst, ListsSubmitted,
         SubmittedTask
    <3>6. WatchersRemovedFirst'
      BY <2>37, <3>2, HandRemoved DEF Expire
    <3>7. QED
      BY <2>37, <3>2, <3>5, <3>6, FrameRemoved DEF Expire, RemovedFirst, mongo
  <2>38. ASSUME NEW w \in Watcher, WatcherCrash(w) PROVE RemovedFirst'
    <3>1. Monotone
      BY <2>38, SameMonotone DEF WatcherCrash, mongo
    <3>2. WatchersRemovedFirst'
      BY <2>38, <3>1, HandRemoved DEF WatcherCrash
    <3>3. QED
      BY <2>38, <3>1, <3>2, FrameRemoved DEF WatcherCrash, RemovedFirst, mongo
  <2>39. CASE UNCHANGED vars
    <3>1. Monotone
      BY <2>39, SameMonotone DEF vars, mongo
    <3>2. QED
      BY <2>39, <3>1, FrameRemoved DEF vars, RemovedFirst, mongo
  <2>40. QED
    BY <2>1, <2>2, <2>3, <2>4, <2>5, <2>6, <2>7, <2>8, <2>9, <2>10, <2>11,
       <2>12, <2>13, <2>13a, <2>14, <2>15, <2>16, <2>17, <2>18, <2>19, <2>20, <2>21,
       <2>22, <2>23, <2>24, <2>25, <2>26, <2>27, <2>28, <2>29, <2>30, <2>31,
       <2>32, <2>33, <2>34, <2>35, <2>36, <2>37, <2>38, <2>39
    DEF Next, Users, Containers, Scheduler, WatcherStep, PopRunning, Handle
<1>3. QED
  BY <1>1, <1>2, TypeCorrect, PTL DEF Spec

\* A finished job is never also among the unfinished ones.
COROLLARY NeverInBothCorrect == Spec => []NeverInBoth
<1>1. RemovedFirst => NeverInBoth
  BY DEF RemovedFirst
<1>2. QED
  BY <1>1, RemovedFirstCorrect, PTL

-----------------------------------------------------------------------------
(* No job vanishes while no process dies.                                  *)

\* The steps that neither remove nor insert, and leave alone the processes
\* that have an insertion to make.
LEMMA KeptFrame ==
    ASSUME NEW k \in Job, Recorded(k),
           \A j \in Job : Gone(j)' => Gone(j),
           UNCHANGED jobsover,
           \A w \in Watcher :
               wpc[w] = "insert" => wpc'[w] = "insert" /\ hand'[w] = hand[w],
           spc = "quota" => spc' = "quota" /\ scur' = scur
    PROVE  Recorded(k)'
BY DEF Recorded, Gone

\* A document is removed by RemoveDoc only.
LEMMA UpdateKeepsGone ==
    ASSUME TypeOK, NEW j \in Job, NEW d, UpdateDoc(j, d), d.primary # "gone"
    PROVE  \A k \in Job : Gone(k)' => Gone(k)
BY DEF TypeOK, MongoTyped, UpdateDoc, Stored, Gone

LEMMA SecondaryKeepsGone ==
    ASSUME TypeOK, NEW j \in Job, NEW s \in Secondary, SetSecondary(j, s)
    PROVE  \A k \in Job : Gone(k)' => Gone(k)
<1>1. CASE Stored(j)
  <2> DEFINE d == [jobs[j] EXCEPT !.secondary = s]
  <2>1. jobs[j] \in Document
    BY DEF TypeOK, MongoTyped
  <2>2. d.primary # "gone"
    BY <1>1, <2>1 DEF Stored, Document
  <2>3. QED
    BY <2>2, UpdateKeepsGone DEF SetSecondary
<1>2. CASE ~Stored(j)
  BY <1>2 DEF SetSecondary, UpdateDoc, Gone
<1>3. QED
  BY <1>1, <1>2

\* A watcher's handler leaves the other watchers alone.
LEMMA OthersKeepInsert ==
    ASSUME TypeOK, NEW w \in Watcher, wpc[w] # "insert",
           \/ \E t, pc : Take(w, t, pc)
           \/ Release(w)
           \/ (\E pc : Goto(w, pc)) /\ UNCHANGED hand
    PROVE  \A v \in Watcher :
               wpc[v] = "insert" => wpc'[v] = "insert" /\ hand'[v] = hand[v]
BY DEF TypeOK, WatchersTyped, Release, Take, Goto

\* A removal changes nothing for the other jobs.
LEMMA RemoveKept ==
    ASSUME TypeOK, NEW j \in Job, RemoveDoc(j), NEW k \in Job, k # j, Gone(k)'
    PROVE  Gone(k) /\ jobsover'[k] = jobsover[k]
BY DEF TypeOK, MongoTyped, RemoveDoc, Gone

\* Only a death counts as one.
LEMMA CrashesCounted ==
    ASSUME [Next]_vars
    PROVE  crashes' = crashes \/ SchedulerCrash \/ \E w \in Watcher : WatcherCrash(w)
<1>1. CASE Users
  BY <1>1 DEF Users, Count, Submit, RequestKill, RequestReschedule, bounds
<1>2. CASE Containers
  BY <1>2 DEF Containers, ContainerEnds, bounds
<1>3. CASE Scheduler
  BY <1>3 DEF Scheduler, SchedulerRead, SchedulerSkip, SchedulerAccept,
     SchedulerRejectQuota, SchedulerInsertRejected, SchedulerLaunch, SchedulerPush,
     SchedulerSnapshot, SchedulerCountOut, SchedulerMark, SchedulerRefuse, SchedulerEndPass,
     SchedulerReschedule, bounds
<1>4. ASSUME NEW w \in Watcher, WatcherStep(w) PROVE crashes' = crashes
  BY <1>4 DEF WatcherStep, PopRunning, Handle, PopKill, KillPending, KillContainer,
     KillFails, OriginalGone, OriginalRequeue, OriginalFinish, Requeue, ResetPending,
     DeleteSnapshotAgain, Remove, InsertOver, Close, PopUnknown, PopAlive, PopOver,
     PushBack, Stamp, Expire, bounds
<1>5. CASE UNCHANGED vars
  BY <1>5 DEF vars, bounds
<1>6. QED
  BY <1>1, <1>2, <1>3, <1>4, <1>5 DEF Next

\* As long as no process dies, the record of a job stays in jobsover or in the
\* hands of the process that will insert it there.
LEMMA RecordStays ==
    ASSUME TypeOK, [Next]_vars, crashes' = crashes, NEW k \in Job, Recorded(k)
    PROVE  Recorded(k)'
<1> DEFINE JobsKept == \A i \in Job : Gone(i)' => Gone(i)
           HandsKept == \A v \in Watcher :
               wpc[v] = "insert" => wpc'[v] = "insert" /\ hand'[v] = hand[v]
<1>1. ASSUME NEW j \in Job, Count(j) PROVE Recorded(k)'
  <2>1. JobsKept
    BY <1>1 DEF Count, TypeOK, MongoTyped, Gone, Document
  <2>2. QED
    BY <1>1, <2>1, KeptFrame DEF Count, scheduler, watchers
<1>2. ASSUME NEW j \in Job, Submit(j) PROVE Recorded(k)'
  <2>1. JobsKept
    BY <1>2 DEF Submit, TypeOK, MongoTyped, Gone, Document
  <2>2. QED
    BY <1>2, <2>1, KeptFrame DEF Submit, scheduler, watchers
<1>3. ASSUME NEW j \in Job, RequestKill(j) PROVE Recorded(k)'
  <2>1. JobsKept
    BY <1>3, SecondaryKeepsGone DEF RequestKill, Secondary
  <2>2. QED
    BY <1>3, <2>1, KeptFrame DEF RequestKill, scheduler, watchers
<1>4. ASSUME NEW j \in Job, RequestReschedule(j) PROVE Recorded(k)'
  BY <1>4, KeptFrame DEF RequestReschedule, mongo, scheduler, watchers, Gone
<1>5. ASSUME NEW c \in up, ContainerEnds(c) PROVE Recorded(k)'
  BY <1>5, KeptFrame DEF ContainerEnds, mongo, scheduler, watchers, Gone
<1>6. CASE SchedulerRead
  BY <1>6, KeptFrame DEF SchedulerRead, mongo, scheduler, watchers, Gone
<1>7. ASSUME NEW j \in Job, SchedulerSkip(j) PROVE Recorded(k)'
  BY <1>7, KeptFrame DEF SchedulerSkip, mongo, scheduler, watchers, Gone
<1>8. ASSUME NEW j \in Job, SchedulerAccept(j) PROVE Recorded(k)'
  BY <1>8, KeptFrame DEF SchedulerAccept, mongo, scheduler, watchers, Gone
<1>9. ASSUME NEW j \in Job, SchedulerRejectQuota(j) PROVE Recorded(k)'
  <2>1. SUFFICES ASSUME Gone(k)'
                 PROVE  \/ jobsover'[k] > 0
                        \/ \E w \in Watcher : wpc'[w] = "insert" /\ hand'[w].job = k
                        \/ spc' = "quota" /\ scur' = k
    BY DEF Recorded, Gone
  <2>2. CASE k = j
    BY <1>9, <2>2 DEF SchedulerRejectQuota
  <2>3. CASE k # j
    BY <1>9, <2>1, <2>3, RemoveKept
    DEF SchedulerRejectQuota, Recorded, Gone, watchers
  <2>4. QED
    BY <2>2, <2>3
<1>10. CASE SchedulerInsertRejected
  <2>1. SUFFICES ASSUME Gone(k)
                 PROVE  \/ jobsover'[k] > 0
                        \/ \E w \in Watcher : wpc'[w] = "insert" /\ hand'[w].job = k
    BY <1>10 DEF SchedulerInsertRejected, Recorded, Gone
  <2>2. /\ jobsover'[k] = IF k = scur THEN jobsover[k] + 1 ELSE jobsover[k]
        /\ jobsover[k] \in Nat
    BY <1>10 DEF SchedulerInsertRejected, InsertRecord, TypeOK, MongoTyped
  <2>3. QED
    BY <1>10, <2>1, <2>2 DEF SchedulerInsertRejected, Recorded, Gone, watchers
<1>11. ASSUME NEW R \in SUBSET accepted, SchedulerLaunch(R) PROVE Recorded(k)'
  BY <1>11, KeptFrame DEF SchedulerLaunch, mongo, scheduler, watchers, Gone
<1>12. ASSUME NEW j \in Job, SchedulerPush(j) PROVE Recorded(k)'
  BY <1>12, KeptFrame DEF SchedulerPush, mongo, scheduler, watchers, Gone
<1>13. CASE SchedulerSnapshot
  BY <1>13, KeptFrame DEF SchedulerSnapshot, mongo, scheduler, watchers,
     Gone
<1>13a. CASE SchedulerCountOut
  BY <1>13a, KeptFrame DEF SchedulerCountOut, mongo, scheduler, watchers,
     Gone
<1>14. CASE SchedulerMark
  <2> DEFINE d == [jobs[scur] EXCEPT !.primary = "running", !.secondary = "none",
                                     !.run = launched[scur]]
  <2>1. scur \in Job /\ jobs[scur] \in Document
    BY <1>14 DEF SchedulerMark, TypeOK, SchedulerTyped, MongoTyped
  <2>2. d.primary # "gone" /\ UpdateDoc(scur, d)
    BY <1>14, <2>1 DEF SchedulerMark, Document
  <2>3. JobsKept
    <3> HIDE DEF d
    <3> QED
      BY <2>1, <2>2, UpdateKeepsGone
  <2>4. QED
    BY <1>14, <2>3, KeptFrame DEF SchedulerMark, watchers
<1>15. ASSUME NEW j \in Job, SchedulerRefuse(j) PROVE Recorded(k)'
  <2>1. JobsKept
    BY <1>15, SecondaryKeepsGone DEF SchedulerRefuse, Secondary
  <2>2. QED
    BY <1>15, <2>1, KeptFrame DEF SchedulerRefuse, scheduler, watchers
<1>16. CASE SchedulerEndPass
  BY <1>16, KeptFrame DEF SchedulerEndPass, mongo, scheduler, watchers, Gone
<1>17. CASE SchedulerReschedule
  <2>1. Head(reschedq).job \in Job
    <3>1. Head(reschedq) \in Task
      BY <1>17, HeadTailType DEF SchedulerReschedule, TypeOK, ListsTyped
    <3>2. QED
      BY <3>1 DEF Task
  <2>2. JobsKept
    BY <1>17, <2>1, SecondaryKeepsGone DEF SchedulerReschedule, Secondary
  <2>3. QED
    BY <1>17, <2>2, KeptFrame DEF SchedulerReschedule, scheduler, watchers
<1>18. CASE SchedulerCrash
  BY <1>18 DEF SchedulerCrash, TypeOK, BoundsTyped
<1>19. ASSUME NEW w \in Watcher, PopKill(w) PROVE Recorded(k)'
  <2>1. HandsKept
    BY <1>19, OthersKeepInsert DEF PopKill
  <2>2. QED
    BY <1>19, <2>1, KeptFrame DEF PopKill, mongo, scheduler, Gone
<1>20. ASSUME NEW w \in Watcher, KillPending(w) PROVE Recorded(k)'
  <2>1. HandsKept
    BY <1>20, OthersKeepInsert DEF KillPending
  <2>2. QED
    BY <1>20, <2>1, KeptFrame DEF KillPending, mongo, scheduler, Gone
<1>21. ASSUME NEW w \in Watcher, KillContainer(w) PROVE Recorded(k)'
  <2>1. HandsKept
    BY <1>21, OthersKeepInsert DEF KillContainer
  <2>2. QED
    BY <1>21, <2>1, KeptFrame DEF KillContainer, mongo, scheduler, Gone
<1>22. ASSUME NEW w \in Watcher, KillFails(w) PROVE Recorded(k)'
  <2>1. hand[w] \in Task /\ hand[w].job \in Job
    BY <1>22, HandType DEF KillFails
  <2>2. [hand[w] EXCEPT !.tries = @ + 1].job = hand[w].job
    BY <2>1 DEF Task
  <2>3. JobsKept
    <3>1. CASE UNCHANGED jobs
      BY <3>1 DEF Gone
    <3>2. CASE SetSecondary(hand[w].job, "unknown")
      BY <3>2, <2>1, SecondaryKeepsGone DEF Secondary
    <3>3. QED
      BY <1>22, <2>2, <3>1, <3>2 DEF KillFails
  <2>4. HandsKept
    BY <1>22, OthersKeepInsert DEF KillFails
  <2>5. QED
    BY <1>22, <2>3, <2>4, KeptFrame DEF KillFails, scheduler
<1>23. ASSUME NEW w \in Watcher, OriginalGone(w) PROVE Recorded(k)'
  <2>1. HandsKept
    BY <1>23, OthersKeepInsert DEF OriginalGone
  <2>2. QED
    BY <1>23, <2>1, KeptFrame DEF OriginalGone, mongo, scheduler, Gone
<1>24. ASSUME NEW w \in Watcher, OriginalRequeue(w) PROVE Recorded(k)'
  <2>1. HandsKept
    BY <1>24, OthersKeepInsert DEF OriginalRequeue
  <2>2. QED
    BY <1>24, <2>1, KeptFrame DEF OriginalRequeue, mongo, scheduler, Gone
<1>25. ASSUME NEW w \in Watcher, OriginalFinish(w) PROVE Recorded(k)'
  <2>1. HandsKept
    BY <1>25, OthersKeepInsert DEF OriginalFinish
  <2>2. QED
    BY <1>25, <2>1, KeptFrame DEF OriginalFinish, mongo, scheduler, Gone
<1>26. ASSUME NEW w \in Watcher, Requeue(w) PROVE Recorded(k)'
  <2>1. HandsKept
    BY <1>26, OthersKeepInsert DEF Requeue
  <2>2. QED
    BY <1>26, <2>1, KeptFrame DEF Requeue, mongo, scheduler, Gone
<1>27. ASSUME NEW w \in Watcher, ResetPending(w) PROVE Recorded(k)'
  <2> DEFINE j == hand[w].job
             d == [jobs[j] EXCEPT !.primary = "pending", !.secondary = "rescheduled",
                                  !.fails = IF hand[w].over THEN hand[w].fails ELSE @]
  <2>1. j \in Job /\ jobs[j] \in Document
    BY <1>27, HandType DEF ResetPending, TypeOK, MongoTyped
  <2>2. d.primary # "gone" /\ UpdateDoc(j, d)
    BY <1>27, <2>1 DEF ResetPending, Document
  <2>3. JobsKept
    <3> HIDE DEF d, j
    <3> QED
      BY <2>1, <2>2, UpdateKeepsGone
  <2>4. HandsKept
    BY <1>27, OthersKeepInsert DEF ResetPending
  <2>5. QED
    BY <1>27, <2>3, <2>4, KeptFrame DEF ResetPending, scheduler
<1>28. ASSUME NEW w \in Watcher, DeleteSnapshotAgain(w) PROVE Recorded(k)'
  <2>1. HandsKept
    BY <1>28, OthersKeepInsert DEF DeleteSnapshotAgain
  <2>2. QED
    BY <1>28, <2>1, KeptFrame DEF DeleteSnapshotAgain, mongo, scheduler, Gone
<1>29. ASSUME NEW w \in Watcher, Remove(w) PROVE Recorded(k)'
  <2>1. SUFFICES ASSUME Gone(k)'
                 PROVE  \/ jobsover'[k] > 0
                        \/ \E v \in Watcher : wpc'[v] = "insert" /\ hand'[v].job = k
                        \/ spc' = "quota" /\ scur' = k
    BY DEF Recorded, Gone
  <2>2. /\ hand[w].job \in Job
        /\ wpc'[w] = "insert" /\ hand' = hand
        /\ \A v \in Watcher : wpc[v] = "insert" => wpc'[v] = "insert"
    BY <1>29, HandType DEF Remove, Goto, TypeOK, WatchersTyped
  <2>3. CASE k = hand[w].job
    BY <2>2, <2>3
  <2>4. CASE k # hand[w].job
    BY <1>29, <2>1, <2>2, <2>4, RemoveKept DEF Remove, Recorded, Gone, scheduler
  <2>5. QED
    BY <2>3, <2>4
<1>30. ASSUME NEW w \in Watcher, InsertOver(w) PROVE Recorded(k)'
  <2>1. SUFFICES ASSUME Gone(k)
                 PROVE  \/ jobsover'[k] > 0
                        \/ \E v \in Watcher : wpc'[v] = "insert" /\ hand'[v].job = k
                        \/ spc' = "quota" /\ scur' = k
    BY <1>30 DEF InsertOver, Recorded, Gone
  <2>2. /\ jobsover'[k] = IF k = hand[w].job THEN jobsover[k] + 1 ELSE jobsover[k]
        /\ jobsover[k] \in Nat
        /\ hand' = hand
        /\ \A v \in Watcher \ {w} : wpc'[v] = wpc[v]
    BY <1>30, HandType
    DEF InsertOver, InsertRecord, Goto, TypeOK, MongoTyped, WatchersTyped
  <2>3. QED
    BY <1>30, <2>1, <2>2 DEF InsertOver, Recorded, Gone, scheduler
<1>31. ASSUME NEW w \in Watcher, Close(w) PROVE Recorded(k)'
  <2>1. HandsKept
    BY <1>31, OthersKeepInsert DEF Close
  <2>2. QED
    BY <1>31, <2>1, KeptFrame DEF Close, mongo, scheduler, Gone
<1>32. ASSUME NEW w \in Watcher, PopUnknown(w) PROVE Recorded(k)'
  BY <1>32, KeptFrame DEF PopUnknown, mongo, scheduler, watchers, Gone
<1>33. ASSUME NEW w \in Watcher, PopAlive(w) PROVE Recorded(k)'
  <2>1. HandsKept
    BY <1>33, OthersKeepInsert DEF PopAlive
  <2>2. QED
    BY <1>33, <2>1, KeptFrame DEF PopAlive, mongo, scheduler, Gone
<1>34. ASSUME NEW w \in Watcher, PopOver(w) PROVE Recorded(k)'
  <2>1. HandsKept
    BY <1>34, OthersKeepInsert DEF PopOver
  <2>2. QED
    BY <1>34, <2>1, KeptFrame DEF PopOver, mongo, scheduler, Gone
<1>35. ASSUME NEW w \in Watcher, PushBack(w) PROVE Recorded(k)'
  <2>1. HandsKept
    BY <1>35, OthersKeepInsert DEF PushBack
  <2>2. QED
    BY <1>35, <2>1, KeptFrame DEF PushBack, mongo, scheduler, Gone
<1>36. ASSUME NEW w \in Watcher, Stamp(w) PROVE Recorded(k)'
  <2>1. HandsKept
    BY <1>36, OthersKeepInsert DEF Stamp
  <2>2. QED
    BY <1>36, <2>1, KeptFrame DEF Stamp, mongo, scheduler, Gone
<1>37. ASSUME NEW w \in Watcher, Expire(w) PROVE Recorded(k)'
  <2>1. hand[w].job \in Job
    BY <1>37, HandType DEF Expire
  <2>2. JobsKept
    BY <1>37, <2>1, SecondaryKeepsGone DEF Expire, Secondary
  <2>3. HandsKept
    BY <1>37, OthersKeepInsert DEF Expire
  <2>4. QED
    BY <1>37, <2>2, <2>3, KeptFrame DEF Expire, scheduler
<1>38. ASSUME NEW w \in Watcher, WatcherCrash(w) PROVE Recorded(k)'
  BY <1>38 DEF WatcherCrash, TypeOK, BoundsTyped
<1>39. CASE UNCHANGED vars
  BY <1>39, KeptFrame DEF vars, mongo, scheduler, watchers, Gone
<1>40. QED
  BY <1>1, <1>2, <1>3, <1>4, <1>5, <1>6, <1>7, <1>8, <1>9, <1>10, <1>11,
     <1>12, <1>13, <1>13a, <1>14, <1>15, <1>16, <1>17, <1>18, <1>19, <1>20, <1>21,
     <1>22, <1>23, <1>24, <1>25, <1>26, <1>27, <1>28, <1>29, <1>30, <1>31,
     <1>32, <1>33, <1>34, <1>35, <1>36, <1>37, <1>38, <1>39
  DEF Next, Users, Containers, Scheduler, WatcherStep, PopRunning, Handle

\* A death loses one job at most: the one in hand.
LEMMA DeathLosesOne ==
    ASSUME \/ SchedulerCrash
           \/ \E w \in Watcher : WatcherCrash(w)
    PROVE  \E j : Lost' \subseteq Lost \cup {j}
<1>1. CASE SchedulerCrash
  <2>1. Lost' \subseteq Lost \cup {scur}
    BY <1>1 DEF SchedulerCrash, Lost, Recorded, mongo, watchers
  <2>2. QED
    BY <2>1
<1>2. ASSUME NEW w \in Watcher, WatcherCrash(w)
      PROVE  Lost' \subseteq Lost \cup {hand[w].job}
  <2>1. /\ UNCHANGED <<jobs, jobsover, spc, scur>>
        /\ \A v \in Watcher : v # w => wpc'[v] = wpc[v] /\ hand'[v] = hand[v]
    BY <1>2 DEF WatcherCrash, Release, Take, Goto, mongo, scheduler
  <2>2. QED
    BY <2>1 DEF Lost, Recorded
<1>3. QED
  BY <1>1, <1>2

\* The inductive invariant: that only finitely many jobs are lost is part of it,
\* there may be infinitely many.
LostFew == IsFiniteSet(Lost) /\ Cardinality(Lost) <= crashes

\* As long as no process dies, every job that left jobs is in jobsover or in the
\* hands of the process that will insert it there, and each process that dies
\* loses one job at most, whatever its handlers race with.
THEOREM RecordKeptCorrect == Spec => []RecordKept
<1>1. Init => LostFew
  <2>1. Init => Lost = {} /\ crashes = 0
    BY DEF Init, Lost, Recorded, NewDocument
  <2>2. QED
    BY <2>1, FS_EmptySet DEF LostFew
<1>2. TypeOK /\ LostFew /\ [Next]_vars => LostFew'
  <2> SUFFICES ASSUME TypeOK, LostFew, [Next]_vars PROVE LostFew'
    OBVIOUS
  <2>1. crashes \in Nat /\ IsFiniteSet(Lost) /\ Cardinality(Lost) <= crashes
        /\ Cardinality(Lost) \in Nat
    BY FS_CardinalityType DEF TypeOK, BoundsTyped, LostFew
  <2>2. CASE crashes' = crashes
    <3>1. Lost' \subseteq Lost
      BY <2>2, RecordStays DEF Lost
    <3>2. /\ IsFiniteSet(Lost') /\ Cardinality(Lost') <= Cardinality(Lost)
      BY <2>1, <3>1, FS_Subset
    <3>3. Cardinality(Lost') \in Nat
      BY <3>2, FS_CardinalityType
    <3>4. QED
      BY <2>1, <2>2, <3>2, <3>3 DEF LostFew
  <2>3. CASE SchedulerCrash \/ \E w \in Watcher : WatcherCrash(w)
    <3>1. PICK j : Lost' \subseteq Lost \cup {j}
      BY <2>3, DeathLosesOne
    <3>2. crashes' = crashes + 1
      BY <2>3 DEF SchedulerCrash, WatcherCrash
    <3>3. /\ IsFiniteSet(Lost \cup {j})
          /\ Cardinality(Lost \cup {j}) <= Cardinality(Lost) + 1
      BY <2>1, FS_AddElement
    <3>4. /\ IsFiniteSet(Lost') /\ Cardinality(Lost') <= Cardinality(Lost \cup {j})
      BY <3>1, <3>3, FS_Subset
    <3>5. Cardinality(Lost') \in Nat /\ Cardinality(Lost \cup {j}) \in Nat
      BY <3>3, <3>4, FS_CardinalityType
    <3>6. QED
      BY <2>1, <3>2, <3>3, <3>4, <3>5 DEF LostFew
  <2>4. QED
    BY <2>2, <2>3, CrashesCounted
<1>3. LostFew => RecordKept
  BY DEF LostFew, RecordKept
<1>4. QED
  BY <1>1, <1>2, <1>3, TypeCorrect, PTL DEF Spec

-----------------------------------------------------------------------------
(* Which steps touch the documents.                                        *)

LEMMA MongoSteps ==
    ASSUME [Next]_vars
    PROVE  \/ UNCHANGED mongo
           \/ \E j \in Job : \/ Count(j) \/ Submit(j) \/ RequestKill(j)
                             \/ SchedulerRejectQuota(j) \/ SchedulerRefuse(j)
           \/ SchedulerInsertRejected \/ SchedulerMark \/ SchedulerReschedule
           \/ \E w \in Watcher : \/ KillFails(w) \/ ResetPending(w) \/ Remove(w)
                                 \/ InsertOver(w) \/ Expire(w)
<1>1. CASE UNCHANGED vars
  BY <1>1 DEF vars, mongo
<1>2. CASE Users
  BY <1>2 DEF Users, RequestReschedule
<1>3. CASE Containers
  BY <1>3 DEF Containers, ContainerEnds
<1>4. CASE Scheduler
  BY <1>4 DEF Scheduler, SchedulerRead, SchedulerSkip, SchedulerAccept,
     SchedulerPush, SchedulerLaunch, SchedulerSnapshot, SchedulerCountOut,
     SchedulerEndPass
<1>5. ASSUME NEW w \in Watcher, WatcherStep(w)
      PROVE  \/ UNCHANGED mongo
             \/ KillFails(w) \/ ResetPending(w) \/ Remove(w)
             \/ InsertOver(w) \/ Expire(w)
  <2>1. CASE PopKill(w) \/ PopRunning(w)
    BY <2>1 DEF PopKill, PopRunning, PopUnknown, PopAlive, PopOver
  <2>2. CASE Handle(w)
    BY <2>2 DEF Handle, KillPending, KillContainer, OriginalGone,
       OriginalRequeue, OriginalFinish, Requeue, DeleteSnapshotAgain, Close,
       PushBack, Stamp
  <2>3. QED
    BY <1>5, <2>1, <2>2 DEF WatcherStep
<1>6. CASE SchedulerCrash
  BY <1>6 DEF SchedulerCrash
<1>7. ASSUME NEW w \in Watcher, WatcherCrash(w) PROVE UNCHANGED mongo
  BY <1>7 DEF WatcherCrash
<1>8. QED
  BY <1>1, <1>2, <1>3, <1>4, <1>5, <1>6, <1>7 DEF Next

\* No step puts a removed document back.
LEMMA NextMonotone ==
    ASSUME TypeOK, RemovedFirst, [Next]_vars
    PROVE  Monotone
<1>1. CASE UNCHANGED mongo
  BY <1>1, SameMonotone DEF mongo
<1>2. ASSUME NEW j \in Job, Count(j) \/ Submit(j) PROVE Monotone
  BY <1>2 DEF Count, Submit, Monotone, Submitted, Gone, TypeOK, MongoTyped, Document
<1>3. ASSUME NEW j \in Job, RequestKill(j) \/ SchedulerRefuse(j) PROVE Monotone
  BY <1>3, SecondaryMonotone DEF RequestKill, SchedulerRefuse, Secondary
<1>4. ASSUME NEW j \in Job, SchedulerRejectQuota(j) PROVE Monotone
  <2>1. j \in Submitted
    BY <1>4 DEF SchedulerRejectQuota, RemovedFirst, SchedulerRemovedFirst
  <2>2. QED
    BY <1>4, <2>1, RemoveMonotone DEF SchedulerRejectQuota
<1>5. CASE SchedulerInsertRejected
  BY <1>5, SameMonotone DEF SchedulerInsertRejected
<1>6. CASE SchedulerMark
  <2> DEFINE d == [jobs[scur] EXCEPT !.primary = "running", !.secondary = "none",
                                     !.run = launched[scur]]
  <2>1. scur \in Job
    BY <1>6 DEF SchedulerMark, TypeOK, SchedulerTyped
  <2>2. /\ jobs[scur] \in Document /\ launched[scur] \in Nat
        /\ "running" \in Primary /\ "none" \in Secondary
    BY <2>1 DEF TypeOK, MongoTyped, ExecutorTyped, Primary, Secondary
  <2>3. d \in Document
    BY <2>2, DocumentType
  <2>4. d.primary = "running"
    BY <2>2 DEF Document
  <2>5. QED
    BY <1>6, <2>1, <2>3, <2>4, UpdateMonotone DEF SchedulerMark
<1>7. CASE SchedulerReschedule
  <2>1. Head(reschedq) \in Task
    BY <1>7, HeadTailType DEF SchedulerReschedule, TypeOK, ListsTyped
  <2>2. QED
    BY <1>7, <2>1, SecondaryMonotone DEF SchedulerReschedule, Secondary, Task
<1>8. ASSUME NEW w \in Watcher, KillFails(w) \/ Expire(w) PROVE Monotone
  <2>1. hand[w] \in Task /\ hand[w].job \in Job
    BY <1>8, HandType DEF KillFails, Expire
  <2>2. [hand[w] EXCEPT !.tries = @ + 1].job = hand[w].job
    BY <2>1 DEF Task
  <2>3. CASE UNCHANGED jobs
    BY <2>3, SameMonotone
  <2>4. ASSUME NEW s \in Secondary, SetSecondary(hand[w].job, s) PROVE Monotone
    BY <2>1, <2>4, SecondaryMonotone
  <2>5. QED
    BY <1>8, <2>2, <2>3, <2>4 DEF KillFails, Expire, Secondary
<1>9. ASSUME NEW w \in Watcher, ResetPending(w) PROVE Monotone
  <2> DEFINE j == hand[w].job
  <2> DEFINE n == IF hand[w].over THEN hand[w].fails ELSE jobs[j].fails
  <2> DEFINE d == [jobs[j] EXCEPT !.primary = "pending",
                                  !.secondary = "rescheduled", !.fails = n]
  <2>1. j \in Job /\ hand[w].fails \in Nat
    BY <1>9, HandType DEF ResetPending
  <2>2. jobs[j] \in Document /\ "pending" \in Primary /\ "rescheduled" \in Secondary
    BY <2>1 DEF TypeOK, MongoTyped, Primary, Secondary
  <2>3. n \in Nat
    BY <2>1, <2>2, DocumentType
  <2>4. d \in Document /\ d.primary = "pending"
    BY <2>2, <2>3, DocumentType DEF Document
  <2>5. UpdateDoc(j, d)
    BY <1>9, <2>2 DEF ResetPending, Document
  <2> HIDE DEF d, j
  <2>6. QED
    BY <2>1, <2>4, <2>5, UpdateMonotone
<1>10. ASSUME NEW w \in Watcher, Remove(w) PROVE Monotone
  BY <1>10, HandSubmitted, RemoveMonotone DEF Remove
<1>11. ASSUME NEW w \in Watcher, InsertOver(w) PROVE Monotone
  BY <1>11, SameMonotone DEF InsertOver
<1>12. QED
  BY MongoSteps, <1>1, <1>2, <1>3, <1>4, <1>5, <1>6, <1>7, <1>8, <1>9, <1>10, <1>11

-----------------------------------------------------------------------------
(* A job runs after the jobs it depends on.                                *)

DependenciesGone(j) == \A d \in DependsOn[j] : Gone(d)

\* The inductive invariant behind DependenciesFirst: the scheduler looks at the
\* dependencies when it accepts a job, launches what it accepted some steps
\* later, and marks what it launched later still.
DependenciesKept ==
    /\ \A j \in accepted \cup starting : DependenciesGone(j)
    /\ spc \in {"pushed", "snapped", "marking"} => DependenciesGone(scur)
    /\ \A j \in Job : launched[j] > 0 => DependenciesGone(j)

LEMMA GoneKept ==
    ASSUME Monotone, NEW j \in Job, DependenciesGone(j)
    PROVE  DependenciesGone(j)'
<1>1. DependsOn[j] \subseteq Job
  BY ConstantsAssumption
<1>2. QED
  BY <1>1 DEF Monotone, DependenciesGone, Gone

\* A job with a document in jobsover is gone from jobs.
LEMMA OverGone ==
    ASSUME RemovedFirst, NEW j \in Job, DependenciesOver(j)
    PROVE  DependenciesGone(j)
<1>1. DependsOn[j] \subseteq Job
  BY ConstantsAssumption
<1>2. QED
  BY <1>1 DEF RemovedFirst, NeverInBoth, DependenciesOver, DependenciesGone, Gone

\* Which steps touch what DependenciesKept speaks of.
LEMMA LaunchSteps ==
    ASSUME [Next]_vars
    PROVE  \/ UNCHANGED <<scheduler, launched>>
           \/ UNCHANGED <<accepted, starting, launched>> /\ spc' \notin {"pushed", "snapped", "marking"}
           \/ \E j \in Job : SchedulerAccept(j) \/ SchedulerPush(j)
           \/ \E R \in SUBSET accepted : SchedulerLaunch(R)
           \/ SchedulerSnapshot \/ SchedulerCountOut \/ SchedulerCrash
<1>1. CASE UNCHANGED vars
  BY <1>1 DEF vars, executor
<1>2. CASE Users
  BY <1>2 DEF Users, Count, Submit, RequestKill, RequestReschedule, executor
<1>3. CASE Containers
  BY <1>3 DEF Containers, ContainerEnds
<1>4. CASE Scheduler
  BY <1>4 DEF Scheduler, SchedulerRead, SchedulerSkip, SchedulerRejectQuota,
     SchedulerRefuse, SchedulerInsertRejected, SchedulerMark,
     SchedulerEndPass, SchedulerReschedule, executor
<1>5. ASSUME NEW w \in Watcher, WatcherStep(w) \/ WatcherCrash(w)
      PROVE  UNCHANGED <<scheduler, launched>>
  <2>1. CASE PopKill(w) \/ PopRunning(w) \/ WatcherCrash(w)
    BY <2>1 DEF PopKill, PopRunning, PopUnknown, PopAlive, PopOver,
       WatcherCrash, executor
  <2>2. CASE Handle(w)
    BY <2>2 DEF Handle, KillPending, KillContainer, KillFails, OriginalGone,
       OriginalRequeue, OriginalFinish, Requeue, ResetPending,
       DeleteSnapshotAgain, Remove, InsertOver, Close, PushBack, Stamp,
       Expire, executor
  <2>3. QED
    BY <1>5, <2>1, <2>2 DEF WatcherStep
<1>6. QED
  BY <1>1, <1>2, <1>3, <1>4, <1>5 DEF Next

\* A job the scheduler has accepted, or whose run has begun, comes after the jobs it
\* depends on: their documents were gone when get_resources accepted it, and a
\* document that is gone does not come back.
THEOREM DependenciesKeptCorrect == Spec => []DependenciesKept
<1>1. Init => DependenciesKept
  BY DEF Init, DependenciesKept
<1>2. TypeOK /\ TypeOK' /\ RemovedFirst /\ DependenciesKept /\ [Next]_vars => DependenciesKept'
  <2> SUFFICES ASSUME TypeOK, TypeOK', RemovedFirst, DependenciesKept, [Next]_vars
               PROVE  DependenciesKept'
    OBVIOUS
  <2>1. \A j \in Job : DependenciesGone(j) => DependenciesGone(j)'
    BY NextMonotone, GoneKept
  <2>2. /\ accepted \subseteq Job /\ starting \subseteq Job
        /\ spc \in {"pushed", "snapped", "marking"} => scur \in Job
        /\ launched \in [Job -> Nat]
    BY DEF TypeOK, SchedulerTyped, ExecutorTyped
  <2>3. CASE UNCHANGED <<scheduler, launched>>
    BY <2>1, <2>2, <2>3 DEF DependenciesKept, scheduler
  <2>4. CASE UNCHANGED <<accepted, starting, launched>> /\ spc' \notin {"pushed", "snapped", "marking"}
    BY <2>1, <2>2, <2>4 DEF DependenciesKept
  <2>5. ASSUME NEW j \in Job, SchedulerAccept(j) PROVE DependenciesKept'
    <3>1. DependenciesGone(j)'
      BY <2>1, <2>5, OverGone DEF SchedulerAccept
    <3>2. QED
      BY <2>1, <2>2, <2>5, <3>1 DEF SchedulerAccept, DependenciesKept, executor
  <2>6. ASSUME NEW j \in Job, SchedulerPush(j) PROVE DependenciesKept'
    BY <2>1, <2>2, <2>6 DEF SchedulerPush, DependenciesKept, executor
  <2>7. ASSUME NEW R \in SUBSET accepted, SchedulerLaunch(R) PROVE DependenciesKept'
    BY <2>1, <2>2, <2>7 DEF SchedulerLaunch, DependenciesKept
  <2>8. CASE SchedulerSnapshot
    BY <2>1, <2>2, <2>8 DEF SchedulerSnapshot, DependenciesKept, executor
  <2>8a. CASE SchedulerCountOut
    BY <2>1, <2>2, <2>8a DEF SchedulerCountOut, DependenciesKept, executor
  <2>9. CASE SchedulerCrash
    BY <2>1, <2>2, <2>9 DEF SchedulerCrash, DependenciesKept, executor
  <2>10. QED
    BY LaunchSteps, <2>3, <2>4, <2>5, <2>6, <2>7, <2>8, <2>8a, <2>9
<1>3. QED
  BY <1>1, <1>2, TypeCorrect, RemovedFirstCorrect, PTL DEF Spec

\* A container is started for a job only after the jobs it depends on left
\* the unfinished ones.
THEOREM DependenciesFirstCorrect == Spec => []DependenciesFirst
<1>1. DependenciesKept => DependenciesFirst
  BY DEF DependenciesKept, DependenciesFirst, DependenciesGone, Gone
<1>2. QED
  BY <1>1, DependenciesKeptCorrect, PTL

-----------------------------------------------------------------------------
(* The refinement: every step is a step of JobStates, or none.             *)

\* What the calls on the two collections do to the states.
SameStates == \A j \in Job : StateOf(j)' = StateOf(j)

StepOf(j) ==
    /\ \A i \in Job \ {j} : StateOf(i)' = StateOf(i)
    /\ StateOf(j)' # StateOf(j)
    /\ StateOf(j)' \in Promised!After[StateOf(j)]
    /\ StateOf(j)' = "running" => DependenciesGone(j)

LEMMA DoneIsGone ==
    ASSUME TypeOK, NEW j \in Job
    PROVE  StateOf(j) \in {"ended", "over"} <=> Gone(j)
<1>1. jobs[j].primary \in Primary
  BY DEF TypeOK, MongoTyped, Document
<1>2. QED
  BY <1>1 DEF StateOf, Gone, Primary

LEMMA StepPromised ==
    ASSUME TypeOK, NEW j \in Job, StepOf(j)
    PROVE  Promised!Next
<1> DEFINE state == [i \in Job |-> StateOf(i)]
<1>1. /\ state'[j] = StateOf(j)'
      /\ state[j] = StateOf(j)
      /\ state' = [state EXCEPT ![j] = state'[j]]
  BY DEF StepOf, StateOf
<1>2. StateOf(j)' = "running" => \A d \in DependsOn[j] : Promised!Done(d)
  <2>1. DependsOn[j] \subseteq Job
    BY ConstantsAssumption
  <2>2. QED
    BY <2>1, DoneIsGone DEF StepOf, DependenciesGone, Promised!Done
<1>3. Promised!Move(j)
  BY <1>1, <1>2 DEF StepOf, Promised!Move
<1>4. QED
  BY <1>3 DEF Promised!Next

\* The state of a job depends on its documents only.
LEMMA StateFrame ==
    ASSUME NEW j \in Job, jobs'[j].primary = jobs[j].primary, jobsover'[j] = jobsover[j]
    PROVE  StateOf(j)' = StateOf(j)
BY DEF StateOf, Gone

LEMMA SecondaryStates ==
    ASSUME TypeOK, NEW j \in Job, NEW s \in Secondary, SetSecondary(j, s),
           UNCHANGED jobsover
    PROVE  SameStates
<1>1. jobs \in [Job -> Document]
  BY DEF TypeOK, MongoTyped
<1>2. \A i \in Job : jobs'[i].primary = jobs[i].primary
  BY <1>1 DEF SetSecondary, UpdateDoc, Document
<1>3. QED
  BY <1>2, StateFrame DEF SameStates

\* A document that is updated goes from pending to running, or back, or stays.
LEMMA UpdateStates ==
    ASSUME TypeOK, NEW j \in Job, NEW d \in Document, UpdateDoc(j, d),
           UNCHANGED jobsover, d.primary \in {"pending", "running"},
           d.primary = "running" => DependenciesGone(j)
    PROVE  SameStates \/ StepOf(j)
<1>1. jobs \in [Job -> Document]
  BY DEF TypeOK, MongoTyped
<1>2. \A i \in Job \ {j} : StateOf(i)' = StateOf(i)
  BY <1>1, StateFrame DEF UpdateDoc
<1>3. CASE ~Stored(j) \/ d.primary = jobs[j].primary
  BY <1>1, <1>2, <1>3, StateFrame DEF UpdateDoc, SameStates
<1>4. CASE Stored(j) /\ d.primary # jobs[j].primary
  <2>1. jobs'[j].primary = d.primary
    BY <1>1, <1>4 DEF UpdateDoc
  <2>2. StateOf(j)' = d.primary /\ StateOf(j) = jobs[j].primary
    BY <1>4, <2>1 DEF StateOf, Gone, Stored
  <2>3. StateOf(j)' \in Promised!After[StateOf(j)]
    BY <1>4, <2>2 DEF Promised!After, Stored
  <2>4. QED
    BY <1>2, <1>4, <2>2, <2>3 DEF StepOf
<1>5. QED
  BY <1>3, <1>4

\* A removal ends the job, or takes its record out of jobsover.
LEMMA RemoveStates ==
    ASSUME TypeOK, RemovedFirst, NEW j \in Submitted, RemoveDoc(j)
    PROVE  SameStates \/ StepOf(j)
<1>1. j \in Job /\ jobs \in [Job -> Document] /\ jobsover \in [Job -> Nat]
  BY DEF Submitted, TypeOK, MongoTyped
<1>2. \A i \in Job \ {j} : StateOf(i)' = StateOf(i)
  BY <1>1, StateFrame DEF RemoveDoc
<1>3. CASE Stored(j)
  <2>1. jobs'[j].primary = "gone" /\ jobsover'[j] = jobsover[j]
    BY <1>1, <1>3 DEF RemoveDoc, Document
  <2>2. jobsover[j] = 0
    BY <1>1, <1>3 DEF RemovedFirst, NeverInBoth, Stored
  <2>3. StateOf(j)' = "ended" /\ StateOf(j) \in {"pending", "running"}
    BY <1>3, <2>1, <2>2 DEF StateOf, Gone, Stored
  <2>4. QED
    BY <1>1, <1>2, <2>3 DEF StepOf, Promised!After
<1>4. CASE ~Stored(j)
  <2>1. jobs' = jobs /\ jobsover'[j] = 0
    BY <1>1, <1>4 DEF RemoveDoc
  <2>2. jobs[j].primary = "gone"
    BY <1>1, <1>4 DEF Submitted, Stored, Document, Primary
  <2>3. StateOf(j)' = "ended" /\ StateOf(j) \in {"ended", "over"}
    BY <2>1, <2>2 DEF StateOf, Gone
  <2>4. CASE StateOf(j) = "ended"
    BY <1>2, <2>3, <2>4 DEF SameStates
  <2>5. CASE StateOf(j) = "over"
    BY <1>1, <1>2, <2>3, <2>5 DEF StepOf, Promised!After
  <2>6. QED
    BY <2>3, <2>4, <2>5
<1>5. QED
  BY <1>3, <1>4

\* An insertion into jobsover records a job that ended.
LEMMA InsertStates ==
    ASSUME TypeOK, NEW j \in Job, Gone(j), InsertRecord(j), UNCHANGED jobs
    PROVE  SameStates \/ StepOf(j)
<1>1. jobs \in [Job -> Document] /\ jobsover \in [Job -> Nat]
  BY DEF TypeOK, MongoTyped
<1>2. \A i \in Job \ {j} : StateOf(i)' = StateOf(i)
  BY <1>1, StateFrame DEF InsertRecord
<1>3. jobsover'[j] > 0
  BY <1>1 DEF InsertRecord
<1>4. StateOf(j)' = "over" /\ StateOf(j) \in {"ended", "over"}
  BY <1>3 DEF StateOf, Gone
<1>5. CASE StateOf(j) = "over"
  BY <1>2, <1>4, <1>5 DEF SameStates
<1>6. CASE StateOf(j) = "ended"
  BY <1>2, <1>4, <1>6 DEF StepOf, Promised!After
<1>7. QED
  BY <1>4, <1>5, <1>6

LEMMA StatesStep ==
    ASSUME TypeOK, RemovedFirst, DependenciesKept, [Next]_vars
    PROVE  SameStates \/ \E j \in Job : StepOf(j)
<1>1. CASE UNCHANGED mongo
  BY <1>1, StateFrame DEF mongo, SameStates
<1>2. ASSUME NEW j \in Job, Count(j) PROVE SameStates
  <2>1. jobs \in [Job -> Document]
    BY DEF TypeOK, MongoTyped
  <2>2. \A i \in Job \ {j} : StateOf(i)' = StateOf(i)
    BY <1>2, <2>1, StateFrame DEF Count
  <2>3. jobs[j].primary = "new" /\ jobs'[j].primary = "counted"
    BY <1>2, <2>1 DEF Count, Document
  <2>4. QED
    BY <2>2, <2>3 DEF StateOf, Gone, SameStates
<1>3. ASSUME NEW j \in Job, Submit(j) PROVE StepOf(j)
  <2>1. jobs \in [Job -> Document]
    BY DEF TypeOK, MongoTyped
  <2>2. \A i \in Job \ {j} : StateOf(i)' = StateOf(i)
    BY <1>3, <2>1, StateFrame DEF Submit
  <2>3. jobs[j].primary = "counted" /\ jobs'[j].primary = "pending"
    BY <1>3, <2>1 DEF Submit, Document
  <2>4. StateOf(j) = "new" /\ StateOf(j)' = "pending"
    BY <2>3 DEF StateOf, Gone
  <2>5. QED
    BY <2>2, <2>4 DEF StepOf, Promised!After
<1>4. ASSUME NEW j \in Job, RequestKill(j) \/ SchedulerRefuse(j) PROVE SameStates
  BY <1>4, SecondaryStates DEF RequestKill, SchedulerRefuse, Secondary
<1>5. ASSUME NEW j \in Job, SchedulerRejectQuota(j) PROVE SameStates \/ StepOf(j)
  <2>1. j \in Submitted
    BY <1>5 DEF SchedulerRejectQuota, RemovedFirst, SchedulerRemovedFirst
  <2>2. QED
    BY <1>5, <2>1, RemoveStates DEF SchedulerRejectQuota
<1>6. CASE SchedulerInsertRejected
  <2>1. scur \in Job /\ Gone(scur)
    BY <1>6 DEF SchedulerInsertRejected, RemovedFirst, SchedulerRemovedFirst,
       TypeOK, SchedulerTyped
  <2>2. QED
    BY <1>6, <2>1, InsertStates DEF SchedulerInsertRejected
<1>7. CASE SchedulerMark
  <2> DEFINE d == [jobs[scur] EXCEPT !.primary = "running", !.secondary = "none",
                                     !.run = launched[scur]]
  <2>1. scur \in Job /\ DependenciesGone(scur)
    BY <1>7 DEF SchedulerMark, TypeOK, SchedulerTyped, DependenciesKept
  <2>2. /\ jobs[scur] \in Document /\ launched[scur] \in Nat
        /\ "running" \in Primary /\ "none" \in Secondary
    BY <2>1 DEF TypeOK, MongoTyped, ExecutorTyped, Primary, Secondary
  <2>3. d \in Document
    BY <2>2, DocumentType
  <2>4. d.primary = "running"
    BY <2>2 DEF Document
  <2>5. UpdateDoc(scur, d) /\ UNCHANGED jobsover
    BY <1>7 DEF SchedulerMark
  <2> HIDE DEF d
  <2>6. QED
    BY <2>1, <2>3, <2>4, <2>5, UpdateStates
<1>8. CASE SchedulerReschedule
  <2>1. Head(reschedq) \in Task
    BY <1>8, HeadTailType DEF SchedulerReschedule, TypeOK, ListsTyped
  <2>2. Head(reschedq).job \in Job
    BY <2>1 DEF Task
  <2>3. QED
    BY <1>8, <2>2, SecondaryStates DEF SchedulerReschedule, Secondary
<1>9. ASSUME NEW w \in Watcher, KillFails(w) \/ Expire(w) PROVE SameStates
  <2>1. hand[w] \in Task /\ hand[w].job \in Job
    BY <1>9, HandType DEF KillFails, Expire
  <2>2. [hand[w] EXCEPT !.tries = @ + 1].job = hand[w].job
    BY <2>1 DEF Task
  <2>3. CASE UNCHANGED mongo
    BY <2>3, StateFrame DEF mongo, SameStates
  <2>4. ASSUME NEW s \in Secondary, SetSecondary(hand[w].job, s), UNCHANGED jobsover
        PROVE  SameStates
    BY <2>1, <2>4, SecondaryStates
  <2>5. QED
    BY <1>9, <2>2, <2>3, <2>4 DEF KillFails, Expire, Secondary, mongo
<1>10. ASSUME NEW w \in Watcher, ResetPending(w)
       PROVE  SameStates \/ \E j \in Job : StepOf(j)
  <2> DEFINE j == hand[w].job
  <2> DEFINE n == IF hand[w].over THEN hand[w].fails ELSE jobs[j].fails
  <2> DEFINE d == [jobs[j] EXCEPT !.primary = "pending",
                                  !.secondary = "rescheduled", !.fails = n]
  <2>1. j \in Job /\ hand[w].fails \in Nat
    BY <1>10, HandType DEF ResetPending
  <2>2. jobs[j] \in Document /\ "pending" \in Primary /\ "rescheduled" \in Secondary
    BY <2>1 DEF TypeOK, MongoTyped, Primary, Secondary
  <2>3. n \in Nat
    BY <2>1, <2>2, DocumentType
  <2>4. d \in Document /\ d.primary = "pending"
    BY <2>2, <2>3, DocumentType DEF Document
  <2>5. UpdateDoc(j, d) /\ UNCHANGED jobsover
    BY <1>10, <2>2 DEF ResetPending, Document
  <2> HIDE DEF d, j
  <2>6. QED
    BY <2>1, <2>4, <2>5, UpdateStates
<1>11. ASSUME NEW w \in Watcher, Remove(w)
       PROVE  SameStates \/ \E j \in Job : StepOf(j)
  BY <1>11, HandSubmitted, RemoveStates DEF Remove
<1>12. ASSUME NEW w \in Watcher, InsertOver(w)
       PROVE  SameStates \/ \E j \in Job : StepOf(j)
  <2>1. hand[w].job \in Job /\ Gone(hand[w].job)
    BY <1>12, HandSubmitted DEF InsertOver, RemovedFirst, WatchersRemovedFirst
  <2>2. QED
    BY <1>12, <2>1, InsertStates DEF InsertOver
<1>13. QED
  BY MongoSteps, <1>1, <1>2, <1>3, <1>4, <1>5, <1>6, <1>7, <1>8, <1>9, <1>10,
     <1>11, <1>12

\* Every step of the lifecycle is a step of JobStates, or leaves the states alone:
\* no handler revives a job that ended, skips a state, or runs a job before those
\* it depends on.
THEOREM StatesPromisedCorrect == Spec => StatesPromised
<1>1. Init => Promised!Init
  BY DEF Init, Promised!Init, StateOf, Gone, NewDocument
<1>2. ASSUME TypeOK, RemovedFirst, DependenciesKept, [Next]_vars
      PROVE  Promised!Next \/ UNCHANGED [j \in Job |-> StateOf(j)]
  <2>1. CASE SameStates
    BY <2>1 DEF SameStates, StateOf
  <2>2. ASSUME NEW j \in Job, StepOf(j) PROVE Promised!Next
    BY <1>2, <2>2, StepPromised
  <2>3. QED
    BY <1>2, StatesStep, <2>1, <2>2
<1>3. QED
  BY <1>1, <1>2, TypeCorrect, RemovedFirstCorrect, DependenciesKeptCorrect, PTL
  DEF Spec, StatesPromised, Promised!Spec
=============================================================================
