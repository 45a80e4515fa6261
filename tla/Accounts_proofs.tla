--------------------------- MODULE Accounts_proofs ---------------------------
(***************************************************************************)
(* Proofs about Accounts, for any users, jobs, limits and clients: what    *)
(* check_redis restores, the limit on the pending jobs of a user, and his   *)
(* disk usage.                                                             *)
(***************************************************************************)
EXTENDS Accounts, FiniteSetTheorems, TLAPS

\* The variables an action names alone keep their types when they do not change.
LEMMA TypedFrame ==
    ASSUME Typed
    PROVE  /\ UNCHANGED <<doc, asked, resched, sized>> => MongoTyped'
           /\ UNCHANGED counters => CountersTyped'
           /\ UNCHANGED lists => ListsTyped'
           /\ UNCHANGED <<cpc, scheduler, watchers, archiving>> => ProcessesTyped'
           /\ UNCHANGED <<troubles, history>> => HistoryTyped'
BY DEF Typed, MongoTyped, CountersTyped, ListsTyped, ProcessesTyped, HistoryTyped,
       counters, lists, scheduler, watchers, limits, history

\* A step of a handler.
LEMMA HandleTyped ==
    ASSUME Typed, NEW j \in Job, NEW h \in Handlers, NEW from, NEW to \in Steps,
           Handle(j, h, from, to), UNCHANGED <<cpc, scheduler, hands, archiving>>
    PROVE  ProcessesTyped'
BY DEF Typed, ProcessesTyped, Handle, scheduler

\* Every variable but the disk usage has its type.
THEOREM TypedCorrect == Spec => []Typed
<1>1. Init => Typed
  <2> SUFFICES ASSUME Init PROVE Typed
    OBVIOUS
  <2>1. MongoTyped /\ CountersTyped
    <3>1. counter \in BOOLEAN
      BY DEF Init
    <3>2. queued \in Int /\ rate \in [User -> Int]
      BY DEF Init
    <3>3. MongoTyped
      BY DEF Init, MongoTyped
    <3>4. QED
      BY <3>1, <3>2, <3>3 DEF CountersTyped
  <2>2. ListsTyped
    BY DEF Init, ListsTyped
  <2>3. ProcessesTyped
    BY DEF Init, ProcessesTyped, Steps
  <2>4. HistoryTyped
    <3>1. lost \in BOOLEAN /\ synced \in BOOLEAN /\ parallel \in BOOLEAN /\ halfway \in BOOLEAN
      BY DEF Init
    <3>2. spare \in [User -> Nat] /\ dropped \subseteq Job /\ twice \subseteq Job /\ again \subseteq Job
      BY DEF Init
    <3>3. troubles \in 0 .. MaxTroubles
      BY AccountsAssumption DEF Init
    <3>4. QED
      BY <3>1, <3>2, <3>3 DEF HistoryTyped
  <2>5. QED
    BY <2>1, <2>2, <2>3, <2>4 DEF Typed
<1>2. ASSUME Typed, [Next]_vars PROVE Typed'
  <2> USE <1>2 DEF limits
  <2>1. CASE UNCHANGED vars
    BY <2>1, TypedFrame DEF vars, mongo, Typed
  <2>2. ASSUME NEW j \in Job, Check(j) \/ Count(j) \/ Insert(j) PROVE Typed'
    <3>1. MongoTyped'
      BY <2>2 DEF Check, Count, Insert, Client, mongo, Typed, MongoTyped, Stored, Recorded
    <3>2. CountersTyped'
      <4>1. counter \in BOOLEAN /\ (counter' = counter \/ counter' = TRUE)
        BY <2>2 DEF Check, Count, Insert, counters, Typed, CountersTyped
      <4>2. counter' \in BOOLEAN
        BY <4>1
      <4>3. queued' \in Int /\ rate' \in [User -> Int]
        BY <2>2, AccountsAssumption DEF Check, Count, Insert, counters, Typed, CountersTyped
      <4>4. QED
        BY <4>2, <4>3 DEF CountersTyped
    <3>3. ProcessesTyped'
      BY <2>2 DEF Check, Count, Insert, Client, scheduler, watchers, Typed, ProcessesTyped, Stored
    <3>4. HistoryTyped'
      BY <2>2, AccountsAssumption DEF Check, Count, Insert, Client, history, Typed, HistoryTyped
    <3>5. ListsTyped'
      BY <2>2, TypedFrame DEF Check, Count, Insert, Client, lists
    <3>6. QED
      BY <3>1, <3>2, <3>3, <3>4, <3>5 DEF Typed
  <2>3. ASSUME NEW j \in Job, RequestKill(j) \/ RequestReschedule(j) \/ RequestArchive(j)
        PROVE  Typed'
    <3>1. MongoTyped'
      BY <2>3 DEF RequestKill, RequestReschedule, RequestArchive, Request, mongo, Typed,
         MongoTyped, Stored, Recorded
    <3>2. ListsTyped'
      BY <2>3 DEF RequestKill, RequestReschedule, RequestArchive, Request, lists, Typed,
         ListsTyped, Stored
    <3>3. HistoryTyped'
      BY <2>3, AccountsAssumption DEF RequestKill, RequestReschedule, RequestArchive, Request,
         Trouble, history, Typed, HistoryTyped
    <3>4. CountersTyped' /\ ProcessesTyped'
      BY <2>3, TypedFrame DEF RequestKill, RequestReschedule, RequestArchive, Request, counters,
         scheduler, watchers
    <3>5. QED
      BY <3>1, <3>2, <3>3, <3>4 DEF Typed
  <2>4. ASSUME Start \/ Recover \/ EndSync PROVE Typed'
    <3>1. CountersTyped'
      <4>1. counter \in BOOLEAN /\ (counter' = counter \/ counter' = TRUE)
        BY <2>4 DEF Start, Recover, EndSync, counters, Typed, CountersTyped
      <4>2. counter' \in BOOLEAN
        BY <4>1
      <4>3. queued' \in Int /\ rate' \in [User -> Int]
        BY <2>4 DEF Start, Recover, EndSync, counters, Typed, CountersTyped
      <4>4. QED
        BY <4>2, <4>3 DEF CountersTyped
    <3>2. ListsTyped'
      BY <2>4 DEF Start, Recover, EndSync, Scheduler, InJobs, lists, Typed, ListsTyped, Stored
    <3>3. ProcessesTyped'
      <4>1. {<<j, doc[j], j \in asked>> : j \in InJobs} \subseteq Job \X (Stored \cup {"pushed"}) \X BOOLEAN
        <5>1. \A j \in InJobs : <<j, doc[j], j \in asked>> \in Job \X (Stored \cup {"pushed"}) \X BOOLEAN
          <6> SUFFICES ASSUME NEW j \in InJobs
                       PROVE  <<j, doc[j], j \in asked>> \in Job \X (Stored \cup {"pushed"}) \X BOOLEAN
            OBVIOUS
          <6>1. j \in Job /\ doc[j] \in Stored
            BY DEF InJobs
          <6>2. (j \in asked) \in BOOLEAN
            OBVIOUS
          <6>3. QED
            BY <6>1, <6>2
        <5>2. QED
          BY <5>1
      <4>2. CASE Recover
        BY <4>1, <4>2 DEF Recover, Scheduler, watchers, Typed, ProcessesTyped
      <4>3. CASE Start \/ EndSync
        BY <4>3 DEF Start, EndSync, Scheduler, watchers, Typed, ProcessesTyped
      <4>4. QED
        BY <2>4, <4>2, <4>3
    <3>4. HistoryTyped'
      BY <2>4, AccountsAssumption DEF Start, Recover, EndSync, Scheduler, InJobs, history, Typed, HistoryTyped
    <3>5. MongoTyped'
      BY <2>4, TypedFrame DEF Start, Recover, EndSync, mongo
    <3>6. QED
      BY <3>1, <3>2, <3>3, <3>4, <3>5 DEF Typed
  <2>5. ASSUME NEW c \in cursor, Sync(c[1], c[2], c[3]) \/ SyncKey(c[1], c[3]) PROVE Typed'
    <3>1. CountersTyped'
      BY <2>5, AccountsAssumption DEF Sync, SyncKey, counters, Typed, CountersTyped
    <3>2. ListsTyped'
      <4>1. c[1] \in Job
        BY DEF Typed, ProcessesTyped
      <4>2. CASE Sync(c[1], c[2], c[3])
        <5>1. c[2] \in Stored
          BY <4>2 DEF Sync, Stored
        <5>2. killq' \in [Job \X Stored -> Nat]
          BY <4>1, <4>2, <5>1 DEF Sync, Typed, ListsTyped
        <5>3. QED
          BY <4>1, <4>2, <5>2 DEF Sync, Typed, ListsTyped
      <4>3. CASE SyncKey(c[1], c[3])
        BY <4>1, <4>3 DEF SyncKey, Typed, ListsTyped
      <4>4. QED
        BY <2>5, <4>2, <4>3
    <3>3. ProcessesTyped'
      BY <2>5 DEF Sync, SyncKey, watchers, Typed, ProcessesTyped, Stored
    <3>4. MongoTyped' /\ HistoryTyped'
      BY <2>5, TypedFrame DEF Sync, SyncKey, mongo
    <3>5. QED
      BY <3>1, <3>2, <3>3, <3>4 DEF Typed
  <2>6. ASSUME NEW j \in Job, StartJob(j) \/ RejectQuota(j) \/ CountOut(j) \/ MarkRunning(j)
        PROVE  Typed'
    <3> USE DEF StartJob, RejectQuota, CountOut, MarkRunning
    <3>1. MongoTyped'
      BY <2>6 DEF mongo, Typed, MongoTyped, Stored, Recorded
    <3>2. CountersTyped'
      BY <2>6, AccountsAssumption DEF Uncounted, counters, Typed, CountersTyped
    <3>3. ListsTyped'
      BY <2>6 DEF lists, Typed, ListsTyped
    <3>4. HistoryTyped'
      BY <2>6, AccountsAssumption DEF history, Typed, HistoryTyped
    <3>5. ProcessesTyped'
      BY <2>6 DEF scheduler, watchers, Typed, ProcessesTyped
    <3>6. QED
      BY <3>1, <3>2, <3>3, <3>4, <3>5 DEF Typed
  <2>7. ASSUME NEW j \in Job, Drop(j) \/ Take(j) \/ PutBack(j) \/ End(j) PROVE Typed'
    <3> USE DEF Drop, Take, PutBack, End
    <3>1. ListsTyped'
      BY <2>7 DEF TakeId, lists, Typed, ListsTyped
    <3>2. ProcessesTyped'
      BY <2>7 DEF scheduler, watchers, Typed, ProcessesTyped, Handlers, Steps
    <3>3. HistoryTyped'
      BY <2>7, AccountsAssumption DEF Trouble, history, Typed, HistoryTyped
    <3>4. MongoTyped' /\ CountersTyped'
      BY <2>7, TypedFrame DEF mongo, counters
    <3>5. QED
      BY <3>1, <3>2, <3>3, <3>4 DEF Typed
  <2>8. ASSUME NEW j \in Job, NEW s \in Stored, ServeKill(j, s) PROVE Typed'
    <3>1. CountersTyped'
      BY <2>8, AccountsAssumption DEF ServeKill, Uncounted, counters, Typed, CountersTyped
    <3>2. ListsTyped'
      BY <2>8 DEF ServeKill, lists, Typed, ListsTyped, Stored
    <3>3. ProcessesTyped'
      BY <2>8, HandleTyped DEF ServeKill, Handlers, Steps
    <3>4. HistoryTyped'
      BY <2>8, AccountsAssumption DEF ServeKill, history, Typed, HistoryTyped
    <3>5. MongoTyped'
      BY <2>8, TypedFrame DEF ServeKill, mongo
    <3>6. QED
      BY <3>1, <3>2, <3>3, <3>4, <3>5 DEF Typed
  <2>9. ASSUME NEW j \in Job, NEW h \in Handlers,
               \/ Look(j) \/ DeleteKey(j)
               \/ Remove(j, h) \/ AddUsage(j, h) \/ Record(j, h)
               \/ CountBack(j, h) \/ PutToPending(j, h)
        PROVE  Typed'
    <3> USE DEF Look, DeleteKey, Remove, AddUsage, Record, CountBack, PutToPending
    <3>1. MongoTyped'
      BY <2>9 DEF mongo, Typed, MongoTyped, Stored, Recorded
    <3>2. CountersTyped'
      BY <2>9, AccountsAssumption DEF counters, Typed, CountersTyped
    <3>3. ListsTyped'
      BY <2>9 DEF lists, Typed, ListsTyped
    <3>4. ProcessesTyped'
      <4>1. PICK g \in Handlers, from \in Steps, to \in Steps : Handle(j, g, from, to)
        BY <2>9, Zenon DEF Handlers, Steps
      <4>2. UNCHANGED <<cpc, scheduler, hands, archiving>>
        BY <2>9
      <4>3. QED
        BY <4>1, <4>2, HandleTyped
    <3>5. HistoryTyped'
      BY <2>9 DEF history, Typed, HistoryTyped
    <3>6. QED
      BY <3>1, <3>2, <3>3, <3>4, <3>5 DEF Typed
  <2>10. ASSUME NEW j \in Job, NEW size \in BOOLEAN, Archive(j, size) PROVE Typed'
    <3>1. MongoTyped'
      BY <2>10 DEF Archive, Fetch, Flag, Typed, MongoTyped, Recorded
    <3>2. ListsTyped'
      BY <2>10 DEF Archive, Fetch, Flag, Typed, ListsTyped
    <3>3. ProcessesTyped'
      BY <2>10 DEF Archive, Fetch, Flag, scheduler, watchers, Typed, ProcessesTyped
    <3>4. CountersTyped' /\ HistoryTyped'
      BY <2>10, TypedFrame DEF Archive
    <3>5. QED
      BY <3>1, <3>2, <3>3, <3>4 DEF Typed
  <2>11. CASE GiveBack
    <3>1. ProcessesTyped'
      BY <2>11 DEF GiveBack, scheduler, watchers, Typed, ProcessesTyped
    <3>2. MongoTyped' /\ CountersTyped' /\ ListsTyped' /\ HistoryTyped'
      BY <2>11, TypedFrame DEF GiveBack
    <3>3. QED
      BY <3>1, <3>2 DEF Typed
  <2>12. CASE Lose
    <3>1. CountersTyped'
      <4>1. counter' \in BOOLEAN
        BY <2>12 DEF Lose
      <4>2. queued' \in Int /\ rate' \in [User -> Int]
        BY <2>12 DEF Lose
      <4>3. QED
        BY <4>1, <4>2 DEF CountersTyped
    <3>2. ListsTyped'
      BY <2>12 DEF Lose, ListsTyped
    <3>3. HistoryTyped'
      <4>1. /\ troubles' \in 0 .. MaxTroubles
            /\ dropped' \subseteq Job /\ again' \subseteq Job /\ twice' \subseteq Job
            /\ spare' \in [User -> Nat]
        BY <2>12, AccountsAssumption DEF Lose, Trouble, Typed, HistoryTyped
      <4>2. /\ lost' = TRUE /\ synced' = FALSE
            /\ parallel' = parallel /\ halfway' = halfway
        BY <2>12 DEF Lose
      <4>3. parallel \in BOOLEAN /\ halfway \in BOOLEAN
        BY DEF Typed, HistoryTyped
      <4>4. lost' \in BOOLEAN /\ synced' \in BOOLEAN /\ parallel' \in BOOLEAN /\ halfway' \in BOOLEAN
        BY <4>2, <4>3
      <4>5. QED
        BY <4>1, <4>4 DEF HistoryTyped
    <3>4. MongoTyped' /\ ProcessesTyped'
      BY <2>12, TypedFrame DEF Lose, mongo
    <3>5. QED
      BY <3>1, <3>2, <3>3, <3>4 DEF Typed
  <2>13. ASSUME \/ StopScheduler \/ StopArchiver
                \/ \E j \in Job : StopWatcher(j) \/ \E h \in Handlers : StopHandler(j, h)
         PROVE  Typed'
    <3> USE DEF StopScheduler, StopArchiver, StopWatcher, StopHandler
    <3>1. ProcessesTyped'
      <4>1. CASE StopScheduler
        BY <4>1 DEF watchers, Typed, ProcessesTyped
      <4>2. CASE StopArchiver
        BY <4>2 DEF scheduler, watchers, Typed, ProcessesTyped
      <4>3. ASSUME NEW j \in Job, StopWatcher(j) PROVE ProcessesTyped'
        BY <4>3 DEF scheduler, Typed, ProcessesTyped
      <4>4. ASSUME NEW j \in Job, NEW h \in Handlers, StopHandler(j, h) PROVE ProcessesTyped'
        BY <4>4 DEF scheduler, Typed, ProcessesTyped, Steps
      <4>5. QED
        BY <2>13, <4>1, <4>2, <4>3, <4>4
    <3>2. HistoryTyped'
      <4>1. /\ spare' \in [User -> Nat]
            /\ troubles' \in 0 .. MaxTroubles
            /\ dropped' \subseteq Job
        <5>1. spare' = spare \/ \E j \in Job : spare' = [spare EXCEPT ![Owner[j]] = @ + 1]
          BY <2>13 DEF LeftPending, Typed, ProcessesTyped
        <5>2. spare' \in [User -> Nat]
          BY <5>1, AccountsAssumption DEF Typed, HistoryTyped
        <5>3. troubles < MaxTroubles /\ troubles' = troubles + 1
          BY <2>13 DEF Trouble
        <5>4. troubles' \in 0 .. MaxTroubles
          BY <5>3, AccountsAssumption DEF Typed, HistoryTyped
        <5>5. dropped' = dropped \/ \E j \in Job : dropped' = dropped \cup {j}
          BY <2>13
        <5>6. dropped' \subseteq Job
          BY <5>5 DEF Typed, HistoryTyped
        <5>7. QED
          BY <5>2, <5>4, <5>6
      <4>2. UNCHANGED <<lost, parallel, again, twice>>
        BY <2>13
      <4>3. synced' \in BOOLEAN /\ halfway' \in BOOLEAN
        <5>1. synced \in BOOLEAN /\ halfway \in BOOLEAN
          BY DEF Typed, HistoryTyped
        <5>2. \/ halfway' = halfway \/ halfway' = TRUE
              \/ \E e \in Job \X Handlers : halfway' = (halfway \/ handler[e] = "added")
          BY <2>13
        <5>3. synced' = synced \/ synced' = (synced /\ ~Syncing)
          BY <2>13
        <5>4. halfway' \in BOOLEAN
          BY <5>2, <5>1
        <5>5. synced' \in BOOLEAN
          BY <5>3, <5>1
        <5>6. QED
          BY <5>4, <5>5
      <4>4. QED
        BY <4>1, <4>2, <4>3 DEF Typed, HistoryTyped
    <3>3. MongoTyped' /\ CountersTyped' /\ ListsTyped'
      BY <2>13, TypedFrame DEF mongo
    <3>4. QED
      BY <3>1, <3>2, <3>3 DEF Typed
  <2>14. QED
    <3>1. "watch" \in Handlers
      BY DEF Handlers
    <3>2. QED
      BY <2>1, <2>2, <2>3, <2>4, <2>5, <2>6, <2>7, <2>8, <2>9, <2>10, <2>11, <2>12, <2>13, <3>1
         DEF Next
<1>3. QED
  BY <1>1, <1>2, PTL DEF Spec

-----------------------------------------------------------------------------
(* What check_redis restores.                                              *)

Followed(j) == (tracked[j] > 0 /\ j \in keys) \/ InHands(j)
KillListed(j) == (\E s \in Stored : killq[<<j, s>>] > 0) \/ Killed(j)

\* A running job, for its document or for the scheduler that is about to mark it; a job
\* with a kill request.
Runs(j) == doc[j] = "running" \/ (doc[j] \in Stored /\ j \in marking)
Asked(j) == doc[j] \in Stored /\ j \in asked

\* What check_redis has read and not yet written to Redis.
ToPush(j) == \E k \in BOOLEAN : <<j, "running", k>> \in cursor
ToKey(j) == tracked[j] > 0 /\ \E k \in BOOLEAN : <<j, "pushed", k>> \in cursor
ToKill(j) == \E s \in Stored : <<j, s, TRUE>> \in cursor

RunningKept(j) == Runs(j) => Followed(j) \/ (Syncing /\ (ToPush(j) \/ ToKey(j)))
KillKept(j) == Asked(j) => KillListed(j) \/ (Syncing /\ ToKill(j))
Kept2(j) == RunningKept(j) /\ KillKept(j)

\* Requests and handlers are of jobs that were submitted; jobs are started by a
\* scheduler that is up.
Sound ==
    /\ \A j \in Job : cpc[j] # "done" => doc[j] = "none"
    /\ \A j \in asked : doc[j] # "none"
    /\ \A j \in Job, h \in Handlers : handler[<<j, h>>] \notin {"none", "look"} => doc[j] # "none"
    /\ starting \cup marking # {} => spc = "up"
    /\ \A j \in starting \cup marking : doc[j] # "none"
    /\ \A i, j \in marking : i = j

\* The inductive invariant behind Restored: while check_redis works, what Redis
\* misses of a job is still in what it has read.
RestoredInv ==
    /\ synced => \A j \in Job \ dropped : Kept2(j)
    /\ Sound

\* Steps that lose nothing Redis or check_redis has of a job.
LEMMA KeptFrame ==
    ASSUME NEW j,
           Runs(j)' => Runs(j), Asked(j)' => Asked(j),
           Followed(j) => Followed(j)',
           KillListed(j) => KillListed(j)',
           UNCHANGED <<spc, cursor>>,
           tracked[j] > 0 => tracked'[j] > 0
    PROVE  Kept2(j) => Kept2(j)'
BY DEF Kept2, RunningKept, KillKept, Syncing, ToPush, ToKey, ToKill

\* Steps of other jobs.
LEMMA KeptOther ==
    ASSUME NEW j \in Job,
           doc'[j] = doc[j], j \in marking' => j \in marking,
           (j \in asked') = (j \in asked), (j \in keys) => (j \in keys'),
           (j \in hands') = (j \in hands), tracked'[j] = tracked[j],
           \A h \in Handlers : handler'[<<j, h>>] = handler[<<j, h>>],
           \A s \in Stored : killq'[<<j, s>>] = killq[<<j, s>>],
           UNCHANGED <<spc, cursor>>
    PROVE  Kept2(j) => Kept2(j)'
<1>1. "kill" \in Handlers
  BY DEF Handlers
<1>2. /\ Followed(j) => Followed(j)'
      /\ KillListed(j) => KillListed(j)'
  BY <1>1 DEF Followed, InHands, KillListed, Killed
<1>3. QED
  BY <1>2, KeptFrame DEF Runs, Asked

LEMMA HandlerAt ==
    ASSUME Typed, NEW j \in Job, NEW h \in Handlers, NEW from, NEW to, Handle(j, h, from, to)
    PROVE  /\ handler[<<j, h>>] = from /\ handler'[<<j, h>>] = to
           /\ \A i \in Job, g \in Handlers : i # j \/ g # h => handler'[<<i, g>>] = handler[<<i, g>>]
BY DEF Typed, ProcessesTyped, Handle

\* Steps of a handler that change nothing else of the processes and the lists but keys.
LEMMA HandlerFrame ==
    ASSUME Typed, RestoredInv, NEW j \in Job, NEW h \in Handlers, NEW from, NEW to,
           Handle(j, h, from, to), from \notin {"none", "look"},
           UNCHANGED <<cpc, scheduler, tracked, killq, hands, synced>>,
           \A i \in Job : i # j => doc'[i] = doc[i], doc'[j] # "none",
           asked' = asked \/ asked' = asked \ {j},
           keys' = keys \/ keys' = keys \ {j},
           dropped \subseteq dropped',
           j \notin dropped' => (Kept2(j) => Kept2(j)')
    PROVE  RestoredInv'
<1>1. /\ handler[<<j, h>>] = from
      /\ \A i \in Job, g \in Handlers : i # j => handler'[<<i, g>>] = handler[<<i, g>>]
  BY HandlerAt
<1>2. ASSUME NEW i \in Job, i # j PROVE Kept2(i) => Kept2(i)'
  <2>1. /\ doc'[i] = doc[i] /\ marking' = marking /\ (i \in asked') = (i \in asked)
        /\ i \in keys => i \in keys'
        /\ UNCHANGED <<hands, tracked, killq, spc, cursor>>
    BY <1>2 DEF scheduler
  <2>2. QED
    BY <1>1, <1>2, <2>1, KeptOther
<1>3. synced' => \A i \in Job \ dropped' : Kept2(i)'
  BY <1>2 DEF RestoredInv
<1>4. doc[j] # "none"
  BY <1>1 DEF RestoredInv, Sound
<1>5. Sound'
  <2>1. /\ \A i \in Job : doc'[i] = "none" <=> doc[i] = "none"
        /\ asked' \subseteq asked /\ asked \subseteq Job
        /\ starting \subseteq Job /\ marking \subseteq Job
    BY <1>4 DEF Typed, MongoTyped, ProcessesTyped
  <2>2. \A i \in Job, g \in Handlers : handler'[<<i, g>>] \notin {"none", "look"} => doc'[i] # "none"
    BY <1>1, <2>1 DEF RestoredInv, Sound
  <2>3. QED
    BY <2>1, <2>2 DEF RestoredInv, Sound, scheduler
<1>6. QED
  BY <1>3, <1>5 DEF RestoredInv

\* What Redis misses of a job while check_redis works is in what it has read.
THEOREM RestoredInvCorrect == Spec => []RestoredInv
<1>1. Init => RestoredInv
  <2> SUFFICES ASSUME Init PROVE RestoredInv
    OBVIOUS
  <2>1. \A j \in Job, h \in Handlers : handler[<<j, h>>] = "none"
    BY DEF Init
  <2>2. QED
    BY <2>1 DEF Init, RestoredInv, Sound, Kept2, RunningKept, KillKept, Runs, Asked, Stored
<1>2. ASSUME Typed, Typed', RestoredInv, [Next]_vars PROVE RestoredInv'
  <2>1. /\ doc \in [Job -> {"none", "removed"} \cup Stored \cup Recorded]
        /\ cpc \in [Job -> {"check", "count", "insert", "done", "refused"}]
        /\ tracked \in [Job -> Nat] /\ killq \in [Job \X Stored -> Nat]
        /\ asked \subseteq Job /\ dropped \subseteq Job
        /\ starting \subseteq Job /\ marking \subseteq Job /\ hands \subseteq Job
        /\ cursor \subseteq Job \X (Stored \cup {"pushed"}) \X BOOLEAN
        /\ handler \in [Job \X Handlers -> Steps]
        /\ "watch" \in Handlers /\ "kill" \in Handlers /\ Handlers = {"watch", "kill"}
    BY <1>2 DEF Typed, MongoTyped, ListsTyped, ProcessesTyped, HistoryTyped, Handlers
  <2>2. ASSUME \/ UNCHANGED vars \/ GiveBack \/ StopArchiver
               \/ \E j \in Job : RequestArchive(j)
        PROVE  RestoredInv'
    <3>1. UNCHANGED <<doc, asked, tracked, keys, killq, cpc, scheduler, hands, handler, synced, dropped>>
      BY <2>2 DEF vars, GiveBack, StopArchiver, RequestArchive, mongo, lists, watchers, history
    <3>2. QED
      BY <1>2, <3>1 DEF RestoredInv, Sound, Kept2, RunningKept, KillKept, Runs, Asked, Followed,
         InHands, KillListed, Killed, Syncing, ToPush, ToKey, ToKill, scheduler
  <2>3. ASSUME NEW j \in Job, Check(j) \/ Count(j) \/ StartJob(j) PROVE RestoredInv'
    <3>1. /\ UNCHANGED <<doc, asked, tracked, keys, killq, marking, spc, cursor, hands, handler,
                         synced, dropped>>
          /\ \/ /\ cpc[j] # "done" /\ \A i \in Job : i # j => cpc'[i] = cpc[i]
                /\ starting' = starting
             \/ cpc' = cpc /\ spc = "up" /\ starting' = starting \cup {j} /\ doc[j] # "none"
      BY <2>1, <2>3 DEF Check, Count, Client, StartJob, Checks, mongo, lists, scheduler, watchers, history
    <3>2. \A i \in Job : Kept2(i) => Kept2(i)'
      BY <3>1 DEF Kept2, RunningKept, KillKept, Runs, Asked, Followed, InHands, KillListed,
         Killed, Syncing, ToPush, ToKey, ToKill
    <3>3. Sound'
      BY <1>2, <3>1 DEF RestoredInv, Sound
    <3>4. QED
      BY <1>2, <3>1, <3>2, <3>3 DEF RestoredInv
  <2>4. ASSUME NEW j \in Job, Insert(j) PROVE RestoredInv'
    <3>1. /\ UNCHANGED <<asked, tracked, keys, killq, scheduler, hands, handler, synced, dropped>>
          /\ cpc[j] = "insert" /\ cpc' = [cpc EXCEPT ![j] = "done"]
          /\ doc' = [doc EXCEPT ![j] = "pending"]
      BY <2>4 DEF Insert, Client, lists, watchers
    <3>2. j \notin asked /\ doc[j] = "none" /\ j \notin marking
      BY <1>2, <3>1 DEF RestoredInv, Sound
    <3>3. \A i \in Job : i # j => (Kept2(i) => Kept2(i)')
      BY <2>1, <3>1, KeptOther DEF scheduler
    <3>4. Kept2(j)'
      BY <2>1, <3>1, <3>2 DEF Kept2, RunningKept, KillKept, Runs, Asked, scheduler
    <3>5. Sound'
      BY <1>2, <2>1, <3>1, <3>2 DEF RestoredInv, Sound, scheduler
    <3>6. QED
      BY <1>2, <3>1, <3>3, <3>4, <3>5 DEF RestoredInv
  <2>5. ASSUME NEW j \in Job, RequestKill(j) \/ RequestReschedule(j) PROVE RestoredInv'
    <3>1. /\ UNCHANGED <<doc, tracked, keys, cpc, scheduler, hands, handler, synced, dropped>>
          /\ doc[j] \in Stored
          /\ asked' = asked \cup {j} \/ asked' = asked \ {j}
          /\ killq' = [killq EXCEPT ![<<j, doc[j]>>] = @ + 1]
      BY <2>5 DEF RequestKill, RequestReschedule, Request, scheduler, watchers, history
    <3>2. /\ killq'[<<j, doc[j]>>] > 0
          /\ \A i \in Job, s \in Stored : i # j => killq'[<<i, s>>] = killq[<<i, s>>]
      BY <2>1, <3>1
    <3>3. \A i \in Job : i # j => (Kept2(i) => Kept2(i)')
      BY <3>1, <3>2, KeptOther DEF scheduler
    <3>4. RunningKept(j) => RunningKept(j)'
      BY <3>1 DEF RunningKept, Runs, Followed, InHands, Syncing, ToPush, ToKey, scheduler
    <3>5. KillKept(j)'
      BY <3>1, <3>2 DEF KillKept, KillListed
    <3>6. Sound'
      BY <1>2, <3>1 DEF RestoredInv, Sound, scheduler, Stored
    <3>7. QED
      BY <1>2, <3>1, <3>3, <3>4, <3>5, <3>6 DEF RestoredInv, Kept2
  <2>6. CASE Start
    <3>1. /\ UNCHANGED <<doc, asked, keys, killq, cpc, cursor, starting, marking, hands, handler,
                         synced, dropped>>
          /\ tracked' = tracked \/ \A j \in Job : doc[j] \notin Stored
          /\ spc = "down" /\ spc' \in {"up", "recover"}
      BY <2>6 DEF Start, InJobs, mongo, watchers, history
    <3>2. \A j \in Job : Kept2(j) => Kept2(j)'
      BY <3>1 DEF Kept2, RunningKept, KillKept, Runs, Asked, Followed, InHands, KillListed, Killed,
         Stored, Syncing
    <3>3. Sound'
      BY <1>2, <3>1 DEF RestoredInv, Sound
    <3>4. QED
      BY <1>2, <3>1, <3>2, <3>3 DEF RestoredInv
  <2>7. CASE Recover
    <3>1. /\ UNCHANGED <<doc, asked, cpc, starting, marking, handler, dropped>>
          /\ spc = "recover" /\ Syncing'
          /\ cursor' = {<<j, doc[j], j \in asked>> : j \in InJobs}
      BY <2>7 DEF Recover, Scheduler, mongo, watchers, Syncing
    <3>2. ASSUME NEW j \in Job, doc[j] \in Stored
          PROVE  <<j, doc[j], j \in asked>> \in cursor' /\ (j \in asked) \in BOOLEAN
      BY <3>1, <3>2 DEF InJobs
    <3>3. marking = {} /\ Sound'
      BY <1>2, <3>1 DEF RestoredInv, Sound
    <3>4. ASSUME NEW j \in Job PROVE RunningKept(j)'
      <4>1. doc[j] = "running" => <<j, "running", j \in asked>> \in cursor' /\ (j \in asked) \in BOOLEAN
        BY <3>2 DEF Stored
      <4>2. Runs(j)' => doc[j] = "running"
        BY <3>1, <3>3 DEF Runs
      <4>3. doc[j] = "running" => ToPush(j)'
        BY <4>1 DEF ToPush
      <4>4. QED
        BY <3>1, <4>2, <4>3 DEF RunningKept
    <3>5. ASSUME NEW j \in Job PROVE KillKept(j)'
      <4>1. SUFFICES ASSUME doc[j] \in Stored, j \in asked PROVE ToKill(j)'
        BY <3>1 DEF KillKept, Asked
      <4>2. (j \in asked) = TRUE
        BY <4>1
      <4>3. <<j, doc[j], TRUE>> \in cursor'
        BY <3>2, <4>1, <4>2
      <4>4. QED
        BY <4>1, <4>3 DEF ToKill
    <3>6. QED
      BY <3>3, <3>4, <3>5 DEF RestoredInv, Kept2
  <2>8. CASE EndSync
    <3>1. /\ UNCHANGED <<doc, asked, tracked, keys, killq, cpc, cursor, starting, marking, hands,
                         handler, synced, dropped>>
          /\ cursor = {} /\ spc' = "up"
      BY <2>8 DEF EndSync, Scheduler, mongo, lists, watchers, history
    <3>2. \A j \in Job : Kept2(j) => Kept2(j)'
      BY <3>1 DEF Kept2, RunningKept, KillKept, Runs, Asked, Followed, InHands, KillListed, Killed,
         ToPush, ToKey, ToKill
    <3>3. Sound'
      BY <1>2, <3>1 DEF RestoredInv, Sound
    <3>4. QED
      BY <1>2, <3>1, <3>2, <3>3 DEF RestoredInv
  <2>9. ASSUME NEW c \in cursor, Sync(c[1], c[2], c[3]) PROVE RestoredInv'
    <3>1. PICK j \in Job, s \in Stored, k \in BOOLEAN : c = <<j, s, k>>
      <4>1. c[2] \in Stored
        BY <2>9 DEF Sync, Stored
      <4>2. c \in Job \X (Stored \cup {"pushed"}) \X BOOLEAN
        BY <2>1
      <4>3. QED
        BY <4>1, <4>2
    <3>2. /\ UNCHANGED <<doc, asked, keys, cpc, spc, starting, marking, hands, handler, synced, dropped>>
          /\ Syncing /\ <<j, s, k>> \in cursor
          /\ killq' = IF k THEN [killq EXCEPT ![<<j, s>>] = @ + 1] ELSE killq
          /\ \/ /\ s = "pending" /\ cursor' = cursor \ {<<j, s, k>>} /\ UNCHANGED tracked
             \/ /\ s = "running"
                /\ tracked' = [tracked EXCEPT ![j] = @ + 1]
                /\ cursor' = (cursor \ {<<j, s, k>>}) \cup {<<j, "pushed", k>>}
      BY <2>9, <3>1 DEF Sync, mongo, watchers, history
    <3>3. /\ k => killq'[<<j, s>>] > 0
          /\ \A i \in Job, t \in Stored : killq[<<i, t>>] > 0 => killq'[<<i, t>>] > 0
      BY <2>1, <3>2
    <3>4. \A i \in Job : tracked[i] > 0 => tracked'[i] > 0
      BY <2>1, <3>2
    <3>5. \A e \in cursor : e # <<j, s, k>> => e \in cursor'
      BY <3>2
    <3>6. \A i \in Job : ToPush(i) => ToPush(i)' \/ ToKey(i)'
      <4> SUFFICES ASSUME NEW i \in Job, NEW h \in BOOLEAN, <<i, "running", h>> \in cursor
                   PROVE  ToPush(i)' \/ ToKey(i)'
        BY DEF ToPush
      <4>1. CASE <<i, "running", h>> = <<j, s, k>>
        <5>1. tracked'[i] > 0 /\ <<i, "pushed", h>> \in cursor'
          BY <2>1, <3>2, <4>1
        <5>2. QED
          BY <5>1 DEF ToKey
      <4>2. CASE <<i, "running", h>> # <<j, s, k>>
        BY <3>5, <4>2 DEF ToPush
      <4>3. QED
        BY <4>1, <4>2
    <3>7. \A i \in Job : ToKey(i) => ToKey(i)'
      BY <3>1, <3>4, <3>5 DEF ToKey, Stored
    <3>8. \A i \in Job : ToKill(i) => ToKill(i)' \/ KillListed(i)'
      BY <3>3, <3>5 DEF ToKill, KillListed
    <3>9. \A i \in Job : /\ Followed(i) => Followed(i)'
                         /\ KillListed(i) => KillListed(i)'
                         /\ Runs(i)' = Runs(i) /\ Asked(i)' = Asked(i)
      BY <3>2, <3>3, <3>4 DEF Followed, InHands, KillListed, Killed, Runs, Asked
    <3>10. \A i \in Job : Kept2(i) => Kept2(i)'
      BY <3>2, <3>6, <3>7, <3>8, <3>9 DEF Kept2, RunningKept, KillKept, Syncing
    <3>11. Sound'
      BY <1>2, <3>2 DEF RestoredInv, Sound
    <3>12. QED
      BY <1>2, <3>2, <3>10, <3>11 DEF RestoredInv
  <2>10. ASSUME NEW c \in cursor, SyncKey(c[1], c[3]) PROVE RestoredInv'
    <3>1. PICK j \in Job, k \in BOOLEAN : j = c[1] /\ k = c[3]
      BY <2>1
    <3>2. /\ UNCHANGED <<doc, asked, tracked, killq, cpc, spc, starting, marking, hands, handler,
                         synced, dropped>>
          /\ Syncing /\ keys' = keys \cup {j} /\ cursor' = cursor \ {<<j, "pushed", k>>}
      BY <2>10, <3>1 DEF SyncKey, mongo, counters, watchers, history
    <3>3. \A i \in Job : ToKey(i) => ToKey(i)' \/ Followed(i)'
      <4> SUFFICES ASSUME NEW i \in Job, NEW h \in BOOLEAN, <<i, "pushed", h>> \in cursor,
                          tracked[i] > 0
                   PROVE  ToKey(i)' \/ Followed(i)'
        BY DEF ToKey
      <4>1. CASE i = j
        BY <3>2, <4>1 DEF Followed
      <4>2. CASE i # j
        BY <3>2, <4>2 DEF ToKey
      <4>3. QED
        BY <4>1, <4>2
    <3>4. \A i \in Job : /\ ToPush(i) => ToPush(i)'
                         /\ ToKill(i) => ToKill(i)'
      BY <3>2 DEF ToPush, ToKill, Stored
    <3>5. \A i \in Job : /\ Followed(i) => Followed(i)'
                         /\ KillListed(i) => KillListed(i)'
                         /\ Runs(i)' = Runs(i) /\ Asked(i)' = Asked(i)
      BY <3>2 DEF Followed, InHands, KillListed, Killed, Runs, Asked
    <3>6. \A i \in Job : Kept2(i) => Kept2(i)'
      BY <3>2, <3>3, <3>4, <3>5 DEF Kept2, RunningKept, KillKept, Syncing
    <3>7. Sound'
      BY <1>2, <3>2 DEF RestoredInv, Sound
    <3>8. QED
      BY <1>2, <3>2, <3>6, <3>7 DEF RestoredInv
  <2>11. ASSUME NEW j \in Job, RejectQuota(j) PROVE RestoredInv'
    <3>1. /\ UNCHANGED <<asked, tracked, killq, cpc, scheduler, hands, handler, synced, dropped>>
          /\ doc[j] = "pending" /\ doc' = [doc EXCEPT ![j] = "over"] /\ keys' = keys \ {j}
      BY <2>11 DEF RejectQuota, Checks, watchers, history
    <3>2. \A i \in Job : i # j => (Kept2(i) => Kept2(i)')
      BY <2>1, <3>1, KeptOther DEF scheduler
    <3>3. Kept2(j)'
      BY <2>1, <3>1 DEF Kept2, RunningKept, KillKept, Runs, Asked, Stored
    <3>4. Sound'
      BY <1>2, <2>1, <3>1 DEF RestoredInv, Sound, scheduler
    <3>5. QED
      BY <1>2, <3>1, <3>2, <3>3, <3>4 DEF RestoredInv
  <2>12. ASSUME NEW j \in Job, CountOut(j) PROVE RestoredInv'
    <3>1. /\ UNCHANGED <<doc, asked, killq, cpc, spc, cursor, hands, handler, synced, dropped>>
          /\ j \in starting /\ marking = {} /\ starting' = starting \ {j} /\ marking' = {j}
          /\ keys' = keys \cup {j} /\ tracked' = [tracked EXCEPT ![j] = @ + 1]
      BY <2>12 DEF CountOut, mongo, watchers
    <3>2. tracked'[j] > 0 /\ \A i \in Job : i # j => tracked'[i] = tracked[i]
      BY <2>1, <3>1
    <3>3. \A i \in Job : i # j => (Kept2(i) => Kept2(i)')
      BY <3>1, <3>2, KeptOther
    <3>4. RunningKept(j)'
      BY <3>1, <3>2 DEF RunningKept, Followed
    <3>5. KillKept(j) => KillKept(j)'
      BY <3>1 DEF KillKept, Asked, KillListed, Killed, Syncing, ToKill
    <3>6. Sound'
      BY <1>2, <3>1 DEF RestoredInv, Sound
    <3>7. QED
      BY <1>2, <3>1, <3>3, <3>4, <3>5, <3>6 DEF RestoredInv, Kept2
  <2>13. ASSUME NEW j \in Job, MarkRunning(j) PROVE RestoredInv'
    <3>1. /\ UNCHANGED <<tracked, keys, killq, cpc, spc, cursor, starting, hands, handler, synced, dropped>>
          /\ j \in marking /\ marking' = marking \ {j}
          /\ \/ /\ doc[j] \in Stored /\ doc' = [doc EXCEPT ![j] = "running"]
                /\ asked' = asked \ {j}
             \/ doc[j] \notin Stored /\ UNCHANGED <<doc, asked>>
      BY <2>13 DEF MarkRunning, lists, watchers, history
    <3>2. \A i \in Job : i # j => (Kept2(i) => Kept2(i)')
      BY <2>1, <3>1, KeptOther
    <3>3. (Runs(j)' => Runs(j)) /\ (Asked(j)' => Asked(j))
      BY <2>1, <3>1 DEF Runs, Asked
    <3>4. (Followed(j)' = Followed(j)) /\ (KillListed(j)' = KillListed(j))
      BY <3>1 DEF Followed, InHands, KillListed, Killed
    <3>5. Kept2(j) => Kept2(j)'
      BY <3>1, <3>3, <3>4, KeptFrame
    <3>6. Sound'
      BY <1>2, <2>1, <3>1 DEF RestoredInv, Sound
    <3>7. QED
      BY <1>2, <3>1, <3>2, <3>5, <3>6 DEF RestoredInv
  <2>14. ASSUME NEW j \in Job, Drop(j) PROVE RestoredInv'
    <3>1. /\ UNCHANGED <<doc, asked, keys, killq, cpc, scheduler, hands, handler, synced>>
          /\ dropped' = dropped \cup {j} /\ tracked' = [tracked EXCEPT ![j] = @ - 1]
      BY <2>14 DEF Drop, TakeId, mongo, watchers
    <3>2. \A i \in Job : i # j => tracked'[i] = tracked[i]
      BY <2>1, <3>1
    <3>3. \A i \in Job \ {j} : Kept2(i) => Kept2(i)'
      BY <3>1, <3>2, KeptOther DEF scheduler
    <3>4. Sound'
      BY <1>2, <3>1 DEF RestoredInv, Sound, scheduler
    <3>5. QED
      BY <1>2, <3>1, <3>3, <3>4 DEF RestoredInv
  <2>15. ASSUME NEW j \in Job, Take(j) \/ PutBack(j) PROVE RestoredInv'
    <3>1. /\ UNCHANGED <<doc, asked, killq, cpc, scheduler, handler, synced, dropped>>
          /\ \A i \in Job : i # j => /\ tracked'[i] = tracked[i]
                                     /\ (i \in hands') = (i \in hands)
                                     /\ i \in keys => i \in keys'
          /\ j \in hands' \/ (tracked'[j] > 0 /\ j \in keys')
      BY <2>1, <2>15 DEF Take, PutBack, TakeId, mongo, history
    <3>2. Followed(j)'
      BY <3>1 DEF Followed, InHands
    <3>3. \A i \in Job : i # j => (Kept2(i) => Kept2(i)')
      BY <3>1, KeptOther DEF scheduler
    <3>4. KillKept(j) => KillKept(j)'
      BY <3>1 DEF KillKept, Asked, KillListed, Killed, Syncing, ToKill, scheduler
    <3>5. Sound'
      BY <1>2, <3>1 DEF RestoredInv, Sound, scheduler
    <3>6. QED
      BY <1>2, <3>1, <3>2, <3>3, <3>4, <3>5 DEF RestoredInv, Kept2, RunningKept
  <2>16. ASSUME NEW j \in Job, End(j) PROVE RestoredInv'
    <3>1. /\ UNCHANGED <<doc, asked, tracked, keys, killq, cpc, scheduler, synced, dropped>>
          /\ hands' = hands \ {j} /\ handler[<<j, "watch">>] = "none"
          /\ \/ doc[j] \notin Stored /\ handler' = handler
             \/ /\ doc[j] \in Stored
                /\ \E to \in {"end", "restart"} : handler' = [handler EXCEPT ![<<j, "watch">>] = to]
      BY <2>16 DEF End, mongo, lists, history
    <3>2. /\ \A i \in Job, h \in Handlers : i # j \/ h # "watch" => handler'[<<i, h>>] = handler[<<i, h>>]
          /\ doc[j] \in Stored => handler'[<<j, "watch">>] \in {"end", "restart"}
          /\ doc[j] \notin Stored => handler'[<<j, "watch">>] = "none"
      BY <2>1, <3>1
    <3>3. \A i \in Job : i # j => (Kept2(i) => Kept2(i)')
      BY <3>1, <3>2, KeptOther DEF scheduler
    <3>4. RunningKept(j)'
      <4>1. CASE doc[j] \in Stored
        <5>1. handler'[<<j, "watch">>] \in Steps \ {"none", "pending"}
          BY <3>2, <4>1 DEF Steps
        <5>2. InHands(j)'
          BY <2>1, <5>1 DEF InHands
        <5>3. QED
          BY <5>2 DEF RunningKept, Followed
      <4>2. CASE doc[j] \notin Stored
        BY <3>1, <4>2 DEF RunningKept, Runs, Stored
      <4>3. QED
        BY <4>1, <4>2
    <3>5. KillKept(j) => KillKept(j)'
      <4>1. Killed(j)' = Killed(j)
        BY <2>1, <3>2 DEF Killed
      <4>2. QED
        BY <3>1, <4>1 DEF KillKept, Asked, KillListed, Syncing, ToKill, scheduler
    <3>6. Sound'
      BY <1>2, <2>1, <3>1, <3>2 DEF RestoredInv, Sound, scheduler, Stored
    <3>7. QED
      BY <1>2, <3>1, <3>3, <3>4, <3>5, <3>6 DEF RestoredInv, Kept2
  <2>17. ASSUME NEW j \in Job, NEW s \in Stored, ServeKill(j, s) PROVE RestoredInv'
    <3>1. /\ UNCHANGED <<doc, asked, tracked, keys, cpc, scheduler, hands, synced, dropped>>
          /\ killq' = [killq EXCEPT ![<<j, s>>] = @ - 1]
          /\ Handle(j, "kill", "none", "look")
      BY <2>17 DEF ServeKill, mongo
    <3>2. /\ handler[<<j, "kill">>] = "none" /\ handler'[<<j, "kill">>] = "look"
          /\ \A i \in Job, h \in Handlers : i # j \/ h # "kill" => handler'[<<i, h>>] = handler[<<i, h>>]
      BY <1>2, <2>1, <3>1, HandlerAt
    <3>3. \A i \in Job, t \in Stored : i # j => killq'[<<i, t>>] = killq[<<i, t>>]
      BY <2>1, <3>1
    <3>4. \A i \in Job : i # j => (Kept2(i) => Kept2(i)')
      BY <3>1, <3>2, <3>3, KeptOther DEF scheduler
    <3>5. RunningKept(j) => RunningKept(j)'
      <4>1. InHands(j) => InHands(j)'
        BY <2>1, <3>1, <3>2 DEF InHands
      <4>2. QED
        BY <3>1, <4>1 DEF RunningKept, Runs, Followed, Syncing, ToPush, ToKey, scheduler
    <3>6. KillKept(j)'
      BY <3>2 DEF KillKept, KillListed, Killed
    <3>7. Sound'
      <4>1. \A i \in Job, h \in Handlers :
               handler'[<<i, h>>] \notin {"none", "look"} => doc[i] # "none"
        BY ONLY <1>2, <3>2 DEF RestoredInv, Sound
      <4>2. UNCHANGED <<doc, asked, cpc, spc, starting, marking>>
        BY <3>1 DEF scheduler
      <4>3. QED
        BY <1>2, <4>1, <4>2 DEF RestoredInv, Sound
    <3>8. QED
      BY <1>2, <3>1, <3>4, <3>5, <3>6, <3>7 DEF RestoredInv, Kept2
  <2>18. ASSUME NEW j \in Job, Look(j) PROVE RestoredInv'
    <3>1. /\ UNCHANGED <<doc, asked, tracked, keys, killq, cpc, scheduler, hands, synced, dropped>>
          /\ \E to \in {"none", "restart", "end"} : /\ Handle(j, "kill", "look", to)
                                                   /\ (to = "none") = (doc[j] \notin Stored)
      BY <2>18 DEF Look, mongo, lists, history
    <3>0. PICK to \in {"none", "restart", "end"} : /\ Handle(j, "kill", "look", to)
                                                  /\ (to = "none") = (doc[j] \notin Stored)
      BY <3>1
    <3>2. /\ handler'[<<j, "kill">>] \in {"none", "restart", "end"}
          /\ doc[j] \notin Stored => handler'[<<j, "kill">>] = "none"
          /\ doc[j] \in Stored => handler'[<<j, "kill">>] # "none"
          /\ \A i \in Job, h \in Handlers : i # j \/ h # "kill" => handler'[<<i, h>>] = handler[<<i, h>>]
      <4>1. /\ handler'[<<j, "kill">>] = to
            /\ \A i \in Job, h \in Handlers : i # j \/ h # "kill" => handler'[<<i, h>>] = handler[<<i, h>>]
        <5>1. Handle(j, "kill", "look", to) /\ "kill" \in Handlers
          BY <2>1, <3>0
        <5>2. QED
          BY <1>2, <5>1, HandlerAt
      <4>2. (to = "none") = (doc[j] \notin Stored)
        BY <3>0
      <4>3. QED
        BY <4>1, <4>2
    <3>3. \A i \in Job : i # j => (Kept2(i) => Kept2(i)')
      BY <3>1, <3>2, KeptOther DEF scheduler
    <3>4. Kept2(j)'
      <4>1. CASE doc[j] \in Stored
        <5>1. handler'[<<j, "kill">>] \in Steps \ {"none", "pending"}
          BY <3>2, <4>1 DEF Steps
        <5>2. InHands(j)' /\ Killed(j)'
          BY <2>1, <5>1 DEF InHands, Killed
        <5>3. QED
          BY <5>2 DEF Kept2, RunningKept, KillKept, Followed, KillListed
      <4>2. CASE doc[j] \notin Stored
        BY <3>1, <4>2 DEF Kept2, RunningKept, KillKept, Runs, Asked, Stored
      <4>3. QED
        BY <4>1, <4>2
    <3>5. Sound'
      BY <1>2, <2>1, <3>1, <3>2 DEF RestoredInv, Sound, scheduler, Stored
    <3>6. QED
      BY <1>2, <3>1, <3>3, <3>4, <3>5 DEF RestoredInv
  <2>19. ASSUME NEW j \in Job, NEW h \in Handlers, Remove(j, h) PROVE RestoredInv'
    <3>1. /\ UNCHANGED <<asked, keys, cpc, scheduler, tracked, killq, hands, synced, dropped>>
          /\ Handle(j, h, "end", "removed") /\ doc' = [doc EXCEPT ![j] = "removed"]
      BY <2>19 DEF Remove, lists
    <3>2. doc'[j] = "removed" /\ \A i \in Job : i # j => doc'[i] = doc[i]
      BY <2>1, <3>1
    <3>3. Kept2(j)'
      BY <3>2 DEF Kept2, RunningKept, KillKept, Runs, Asked, Stored
    <3>4. QED
      BY <1>2, <3>1, <3>2, <3>3, HandlerFrame
  <2>20. ASSUME NEW j \in Job, NEW h \in Handlers, AddUsage(j, h) PROVE RestoredInv'
    <3>1. /\ UNCHANGED <<doc, asked, keys, cpc, scheduler, tracked, killq, hands, synced, dropped>>
          /\ Handle(j, h, "removed", "added")
      BY <2>20 DEF AddUsage, lists, history
    <3>2. /\ handler[<<j, h>>] = "removed" /\ handler'[<<j, h>>] = "added"
          /\ \A i \in Job, g \in Handlers : i # j \/ g # h => handler'[<<i, g>>] = handler[<<i, g>>]
      BY <1>2, <3>1, HandlerAt
    <3>3. doc[j] # "none"
      BY <1>2, <3>2 DEF RestoredInv, Sound
    <3>4. /\ InHands(j)'
          /\ Killed(j) => Killed(j)'
      BY <2>1, <3>2 DEF InHands, Killed, Steps
    <3>5. Kept2(j) => Kept2(j)'
      BY <3>1, <3>4 DEF Kept2, RunningKept, KillKept, Followed, Asked, KillListed, Syncing,
         ToKill, scheduler
    <3>6. QED
      BY <1>2, <3>1, <3>3, <3>5, HandlerFrame
  <2>21. ASSUME NEW j \in Job, NEW h \in Handlers, Record(j, h) PROVE RestoredInv'
    <3>1. /\ UNCHANGED <<asked, cpc, scheduler, tracked, killq, hands, synced, dropped>>
          /\ keys' = keys \ {j}
          /\ Handle(j, h, "added", "none") /\ doc' = [doc EXCEPT ![j] = "over"]
      BY <2>21 DEF Record, history
    <3>2. doc'[j] = "over" /\ \A i \in Job : i # j => doc'[i] = doc[i]
      BY <2>1, <3>1
    <3>3. Kept2(j)'
      BY <3>2 DEF Kept2, RunningKept, KillKept, Runs, Asked, Stored
    <3>4. QED
      BY <1>2, <3>1, <3>2, <3>3, HandlerFrame
  <2>22. ASSUME NEW j \in Job, NEW h \in Handlers, CountBack(j, h) PROVE RestoredInv'
    <3>1. /\ UNCHANGED <<doc, asked, cpc, scheduler, tracked, killq, hands, synced, dropped>>
          /\ Handle(j, h, "restart", "counted") /\ keys' = keys \ {j}
      BY <2>22 DEF CountBack, mongo
    <3>2. /\ handler[<<j, h>>] = "restart" /\ handler'[<<j, h>>] = "counted"
          /\ \A i \in Job, g \in Handlers : i # j \/ g # h => handler'[<<i, g>>] = handler[<<i, g>>]
      BY <1>2, <3>1, HandlerAt
    <3>3. doc[j] # "none"
      BY <1>2, <3>2 DEF RestoredInv, Sound
    <3>4. /\ InHands(j)'
          /\ Killed(j) => Killed(j)'
      BY <2>1, <3>2 DEF InHands, Killed, Steps
    <3>5. Kept2(j) => Kept2(j)'
      BY <3>1, <3>4 DEF Kept2, RunningKept, KillKept, Followed, Asked, KillListed, Syncing,
         ToKill, scheduler
    <3>6. QED
      BY <1>2, <3>1, <3>3, <3>5, HandlerFrame
  <2>23. ASSUME NEW j \in Job, NEW h \in Handlers, PutToPending(j, h) PROVE RestoredInv'
    <3>1. /\ UNCHANGED <<keys, cpc, scheduler, tracked, killq, hands, synced>>
          /\ \E to \in {"pending", "none"} : Handle(j, h, "counted", to)
          /\ \/ /\ doc[j] \in Stored /\ doc' = [doc EXCEPT ![j] = "pending"]
                /\ asked' = asked \ {j}
             \/ doc[j] \notin Stored /\ UNCHANGED <<doc, asked>>
          /\ dropped' = dropped \cup (marking \cap {j})
      BY <2>23 DEF PutToPending, lists
    <3>2. handler[<<j, h>>] = "counted"
      BY <1>2, <3>1, HandlerAt
    <3>3. doc[j] # "none"
      BY <1>2, <3>2 DEF RestoredInv, Sound
    <3>4. doc'[j] # "none" /\ \A i \in Job : i # j => doc'[i] = doc[i]
      BY <2>1, <3>1, <3>3
    <3>5. ASSUME j \notin dropped' PROVE Kept2(j)'
      <4>1. j \notin marking'
        BY <3>1, <3>5 DEF scheduler
      <4>2. doc'[j] # "running" /\ (doc'[j] \notin Stored \/ j \notin asked')
        BY <2>1, <3>1 DEF Stored
      <4>3. QED
        BY <4>1, <4>2 DEF Kept2, RunningKept, KillKept, Runs, Asked
    <3>6. PICK to : Handle(j, h, "counted", to)
      BY <3>1
    <3>7. QED
      BY <1>2, <3>1, <3>4, <3>5, <3>6, HandlerFrame
  <2>24. ASSUME NEW j \in Job, DeleteKey(j) PROVE RestoredInv'
    <3>1. /\ UNCHANGED <<doc, asked, cpc, scheduler, tracked, killq, hands, synced>>
          /\ Handle(j, "watch", "pending", "none") /\ keys' = keys \ {j}
          /\ dropped' = dropped \cup (keys \cap {j})
      BY <2>24 DEF DeleteKey, mongo
    <3>2. /\ handler[<<j, "watch">>] = "pending" /\ handler'[<<j, "watch">>] = "none"
          /\ handler'[<<j, "kill">>] = handler[<<j, "kill">>]
      <4>1. Handle(j, "watch", "pending", "none")
        BY <3>1
      <4>2. /\ handler[<<j, "watch">>] = "pending" /\ handler'[<<j, "watch">>] = "none"
            /\ \A i \in Job, g \in Handlers : i # j \/ g # "watch" => handler'[<<i, g>>] = handler[<<i, g>>]
        BY <1>2, <2>1, <4>1, HandlerAt
      <4>3. QED
        BY <2>1, <4>2
    <3>3. doc[j] # "none"
      BY <1>2, <2>1, <3>2 DEF RestoredInv, Sound
    <3>4. ASSUME j \notin dropped', Kept2(j) PROVE Kept2(j)'
      <4>1. j \notin keys
        BY <3>1, <3>4
      <4>2. InHands(j) => InHands(j)'
        BY <2>1, <3>1, <3>2 DEF InHands
      <4>3. KillListed(j)' = KillListed(j)
        BY <3>1, <3>2 DEF KillListed, Killed
      <4>4. Followed(j) => Followed(j)'
        BY <4>1, <4>2 DEF Followed
      <4>5. UNCHANGED <<spc, cursor>> /\ Runs(j)' = Runs(j) /\ Asked(j)' = Asked(j)
        BY <3>1 DEF Runs, Asked, scheduler
      <4>6. QED
        BY <3>1, <3>4, <4>3, <4>4, <4>5, KeptFrame
    <3>5. QED
      BY <1>2, <2>1, <3>1, <3>3, <3>4, HandlerFrame
  <2>25. ASSUME NEW j \in Job, NEW size \in BOOLEAN, Archive(j, size) PROVE RestoredInv'
    <3>1. /\ UNCHANGED <<asked, tracked, keys, killq, cpc, scheduler, hands, handler, synced, dropped>>
          /\ doc' = doc \/ (doc[j] = "over" /\ doc' = [doc EXCEPT ![j] = "archived"])
      BY <2>25 DEF Archive, Flag, lists, watchers, history
    <3>2. \A i \in Job : /\ doc'[i] = doc[i] \/ doc'[i] \notin Stored
                         /\ doc'[i] = "none" <=> doc[i] = "none"
      BY <2>1, <3>1 DEF Stored
    <3>3. ASSUME NEW i \in Job PROVE Kept2(i) => Kept2(i)'
      <4>1. (Runs(i)' => Runs(i)) /\ (Asked(i)' => Asked(i))
        BY <3>1, <3>2 DEF Runs, Asked, Stored, scheduler
      <4>2. (Followed(i)' = Followed(i)) /\ (KillListed(i)' = KillListed(i))
        BY <3>1 DEF Followed, InHands, KillListed, Killed
      <4>3. QED
        BY <3>1, <4>1, <4>2, KeptFrame DEF scheduler
    <3>4. Sound'
      BY <1>2, <2>1, <3>1, <3>2 DEF RestoredInv, Sound, scheduler
    <3>5. QED
      BY <1>2, <3>1, <3>3, <3>4 DEF RestoredInv
  <2>26. CASE Lose
    <3>1. UNCHANGED <<doc, asked, cpc, scheduler, handler>> /\ synced' = FALSE
      BY <2>26 DEF Lose, mongo, watchers
    <3>2. QED
      BY <1>2, <3>1 DEF RestoredInv, Sound, scheduler
  <2>27. CASE StopScheduler
    <3>1. /\ UNCHANGED <<doc, asked, tracked, keys, killq, cpc, hands, handler, dropped>>
          /\ starting' = {} /\ marking' = {}
          /\ synced' = (synced /\ ~Syncing)
      BY <2>27 DEF StopScheduler, mongo, lists, watchers
    <3>2. ASSUME ~Syncing, NEW i \in Job PROVE Kept2(i) => Kept2(i)'
      BY <3>1, <3>2 DEF Kept2, RunningKept, KillKept, Runs, Asked, Followed, InHands, KillListed, Killed
    <3>3. Sound'
      BY <1>2, <3>1 DEF RestoredInv, Sound
    <3>4. QED
      BY <1>2, <3>1, <3>2, <3>3 DEF RestoredInv
  <2>28. ASSUME NEW j \in Job, \/ StopWatcher(j)
                               \/ \E h \in Handlers : StopHandler(j, h)
         PROVE  RestoredInv'
    <3>1. /\ UNCHANGED <<doc, asked, tracked, keys, killq, cpc, scheduler, synced>>
          /\ dropped' = dropped \cup {j}
          /\ hands' = hands \/ hands' = hands \ {j}
          /\ \/ handler' = handler
             \/ \E h \in Handlers : handler' = [handler EXCEPT ![<<j, h>>] = "none"]
      BY <2>28 DEF StopWatcher, StopHandler, mongo, lists
    <3>2. \A i \in Job, h \in Handlers : /\ i # j => handler'[<<i, h>>] = handler[<<i, h>>]
                                         /\ handler'[<<i, h>>] \in {"none", handler[<<i, h>>]}
      BY <2>1, <3>1
    <3>3. \A i \in Job \ {j} : Kept2(i) => Kept2(i)'
      BY <3>1, <3>2, KeptOther DEF scheduler
    <3>4. Sound'
      BY <1>2, <3>1, <3>2 DEF RestoredInv, Sound, scheduler
    <3>5. QED
      BY <1>2, <3>1, <3>3, <3>4 DEF RestoredInv
  <2>29. QED
    BY <1>2, <2>1, <2>2, <2>3, <2>4, <2>5, <2>6, <2>7, <2>8, <2>9, <2>10, <2>11, <2>12, <2>13, <2>14,
       <2>15, <2>16, <2>17, <2>18, <2>19, <2>20, <2>21, <2>22, <2>23, <2>24, <2>25, <2>26, <2>27,
       <2>28 DEF Next
<1>3. QED
  BY <1>1, <1>2, TypedCorrect, PTL DEF Spec

\* After check_redis restored Redis, every running job is in the list with its key
\* or in the hands of a watcher, and every kill request in its list or served,
\* whatever the clients, the watchers and the archiver did meanwhile; but for the jobs
\* a watcher dropped.
THEOREM RestoredCorrect == Spec => []Restored
<1>1. RestoredInv => Restored
  BY DEF RestoredInv, Restored, Kept2, RunningKept, KillKept, Runs, Asked, Followed, KillListed
<1>2. QED
  BY <1>1, RestoredInvCorrect, PTL

-----------------------------------------------------------------------------
(* The limit on the pending jobs of a user.                                *)

\* Sizes of sets of jobs.
LEMMA JobsSize ==
    ASSUME NEW T \in SUBSET Job
    PROVE  /\ IsFiniteSet(T) /\ Cardinality(T) \in Nat
           /\ \A S \in SUBSET T : Cardinality(S) <= Cardinality(T)
           /\ \A S \in SUBSET Job, j \in Job :
                 /\ S \subseteq T \cup {j} => Cardinality(S) <= Cardinality(T) + 1
                 /\ S \subseteq T /\ j \in T /\ j \notin S => Cardinality(S) <= Cardinality(T) - 1
           /\ \A S, R \in SUBSET Job : S \subseteq T \cup R
                                         => Cardinality(S) <= Cardinality(T) + Cardinality(R)
<1>1. \A S \in SUBSET Job : IsFiniteSet(S) /\ Cardinality(S) \in Nat
  BY AccountsAssumption, FS_Subset, FS_CardinalityType
<1>2. \A S \in SUBSET T : Cardinality(S) <= Cardinality(T)
  BY <1>1, FS_Subset
<1>3. ASSUME NEW S \in SUBSET Job, NEW j \in Job, S \subseteq T \cup {j}
      PROVE  Cardinality(S) <= Cardinality(T) + 1
  <2>1. Cardinality(T \cup {j}) <= Cardinality(T) + 1 /\ IsFiniteSet(T \cup {j})
    BY <1>1, FS_AddElement
  <2>2. Cardinality(S) <= Cardinality(T \cup {j})
    BY <1>3, <2>1, FS_Subset
  <2>3. T \cup {j} \in SUBSET Job
    OBVIOUS
  <2>4. QED
    BY <1>1, <2>1, <2>2, <2>3
<1>4. ASSUME NEW S \in SUBSET Job, NEW j \in Job, S \subseteq T, j \in T, j \notin S
      PROVE  Cardinality(S) <= Cardinality(T) - 1
  <2>1. Cardinality(T \ {j}) = Cardinality(T) - 1 /\ IsFiniteSet(T \ {j})
    BY <1>1, <1>4, FS_RemoveElement
  <2>2. S \in SUBSET (T \ {j})
    BY <1>4
  <2>3. Cardinality(S) <= Cardinality(T \ {j})
    BY <2>1, <2>2, FS_Subset
  <2>4. QED
    BY <1>1, <2>1, <2>3
<1>5. ASSUME NEW S \in SUBSET Job, NEW R \in SUBSET Job, S \subseteq T \cup R
      PROVE  Cardinality(S) <= Cardinality(T) + Cardinality(R)
  <2>1. /\ IsFiniteSet(T \cup R)
        /\ Cardinality(T \cup R) = Cardinality(T) + Cardinality(R) - Cardinality(T \cap R)
    BY <1>1, FS_Union
  <2>2. Cardinality(T \cap R) \in Nat /\ Cardinality(T) \in Nat /\ Cardinality(R) \in Nat
        /\ Cardinality(S) \in Nat
    BY <1>1
  <2>3. Cardinality(S) <= Cardinality(T \cup R)
    BY <1>5, <2>1, FS_Subset
  <2>4. QED
    BY <2>1, <2>2, <2>3
<1>6. QED
  BY <1>1, <1>2, <1>3, <1>4, <1>5

\* The jobs of a user that add_task has counted, or let in; those that a restart or a
\* reschedule has counted and not put back yet.
Coming(u) == {j \in Job : cpc[j] = "insert" /\ Owner[j] = u}
Entering(u) == {j \in InAddTask : Owner[j] = u}
Back(u, h) == {j \in Job : handler[<<j, h>>] = "counted" /\ Owner[j] = u}
Slack == IF parallel THEN Clients - 1 ELSE 0

\* What the counter of a user stands for, and what the limit is about.
Counted(u) ==
    Cardinality(Waiting(u) \cup Coming(u)) + Cardinality(Back(u, "watch")) + Cardinality(Back(u, "kill"))
First(u) == Cardinality((Waiting(u) \ again) \cup Entering(u))

\* The inductive invariant behind LimitHeld: the counter of a user is at least the
\* number of his jobs it stands for, and what add_task let in was below the limit.
LimitInv ==
    /\ Cardinality(InAddTask) <= Slack + 1
    /\ \A j \in Job, h \in Handlers : handler[<<j, h>>] = "counted" => j \in again
    /\ ~lost => \A u \in User : /\ Counted(u) <= rate[u] + spare[u]
                                /\ First(u) <= RateLimit + Slack + spare[u]

LEMMA SlackType == Slack \in Nat /\ RateLimit \in Nat
BY AccountsAssumption DEF Slack

LEMMA UserSets ==
    ASSUME NEW u
    PROVE  /\ Waiting(u) \cup Coming(u) \in SUBSET Job
           /\ (Waiting(u) \ again) \cup Entering(u) \in SUBSET Job
           /\ Waiting(u)' \cup Coming(u)' \in SUBSET Job
           /\ (Waiting(u)' \ again') \cup Entering(u)' \in SUBSET Job
           /\ \A h : Back(u, h) \in SUBSET Job /\ Back(u, h)' \in SUBSET Job
           /\ InAddTask \in SUBSET Job /\ InAddTask' \in SUBSET Job
BY DEF Waiting, Coming, Entering, Back, InAddTask

\* The numbers the invariant compares.
Sizes(u) ==
    /\ Cardinality(Waiting(u) \cup Coming(u)) \in Nat
    /\ Cardinality(Waiting(u)' \cup Coming(u)') \in Nat
    /\ Cardinality((Waiting(u) \ again) \cup Entering(u)) \in Nat
    /\ Cardinality((Waiting(u)' \ again') \cup Entering(u)') \in Nat
    /\ \A h : Cardinality(Back(u, h)) \in Nat /\ Cardinality(Back(u, h)') \in Nat
    /\ rate[u] \in Int /\ spare[u] \in Nat
    /\ rate'[u] \in Int /\ spare'[u] \in Nat
    /\ Counted(u) \in Nat /\ First(u) \in Nat
    /\ Counted(u)' \in Nat /\ First(u)' \in Nat

LEMMA UserSizes ==
    ASSUME Typed, Typed'
    PROVE  /\ Cardinality(InAddTask) \in Nat /\ Cardinality(InAddTask') \in Nat
           /\ \A u \in User : Sizes(u)
<1>1. \A u \in User : /\ rate[u] \in Int /\ spare[u] \in Nat
                      /\ rate'[u] \in Int /\ spare'[u] \in Nat
  BY DEF Typed, CountersTyped, HistoryTyped
<1>2. \A S \in SUBSET Job : Cardinality(S) \in Nat
  BY JobsSize
<1>3. ASSUME NEW u \in User PROVE Sizes(u)
  <2>1. /\ Cardinality(Waiting(u) \cup Coming(u)) \in Nat
        /\ Cardinality(Waiting(u)' \cup Coming(u)') \in Nat
        /\ Cardinality((Waiting(u) \ again) \cup Entering(u)) \in Nat
        /\ Cardinality((Waiting(u)' \ again') \cup Entering(u)') \in Nat
        /\ \A h : Cardinality(Back(u, h)) \in Nat /\ Cardinality(Back(u, h)') \in Nat
    BY <1>2, UserSets
  <2>2. Counted(u) \in Nat /\ First(u) \in Nat /\ Counted(u)' \in Nat /\ First(u)' \in Nat
    BY <2>1 DEF Counted, First
  <2>3. QED
    BY <1>1, <2>1, <2>2 DEF Sizes
<1>4. QED
  BY <1>2, <1>3, UserSets

\* Steps of the scheduler and of the watchers that leave the balance of every user.
LEMMA LimitFrame ==
    ASSUME Typed, Typed', LimitInv, UNCHANGED <<cpc, parallel, lost>>,
           \A j \in Job, h \in Handlers : handler'[<<j, h>>] = "counted" => j \in again',
           ~lost => \A u \in User :
               /\ Counted(u)' - rate'[u] - spare'[u] <= Counted(u) - rate[u] - spare[u]
               /\ First(u)' - spare'[u] <= First(u) - spare[u]
    PROVE  LimitInv'
<1>1. InAddTask' = InAddTask /\ Slack' = Slack
  BY DEF InAddTask, Slack
<1>2. ASSUME ~lost, NEW u \in User
      PROVE  /\ Counted(u)' <= rate'[u] + spare'[u]
             /\ First(u)' <= RateLimit + Slack + spare'[u]
  <2>1. Counted(u) <= rate[u] + spare[u] /\ First(u) <= RateLimit + Slack + spare[u]
    BY <1>2 DEF LimitInv
  <2>2. /\ Counted(u)' - rate'[u] - spare'[u] <= Counted(u) - rate[u] - spare[u]
        /\ First(u)' - spare'[u] <= First(u) - spare[u]
    BY <1>2
  <2>3. Sizes(u)
    BY UserSizes
  <2>4. QED
    BY <2>1, <2>2, <2>3, SlackType DEF Sizes
<1>3. QED
  BY <1>1, <1>2 DEF LimitInv

\* For a user none of whose jobs starts to wait or to come back.
LEMMA FewerOfUser ==
    ASSUME Typed, Typed', cpc' = cpc, again \subseteq again', NEW u \in User,
           Waiting(u)' \subseteq Waiting(u), \A h \in Handlers : Back(u, h)' \subseteq Back(u, h)
    PROVE  /\ Cardinality(Waiting(u)' \cup Coming(u)') <= Cardinality(Waiting(u) \cup Coming(u))
           /\ \A h \in Handlers : Cardinality(Back(u, h)') <= Cardinality(Back(u, h))
           /\ Counted(u)' <= Counted(u) /\ First(u)' <= First(u)
<1>1. Coming(u)' = Coming(u) /\ Entering(u)' = Entering(u)
  BY DEF InAddTask, Coming, Entering
<1>2. /\ Waiting(u)' \cup Coming(u)' \in SUBSET (Waiting(u) \cup Coming(u))
      /\ (Waiting(u)' \ again') \cup Entering(u)' \in SUBSET ((Waiting(u) \ again) \cup Entering(u))
  BY <1>1
<1>3. /\ Cardinality(Waiting(u)' \cup Coming(u)') <= Cardinality(Waiting(u) \cup Coming(u))
      /\ Cardinality((Waiting(u)' \ again') \cup Entering(u)') <= Cardinality((Waiting(u) \ again) \cup Entering(u))
      /\ \A h \in Handlers : Cardinality(Back(u, h)') <= Cardinality(Back(u, h))
  BY <1>2, UserSets, JobsSize
<1>4. "watch" \in Handlers /\ "kill" \in Handlers
  BY DEF Handlers
<1>5. Counted(u)' <= Counted(u) /\ First(u)' <= First(u)
  <2>1. Sizes(u)
    BY UserSizes
  <2>2. QED
    BY <1>3, <1>4, <2>1 DEF Sizes, Counted, First
<1>6. QED
  BY <1>3, <1>5

\* Steps that let no job in and take none off a counter.
LEMMA FewerWaiting ==
    ASSUME Typed, Typed', LimitInv, UNCHANGED <<cpc, rate, spare, lost, again, parallel>>,
           \A u \in User : Waiting(u)' \subseteq Waiting(u),
           \A j \in Job, h \in Handlers :
               handler'[<<j, h>>] = "counted" => handler[<<j, h>>] = "counted"
    PROVE  LimitInv'
<1>1. \A u \in User, h \in Handlers : Back(u, h)' \subseteq Back(u, h)
  BY DEF Back
<1>2. ASSUME NEW u \in User
      PROVE  /\ Counted(u)' - rate'[u] - spare'[u] <= Counted(u) - rate[u] - spare[u]
             /\ First(u)' - spare'[u] <= First(u) - spare[u]
  <2>1. Counted(u)' <= Counted(u) /\ First(u)' <= First(u)
    BY <1>1, FewerOfUser
  <2>2. rate'[u] = rate[u] /\ spare'[u] = spare[u] /\ Sizes(u)
    BY UserSizes
  <2>3. QED
    BY <2>1, <2>2 DEF Sizes
<1>3. \A j \in Job, h \in Handlers : handler'[<<j, h>>] = "counted" => j \in again'
  BY DEF LimitInv
<1>4. QED
  BY <1>2, <1>3, LimitFrame

\* Steps that take one off the counter of the owner of j: j was waiting and waits no
\* more, or the step is counted as spare.
LEMMA CountedOff ==
    ASSUME Typed, Typed', LimitInv, UNCHANGED <<cpc, lost, again, parallel>>,
           NEW j \in Job,
           rate' = [rate EXCEPT ![Owner[j]] = @ - 1],
           \A u \in User : Waiting(u)' \subseteq Waiting(u),
           \A i \in Job, h \in Handlers :
               handler'[<<i, h>>] = "counted" => handler[<<i, h>>] = "counted",
           \/ spare' = [spare EXCEPT ![Owner[j]] = @ + 1]
           \/ /\ spare' = spare /\ cpc[j] = "done"
              /\ j \in Waiting(Owner[j]) /\ j \notin Waiting(Owner[j])'
    PROVE  LimitInv'
<1>1. /\ rate \in [User -> Int] /\ spare \in [User -> Nat] /\ Owner[j] \in User
      /\ "watch" \in Handlers /\ "kill" \in Handlers
  BY AccountsAssumption DEF Typed, CountersTyped, HistoryTyped, Handlers
<1>2. \A u \in User, h \in Handlers : Back(u, h)' \subseteq Back(u, h)
  BY DEF Back
<1>3. ASSUME NEW u \in User
      PROVE  /\ Counted(u)' - rate'[u] - spare'[u] <= Counted(u) - rate[u] - spare[u]
             /\ First(u)' - spare'[u] <= First(u) - spare[u]
  <2>1. /\ Counted(u)' <= Counted(u) /\ First(u)' <= First(u)
        /\ \A h \in Handlers : Cardinality(Back(u, h)') <= Cardinality(Back(u, h))
    BY <1>2, FewerOfUser
  <2>2. Sizes(u)
    BY UserSizes
  <2>3. CASE u # Owner[j]
    <3>1. rate'[u] = rate[u] /\ spare'[u] = spare[u]
      BY <1>1, <2>3
    <3>2. QED
      BY <2>1, <2>2, <3>1 DEF Sizes
  <2>4. CASE u = Owner[j] /\ spare' = [spare EXCEPT ![Owner[j]] = @ + 1]
    <3>1. rate'[u] = rate[u] - 1 /\ spare'[u] = spare[u] + 1
      BY <1>1, <2>4
    <3>2. QED
      BY <2>1, <2>2, <3>1 DEF Sizes
  <2>5. CASE /\ u = Owner[j] /\ spare' = spare /\ cpc[j] = "done"
             /\ j \in Waiting(Owner[j]) /\ j \notin Waiting(Owner[j])'
    <3>1. rate'[u] = rate[u] - 1 /\ spare'[u] = spare[u]
      BY <1>1, <2>5
    <3>2. j \notin Coming(u) /\ Coming(u)' = Coming(u)
      BY <2>5 DEF Coming
    <3>3. /\ Waiting(u)' \cup Coming(u)' \subseteq Waiting(u) \cup Coming(u)
          /\ j \in Waiting(u) \cup Coming(u) /\ j \notin Waiting(u)' \cup Coming(u)'
      BY <2>5, <3>2
    <3>4. Cardinality(Waiting(u)' \cup Coming(u)') <= Cardinality(Waiting(u) \cup Coming(u)) - 1
      BY <3>3, UserSets, JobsSize
    <3>5. Counted(u)' <= Counted(u) - 1
      BY <1>1, <2>1, <2>2, <3>4 DEF Sizes, Counted
    <3>6. QED
      BY <2>1, <2>2, <3>1, <3>5 DEF Sizes
  <2>6. QED
    BY <2>3, <2>4, <2>5
<1>4. \A i \in Job, h \in Handlers : handler'[<<i, h>>] = "counted" => i \in again'
  BY DEF LimitInv
<1>5. QED
  BY <1>3, <1>4, LimitFrame

\* Steps after which j may wait: it was counted back, or the step is counted as spare.
LEMMA OneWaits ==
    ASSUME Typed, Typed', LimitInv, UNCHANGED <<cpc, rate, lost, again, parallel>>,
           NEW j \in Job,
           \A u \in User : Waiting(u)' \subseteq Waiting(u) \cup {j},
           \A i \in Job, h \in Handlers :
               handler'[<<i, h>>] = "counted" => handler[<<i, h>>] = "counted",
           \/ spare' = [spare EXCEPT ![Owner[j]] = @ + 1]
           \/ /\ spare' = spare
              /\ \E h \in Handlers : handler[<<j, h>>] = "counted" /\ handler'[<<j, h>>] # "counted"
    PROVE  LimitInv'
<1>1. /\ spare \in [User -> Nat] /\ Owner[j] \in User
      /\ Handlers = {"watch", "kill"}
  BY AccountsAssumption DEF Typed, HistoryTyped, Handlers
<1>2. \A u \in User, h \in Handlers : Back(u, h)' \subseteq Back(u, h)
  BY DEF Back
<1>3. ASSUME NEW u \in User
      PROVE  /\ Counted(u)' - rate'[u] - spare'[u] <= Counted(u) - rate[u] - spare[u]
             /\ First(u)' - spare'[u] <= First(u) - spare[u]
  <2>1. Sizes(u) /\ rate'[u] = rate[u]
    BY UserSizes
  <2>2. Coming(u)' = Coming(u) /\ Entering(u)' = Entering(u)
    BY DEF InAddTask, Coming, Entering
  <2>3. CASE u # Owner[j]
    <3>1. Waiting(u)' \subseteq Waiting(u)
      BY <2>3 DEF Waiting
    <3>2. Counted(u)' <= Counted(u) /\ First(u)' <= First(u)
      BY <1>2, <3>1, FewerOfUser
    <3>3. spare'[u] = spare[u]
      BY <1>1, <2>3
    <3>4. QED
      BY <2>1, <3>2, <3>3 DEF Sizes
  <2>4. CASE u = Owner[j]
    <3>1. Cardinality(Waiting(u)' \cup Coming(u)') <= Cardinality(Waiting(u) \cup Coming(u)) + 1
      <4>1. Waiting(u)' \cup Coming(u)' \subseteq (Waiting(u) \cup Coming(u)) \cup {j}
        BY <2>2
      <4>2. QED
        BY <4>1, UserSets, JobsSize
    <3>2. \A h \in Handlers : Cardinality(Back(u, h)') <= Cardinality(Back(u, h))
      BY <1>2, UserSets, JobsSize
    <3>3. CASE spare' = [spare EXCEPT ![Owner[j]] = @ + 1]
      <4>1. spare'[u] = spare[u] + 1
        BY <1>1, <2>4, <3>3
      <4>2. (Waiting(u)' \ again') \cup Entering(u)' \subseteq ((Waiting(u) \ again) \cup Entering(u)) \cup {j}
        BY <2>2
      <4>3. First(u)' <= First(u) + 1
        BY <4>2, UserSets, JobsSize DEF First
      <4>4. Counted(u)' <= Counted(u) + 1
        BY <1>1, <2>1, <3>1, <3>2 DEF Sizes, Counted
      <4>5. QED
        BY <2>1, <4>1, <4>3, <4>4 DEF Sizes
    <3>4. ASSUME spare' = spare, NEW h \in Handlers,
                 handler[<<j, h>>] = "counted", handler'[<<j, h>>] # "counted"
          PROVE  /\ Counted(u)' - rate'[u] - spare'[u] <= Counted(u) - rate[u] - spare[u]
                 /\ First(u)' - spare'[u] <= First(u) - spare[u]
      <4>1. j \in again
        BY <3>4 DEF LimitInv
      <4>2. (Waiting(u)' \ again') \cup Entering(u)' \in SUBSET ((Waiting(u) \ again) \cup Entering(u))
        BY <2>2, <4>1
      <4>3. First(u)' <= First(u)
        BY <4>2, UserSets, JobsSize DEF First
      <4>4. j \in Back(u, h) /\ j \notin Back(u, h)'
        BY <2>4, <3>4 DEF Back
      <4>5. Cardinality(Back(u, h)') <= Cardinality(Back(u, h)) - 1
        BY <1>2, <4>4, UserSets, JobsSize
      <4>6. Counted(u)' <= Counted(u)
        BY <1>1, <2>1, <3>1, <3>2, <4>5 DEF Sizes, Counted
      <4>7. QED
        BY <2>1, <3>4, <4>3, <4>6 DEF Sizes
    <3>5. QED
      BY <3>3, <3>4
  <2>5. QED
    BY <2>3, <2>4
<1>4. \A i \in Job, h \in Handlers : handler'[<<i, h>>] = "counted" => i \in again'
  BY DEF LimitInv
<1>5. QED
  BY <1>3, <1>4, LimitFrame

\* The steps of add_task keep what is let in at the same time within Slack.
LEMMA ClientSlack ==
    ASSUME Typed, Typed', NEW j \in Job, NEW from, NEW to, Client(j, from, to),
           Cardinality(InAddTask') <= Clients
    PROVE  /\ Slack' \in Nat /\ Slack <= Slack'
           /\ Cardinality(InAddTask') <= Slack' + 1
<1>0. Cardinality(InAddTask) \in Nat /\ Cardinality(InAddTask') \in Nat
  BY UserSizes
<1>1. /\ parallel' = (parallel \/ Cardinality(InAddTask') > 1)
      /\ parallel \in BOOLEAN /\ parallel' \in BOOLEAN
  BY DEF Client, Typed, HistoryTyped
<1>2. Clients \in Nat \ {0}
  BY AccountsAssumption
<1>3. Slack' = IF parallel' THEN Clients - 1 ELSE 0
  BY DEF Slack
<1>4. CASE parallel'
  BY <1>2, <1>3, <1>4, <1>0 DEF Slack
<1>5. CASE ~parallel'
  <2>1. ~parallel /\ ~(Cardinality(InAddTask') > 1)
    BY <1>1, <1>5
  <2>2. Slack = 0 /\ Slack' = 0
    BY <1>3, <1>5, <2>1 DEF Slack
  <2>3. QED
    BY <1>0, <2>1, <2>2
<1>6. QED
  BY <1>4, <1>5

\* No interleaving of submissions, decisions of the scheduler, kills, restarts and ends
\* takes the counter of a user below what it stands for.
THEOREM LimitInvCorrect == Spec => []LimitInv
<1>1. Init => LimitInv
  <2> SUFFICES ASSUME Init PROVE LimitInv
    OBVIOUS
  <2>0. \A j \in Job, h \in Handlers : handler[<<j, h>>] = "none"
    BY DEF Init
  <2>1. /\ InAddTask = {} /\ Slack = 0
        /\ \A u \in User : Waiting(u) = {} /\ Coming(u) = {} /\ Entering(u) = {}
    BY DEF Init, InAddTask, Slack, Waiting, Coming, Entering
  <2>2. \A u \in User : rate[u] = 0 /\ spare[u] = 0
    BY DEF Init
  <2>3. \A u : Back(u, "watch") = {} /\ Back(u, "kill") = {}
    BY <2>0 DEF Back, Handlers
  <2>4. \A u \in User : Counted(u) = 0 /\ First(u) = 0
    <3>1. \A u \in User : Waiting(u) \cup Coming(u) = {} /\ (Waiting(u) \ again) \cup Entering(u) = {}
      BY <2>1
    <3>2. QED
      BY <2>3, <3>1, FS_EmptySet DEF Counted, First
  <2>5. QED
    BY <2>0, <2>1, <2>2, <2>4, FS_EmptySet, SlackType DEF LimitInv
<1>2. ASSUME Typed, Typed', RestoredInv, LimitInv, [Next]_vars PROVE LimitInv'
  <2>1. /\ doc \in [Job -> {"none", "removed"} \cup Stored \cup Recorded]
        /\ cpc \in [Job -> {"check", "count", "insert", "done", "refused"}]
        /\ rate \in [User -> Int] /\ spare \in [User -> Nat]
        /\ handler \in [Job \X Handlers -> Steps]
        /\ starting \subseteq Job /\ marking \subseteq Job
        /\ Handlers = {"watch", "kill"}
    BY <1>2 DEF Typed, MongoTyped, CountersTyped, ProcessesTyped, HistoryTyped, Handlers
  <2>2. /\ \A j \in Job : cpc[j] # "done" => doc[j] = "none"
        /\ \A i, j \in marking : i = j
        /\ \A j \in Job, h \in Handlers : handler[<<j, h>>] = "counted" => j \in again
    BY <1>2 DEF RestoredInv, Sound, LimitInv
  <2>3. ASSUME NEW j \in Job, Check(j) PROVE LimitInv'
    <3>1. /\ UNCHANGED <<doc, handler, marking, rate, spare, lost, again>>
          /\ cpc[j] = "check" /\ Cardinality(InAddTask) < Clients
          /\ \/ cpc' = [cpc EXCEPT ![j] = "refused"]
             \/ cpc' = [cpc EXCEPT ![j] = "count"] /\ ~(rate[Owner[j]] >= RateLimit)
      BY <2>3 DEF Check, Client, mongo, counters, scheduler, watchers
    <3>2. /\ InAddTask \in SUBSET Job /\ InAddTask' \in SUBSET Job
          /\ InAddTask' \subseteq InAddTask \cup {j}
      BY <2>1, <3>1 DEF InAddTask
    <3>3. Cardinality(InAddTask') <= Clients
      <4>1. Cardinality(InAddTask') <= Cardinality(InAddTask) + 1
        BY <3>2, JobsSize
      <4>2. Cardinality(InAddTask) \in Nat /\ Cardinality(InAddTask') \in Nat /\ Clients \in Nat
        BY <1>2, UserSizes, AccountsAssumption
      <4>3. QED
        BY <3>1, <4>1, <4>2
    <3>4. /\ Slack' \in Nat /\ Slack <= Slack'
          /\ Cardinality(InAddTask') <= Slack' + 1
      BY <1>2, <2>3, <3>3, ClientSlack DEF Check
    <3>5. ASSUME ~lost, NEW u \in User
          PROVE  /\ Counted(u)' <= rate[u] + spare[u]
                 /\ First(u)' <= RateLimit + Slack' + spare[u]
      <4>1. Sizes(u)
        BY <1>2, UserSizes
      <4>2. Counted(u) <= rate[u] + spare[u] /\ First(u) <= RateLimit + Slack + spare[u]
        BY <1>2, <3>5 DEF LimitInv
      <4>3. /\ Waiting(u)' = Waiting(u) /\ Coming(u)' = Coming(u)
            /\ Back(u, "watch")' = Back(u, "watch") /\ Back(u, "kill")' = Back(u, "kill")
        BY <2>1, <3>1 DEF Waiting, Killed, Coming, Back
      <4>4. Counted(u)' = Counted(u)
        BY <4>3 DEF Counted
      <4>5. CASE j \in InAddTask' /\ Owner[j] = u
        <5>1. rate[u] < RateLimit
          <6>1. ~(rate[u] >= RateLimit)
            BY <2>1, <3>1, <4>5 DEF InAddTask
          <6>2. QED
            BY <4>1, <6>1, SlackType DEF Sizes
        <5>2. (Waiting(u)' \ again') \cup Entering(u)' \subseteq (Waiting(u) \cup Coming(u)) \cup InAddTask'
          BY <4>3 DEF Entering
        <5>3. First(u)' <= Cardinality(Waiting(u) \cup Coming(u)) + Cardinality(InAddTask')
          BY <5>2, UserSets, JobsSize DEF First
        <5>4. Cardinality(InAddTask') \in Nat
          BY <1>2, UserSizes
        <5>5. Cardinality(Waiting(u) \cup Coming(u)) <= Counted(u)
          BY <4>1 DEF Sizes, Counted
        <5>6. QED
          BY <3>4, <4>1, <4>2, <4>4, <5>1, <5>3, <5>4, <5>5, SlackType DEF Sizes
      <4>6. CASE ~(j \in InAddTask' /\ Owner[j] = u)
        <5>1. Entering(u)' \subseteq Entering(u)
          BY <3>2, <4>6 DEF Entering
        <5>2. (Waiting(u)' \ again') \cup Entering(u)' \in SUBSET ((Waiting(u) \ again) \cup Entering(u))
          BY <3>1, <4>3, <5>1
        <5>3. First(u)' <= First(u)
          BY <5>2, UserSets, JobsSize DEF First
        <5>4. QED
          BY <3>4, <4>1, <4>2, <4>4, <5>3, SlackType DEF Sizes
      <4>7. QED
        BY <4>5, <4>6
    <3>6. QED
      BY <2>2, <3>1, <3>4, <3>5 DEF LimitInv
  <2>4. ASSUME NEW j \in Job, Count(j) PROVE LimitInv'
    <3>1. /\ UNCHANGED <<doc, handler, marking, spare, lost, again>>
          /\ cpc[j] = "count" /\ cpc' = [cpc EXCEPT ![j] = "insert"]
          /\ rate' = [rate EXCEPT ![Owner[j]] = @ + 1]
      BY <2>4 DEF Count, Client, mongo, scheduler, watchers
    <3>2. InAddTask' = InAddTask
      BY <2>1, <3>1 DEF InAddTask
    <3>3. Cardinality(InAddTask') <= Clients
      <4>1. Cardinality(InAddTask) <= Slack + 1 /\ Cardinality(InAddTask) \in Nat
        BY <1>2, UserSizes DEF LimitInv
      <4>2. QED
        BY <3>2, <4>1, AccountsAssumption DEF Slack
    <3>4. /\ Slack' \in Nat /\ Slack <= Slack'
          /\ Cardinality(InAddTask') <= Slack' + 1
      BY <1>2, <2>4, <3>3, ClientSlack DEF Count
    <3>5. ASSUME ~lost, NEW u \in User
          PROVE  /\ Counted(u)' <= rate'[u] + spare[u]
                 /\ First(u)' <= RateLimit + Slack' + spare[u]
      <4>1. Sizes(u)
        BY <1>2, UserSizes
      <4>2. Counted(u) <= rate[u] + spare[u] /\ First(u) <= RateLimit + Slack + spare[u]
        BY <1>2, <3>5 DEF LimitInv
      <4>3. /\ Waiting(u)' = Waiting(u) /\ Entering(u)' = Entering(u) /\ again' = again
            /\ Back(u, "watch")' = Back(u, "watch") /\ Back(u, "kill")' = Back(u, "kill")
        BY <3>1, <3>2 DEF Waiting, Killed, Entering, Back
      <4>4. First(u)' = First(u)
        BY <4>3 DEF First
      <4>5. CASE Owner[j] = u
        <5>1. rate'[u] = rate[u] + 1
          BY <2>1, <3>1, <4>5
        <5>2. Waiting(u)' \cup Coming(u)' \subseteq (Waiting(u) \cup Coming(u)) \cup {j}
          BY <2>1, <3>1, <4>3 DEF Coming
        <5>3. Cardinality(Waiting(u)' \cup Coming(u)') <= Cardinality(Waiting(u) \cup Coming(u)) + 1
          BY <5>2, UserSets, JobsSize
        <5>4. Counted(u)' <= Counted(u) + 1
          BY <4>1, <4>3, <5>3 DEF Sizes, Counted
        <5>5. QED
          BY <3>4, <4>1, <4>2, <4>4, <5>1, <5>4, SlackType DEF Sizes
      <4>6. CASE Owner[j] # u
        <5>1. rate'[u] = rate[u]
          BY <2>1, <3>1, <4>6
        <5>2. Coming(u)' = Coming(u)
          BY <2>1, <3>1, <4>6 DEF Coming
        <5>3. Counted(u)' = Counted(u)
          BY <4>3, <5>2 DEF Counted
        <5>4. QED
          BY <3>4, <4>1, <4>2, <4>4, <5>1, <5>3, SlackType DEF Sizes
      <4>7. QED
        BY <4>5, <4>6
    <3>6. QED
      BY <2>2, <3>1, <3>4, <3>5 DEF LimitInv
  <2>5. ASSUME NEW j \in Job, Insert(j) PROVE LimitInv'
    <3>1. /\ UNCHANGED <<handler, marking, rate, spare, lost, again>>
          /\ cpc[j] = "insert" /\ cpc' = [cpc EXCEPT ![j] = "done"]
          /\ doc' = [doc EXCEPT ![j] = "pending"]
      BY <2>5 DEF Insert, Client, counters, scheduler, watchers
    <3>2. InAddTask' \in SUBSET InAddTask
      BY <2>1, <3>1 DEF InAddTask
    <3>3. Cardinality(InAddTask') <= Clients
      <4>1. Cardinality(InAddTask') <= Cardinality(InAddTask)
        BY <3>2, UserSets, JobsSize
      <4>2. /\ Cardinality(InAddTask) <= Slack + 1
            /\ Cardinality(InAddTask) \in Nat /\ Cardinality(InAddTask') \in Nat
        BY <1>2, UserSizes DEF LimitInv
      <4>3. QED
        BY <4>1, <4>2, AccountsAssumption DEF Slack
    <3>4. /\ Slack' \in Nat /\ Slack <= Slack'
          /\ Cardinality(InAddTask') <= Slack' + 1
      BY <1>2, <2>5, <3>3, ClientSlack DEF Insert
    <3>5. ASSUME ~lost, NEW u \in User
          PROVE  /\ Counted(u)' <= rate[u] + spare[u]
                 /\ First(u)' <= RateLimit + Slack' + spare[u]
      <4>1. Sizes(u)
        BY <1>2, UserSizes
      <4>2. Counted(u) <= rate[u] + spare[u] /\ First(u) <= RateLimit + Slack + spare[u]
        BY <1>2, <3>5 DEF LimitInv
      <4>3. /\ Waiting(u)' \cup Coming(u)' \in SUBSET (Waiting(u) \cup Coming(u))
            /\ (Waiting(u)' \ again') \cup Entering(u)' \in SUBSET ((Waiting(u) \ again) \cup Entering(u))
            /\ Back(u, "watch")' = Back(u, "watch") /\ Back(u, "kill")' = Back(u, "kill")
        BY <2>1, <3>1 DEF Waiting, Killed, Coming, Entering, InAddTask, Back
      <4>4. /\ Cardinality(Waiting(u)' \cup Coming(u)') <= Cardinality(Waiting(u) \cup Coming(u))
            /\ First(u)' <= First(u)
        BY <4>3, UserSets, JobsSize DEF First
      <4>5. Counted(u)' <= Counted(u)
        BY <4>1, <4>3, <4>4 DEF Sizes, Counted
      <4>6. QED
        BY <3>4, <4>1, <4>2, <4>4, <4>5, SlackType DEF Sizes
    <3>6. QED
      BY <2>2, <3>1, <3>4, <3>5 DEF LimitInv
  <2>6. ASSUME NEW j \in Job, CountOut(j) PROVE LimitInv'
    <3>1. /\ UNCHANGED <<doc, handler, cpc, lost, again, parallel>>
          /\ j \in starting /\ marking = {} /\ marking' = {j}
          /\ rate' = [rate EXCEPT ![Owner[j]] = @ - 1]
          /\ spare' = IF j \in Waiting(Owner[j]) THEN spare ELSE [spare EXCEPT ![Owner[j]] = @ + 1]
      BY <2>6 DEF CountOut, Uncounted, mongo, watchers
    <3>2. /\ \A u \in User : Waiting(u)' \subseteq Waiting(u) /\ j \notin Waiting(u)'
          /\ Owner[j] \in User
      BY <3>1, AccountsAssumption DEF Waiting, Killed
    <3>3. j \in Waiting(Owner[j]) => cpc[j] = "done"
      BY <2>2 DEF Waiting
    <3>4. QED
      BY <1>2, <3>1, <3>2, <3>3, CountedOff
  <2>7. ASSUME NEW j \in Job, NEW s \in Stored, ServeKill(j, s) PROVE LimitInv'
    <3>1. /\ UNCHANGED <<doc, marking, cpc, lost, again, parallel>>
          /\ Handle(j, "kill", "none", "look")
          /\ \/ /\ s = "pending" /\ rate' = [rate EXCEPT ![Owner[j]] = @ - 1]
                /\ spare' = IF j \notin Waiting(Owner[j]) THEN [spare EXCEPT ![Owner[j]] = @ + 1] ELSE spare
             \/ s # "pending" /\ UNCHANGED <<rate, spare>>
      BY <2>7 DEF ServeKill, Uncounted, mongo, scheduler
    <3>2. /\ handler[<<j, "kill">>] = "none" /\ handler'[<<j, "kill">>] = "look"
          /\ \A i \in Job, h \in Handlers : i # j \/ h # "kill" => handler'[<<i, h>>] = handler[<<i, h>>]
      BY <1>2, <2>1, <3>1, HandlerAt
    <3>3. /\ \A i \in Job, h \in Handlers :
                handler'[<<i, h>>] = "counted" => handler[<<i, h>>] = "counted"
          /\ \A i \in Job : Killed(i) => Killed(i)'
          /\ Killed(j)'
      BY <2>1, <3>2 DEF Killed
    <3>4. /\ \A u \in User : Waiting(u)' \subseteq Waiting(u) /\ j \notin Waiting(u)'
          /\ Owner[j] \in User
      BY <3>1, <3>3, AccountsAssumption DEF Waiting
    <3>5. j \in Waiting(Owner[j]) => cpc[j] = "done"
      BY <2>2 DEF Waiting
    <3>6. CASE s = "pending"
      BY <1>2, <3>1, <3>3, <3>4, <3>5, <3>6, CountedOff
    <3>7. CASE s # "pending"
      BY <1>2, <3>1, <3>3, <3>4, <3>7, FewerWaiting
    <3>8. QED
      BY <3>6, <3>7
  <2>8. ASSUME NEW j \in Job, NEW h \in Handlers, CountBack(j, h) PROVE LimitInv'
    <3>1. /\ UNCHANGED <<doc, marking, cpc, spare, lost, parallel>>
          /\ Handle(j, h, "restart", "counted")
          /\ rate' = [rate EXCEPT ![Owner[j]] = @ + 1]
          /\ again' = again \cup {j}
      BY <2>8 DEF CountBack, mongo, scheduler
    <3>2. /\ handler[<<j, h>>] = "restart" /\ handler'[<<j, h>>] = "counted"
          /\ \A i \in Job, g \in Handlers : i # j \/ g # h => handler'[<<i, g>>] = handler[<<i, g>>]
      BY <1>2, <3>1, HandlerAt
    <3>3. \A i \in Job, g \in Handlers : handler'[<<i, g>>] = "counted" => i \in again'
      BY <2>2, <3>1, <3>2
    <3>4. \A u \in User : Waiting(u)' = Waiting(u)
      <4>1. \A i \in Job : Killed(i)' = Killed(i)
        <5>1. \A i \in Job : (handler'[<<i, "kill">>] = "none") = (handler[<<i, "kill">>] = "none")
          BY <2>1, <3>2
        <5>2. QED
          BY <5>1 DEF Killed
      <4>2. QED
        BY <3>1, <4>1 DEF Waiting
    <3>5. ASSUME NEW u \in User
          PROVE  /\ Counted(u)' - rate'[u] - spare'[u] <= Counted(u) - rate[u] - spare[u]
                 /\ First(u)' - spare'[u] <= First(u) - spare[u]
      <4>1. Sizes(u) /\ spare'[u] = spare[u]
        BY <1>2, <3>1, UserSizes
      <4>2. Coming(u)' = Coming(u) /\ Entering(u)' = Entering(u)
        BY <3>1 DEF InAddTask, Coming, Entering
      <4>3. First(u)' <= First(u)
        <5>1. (Waiting(u)' \ again') \cup Entering(u)' \in SUBSET ((Waiting(u) \ again) \cup Entering(u))
          BY <3>1, <3>4, <4>2
        <5>2. QED
          BY <5>1, UserSets, JobsSize DEF First
      <4>4. CASE u # Owner[j]
        <5>1. Back(u, "watch")' = Back(u, "watch") /\ Back(u, "kill")' = Back(u, "kill")
          BY <2>1, <3>2, <4>4 DEF Back
        <5>2. Counted(u)' = Counted(u)
          BY <3>4, <4>2, <5>1 DEF Counted
        <5>3. rate'[u] = rate[u]
          BY <2>1, <3>1, <4>4
        <5>4. QED
          BY <4>1, <4>3, <5>2, <5>3 DEF Sizes
      <4>5. CASE u = Owner[j]
        <5>1. rate'[u] = rate[u] + 1
          BY <2>1, <3>1, <4>5
        <5>2. /\ Back(u, h)' \subseteq Back(u, h) \cup {j}
              /\ \A g \in Handlers : g # h => Back(u, g)' = Back(u, g)
          BY <3>2 DEF Back
        <5>3. Cardinality(Back(u, h)') <= Cardinality(Back(u, h)) + 1
          BY <5>2, UserSets, JobsSize
        <5>4. CASE h = "watch"
          <6>1. Back(u, "kill")' = Back(u, "kill")
            BY <2>1, <5>2, <5>4
          <6>2. Counted(u)' <= Counted(u) + 1
            <7>1. Cardinality(Back(u, "watch")') <= Cardinality(Back(u, "watch")) + 1
              BY <5>3, <5>4
            <7>2. /\ Cardinality(Waiting(u)' \cup Coming(u)') = Cardinality(Waiting(u) \cup Coming(u))
                  /\ Cardinality(Back(u, "kill")') = Cardinality(Back(u, "kill"))
              BY <3>4, <4>2, <6>1
            <7>3. QED
              BY <4>1, <7>1, <7>2 DEF Sizes, Counted
          <6>3. QED
            BY <4>1, <4>3, <5>1, <6>2 DEF Sizes
        <5>5. CASE h = "kill"
          <6>1. Back(u, "watch")' = Back(u, "watch")
            BY <2>1, <5>2, <5>5
          <6>2. Counted(u)' <= Counted(u) + 1
            <7>1. Cardinality(Back(u, "kill")') <= Cardinality(Back(u, "kill")) + 1
              BY <5>3, <5>5
            <7>2. /\ Cardinality(Waiting(u)' \cup Coming(u)') = Cardinality(Waiting(u) \cup Coming(u))
                  /\ Cardinality(Back(u, "watch")') = Cardinality(Back(u, "watch"))
              BY <3>4, <4>2, <6>1
            <7>3. QED
              BY <4>1, <7>1, <7>2 DEF Sizes, Counted
          <6>3. QED
            BY <4>1, <4>3, <5>1, <6>2 DEF Sizes
        <5>6. QED
          BY <2>1, <5>4, <5>5
      <4>6. QED
        BY <4>4, <4>5
    <3>6. QED
      BY <1>2, <3>1, <3>3, <3>5, LimitFrame
  <2>9. ASSUME NEW j \in Job, NEW h \in Handlers, PutToPending(j, h) PROVE LimitInv'
    <3>1. /\ UNCHANGED <<marking, cpc, rate, spare, lost, again, parallel>>
          /\ \E to \in {"pending", "none"} : Handle(j, h, "counted", to)
          /\ doc' = doc \/ doc' = [doc EXCEPT ![j] = "pending"]
      BY <2>9 DEF PutToPending, counters, scheduler, limits
    <3>0. PICK to \in {"pending", "none"} : Handle(j, h, "counted", to)
      BY <3>1
    <3>2. /\ handler[<<j, h>>] = "counted" /\ handler'[<<j, h>>] = to
          /\ \A i \in Job, g \in Handlers : i # j \/ g # h => handler'[<<i, g>>] = handler[<<i, g>>]
      BY <1>2, <3>0, HandlerAt
    <3>3. /\ handler'[<<j, h>>] # "counted"
          /\ \A i \in Job, g \in Handlers :
                handler'[<<i, g>>] = "counted" => handler[<<i, g>>] = "counted"
      BY <3>0, <3>2
    <3>4. \A u \in User : Waiting(u)' \subseteq Waiting(u) \cup {j}
      BY <2>1, <3>1, <3>2 DEF Waiting, Killed
    <3>5. QED
      BY <1>2, <3>1, <3>2, <3>3, <3>4, OneWaits
  <2>10. ASSUME NEW j \in Job, NEW h \in Handlers, StopHandler(j, h) PROVE LimitInv'
    <3>1. /\ UNCHANGED <<doc, marking, cpc, rate, lost, again, parallel>>
          /\ Handle(j, h, handler[<<j, h>>], "none")
          /\ IF h = "kill" /\ handler[<<j, h>>] # "counted"
             THEN LeftPending(j) ELSE spare' = spare
      BY <2>10 DEF StopHandler, Handle, mongo, counters, scheduler
    <3>2. /\ handler'[<<j, h>>] = "none"
          /\ \A i \in Job, g \in Handlers : i # j \/ g # h => handler'[<<i, g>>] = handler[<<i, g>>]
      BY <1>2, <3>1, HandlerAt
    <3>3. \A i \in Job, g \in Handlers :
             handler'[<<i, g>>] = "counted" => handler[<<i, g>>] = "counted"
      BY <3>2
    <3>4. \A u \in User : /\ Waiting(u)' \subseteq Waiting(u) \cup {j}
                          /\ h # "kill" \/ doc[j] # "pending" => Waiting(u)' \subseteq Waiting(u)
      BY <2>1, <3>1, <3>2 DEF Waiting, Killed
    <3>5. CASE handler[<<j, h>>] = "counted"
      <4>1. spare' = spare /\ handler'[<<j, h>>] # "counted"
        BY <3>1, <3>2, <3>5
      <4>2. QED
        BY <1>2, <3>1, <3>3, <3>4, <3>5, <4>1, OneWaits
    <3>6. CASE h = "kill" /\ handler[<<j, h>>] # "counted" /\ doc[j] = "pending"
      <4>1. spare' = [spare EXCEPT ![Owner[j]] = @ + 1]
        BY <3>1, <3>6 DEF LeftPending
      <4>2. QED
        BY <1>2, <3>1, <3>3, <3>4, <4>1, OneWaits
    <3>7. CASE (h # "kill" \/ doc[j] # "pending") /\ handler[<<j, h>>] # "counted"
      <4>1. spare' = spare
        BY <3>1, <3>7 DEF LeftPending
      <4>2. \A u \in User : Waiting(u)' \subseteq Waiting(u)
        BY <3>4, <3>7
      <4>3. QED
        BY <1>2, <3>1, <3>3, <4>1, <4>2, FewerWaiting
    <3>8. QED
      BY <3>5, <3>6, <3>7
  <2>11. CASE StopScheduler
    <3>1. /\ UNCHANGED <<doc, handler, cpc, rate, lost, again, parallel>>
          /\ marking' = {}
          /\ \/ marking = {} /\ UNCHANGED spare
             \/ \E j \in marking : LeftPending(j)
      BY <2>11 DEF StopScheduler, mongo, counters, watchers
    <3>2. \A i \in Job, g \in Handlers :
             handler'[<<i, g>>] = "counted" => handler[<<i, g>>] = "counted"
      BY <3>1
    <3>3. CASE marking = {} /\ UNCHANGED spare
      <4>1. \A u \in User : Waiting(u)' \subseteq Waiting(u)
        BY <3>1, <3>3 DEF Waiting, Killed
      <4>2. QED
        BY <1>2, <3>1, <3>2, <3>3, <4>1, FewerWaiting
    <3>4. ASSUME NEW j \in marking, LeftPending(j) PROVE LimitInv'
      <4>1. j \in Job /\ \A i \in marking : i = j
        BY <2>1, <2>2
      <4>2. \A u \in User : /\ Waiting(u)' \subseteq Waiting(u) \cup {j}
                            /\ doc[j] # "pending" => Waiting(u)' \subseteq Waiting(u)
        BY <3>1, <4>1 DEF Waiting, Killed
      <4>3. CASE doc[j] = "pending"
        <5>1. spare' = [spare EXCEPT ![Owner[j]] = @ + 1]
          BY <3>4, <4>3 DEF LeftPending
        <5>2. QED
          BY <1>2, <3>1, <3>2, <4>1, <4>2, <5>1, OneWaits
      <4>4. CASE doc[j] # "pending"
        <5>1. spare' = spare
          BY <3>4, <4>4 DEF LeftPending
        <5>2. QED
          BY <1>2, <3>1, <3>2, <4>2, <4>4, <5>1, FewerWaiting
      <4>5. QED
        BY <4>3, <4>4
    <3>5. QED
      BY <3>1, <3>3, <3>4
  <2>12. ASSUME NEW j \in Job, MarkRunning(j) PROVE LimitInv'
    <3>1. /\ UNCHANGED <<handler, cpc, rate, spare, lost, again, parallel>>
          /\ marking' = marking \ {j}
          /\ \/ doc' = [doc EXCEPT ![j] = "running"]
             \/ doc[j] \notin Stored /\ doc' = doc
      BY <2>12 DEF MarkRunning, counters, watchers, history, limits
    <3>2. \A u \in User : Waiting(u)' \subseteq Waiting(u)
      BY <2>1, <3>1 DEF Waiting, Killed, Stored
    <3>3. QED
      BY <1>2, <3>1, <3>2, FewerWaiting
  <2>13. ASSUME NEW j \in Job, \/ Look(j)
                               \/ \E h \in Handlers : Remove(j, h) \/ AddUsage(j, h) \/ Record(j, h)
         PROVE  LimitInv'
    <3>1. /\ UNCHANGED <<marking, cpc, rate, spare, lost, again, parallel>>
          /\ \E h \in Handlers, from \in Steps, to \in Steps \ {"counted"} :
                /\ Handle(j, h, from, to)
                /\ to = "none" => doc'[j] # "pending"
          /\ doc' = doc \/ doc' = [doc EXCEPT ![j] = "removed"] \/ doc' = [doc EXCEPT ![j] = "over"]
      <4>1. CASE Look(j)
        BY <2>1, <4>1 DEF Look, Steps, Stored, mongo, counters, scheduler, history, limits
      <4>2. ASSUME NEW h \in Handlers, Remove(j, h)
            PROVE  /\ UNCHANGED <<marking, cpc, rate, spare, lost, again, parallel>>
                   /\ Handle(j, h, "end", "removed") /\ doc' = [doc EXCEPT ![j] = "removed"]
        BY <4>2 DEF Remove, counters, scheduler, limits
      <4>3. ASSUME NEW h \in Handlers, AddUsage(j, h)
            PROVE  /\ UNCHANGED <<marking, cpc, rate, spare, lost, again, parallel>>
                   /\ Handle(j, h, "removed", "added") /\ doc' = doc
        BY <4>3 DEF AddUsage, counters, scheduler, history, limits
      <4>4. ASSUME NEW h \in Handlers, Record(j, h)
            PROVE  /\ UNCHANGED <<marking, cpc, rate, spare, lost, again, parallel>>
                   /\ Handle(j, h, "added", "none") /\ doc' = [doc EXCEPT ![j] = "over"]
                   /\ doc'[j] # "pending"
        BY <2>1, <4>4 DEF Record, counters, scheduler, history, limits
      <4>5. QED
        BY <2>13, <4>1, <4>2, <4>3, <4>4 DEF Steps
    <3>2. PICK h \in Handlers, from \in Steps, to \in Steps \ {"counted"} :
                /\ Handle(j, h, from, to)
                /\ to = "none" => doc'[j] # "pending"
      BY <3>1
    <3>3. /\ handler[<<j, h>>] = from /\ handler'[<<j, h>>] = to
          /\ \A i \in Job, g \in Handlers : i # j \/ g # h => handler'[<<i, g>>] = handler[<<i, g>>]
      BY <1>2, <3>2, HandlerAt
    <3>4. \A i \in Job, g \in Handlers :
             handler'[<<i, g>>] = "counted" => handler[<<i, g>>] = "counted"
      BY <3>2, <3>3
    <3>5. /\ \A i \in Job : doc'[i] = "pending" => doc[i] = "pending"
          /\ \A i \in Job : i # j => Killed(i)' = Killed(i)
          /\ doc'[j] = "pending" => (Killed(j) => Killed(j)')
      BY <2>1, <3>1, <3>2, <3>3 DEF Killed
    <3>6. \A u \in User : Waiting(u)' \subseteq Waiting(u)
      BY <3>1, <3>5 DEF Waiting
    <3>7. QED
      BY <1>2, <3>1, <3>4, <3>6, FewerWaiting
  <2>14. ASSUME NEW j \in Job, \/ RejectQuota(j) \/ End(j) \/ DeleteKey(j)
                               \/ \E size \in BOOLEAN : Archive(j, size)
         PROVE  LimitInv'
    <3>1. /\ UNCHANGED <<marking, cpc, rate, spare, lost, again, parallel>>
          /\ \/ handler' = handler
             \/ \E to \in Steps \ {"counted"} : handler' = [handler EXCEPT ![<<j, "watch">>] = to]
          /\ \A i \in Job : doc'[i] = "pending" => doc[i] = "pending"
      <4>1. CASE RejectQuota(j)
        BY <2>1, <4>1 DEF RejectQuota, counters, scheduler, watchers, history, limits
      <4>2. CASE End(j)
        BY <4>2 DEF End, mongo, counters, scheduler, history, limits, Steps
      <4>3. CASE DeleteKey(j)
        BY <4>3 DEF DeleteKey, Handle, mongo, counters, scheduler, limits, Steps
      <4>4. ASSUME NEW size \in BOOLEAN, Archive(j, size)
            PROVE  /\ UNCHANGED <<marking, cpc, rate, spare, lost, again, parallel, handler>>
                   /\ \A i \in Job : doc'[i] = "pending" => doc[i] = "pending"
        BY <2>1, <4>4 DEF Archive, Flag, counters, scheduler, watchers, history, limits
      <4>5. QED
        BY <2>14, <4>1, <4>2, <4>3, <4>4
    <3>2. /\ \A i \in Job : Killed(i)' = Killed(i)
          /\ \A i \in Job, g \in Handlers :
                handler'[<<i, g>>] = "counted" => handler[<<i, g>>] = "counted"
      BY <2>1, <3>1 DEF Killed
    <3>3. \A u \in User : Waiting(u)' \subseteq Waiting(u)
      BY <3>1, <3>2 DEF Waiting
    <3>4. QED
      BY <1>2, <3>1, <3>2, <3>3, FewerWaiting
  <2>15. ASSUME \/ UNCHANGED vars \/ GiveBack \/ StopArchiver \/ Start \/ Recover \/ EndSync
                \/ \E c \in cursor : Sync(c[1], c[2], c[3]) \/ SyncKey(c[1], c[3])
                \/ \E j \in Job : \/ RequestKill(j) \/ RequestReschedule(j) \/ RequestArchive(j)
                                  \/ StartJob(j) \/ Drop(j) \/ Take(j) \/ PutBack(j) \/ StopWatcher(j)
         PROVE  LimitInv'
    <3>1. UNCHANGED <<doc, handler, marking, cpc, rate, spare, lost, again, parallel>>
      BY <2>15 DEF vars, mongo, counters, lists, scheduler, watchers, history, limits,
         GiveBack, StopArchiver, Start, Recover, EndSync, Sync, SyncKey, Request,
         RequestKill, RequestReschedule, RequestArchive, StartJob, Drop, Take, PutBack, StopWatcher
    <3>2. \A u \in User : Waiting(u)' \subseteq Waiting(u)
      BY <3>1 DEF Waiting, Killed
    <3>3. QED
      BY <1>2, <3>1, <3>2, FewerWaiting
  <2>16. CASE Lose
    <3>1. UNCHANGED <<cpc, handler, again, parallel>> /\ lost' = TRUE
      BY <2>16 DEF Lose, watchers
    <3>2. InAddTask' = InAddTask /\ Slack' = Slack
      BY <3>1 DEF InAddTask, Slack
    <3>3. QED
      BY <1>2, <2>2, <3>1, <3>2 DEF LimitInv
  <2>17. QED
    BY <1>2, <2>3, <2>4, <2>5, <2>6, <2>7, <2>8, <2>9, <2>10, <2>11, <2>12, <2>13, <2>14, <2>15,
       <2>16, <2>1 DEF Next
<1>3. QED
  BY <1>1, <1>2, TypedCorrect, RestoredInvCorrect, PTL DEF Spec

\* rate_limit bounds the jobs of a user that wait for their first start, whatever is
\* submitted, killed, restarted and rescheduled: up to the submissions that were in
\* add_task at the same time, and to what a kill or a start took off the counter for a job
\* that was not on it, or whose scheduler or watcher then died.
THEOREM LimitHeldCorrect == Spec => []LimitHeld
<1>1. Typed /\ LimitInv => LimitHeld
  <2> SUFFICES ASSUME Typed, LimitInv, ~lost, NEW u \in User
               PROVE  Cardinality(Waiting(u) \ again) <= RateLimit + Slack + spare[u]
    BY DEF LimitHeld, Slack
  <2>1. First(u) <= RateLimit + Slack + spare[u]
    BY DEF LimitInv
  <2>2. Waiting(u) \ again \in SUBSET ((Waiting(u) \ again) \cup Entering(u))
    OBVIOUS
  <2>3. /\ Cardinality(Waiting(u) \ again) <= First(u)
        /\ Cardinality(Waiting(u) \ again) \in Nat /\ First(u) \in Nat
    <3>1. Waiting(u) \ again \in SUBSET Job /\ (Waiting(u) \ again) \cup Entering(u) \in SUBSET Job
      BY DEF Waiting, Entering, InAddTask
    <3>2. QED
      BY <2>2, <3>1, JobsSize DEF First
  <2>4. spare[u] \in Nat
    BY DEF Typed, HistoryTyped
  <2>5. QED
    BY <2>1, <2>3, <2>4, SlackType
<1>2. QED
  BY <1>1, TypedCorrect, LimitInvCorrect, PTL

-----------------------------------------------------------------------------
(* The sum of the sizes of some jobs.  Total is a fold, a function defined by *)
(* recursion over sets of jobs; the number of the units those jobs keep on    *)
(* the disk satisfies its equation, and nothing else does.                    *)

AnyOf(jobs) == CHOOSE j \in jobs : TRUE
Summed(f, jobs) ==
    f = [s \in SUBSET jobs |-> IF s = {} THEN 0 ELSE Size[AnyOf(s)] + f[s \ {AnyOf(s)}]]
Units(jobs) == {b \in jobs \X Nat : b[2] \in 1 .. Size[b[1]]}

LEMMA TotalUnfolded ==
    ASSUME NEW jobs
    PROVE  Total(jobs) = (CHOOSE f : Summed(f, jobs))[jobs]
BY DEF Total, FoldFunctionOnSet, MapThenFoldSet, Summed, AnyOf

\* Among the sets of jobs with a property one is minimal: with it, a proof
\* by induction over sets of jobs.
LEMMA SmallestSet ==
    ASSUME NEW sets \in SUBSET SUBSET Job, sets # {}
    PROVE  \E s \in sets : \A t \in sets : t \subseteq s => t = s
<1>1. IsFiniteSet(Job)
  BY AccountsAssumption
<1>2. IsWellFoundedOn(StrictSubsetOrdering(Job), SUBSET Job)
  BY <1>1, FS_FiniteSubsetsOfFinite, FS_StrictSubsetOrderingWellFounded
<1>3. PICK s \in sets : \A t \in sets : <<t, s>> \notin StrictSubsetOrdering(Job)
  BY <1>2, WFMin
<1>4. QED
  BY <1>3 DEF StrictSubsetOrdering

\* One more job adds its size to the units.
LEMMA UnitsOfOneMore ==
    ASSUME NEW jobs \in SUBSET Job, NEW j \in Job \ jobs, IsFiniteSet(Units(jobs))
    PROVE  /\ IsFiniteSet(Units(jobs \cup {j}))
           /\ Cardinality(Units(jobs \cup {j})) = Cardinality(Units(jobs)) + Size[j]
<1> DEFINE own == {j} \X (1 .. Size[j])
<1>1. Size[j] \in Nat
  BY AccountsAssumption
<1>2. IsFiniteSet(1 .. Size[j]) /\ Cardinality(1 .. Size[j]) = Size[j]
  BY <1>1, FS_Interval
<1>3. IsFiniteSet(own) /\ Cardinality(own) = Size[j]
  <2>1. IsFiniteSet({j}) /\ Cardinality({j}) = 1
    BY FS_Singleton
  <2>2. IsFiniteSet(own) /\ Cardinality(own) = 1 * Cardinality(1 .. Size[j])
    BY <1>2, <2>1, FS_Product
  <2>3. QED
    BY <1>1, <1>2, <2>2
<1>4. Units(jobs \cup {j}) = Units(jobs) \cup own
  BY <1>1 DEF Units
<1>5. Units(jobs) \cap own = {}
  BY DEF Units
<1>6. Cardinality(Units(jobs)) \in Nat /\ Cardinality({}) = 0
  BY FS_CardinalityType, FS_EmptySet
<1>7. /\ IsFiniteSet(Units(jobs) \cup own)
      /\ Cardinality(Units(jobs) \cup own)
            = Cardinality(Units(jobs)) + Cardinality(own) - Cardinality(Units(jobs) \cap own)
  BY <1>3, FS_Union
<1> HIDE DEF own
<1>8. Cardinality(Units(jobs) \cup own) = Cardinality(Units(jobs)) + Size[j]
  <2>1. Cardinality(Units(jobs) \cap own) = 0
    BY <1>5, <1>6
  <2>2. Cardinality(Units(jobs) \cup own) = Cardinality(Units(jobs)) + Size[j] - 0
    BY <1>3, <1>7, <2>1
  <2>3. QED
    BY <1>1, <1>6, <2>2
<1>9. QED
  BY <1>4, <1>7, <1>8

\* The units of a set of jobs are finitely many: a smallest set for which they are
\* not would have one job more than a set for which they are.
LEMMA UnitsFinite ==
    ASSUME NEW jobs \in SUBSET Job
    PROVE  IsFiniteSet(Units(jobs))
<1> DEFINE infinite == {s \in SUBSET Job : ~IsFiniteSet(Units(s))}
<1>1. SUFFICES ASSUME infinite # {} PROVE FALSE
  OBVIOUS
<1>2. PICK s \in infinite : \A t \in infinite : t \subseteq s => t = s
  <2>1. infinite \in SUBSET SUBSET Job
    OBVIOUS
  <2> HIDE DEF infinite
  <2>2. QED
    BY <1>1, <2>1, SmallestSet
<1>3. CASE s = {}
  <2>1. Units({}) = {}
    BY DEF Units
  <2>2. QED
    BY <1>2, <1>3, <2>1, FS_EmptySet
<1>4. CASE s # {}
  <2>1. PICK j \in s : TRUE
    BY <1>4
  <2>2. s \ {j} \in SUBSET Job /\ j \in Job \ (s \ {j}) /\ s \ {j} \notin infinite
    BY <1>2, <2>1
  <2>3. IsFiniteSet(Units((s \ {j}) \cup {j}))
    BY <2>2, UnitsOfOneMore
  <2>4. (s \ {j}) \cup {j} = s
    BY <2>1
  <2>5. QED
    BY <1>2, <2>3, <2>4
<1>5. QED
  BY <1>3, <1>4

\* The number of the units satisfies the equation of the fold.
LEMMA UnitsSummed ==
    ASSUME NEW jobs \in SUBSET Job
    PROVE  Summed([s \in SUBSET jobs |-> Cardinality(Units(s))], jobs)
<1> DEFINE g == [s \in SUBSET jobs |-> Cardinality(Units(s))]
<1>1. ASSUME NEW s \in SUBSET jobs
      PROVE  g[s] = IF s = {} THEN 0 ELSE Size[AnyOf(s)] + g[s \ {AnyOf(s)}]
  <2>1. CASE s = {}
    <3>1. Units({}) = {}
      BY DEF Units
    <3>2. QED
      BY <2>1, <3>1, FS_EmptySet
  <2>2. CASE s # {}
    <3> DEFINE j == AnyOf(s)
    <3>1. j \in s
      BY <2>2 DEF AnyOf
    <3> HIDE DEF j
    <3>2. s \ {j} \in SUBSET Job /\ j \in Job \ (s \ {j}) /\ (s \ {j}) \cup {j} = s
      BY <3>1
    <3>3. IsFiniteSet(Units(s \ {j}))
      BY <3>2, UnitsFinite
    <3>4. Cardinality(Units(s)) = Cardinality(Units(s \ {j})) + Size[j]
      BY <3>2, <3>3, UnitsOfOneMore
    <3>5. Cardinality(Units(s \ {j})) \in Nat /\ Size[j] \in Nat
      BY <3>2, <3>3, FS_CardinalityType, AccountsAssumption
    <3>6. g[s] = Size[j] + g[s \ {j}]
      BY <3>2, <3>4, <3>5
    <3>7. QED
      BY <2>2, <3>6 DEF j
  <2>3. QED
    BY <2>1, <2>2
<1>2. QED
  BY <1>1 DEF Summed

\* The sum of the sizes of jobs is the number of the units they keep.
LEMMA TotalIsUnits ==
    ASSUME NEW jobs \in SUBSET Job
    PROVE  Total(jobs) = Cardinality(Units(jobs))
<1> DEFINE g == [s \in SUBSET jobs |-> Cardinality(Units(s))]
           f == CHOOSE h : Summed(h, jobs)
<1>1. Summed(g, jobs)
  BY UnitsSummed
<1>2. Summed(f, jobs)
  BY <1>1
<1> HIDE DEF f
<1> DEFINE other == {s \in SUBSET jobs : f[s] # g[s]}
<1>3. other = {}
  <2>1. SUFFICES ASSUME other # {} PROVE FALSE
    OBVIOUS
  <2>2. PICK s \in other : \A t \in other : t \subseteq s => t = s
    <3>1. other \in SUBSET SUBSET Job
      OBVIOUS
    <3> HIDE DEF other
    <3>2. QED
      BY <2>1, <3>1, SmallestSet
  <2> DEFINE j == AnyOf(s)
  <2>3. f[s] = IF s = {} THEN 0 ELSE Size[j] + f[s \ {j}]
    BY <1>2 DEF Summed
  <2>4. g[s] = IF s = {} THEN 0 ELSE Size[j] + g[s \ {j}]
    BY <1>1 DEF Summed
  <2>5. s # {} => j \in s
    BY DEF AnyOf
  <2> HIDE DEF j, g
  <2>6. s # {} => f[s \ {j}] = g[s \ {j}]
    BY <2>2, <2>5
  <2>7. QED
    BY <2>2, <2>3, <2>4, <2>6
<1>4. f[jobs] = g[jobs]
  BY <1>3
<1>5. QED
  BY <1>4, TotalUnfolded DEF f

LEMMA TotalType ==
    ASSUME NEW jobs \in SUBSET Job
    PROVE  Total(jobs) \in Nat
BY TotalIsUnits, UnitsFinite, FS_CardinalityType

LEMMA TotalEmpty == Total({}) = 0
<1>1. Units({}) = {}
  BY DEF Units
<1>2. QED
  BY <1>1, TotalIsUnits, FS_EmptySet

LEMMA TotalOfOneMore ==
    ASSUME NEW jobs \in SUBSET Job, NEW j \in Job \ jobs
    PROVE  Total(jobs \cup {j}) = Total(jobs) + Size[j]
<1>1. jobs \cup {j} \in SUBSET Job
  OBVIOUS
<1>2. Cardinality(Units(jobs \cup {j})) = Cardinality(Units(jobs)) + Size[j]
  BY UnitsFinite, UnitsOfOneMore
<1>3. QED
  BY <1>1, <1>2, TotalIsUnits

LEMMA TotalOfOne ==
    ASSUME NEW j \in Job
    PROVE  Total({j}) = Size[j]
<1>1. Total({} \cup {j}) = Total({}) + Size[j]
  BY TotalOfOneMore
<1>2. Size[j] \in Nat /\ {} \cup {j} = {j}
  BY AccountsAssumption
<1>3. QED
  BY <1>1, <1>2, TotalEmpty

\* Which job the archiver gives back the size of.
LEMMA NobodyLeaves == \A j \in Job : NoJob # <<j, TRUE>>
<1>1. \A j \in Job : <<j, TRUE>> \in Job \X BOOLEAN
  OBVIOUS
<1>2. QED
  BY <1>1, AccountsAssumption

LEMMA WhoLeaves ==
    ASSUME NEW j \in Job, NEW size \in BOOLEAN, NEW u
    PROVE  {i \in Job : <<j, size>> = <<i, TRUE>> /\ Owner[i] = u}
              = IF size /\ Owner[j] = u THEN {j} ELSE {}
<1>1. CASE size
  BY <1>1
<1>2. CASE ~size
  BY <1>2
<1>3. QED
  BY <1>1, <1>2

-----------------------------------------------------------------------------
(* The disk usage of a user.                                               *)

\* Between the removal of a document and its record.
Between == {"removed", "added"}

\* A request to archive names a job that was recorded, and says rightly whether its
\* size is known, unless a job was recorded twice.
RequestsTrue ==
    \A j \in Job :
        /\ \A size \in BOOLEAN : archq[<<j, size>>] > 0 => doc[j] \in Recorded \cup {"removed"}
        /\ archq[<<j, TRUE>>] > 0 => j \in sized
        /\ twice = {} /\ archq[<<j, TRUE>>] > 0 => doc[j] \in Recorded
        /\ twice = {} /\ archq[<<j, FALSE>>] > 0 => doc[j] \in Recorded /\ j \notin sized

\* One handler has the document of a job, unless a job is recorded twice.
HandlersTrue ==
    twice = {} => \A j \in Job, h \in Handlers : handler[<<j, h>>] \in Between =>
        doc[j] = "removed" /\ \A g \in Handlers \ {h} : handler[<<j, g>>] \notin Between

UsageHeld ==
    \A u \in User : /\ disk[u] >= Used(u)
                    /\ ~halfway /\ twice = {} => disk[u] = Used(u)

\* The inductive invariant behind DiskCounted.
DiskInv ==
    /\ disk \in [User -> Int]
    /\ \A j \in sized : doc[j] \in Recorded \cup {"removed"}
    /\ RequestsTrue
    /\ HandlersTrue
    /\ UsageHeld

AddedTotal(u) == Total(Adding(u, "watch")) + Total(Adding(u, "kill"))

\* The numbers the invariant compares.
LEMMA Totals ==
    ASSUME NEW u
    PROVE  /\ Total(Kept(u)) \in Nat /\ Total(Kept(u)') \in Nat
           /\ Total(Leaving(u)) \in Nat /\ Total(Leaving(u)') \in Nat
           /\ AddedTotal(u) \in Nat /\ AddedTotal(u)' \in Nat
           /\ Used(u) = Total(Kept(u)) + Total(Leaving(u)) + AddedTotal(u)
           /\ Used(u)' = Total(Kept(u)') + Total(Leaving(u)') + AddedTotal(u)'
<1>1. /\ Kept(u) \in SUBSET Job /\ Kept(u)' \in SUBSET Job
      /\ Leaving(u) \in SUBSET Job /\ Leaving(u)' \in SUBSET Job
  BY DEF Kept, Leaving
<1>2. \A h : Adding(u, h) \in SUBSET Job /\ Adding(u, h)' \in SUBSET Job
  BY DEF Adding
<1>3. /\ Total(Kept(u)) \in Nat /\ Total(Kept(u)') \in Nat
      /\ Total(Leaving(u)) \in Nat /\ Total(Leaving(u)') \in Nat
  BY <1>1, TotalType
<1>4. \A h : Total(Adding(u, h)) \in Nat /\ Total(Adding(u, h)') \in Nat
  BY <1>2, TotalType
<1>5. /\ AddedTotal(u) = Total(Adding(u, "watch")) + Total(Adding(u, "kill"))
      /\ AddedTotal(u)' = Total(Adding(u, "watch")') + Total(Adding(u, "kill")')
  BY DEF AddedTotal
<1>6. /\ Used(u) = Total(Kept(u)) + Total(Leaving(u)) + Total(Adding(u, "watch")) + Total(Adding(u, "kill"))
      /\ Used(u)' = Total(Kept(u)') + Total(Leaving(u)') + Total(Adding(u, "watch")') + Total(Adding(u, "kill")')
  BY DEF Used
<1> DEFINE k == Total(Kept(u))  k1 == Total(Kept(u)')  l == Total(Leaving(u))  l1 == Total(Leaving(u)')
           w == Total(Adding(u, "watch"))  w1 == Total(Adding(u, "watch")')
           i == Total(Adding(u, "kill"))  i1 == Total(Adding(u, "kill")')
<1>7. /\ k \in Nat /\ k1 \in Nat /\ l \in Nat /\ l1 \in Nat
      /\ w \in Nat /\ w1 \in Nat /\ i \in Nat /\ i1 \in Nat
      /\ AddedTotal(u) = w + i /\ AddedTotal(u)' = w1 + i1
      /\ Used(u) = k + l + w + i /\ Used(u)' = k1 + l1 + w1 + i1
  BY <1>3, <1>4, <1>5, <1>6
<1> HIDE DEF k, k1, l, l1, w, w1, i, i1
<1>8. /\ AddedTotal(u) \in Nat /\ AddedTotal(u)' \in Nat
      /\ Used(u) = k + l + AddedTotal(u) /\ Used(u)' = k1 + l1 + AddedTotal(u)'
  BY <1>7
<1>9. QED
  BY <1>3, <1>8 DEF k, k1, l, l1

\* A step of a handler.
LEMMA AddingStep ==
    ASSUME Typed, NEW j \in Job, NEW h \in Handlers, NEW from, NEW to, Handle(j, h, from, to), NEW u
    PROVE  /\ Owner[j] # u \/ (from # "added" /\ to # "added") => AddedTotal(u)' = AddedTotal(u)
           /\ Owner[j] = u /\ from # "added" /\ to = "added" => AddedTotal(u)' = AddedTotal(u) + Size[j]
           /\ Owner[j] = u /\ from = "added" /\ to # "added" => AddedTotal(u)' = AddedTotal(u) - Size[j]
<1>1. /\ handler[<<j, h>>] = from /\ handler'[<<j, h>>] = to
      /\ \A i \in Job, g \in Handlers : i # j \/ g # h => handler'[<<i, g>>] = handler[<<i, g>>]
  BY HandlerAt
<1>2. \A g \in Handlers \ {h} : Adding(u, g)' = Adding(u, g)
  BY <1>1 DEF Adding
<1>3. \A g : Adding(u, g) \in SUBSET Job /\ Adding(u, g)' \in SUBSET Job
  BY DEF Adding
<1>4. \A g : Total(Adding(u, g)) \in Nat /\ Total(Adding(u, g)') \in Nat
  BY <1>3, TotalType
<1>5. /\ AddedTotal(u) = Total(Adding(u, "watch")) + Total(Adding(u, "kill"))
      /\ AddedTotal(u)' = Total(Adding(u, "watch")') + Total(Adding(u, "kill")')
  BY DEF AddedTotal
<1>6. Size[j] \in Nat
  BY AccountsAssumption
<1>7. /\ h = "watch" => AddedTotal(u)' - AddedTotal(u) = Total(Adding(u, h)') - Total(Adding(u, h))
      /\ h = "kill" => AddedTotal(u)' - AddedTotal(u) = Total(Adding(u, h)') - Total(Adding(u, h))
  <2>1. CASE h = "watch"
    <3>1. Total(Adding(u, "kill")') = Total(Adding(u, "kill"))
      BY <1>2, <2>1 DEF Handlers
    <3>2. QED
      BY <1>4, <1>5, <2>1, <3>1
  <2>2. CASE h = "kill"
    <3>1. Total(Adding(u, "watch")') = Total(Adding(u, "watch"))
      BY <1>2, <2>2 DEF Handlers
    <3>2. QED
      BY <1>4, <1>5, <2>2, <3>1
  <2>3. QED
    BY <2>1, <2>2
<1>8. AddedTotal(u)' - AddedTotal(u) = Total(Adding(u, h)') - Total(Adding(u, h))
  BY <1>7 DEF Handlers
<1>9. AddedTotal(u) \in Nat /\ AddedTotal(u)' \in Nat
  BY Totals
<1>10. CASE Owner[j] # u \/ (from # "added" /\ to # "added")
  <2>1. Adding(u, h)' = Adding(u, h)
    BY <1>1, <1>10 DEF Adding
  <2>2. QED
    BY <1>4, <1>8, <1>9, <1>10, <2>1
<1>11. CASE Owner[j] = u /\ from # "added" /\ to = "added"
  <2>1. Adding(u, h)' = Adding(u, h) \cup {j} /\ j \notin Adding(u, h)
    BY <1>1, <1>11 DEF Adding
  <2>2. Total(Adding(u, h)') = Total(Adding(u, h)) + Size[j]
    BY <1>3, <2>1, TotalOfOneMore
  <2>3. QED
    BY <1>4, <1>6, <1>8, <1>9, <1>11, <2>2
<1>12. CASE Owner[j] = u /\ from = "added" /\ to # "added"
  <2>1. Adding(u, h) = Adding(u, h)' \cup {j} /\ j \notin Adding(u, h)'
    BY <1>1, <1>12 DEF Adding
  <2>2. Total(Adding(u, h)) = Total(Adding(u, h)') + Size[j]
    BY <1>3, <2>1, TotalOfOneMore
  <2>3. QED
    BY <1>4, <1>6, <1>8, <1>9, <1>12, <2>2
<1>13. QED
  BY <1>10, <1>11, <1>12

\* A step keeps the balance of every user, or leaves him more usage than he has files
\* when a handler or an archiver has died, or a job is recorded twice.
LEMMA UsageStep ==
    ASSUME DiskInv, disk' \in [User -> Int],
           ~halfway' /\ twice' = {} => ~halfway /\ twice = {},
           \A u \in User : /\ disk'[u] - Used(u)' >= disk[u] - Used(u)
                           /\ ~halfway' /\ twice' = {} => disk'[u] - Used(u)' = disk[u] - Used(u)
    PROVE  UsageHeld'
<1> SUFFICES ASSUME NEW u \in User
             PROVE  /\ disk'[u] >= Used(u)'
                    /\ ~halfway' /\ twice' = {} => disk'[u] = Used(u)'
  BY DEF UsageHeld
<1>1. disk[u] \in Int /\ disk'[u] \in Int /\ Used(u) \in Nat /\ Used(u)' \in Nat
  BY Totals DEF DiskInv
<1>2. disk[u] >= Used(u) /\ (~halfway /\ twice = {} => disk[u] = Used(u))
  BY DEF DiskInv, UsageHeld
<1>3. disk'[u] >= Used(u)'
  BY <1>1, <1>2
<1>4. ASSUME ~halfway', twice' = {} PROVE disk'[u] = Used(u)'
  BY <1>1, <1>2, <1>4
<1>5. QED
  BY <1>3, <1>4

\* A step that leaves alone what is on the disk, what is recorded, and adds no request
\* to archive.
LEMMA DiskFrame ==
    ASSUME Typed, DiskInv,
           UNCHANGED <<sized, disk, archiving, twice, halfway>>,
           \A j \in Job : \/ doc'[j] = doc[j]
                          \/ doc[j] \in Stored \cup {"none"} /\ doc'[j] \in Stored \cup {"over"},
           \A j \in Job, h \in Handlers :
               /\ (handler'[<<j, h>>] = "added") = (handler[<<j, h>>] = "added")
               /\ handler'[<<j, h>>] = "removed" => handler[<<j, h>>] = "removed",
           \A j \in Job, size \in BOOLEAN : archq'[<<j, size>>] > 0 => archq[<<j, size>>] > 0
    PROVE  DiskInv'
<1>0. sized \subseteq Job
  BY DEF Typed, MongoTyped
<1>1. \A j \in Job : doc[j] \in Recorded \cup {"removed"} => doc'[j] = doc[j]
  BY DEF Recorded, Stored
<1>2. \A j \in sized : doc[j] \in Recorded \cup {"removed"} /\ doc'[j] = doc[j]
  BY <1>0, <1>1 DEF DiskInv
<1>3. UsageHeld'
  <2>1. ASSUME NEW u \in User PROVE Used(u)' = Used(u)
    <3>1. Kept(u)' = Kept(u)
      BY <1>2 DEF Kept
    <3>2. Leaving(u)' = Leaving(u)
      BY DEF Leaving
    <3>3. Adding(u, "watch")' = Adding(u, "watch") /\ Adding(u, "kill")' = Adding(u, "kill")
      BY DEF Adding, Handlers
    <3>4. QED
      BY <3>1, <3>2, <3>3 DEF Used
  <2>2. QED
    BY <2>1 DEF DiskInv, UsageHeld
<1>4. RequestsTrue'
  BY <1>1 DEF DiskInv, RequestsTrue
<1>5. HandlersTrue'
  <2>1. \A j \in Job, h \in Handlers : handler'[<<j, h>>] \in Between => handler[<<j, h>>] \in Between
    BY DEF Between
  <2>2. QED
    BY <1>1, <2>1 DEF DiskInv, HandlersTrue
<1>6. QED
  BY <1>2, <1>3, <1>4, <1>5 DEF DiskInv

\* The disk usage of every user is at least what his recorded jobs keep and what the
\* archiver and the watchers have in hand, and exactly that if none died there and no job
\* was recorded twice.
THEOREM DiskInvCorrect == Spec => []DiskInv
<1>1. Init => DiskInv
  <2> SUFFICES ASSUME Init PROVE DiskInv
    OBVIOUS
  <2>1. disk \in [User -> Int] /\ sized = {} /\ RequestsTrue
    <3>1. \A j \in Job, size \in BOOLEAN : archq[<<j, size>>] = 0
      BY DEF Init
    <3>2. disk \in [User -> Int] /\ sized = {}
      BY DEF Init
    <3>3. \A j \in Job, size \in BOOLEAN : ~(archq[<<j, size>>] > 0)
      <4> SUFFICES ASSUME NEW j \in Job, NEW size \in BOOLEAN PROVE ~(archq[<<j, size>>] > 0)
        OBVIOUS
      <4>1. archq[<<j, size>>] = 0
        BY <3>1
      <4> DEFINE n == archq[<<j, size>>]
      <4> HIDE DEF n
      <4>2. n = 0
        BY <4>1 DEF n
      <4>3. ~(n > 0)
        BY <4>2
      <4>4. QED
        BY <4>3 DEF n
    <3>4. \A j \in Job : ~(archq[<<j, TRUE>>] > 0) /\ ~(archq[<<j, FALSE>>] > 0)
      BY <3>3
    <3>5. RequestsTrue
      BY <3>3, <3>4, Zenon DEF RequestsTrue
    <3>6. QED
      BY <3>2, <3>5
  <2>2. \A j \in Job, h \in Handlers : handler[<<j, h>>] = "none"
    BY DEF Init
  <2>3. HandlersTrue
    BY <2>2 DEF HandlersTrue, Between
  <2>4. ASSUME NEW u \in User PROVE Used(u) = 0
    <3>1. Kept(u) = {}
      BY <2>1 DEF Kept
    <3>2. Leaving(u) = {}
      BY NobodyLeaves DEF Init, Leaving
    <3>3. Adding(u, "watch") = {} /\ Adding(u, "kill") = {}
      BY <2>2 DEF Adding, Handlers
    <3>4. QED
      BY <3>1, <3>2, <3>3, TotalEmpty DEF Used
  <2>5. UsageHeld
    BY <2>4 DEF Init, UsageHeld
  <2>6. QED
    BY <2>1, <2>3, <2>5 DEF DiskInv
<1>2. ASSUME Typed, Typed', RestoredInv, DiskInv, [Next]_vars PROVE DiskInv'
  <2>1. /\ doc \in [Job -> {"none", "removed"} \cup Stored \cup Recorded]
        /\ archq \in [Job \X BOOLEAN -> Nat]
        /\ archiving \in (Job \X BOOLEAN) \cup {NoJob}
        /\ handler \in [Job \X Handlers -> Steps]
        /\ Handlers = {"watch", "kill"}
        /\ sized \subseteq Job
    BY <1>2 DEF Typed, MongoTyped, ListsTyped, ProcessesTyped, Handlers
  <2>2. \A u : /\ Total(Kept(u)) \in Nat /\ Total(Kept(u)') \in Nat
               /\ Total(Leaving(u)) \in Nat /\ Total(Leaving(u)') \in Nat
               /\ AddedTotal(u) \in Nat /\ AddedTotal(u)' \in Nat
               /\ Used(u) = Total(Kept(u)) + Total(Leaving(u)) + AddedTotal(u)
               /\ Used(u)' = Total(Kept(u)') + Total(Leaving(u)') + AddedTotal(u)'
    BY Totals
  <2>3. disk \in [User -> Int] /\ \A u \in User : disk[u] \in Int
    BY <1>2 DEF DiskInv
  <2>4. \A j \in Job : Owner[j] \in User /\ Size[j] \in Nat
    BY AccountsAssumption
  <2>5. ASSUME \/ UNCHANGED vars
               \/ \E j \in Job : \/ Check(j) \/ Count(j) \/ RequestKill(j) \/ RequestReschedule(j)
                                 \/ StartJob(j) \/ CountOut(j) \/ Drop(j) \/ Take(j) \/ PutBack(j)
                                 \/ StopWatcher(j)
               \/ Start \/ Recover \/ EndSync
               \/ \E c \in cursor : Sync(c[1], c[2], c[3]) \/ SyncKey(c[1], c[3])
         PROVE  DiskInv'
    <3>1. UNCHANGED <<doc, sized, disk, archq, archiving, handler, twice, halfway>>
      BY <2>5 DEF vars, mongo, counters, lists, scheduler, watchers, history, limits,
         Check, Count, Client, RequestKill, RequestReschedule, Request, StartJob, CountOut,
         Start, Recover, EndSync, Sync, SyncKey, Drop, Take, PutBack, StopWatcher
    <3>2. QED
      BY <1>2, <3>1, DiskFrame
  <2>6. ASSUME NEW j \in Job, Insert(j) \/ RejectQuota(j) \/ MarkRunning(j) PROVE DiskInv'
    <3>1. /\ UNCHANGED <<sized, disk, archq, archiving, handler, twice, halfway>>
          /\ \A i \in Job : \/ doc'[i] = doc[i]
                            \/ doc[i] \in Stored \cup {"none"} /\ doc'[i] \in Stored \cup {"over"}
      <4>1. CASE Insert(j)
        <5>1. doc[j] = "none"
          BY <1>2, <4>1 DEF Insert, Client, RestoredInv, Sound
        <5>2. QED
          BY <2>1, <4>1, <5>1 DEF Insert, Client, counters, lists, watchers, Stored
      <4>2. CASE RejectQuota(j)
        BY <2>1, <4>2 DEF RejectQuota, Checks, counters, lists, watchers, history, Stored
      <4>3. CASE MarkRunning(j)
        BY <2>1, <4>3 DEF MarkRunning, counters, lists, watchers, history, Stored
      <4>4. QED
        BY <2>6, <4>1, <4>2, <4>3
    <3>2. QED
      BY <1>2, <3>1, DiskFrame
  <2>7. CASE Lose \/ StopScheduler
    <3>1. /\ UNCHANGED <<doc, sized, disk, archiving, handler, twice, halfway>>
          /\ \A j \in Job, size \in BOOLEAN : archq'[<<j, size>>] > 0 => archq[<<j, size>>] > 0
      BY <2>1, <2>7 DEF Lose, StopScheduler, mongo, lists, watchers
    <3>2. QED
      BY <1>2, <3>1, DiskFrame
  <2>8. ASSUME NEW j \in Job,
               \/ End(j) \/ Look(j) \/ DeleteKey(j)
               \/ \E s \in Stored : ServeKill(j, s)
               \/ \E h \in Handlers : \/ CountBack(j, h) \/ PutToPending(j, h)
                                      \/ handler[<<j, h>>] # "added" /\ StopHandler(j, h)
         PROVE  DiskInv'
    <3>1. /\ UNCHANGED <<sized, disk, archq, archiving, twice, halfway>>
          /\ doc' = doc \/ (doc[j] \in Stored /\ doc' = [doc EXCEPT ![j] = "pending"])
          /\ \/ handler' = handler
             \/ \E h \in Handlers, from \in Steps \ {"added"}, to \in Steps \ Between : Handle(j, h, from, to)
      <4>1. CASE End(j)
        BY <2>1, <4>1 DEF End, Handle, Steps, Between, mongo, lists, history
      <4>2. CASE Look(j)
        BY <2>1, <4>2 DEF Look, Steps, Between, mongo, lists, history
      <4>3. CASE DeleteKey(j)
        BY <2>1, <4>3 DEF DeleteKey, Steps, Between, mongo, limits
      <4>4. ASSUME NEW s \in Stored, ServeKill(j, s)
            PROVE  /\ UNCHANGED <<doc, sized, disk, archq, archiving, twice, halfway>>
                   /\ Handle(j, "kill", "none", "look")
        BY <4>4 DEF ServeKill, mongo
      <4>5. ASSUME NEW h \in Handlers, CountBack(j, h)
            PROVE  /\ UNCHANGED <<doc, sized, disk, archq, archiving, twice, halfway>>
                   /\ Handle(j, h, "restart", "counted")
        BY <4>5 DEF CountBack, mongo
      <4>6. ASSUME NEW h \in Handlers, PutToPending(j, h)
            PROVE  /\ UNCHANGED <<sized, disk, archq, archiving, twice, halfway>>
                   /\ doc' = doc \/ (doc[j] \in Stored /\ doc' = [doc EXCEPT ![j] = "pending"])
                   /\ Handle(j, h, "counted", "pending") \/ Handle(j, h, "counted", "none")
        BY <4>6 DEF PutToPending, lists
      <4>7. ASSUME NEW h \in Handlers, handler[<<j, h>>] # "added", StopHandler(j, h)
            PROVE  /\ UNCHANGED <<doc, sized, disk, archq, archiving, twice>>
                   /\ halfway' = halfway
                   /\ Handle(j, h, handler[<<j, h>>], "none")
        <5>1. halfway' = (halfway \/ handler[<<j, h>>] = "added") /\ halfway \in BOOLEAN
          BY <1>2, <4>7 DEF StopHandler, Typed, HistoryTyped
        <5>2. halfway' = halfway
          BY <4>7, <5>1
        <5>3. QED
          BY <4>7, <5>2 DEF StopHandler, Handle, mongo, lists
      <4>8. \A h \in Handlers : handler[<<j, h>>] \in Steps
        BY <2>1
      <4>9. QED
        BY <2>1, <2>8, <4>1, <4>2, <4>3, <4>4, <4>5, <4>6, <4>7, <4>8 DEF Steps, Between
    <3>2. \A i \in Job, g \in Handlers :
             /\ (handler'[<<i, g>>] = "added") = (handler[<<i, g>>] = "added")
             /\ handler'[<<i, g>>] = "removed" => handler[<<i, g>>] = "removed"
      <4>1. CASE handler' = handler
        BY <4>1
      <4>2. ASSUME NEW h \in Handlers, NEW from \in Steps \ {"added"}, NEW to \in Steps \ Between,
                   Handle(j, h, from, to)
            PROVE  \A i \in Job, g \in Handlers :
                       /\ (handler'[<<i, g>>] = "added") = (handler[<<i, g>>] = "added")
                       /\ handler'[<<i, g>>] = "removed" => handler[<<i, g>>] = "removed"
        <5>1. /\ handler[<<j, h>>] = from /\ handler'[<<j, h>>] = to
              /\ \A i \in Job, g \in Handlers : i # j \/ g # h => handler'[<<i, g>>] = handler[<<i, g>>]
          BY <1>2, <4>2, HandlerAt
        <5>2. from # "added" /\ to # "added" /\ to # "removed"
          BY <4>2 DEF Between
        <5>3. QED
          BY <5>1, <5>2
      <4>3. QED
        BY <3>1, <4>1, <4>2
    <3>3. \A i \in Job : \/ doc'[i] = doc[i]
                         \/ doc[i] \in Stored \cup {"none"} /\ doc'[i] \in Stored \cup {"over"}
      BY <2>1, <3>1 DEF Stored
    <3>4. QED
      BY <1>2, <3>1, <3>2, <3>3, DiskFrame
  <2>9. ASSUME NEW j \in Job, RequestArchive(j) PROVE DiskInv'
    <3>1. /\ UNCHANGED <<doc, sized, disk, archiving, handler, twice, halfway>>
          /\ doc[j] \in Recorded
          /\ archq' = [archq EXCEPT ![<<j, j \in sized>>] = @ + 1]
      BY <2>9 DEF RequestArchive, mongo, watchers, history
    <3>2. \A i \in Job, size \in BOOLEAN :
             archq'[<<i, size>>] > 0 =>
                 archq[<<i, size>>] > 0 \/ (i = j /\ size = (j \in sized))
      BY <2>1, <3>1
    <3>3. RequestsTrue'
      BY <1>2, <3>1, <3>2 DEF DiskInv, RequestsTrue
    <3>4. HandlersTrue'
      BY <1>2, <3>1 DEF DiskInv, HandlersTrue
    <3>5. UsageHeld'
      BY <1>2, <3>1 DEF DiskInv, UsageHeld, Used, Kept, Leaving, Adding
    <3>6. QED
      BY <1>2, <3>1, <3>3, <3>4, <3>5 DEF DiskInv
  <2>10. ASSUME NEW j \in Job, NEW h \in Handlers, Remove(j, h) PROVE DiskInv'
    <3>1. /\ UNCHANGED <<sized, disk, archq, archiving, halfway>>
          /\ Handle(j, h, "end", "removed")
          /\ doc' = [doc EXCEPT ![j] = "removed"]
          /\ twice' = IF doc[j] \in Stored THEN twice ELSE twice \cup {j}
      BY <2>10 DEF Remove, lists
    <3>2. /\ handler[<<j, h>>] = "end" /\ handler'[<<j, h>>] = "removed"
          /\ \A i \in Job, g \in Handlers : i # j \/ g # h => handler'[<<i, g>>] = handler[<<i, g>>]
      BY <1>2, <3>1, HandlerAt
    <3>3. /\ doc'[j] = "removed" /\ \A i \in Job : i # j => doc'[i] = doc[i]
          /\ twice' = {} => twice = {} /\ doc[j] \in Stored
      BY <2>1, <3>1
    <3>4. RequestsTrue'
      <4>1. ASSUME NEW i \in Job
            PROVE  /\ \A size \in BOOLEAN : archq[<<i, size>>] > 0 => doc'[i] \in Recorded \cup {"removed"}
                   /\ archq[<<i, TRUE>>] > 0 => i \in sized
                   /\ twice' = {} /\ archq[<<i, TRUE>>] > 0 => doc'[i] \in Recorded
                   /\ twice' = {} /\ archq[<<i, FALSE>>] > 0 => doc'[i] \in Recorded /\ i \notin sized
        <5>1. CASE i # j
          BY <1>2, <3>3, <5>1 DEF DiskInv, RequestsTrue
        <5>2. CASE i = j
          BY <1>2, <3>3, <5>2 DEF DiskInv, RequestsTrue, Stored, Recorded
        <5>3. QED
          BY <5>1, <5>2
      <4>2. QED
        BY <3>1, <4>1 DEF RequestsTrue
    <3>5. HandlersTrue'
      <4> SUFFICES ASSUME twice' = {}, NEW i \in Job, NEW g \in Handlers, handler'[<<i, g>>] \in Between
                   PROVE  /\ doc'[i] = "removed"
                          /\ \A f \in Handlers \ {g} : handler'[<<i, f>>] \notin Between
        BY DEF HandlersTrue
      <4>1. \A f \in Handlers : handler[<<j, f>>] \notin Between
        BY <1>2, <3>3 DEF DiskInv, HandlersTrue, Stored
      <4>2. CASE i = j
        BY <3>2, <3>3, <4>1, <4>2
      <4>3. CASE i # j
        BY <1>2, <3>2, <3>3, <4>3 DEF DiskInv, HandlersTrue
      <4>4. QED
        BY <4>2, <4>3
    <3>6. UsageHeld'
      <4>1. ASSUME NEW u \in User
            PROVE  /\ disk'[u] - Used(u)' >= disk[u] - Used(u)
                   /\ ~halfway' /\ twice' = {} => disk'[u] - Used(u)' = disk[u] - Used(u)
        <5>1. Leaving(u)' = Leaving(u) /\ AddedTotal(u)' = AddedTotal(u) /\ disk'[u] = disk[u]
          BY <1>2, <3>1, AddingStep DEF Leaving
        <5>2. CASE j \in Kept(u)
          <6>1. Kept(u) = Kept(u)' \cup {j} /\ j \notin Kept(u)' /\ Kept(u)' \in SUBSET Job
            BY <3>1, <3>3, <5>2 DEF Kept
          <6>2. Total(Kept(u)) = Total(Kept(u)') + Size[j]
            BY <6>1, TotalOfOneMore
          <6>3. twice' # {}
            BY <3>3, <5>2 DEF Kept, Stored
          <6>4. QED
            BY <2>2, <2>3, <2>4, <5>1, <6>2, <6>3
        <5>3. CASE j \notin Kept(u)
          <6>1. Kept(u)' = Kept(u)
            BY <3>1, <3>3, <5>3 DEF Kept
          <6>2. QED
            BY <2>2, <2>3, <5>1, <6>1
        <5>4. QED
          BY <5>2, <5>3
      <4>2. QED
        BY <1>2, <2>3, <3>1, <3>3, <4>1, UsageStep
    <3>7. \A i \in sized' : doc'[i] \in Recorded \cup {"removed"}
      BY <1>2, <2>1, <3>1, <3>3 DEF DiskInv
    <3>8. QED
      BY <2>3, <3>1, <3>4, <3>5, <3>6, <3>7 DEF DiskInv
  <2>11. ASSUME NEW j \in Job, NEW h \in Handlers, AddUsage(j, h) PROVE DiskInv'
    <3>1. /\ UNCHANGED <<doc, sized, archq, archiving, twice, halfway>>
          /\ Handle(j, h, "removed", "added")
          /\ disk' = [disk EXCEPT ![Owner[j]] = @ + Size[j]]
      BY <2>11 DEF AddUsage, lists, history
    <3>2. /\ handler[<<j, h>>] = "removed" /\ handler'[<<j, h>>] = "added"
          /\ \A i \in Job, g \in Handlers : i # j \/ g # h => handler'[<<i, g>>] = handler[<<i, g>>]
      BY <1>2, <3>1, HandlerAt
    <3>3. HandlersTrue'
      <4>1. \A i \in Job, g \in Handlers : handler'[<<i, g>>] \in Between => handler[<<i, g>>] \in Between
        BY <3>2 DEF Between
      <4>2. QED
        BY <1>2, <3>1, <4>1 DEF DiskInv, HandlersTrue
    <3>4. disk' \in [User -> Int]
      BY <2>3, <2>4, <3>1
    <3>5. ASSUME NEW u \in User PROVE disk'[u] - Used(u)' = disk[u] - Used(u)
      <4>1. Kept(u)' = Kept(u) /\ Leaving(u)' = Leaving(u)
        BY <3>1 DEF Kept, Leaving
      <4>2. CASE Owner[j] # u
        <5>1. disk'[u] = disk[u] /\ AddedTotal(u)' = AddedTotal(u)
          BY <1>2, <2>3, <3>1, <4>2, AddingStep
        <5>2. QED
          BY <2>2, <2>3, <4>1, <5>1
      <4>3. CASE Owner[j] = u
        <5>1. disk'[u] = disk[u] + Size[j] /\ AddedTotal(u)' = AddedTotal(u) + Size[j]
          BY <1>2, <2>3, <3>1, <4>3, AddingStep
        <5>2. QED
          BY <2>2, <2>3, <2>4, <4>1, <5>1
      <4>4. QED
        BY <4>2, <4>3
    <3>6. UsageHeld'
      <4>1. \A u \in User : disk'[u] - Used(u)' \in Int /\ disk[u] - Used(u) \in Int
        BY <2>2, <2>3, <3>4
      <4>2. QED
        BY <1>2, <3>1, <3>4, <3>5, <4>1, UsageStep
    <3>7. RequestsTrue'
      BY <1>2, <3>1 DEF DiskInv, RequestsTrue
    <3>8. QED
      BY <1>2, <3>1, <3>3, <3>4, <3>6, <3>7 DEF DiskInv
  <2>12. ASSUME NEW j \in Job, NEW h \in Handlers, Record(j, h) PROVE DiskInv'
    <3>1. /\ UNCHANGED <<disk, archq, archiving, twice, halfway>>
          /\ Handle(j, h, "added", "none")
          /\ doc' = [doc EXCEPT ![j] = "over"] /\ sized' = sized \cup {j}
      BY <2>12 DEF Record, history
    <3>2. /\ handler[<<j, h>>] = "added" /\ handler'[<<j, h>>] = "none"
          /\ \A i \in Job, g \in Handlers : i # j \/ g # h => handler'[<<i, g>>] = handler[<<i, g>>]
      BY <1>2, <3>1, HandlerAt
    <3>3. doc'[j] = "over" /\ \A i \in Job : i # j => doc'[i] = doc[i]
      BY <2>1, <3>1
    <3>4. twice = {} => doc[j] = "removed" /\ \A g \in Handlers \ {h} : handler[<<j, g>>] \notin Between
      BY <1>2, <3>2 DEF DiskInv, HandlersTrue, Between
    <3>5. RequestsTrue'
      <4>1. ASSUME NEW i \in Job
            PROVE  /\ \A size \in BOOLEAN : archq[<<i, size>>] > 0 => doc'[i] \in Recorded \cup {"removed"}
                   /\ archq[<<i, TRUE>>] > 0 => i \in sized'
                   /\ twice = {} /\ archq[<<i, TRUE>>] > 0 => doc'[i] \in Recorded
                   /\ twice = {} /\ archq[<<i, FALSE>>] > 0 => doc'[i] \in Recorded /\ i \notin sized'
        <5>1. CASE i # j
          BY <1>2, <3>1, <3>3, <5>1 DEF DiskInv, RequestsTrue
        <5>2. CASE i = j
          BY <1>2, <3>1, <3>3, <3>4, <5>2 DEF DiskInv, RequestsTrue, Recorded
        <5>3. QED
          BY <5>1, <5>2
      <4>2. QED
        BY <3>1, <4>1 DEF RequestsTrue
    <3>6. HandlersTrue'
      <4> SUFFICES ASSUME twice = {}, NEW i \in Job, NEW g \in Handlers, handler'[<<i, g>>] \in Between
                   PROVE  /\ doc'[i] = "removed"
                          /\ \A f \in Handlers \ {g} : handler'[<<i, f>>] \notin Between
        BY <3>1 DEF HandlersTrue
      <4>1. i # j
        BY <3>2, <3>4 DEF Between
      <4>2. QED
        BY <1>2, <3>2, <3>3, <4>1 DEF DiskInv, HandlersTrue
    <3>7. UsageHeld'
      <4>1. ASSUME NEW u \in User
            PROVE  /\ disk'[u] - Used(u)' >= disk[u] - Used(u)
                   /\ ~halfway' /\ twice' = {} => disk'[u] - Used(u)' = disk[u] - Used(u)
        <5>1. Leaving(u)' = Leaving(u) /\ disk'[u] = disk[u]
          BY <3>1 DEF Leaving
        <5>2. CASE Owner[j] # u
          <6>1. Kept(u)' = Kept(u) /\ AddedTotal(u)' = AddedTotal(u)
            <7>1. AddedTotal(u)' = AddedTotal(u)
              BY <1>2, <3>1, <5>2, AddingStep
            <7>2. Kept(u)' = Kept(u)
              BY <3>1, <3>3, <5>2 DEF Kept
            <7>3. QED
              BY <7>1, <7>2
          <6>2. QED
            BY <2>2, <2>3, <5>1, <6>1
        <5>3. CASE Owner[j] = u
          <6>1. AddedTotal(u)' = AddedTotal(u) - Size[j]
            BY <1>2, <3>1, <5>3, AddingStep
          <6>2. Kept(u)' = Kept(u) \cup {j} /\ Kept(u) \in SUBSET Job
            BY <3>1, <3>3, <5>3 DEF Kept
          <6>3. CASE j \in Kept(u)
            <7>1. Kept(u)' = Kept(u) /\ twice # {}
              BY <3>4, <6>2, <6>3 DEF Kept
            <7>2. QED
              BY <2>2, <2>3, <2>4, <3>1, <5>1, <6>1, <7>1
          <6>4. CASE j \notin Kept(u)
            <7>1. Total(Kept(u)') = Total(Kept(u)) + Size[j]
              BY <6>2, <6>4, TotalOfOneMore
            <7>2. QED
              BY <2>2, <2>3, <2>4, <5>1, <6>1, <7>1
          <6>5. QED
            BY <6>3, <6>4
        <5>4. QED
          BY <5>2, <5>3
      <4>2. QED
        BY <1>2, <2>3, <3>1, <4>1, UsageStep
    <3>8. \A i \in sized' : doc'[i] \in Recorded \cup {"removed"}
      BY <1>2, <2>1, <3>1, <3>3 DEF DiskInv, Recorded
    <3>9. QED
      BY <2>3, <3>1, <3>5, <3>6, <3>7, <3>8 DEF DiskInv
  <2>13. ASSUME NEW j \in Job, NEW h \in Handlers, handler[<<j, h>>] = "added", StopHandler(j, h)
         PROVE  DiskInv'
    <3>1. /\ UNCHANGED <<doc, sized, disk, archq, archiving, twice>>
          /\ Handle(j, h, "added", "none")
          /\ halfway' = TRUE
      <4>1. halfway' = (halfway \/ handler[<<j, h>>] = "added") /\ halfway \in BOOLEAN
        BY <1>2, <2>13 DEF StopHandler, Typed, HistoryTyped
      <4>2. halfway' = TRUE
        BY <2>13, <4>1
      <4>3. QED
        BY <2>13, <4>2 DEF StopHandler, Handle, mongo, lists
    <3>2. /\ handler'[<<j, h>>] = "none"
          /\ \A i \in Job, g \in Handlers : i # j \/ g # h => handler'[<<i, g>>] = handler[<<i, g>>]
      BY <1>2, <3>1, HandlerAt
    <3>3. HandlersTrue'
      <4>1. \A i \in Job, g \in Handlers : handler'[<<i, g>>] \in Between => handler[<<i, g>>] \in Between
        BY <3>2 DEF Between
      <4>2. QED
        BY <1>2, <3>1, <4>1 DEF DiskInv, HandlersTrue
    <3>4. ASSUME NEW u \in User PROVE disk'[u] - Used(u)' >= disk[u] - Used(u)
      <4>1. Kept(u)' = Kept(u) /\ Leaving(u)' = Leaving(u) /\ disk'[u] = disk[u]
        BY <3>1 DEF Kept, Leaving
      <4>2. \/ AddedTotal(u)' = AddedTotal(u)
            \/ AddedTotal(u)' = AddedTotal(u) - Size[j]
        BY <1>2, <3>1, AddingStep
      <4>3. QED
        BY <2>2, <2>3, <2>4, <4>1, <4>2
    <3>5. UsageHeld'
      BY <1>2, <2>3, <3>1, <3>4, UsageStep
    <3>6. RequestsTrue'
      BY <1>2, <3>1 DEF DiskInv, RequestsTrue
    <3>7. QED
      BY <1>2, <3>1, <3>3, <3>5, <3>6 DEF DiskInv
  <2>14. ASSUME NEW j \in Job, NEW size \in BOOLEAN, Archive(j, size) PROVE DiskInv'
    <3>1. /\ UNCHANGED <<sized, disk, handler, twice, halfway>>
          /\ archiving = NoJob
          /\ archq[<<j, size>>] > 0 /\ archq' = [archq EXCEPT ![<<j, size>>] = @ - 1]
          /\ IF doc[j] = "over"
             THEN doc' = [doc EXCEPT ![j] = "archived"] /\ archiving' = <<j, size>>
             ELSE UNCHANGED <<doc, archiving>>
      BY <2>14 DEF Archive, Fetch, Flag, watchers, history
    <3>2. \A i \in Job, s \in BOOLEAN : archq'[<<i, s>>] > 0 => archq[<<i, s>>] > 0
      BY <2>1, <3>1
    <3>3. CASE doc[j] # "over"
      BY <1>2, <3>1, <3>2, <3>3, DiskFrame
    <3>4. CASE doc[j] = "over"
      <4>1. \A i \in Job : doc'[i] = IF i = j THEN "archived" ELSE doc[i]
        BY <2>1, <3>1, <3>4
      <4>2. \A i \in sized' : doc'[i] \in Recorded \cup {"removed"}
        BY <1>2, <2>1, <3>1, <4>1 DEF DiskInv, Recorded
      <4>3. RequestsTrue'
        BY <1>2, <3>1, <3>2, <4>1 DEF DiskInv, RequestsTrue, Recorded
      <4>4. HandlersTrue'
        BY <1>2, <3>1, <3>4, <4>1 DEF DiskInv, HandlersTrue
      <4>5. ASSUME NEW u \in User
            PROVE  /\ disk'[u] - Used(u)' >= disk[u] - Used(u)
                   /\ ~halfway' /\ twice' = {} => disk'[u] - Used(u)' = disk[u] - Used(u)
        <5>0. Leaving(u)' = IF size /\ Owner[j] = u THEN {j} ELSE {}
          <6>1. archiving' = <<j, size>>
            BY <3>1, <3>4
          <6>2. Leaving(u)' = {i \in Job : <<j, size>> = <<i, TRUE>> /\ Owner[i] = u}
            BY <6>1, Zenon DEF Leaving
          <6>3. QED
            BY <6>2, WhoLeaves
        <5>1. Total(Leaving(u)) = 0
          <6>1. Leaving(u) = {}
            BY <3>1, NobodyLeaves DEF Leaving
          <6>2. QED
            BY <6>1, TotalEmpty
        <5>2. AddedTotal(u)' = AddedTotal(u) /\ disk'[u] = disk[u]
          BY <3>1 DEF AddedTotal, Adding
        <5>3. CASE Owner[j] # u \/ j \notin sized
          <6>1. Kept(u)' = Kept(u)
            BY <3>1, <4>1, <5>3 DEF Kept
          <6>2. Leaving(u)' = {}
            <7>1. size => j \in sized
              BY <1>2, <3>1 DEF DiskInv, RequestsTrue
            <7>2. ~(size /\ Owner[j] = u)
              BY <5>3, <7>1
            <7>3. QED
              BY <5>0, <7>2
          <6>3. Total(Leaving(u)') = 0
            BY <6>2, TotalEmpty
          <6>4. QED
            BY <2>2, <2>3, <5>1, <5>2, <6>1, <6>3
        <5>4. CASE Owner[j] = u /\ j \in sized
          <6>1. Kept(u)' = Kept(u) \ {j} /\ j \in Kept(u) /\ Kept(u) \in SUBSET Job
            BY <3>1, <3>4, <4>1, <5>4 DEF Kept
          <6>2. Kept(u)' \in SUBSET Job /\ j \in Job \ Kept(u)' /\ Kept(u)' \cup {j} = Kept(u)
            BY <6>1
          <6>3. Total(Kept(u)) = Total(Kept(u)') + Size[j]
            BY <6>2, TotalOfOneMore
          <6>4. CASE size
            <7>1. Leaving(u)' = {j}
              BY <5>0, <5>4, <6>4
            <7>2. Total(Leaving(u)') = Size[j]
              BY <7>1, TotalOfOne
            <7>3. QED
              BY <2>2, <2>3, <2>4, <5>1, <5>2, <6>3, <7>2
          <6>5. CASE ~size
            <7>1. twice # {}
              BY <1>2, <3>1, <5>4, <6>5 DEF DiskInv, RequestsTrue
            <7>2. Leaving(u)' = {}
              BY <5>0, <6>5
            <7>3. Total(Leaving(u)') = 0
              BY <7>2, TotalEmpty
            <7>4. QED
              BY <2>2, <2>3, <2>4, <3>1, <5>1, <5>2, <6>3, <7>1, <7>3
          <6>6. QED
            BY <6>4, <6>5
        <5>5. QED
          BY <5>3, <5>4
      <4>6. UsageHeld'
        <5>1. disk' \in [User -> Int] /\ (~halfway' /\ twice' = {} => ~halfway /\ twice = {})
          BY <2>3, <3>1
        <5>2. QED
          BY <1>2, <4>5, <5>1, UsageStep
      <4>7. QED
        BY <1>2, <2>3, <3>1, <4>2, <4>3, <4>4, <4>6 DEF DiskInv
    <3>5. QED
      BY <3>3, <3>4
  <2>15. CASE GiveBack \/ StopArchiver
    <3>1. /\ UNCHANGED <<doc, sized, archq, handler, twice>>
          /\ archiving # NoJob /\ archiving' = NoJob
      BY <2>15 DEF GiveBack, StopArchiver, mongo, lists, watchers, history
    <3>2. PICK j \in Job, size \in BOOLEAN : archiving = <<j, size>>
      BY <2>1, <3>1
    <3>3. \/ /\ disk' = IF size THEN [disk EXCEPT ![Owner[j]] = @ - Size[j]] ELSE disk
             /\ halfway' = halfway
          \/ disk' = disk /\ halfway' = TRUE
      BY <2>1, <2>15, <3>2 DEF GiveBack, StopArchiver, mongo, history
    <3>4. disk' \in [User -> Int]
      BY <2>3, <2>4, <3>3
    <3>5. ASSUME NEW u \in User
          PROVE  /\ disk'[u] - Used(u)' >= disk[u] - Used(u)
                 /\ ~halfway' /\ twice' = {} => disk'[u] - Used(u)' = disk[u] - Used(u)
      <4>1. Kept(u)' = Kept(u) /\ AddedTotal(u)' = AddedTotal(u)
        BY <3>1 DEF Kept, AddedTotal, Adding
      <4>2. Total(Leaving(u)') = 0
        <5>1. Leaving(u)' = {}
          BY <3>1, NobodyLeaves DEF Leaving
        <5>2. QED
          BY <5>1, TotalEmpty
      <4>3. CASE Owner[j] = u /\ size
        <5>1. Leaving(u) = {j}
          BY <3>2, <4>3 DEF Leaving
        <5>2. Total(Leaving(u)) = Size[j]
          BY <5>1, TotalOfOne
        <5>3. \/ disk'[u] = disk[u] - Size[j]
              \/ disk'[u] = disk[u] /\ halfway' = TRUE
          BY <2>3, <3>3, <4>3
        <5>4. QED
          BY <2>2, <2>3, <2>4, <4>1, <4>2, <5>2, <5>3
      <4>4. CASE ~(Owner[j] = u /\ size)
        <5>1. Leaving(u) = {}
          BY <3>2, <4>4 DEF Leaving
        <5>2. Total(Leaving(u)) = 0
          BY <5>1, TotalEmpty
        <5>3. disk'[u] = disk[u]
          BY <2>3, <3>3, <4>4
        <5>4. QED
          BY <2>2, <2>3, <4>1, <4>2, <5>2, <5>3
      <4>5. QED
        BY <4>3, <4>4
    <3>6. ~halfway' /\ twice' = {} => ~halfway /\ twice = {}
      BY <3>1, <3>3
    <3>7. UsageHeld'
      BY <1>2, <3>4, <3>5, <3>6, UsageStep
    <3>8. RequestsTrue' /\ HandlersTrue'
      BY <1>2, <3>1 DEF DiskInv, RequestsTrue, HandlersTrue
    <3>9. QED
      BY <1>2, <3>1, <3>4, <3>7, <3>8 DEF DiskInv
  <2>16. QED
    BY <1>2, <2>1, <2>5, <2>6, <2>7, <2>8, <2>9, <2>10, <2>11, <2>12, <2>13, <2>14, <2>15 DEF Next
<1>3. QED
  BY <1>1, <1>2, TypedCorrect, RestoredInvCorrect, PTL DEF Spec

\* The disk usage of a user, from which the archiver subtracts, is never below what his
\* recorded jobs keep on the disk, and is exactly that, with what is being recorded and
\* archived, if no process died there and no job was recorded twice.
THEOREM DiskCountedCorrect == Spec => []DiskCounted
<1>1. DiskInv => DiskCounted
  BY DEF DiskInv, UsageHeld, DiskCounted
<1>2. QED
  BY <1>1, DiskInvCorrect, PTL

\* Every variable has its type: the disk usage of a user never becomes negative.
THEOREM TypeCorrect == Spec => []TypeOK
<1>1. Typed /\ DiskInv => TypeOK
  <2> SUFFICES ASSUME Typed, DiskInv, NEW u \in User PROVE disk[u] \in Nat
    BY DEF TypeOK, DiskInv
  <2>1. disk[u] >= Used(u) /\ disk[u] \in Int /\ Used(u) \in Nat
    BY Totals DEF DiskInv, UsageHeld
  <2>2. QED
    BY <2>1
<1>2. QED
  BY <1>1, TypedCorrect, DiskInvCorrect, PTL
=============================================================================
