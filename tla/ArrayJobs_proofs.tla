-------------------------- MODULE ArrayJobs_proofs --------------------------
(***************************************************************************)
(* Proofs about ArrayJobs, for any number of children and watchers.        *)
(***************************************************************************)
EXTENDS ArrayJobs, ListLemmas, FiniteSetTheorems, TLAPS

-----------------------------------------------------------------------------
(* Types.                                                                  *)

\* A part of the state that an action leaves alone keeps its type.
LEMMA Frame ==
    ASSUME Typed
    PROVE  /\ UNCHANGED mongo => MongoTyped'
           /\ UNCHANGED redis => RedisTyped'
           /\ UNCHANGED executor => ExecutorTyped'
           /\ UNCHANGED scheduler => SchedulerTyped'
           /\ UNCHANGED watchers => WatchersTyped'
           /\ UNCHANGED kills => kills' \in 0 .. MaxKills
<1>1. UNCHANGED mongo => MongoTyped'
  BY DEF Typed, mongo, MongoTyped
<1>2. UNCHANGED redis => RedisTyped'
  BY DEF Typed, redis, RedisTyped
<1>3. UNCHANGED executor => ExecutorTyped'
  BY DEF Typed, executor, ExecutorTyped
<1>4. UNCHANGED scheduler => SchedulerTyped'
  BY DEF Typed, scheduler, SchedulerTyped
<1>5. UNCHANGED watchers => WatchersTyped'
  BY DEF Typed, watchers, WatchersTyped
<1>6. UNCHANGED kills => kills' \in 0 .. MaxKills
  BY DEF Typed
<1>7. QED
  BY <1>1, <1>2, <1>3, <1>4, <1>5, <1>6

\* What a watcher that is not idle has in hand, field by field.
LEMMA HandType ==
    ASSUME Typed, NEW w \in Watcher, wpc[w] # "idle"
    PROVE  /\ hand[w] \in Task /\ hand[w].job \in Member
           /\ hand[w].over \in BOOLEAN /\ hand[w].failed \in BOOLEAN
<1>1. hand[w] \in Task
  BY DEF Typed, WatchersTyped
<1>2. QED
  BY <1>1 DEF Task

\* The three ways a handler changes what its watcher does.
LEMMA TakeTyped ==
    ASSUME Typed, NEW w \in Watcher, NEW t \in Task, NEW pc \in WatcherPC \ {"idle"},
           Take(w, t, pc)
    PROVE  WatchersTyped'
BY DEF Typed, WatchersTyped, Take, Goto

LEMMA ReleaseTyped ==
    ASSUME Typed, NEW w \in Watcher, Release(w)
    PROVE  WatchersTyped'
BY DEF Typed, WatchersTyped, Release, Take, Goto, WatcherPC

LEMMA GotoTyped ==
    ASSUME Typed, NEW w \in Watcher, wpc[w] # "idle", NEW pc \in WatcherPC \ {"idle"},
           Goto(w, pc), UNCHANGED hand
    PROVE  WatchersTyped'
BY DEF Typed, WatchersTyped, Goto

LEMMA UsersTyped ==
    ASSUME Typed, Users \/ Containers
    PROVE  Typed'
<1>1. ASSUME NEW j \in Member, Submit(j) PROVE Typed'
  <2>1. MongoTyped'
    BY <1>1 DEF Submit, Typed, MongoTyped, Primary
  <2>2. QED
    BY <1>1, <2>1, Frame DEF Submit, Typed
<1>2. ASSUME NEW j \in Member, RequestKill(j) PROVE Typed'
  <2>1. MongoTyped'
    BY <1>2 DEF RequestKill, Typed, MongoTyped
  <2>2. [job |-> j, primary |-> doc[j], over |-> FALSE, failed |-> FALSE] \in Task
    BY <1>2 DEF RequestKill, Stored, Task
  <2>3. RedisTyped'
    BY <1>2, <2>2, AppendType DEF RequestKill, Typed, RedisTyped
  <2>4. kills' \in 0 .. MaxKills
    BY <1>2, ArrayAssumption DEF RequestKill, Typed
  <2>5. QED
    BY <1>2, <2>1, <2>3, <2>4, Frame DEF RequestKill, Typed
<1>3. ASSUME NEW c \in up, ContainerEnds(c) PROVE Typed'
  <2>1. ExecutorTyped'
    BY <1>3 DEF ContainerEnds, Typed, ExecutorTyped
  <2>2. QED
    BY <1>3, <2>1, Frame DEF ContainerEnds, Typed
<1>4. QED
  BY <1>1, <1>2, <1>3 DEF Users, Containers

LEMMA SchedulerStepTyped ==
    ASSUME Typed, Scheduler
    PROVE  Typed'
<1>1. CASE SchedulerRead \/ SchedulerEndPass
  <2>1. SchedulerTyped'
    BY <1>1 DEF SchedulerRead, SchedulerEndPass, Typed, SchedulerTyped
  <2>2. QED
    BY <1>1, <2>1, Frame DEF SchedulerRead, SchedulerEndPass, Typed
<1>2. ASSUME NEW j \in Member, SchedulerAccept(j) \/ (j \in Child /\ SchedulerSkip(j))
      PROVE  Typed'
  <2>1. SchedulerTyped'
    BY <1>2 DEF SchedulerAccept, SchedulerSkip, Typed, SchedulerTyped
  <2>2. QED
    BY <1>2, <2>1, Frame DEF SchedulerAccept, SchedulerSkip, Typed
<1>3. ASSUME NEW R \in SUBSET accepted, SchedulerLaunch(R) PROVE Typed'
  <2>1. SchedulerTyped' /\ ExecutorTyped'
    BY <1>3 DEF SchedulerLaunch, Typed, SchedulerTyped, ExecutorTyped
  <2>2. MongoTyped'
    BY <1>3 DEF SchedulerLaunch, Typed, MongoTyped
  <2>3. QED
    BY <1>3, <2>1, <2>2, Frame DEF SchedulerLaunch, Typed
<1>4. ASSUME NEW j \in Member, SchedulerPush(j) PROVE Typed'
  <2>1. SchedulerTyped'
    BY <1>4 DEF SchedulerPush, Typed, SchedulerTyped
  <2>2. RedisTyped'
    BY <1>4, AppendType DEF SchedulerPush, Typed, RedisTyped
  <2>3. QED
    BY <1>4, <2>1, <2>2, Frame DEF SchedulerPush, Typed
<1>5. CASE SchedulerSnapshot
  <2>1. SchedulerTyped'
    BY <1>5 DEF SchedulerSnapshot, Typed, SchedulerTyped
  <2>2. RedisTyped'
    BY <1>5 DEF SchedulerSnapshot, Typed, RedisTyped, SchedulerTyped
  <2>3. QED
    BY <1>5, <2>1, <2>2, Frame DEF SchedulerSnapshot, Typed
<1>6. CASE SchedulerMark
  <2>1. SchedulerTyped'
    BY <1>6 DEF SchedulerMark, Typed, SchedulerTyped
  <2>2. MongoTyped'
    BY <1>6 DEF SchedulerMark, Typed, MongoTyped, Primary
  <2>3. QED
    BY <1>6, <2>1, <2>2, Frame DEF SchedulerMark, Typed
<1>7. QED
  BY <1>1, <1>2, <1>3, <1>4, <1>5, <1>6 DEF Scheduler, Member

LEMMA WatcherStepTyped ==
    ASSUME Typed, NEW w \in Watcher, PopKill(w) \/ PopRunning(w) \/ Handle(w)
    PROVE  Typed'
<1>1. CASE PopKill(w)
  <2>1. Head(killq) \in Task /\ Tail(killq) \in Seq(Task)
    BY <1>1, HeadTailType DEF PopKill, Typed, RedisTyped
  <2>2. RedisTyped'
    BY <1>1, <2>1 DEF PopKill, Typed, RedisTyped
  <2>3. WatchersTyped'
    BY <1>1, <2>1, TakeTyped DEF PopKill, WatcherPC
  <2>4. QED
    BY <1>1, <2>2, <2>3, Frame DEF PopKill, Typed
<1>2. CASE PopUnknown(w) \/ PopAlive(w) \/ PopOver(w)
  <2>1. /\ running # <<>> /\ running' = Tail(running)
        /\ UNCHANGED <<killq, snap, subtaskrunning, subtask>>
    BY <1>2 DEF PopUnknown, PopAlive, PopOver
  <2>2. Head(running) \in Member /\ Tail(running) \in Seq(Member)
    BY <2>1, HeadTailType DEF Typed, RedisTyped
  <2>3. RedisTyped'
    BY <2>1, <2>2 DEF Typed, RedisTyped
  <2>4. Found(Head(running)) \in Task
    BY <2>2 DEF Found, Task
  <2>5. WatchersTyped'
    <3>1. CASE PopUnknown(w)
      BY <3>1, Frame DEF PopUnknown
    <3>2. CASE PopAlive(w)
      BY <2>4, <3>2, TakeTyped DEF PopAlive, WatcherPC
    <3>3. CASE PopOver(w)
      BY <2>4, <3>3, TakeTyped DEF PopOver, WatcherPC
    <3>4. QED
      BY <1>2, <3>1, <3>2, <3>3
  <2>6. ExecutorTyped'
    BY <1>2 DEF PopUnknown, PopAlive, PopOver, Typed, ExecutorTyped, executor
  <2>7. QED
    BY <1>2, <2>3, <2>5, <2>6, Frame DEF PopUnknown, PopAlive, PopOver, Typed
<1>3. CASE KillWithout(w) \/ OriginalFound(w)
  <2>1. WatchersTyped'
    BY <1>3, GotoTyped DEF KillWithout, OriginalFound, WatcherPC
  <2>2. QED
    BY <1>3, <2>1, Frame DEF KillWithout, OriginalFound, Typed
<1>4. CASE KillContainer(w)
  <2>1. WatchersTyped'
    BY <1>4, GotoTyped DEF KillContainer, WatcherPC
  <2>2. ExecutorTyped'
    BY <1>4 DEF KillContainer, Typed, ExecutorTyped
  <2>3. QED
    BY <1>4, <2>1, <2>2, Frame DEF KillContainer, Typed
<1>5. CASE KillFails(w)
  <2>1. WatchersTyped'
    BY <1>5, ReleaseTyped DEF KillFails
  <2>2. hand[w] \in Task
    BY <1>5, HandType DEF KillFails
  <2>3. RedisTyped'
    BY <1>5, <2>2, AppendType DEF KillFails, Typed, RedisTyped
  <2>4. MongoTyped'
    BY <1>5 DEF KillFails, Typed, MongoTyped
  <2>5. QED
    BY <1>5, <2>1, <2>3, <2>4, Frame DEF KillFails, Typed
<1>6. CASE PushBack(w)
  <2>1. WatchersTyped'
    BY <1>6, GotoTyped DEF PushBack, WatcherPC
  <2>2. hand[w].job \in Member
    BY <1>6, HandType DEF PushBack
  <2>3. RedisTyped'
    BY <1>6, <2>2, AppendType DEF PushBack, Typed, RedisTyped
  <2>4. QED
    BY <1>6, <2>1, <2>3, Frame DEF PushBack, Typed
<1>7. CASE Stamp(w) \/ DeleteSnapshotAgain(w)
  <2>1. WatchersTyped'
    BY <1>7, ReleaseTyped DEF Stamp, DeleteSnapshotAgain
  <2>2. hand[w].job \in Member
    BY <1>7, HandType DEF Stamp, DeleteSnapshotAgain
  <2>3. RedisTyped'
    BY <1>7, <2>2 DEF Stamp, DeleteSnapshotAgain, Typed, RedisTyped
  <2>4. QED
    BY <1>7, <2>1, <2>3, Frame DEF Stamp, DeleteSnapshotAgain, Typed
<1>8. CASE OriginalGone(w)
  <2>1. WatchersTyped'
    BY <1>8, ReleaseTyped DEF OriginalGone
  <2>2. QED
    BY <1>8, <2>1, Frame DEF OriginalGone, Typed
<1>9. CASE Requeue(w)
  <2>1. WatchersTyped'
    BY <1>9, GotoTyped DEF Requeue, WatcherPC
  <2>2. RedisTyped'
    BY <1>9 DEF Requeue, Typed, RedisTyped
  <2>3. QED
    BY <1>9, <2>1, <2>2, Frame DEF Requeue, Typed
<1>10. CASE ResetPending(w) \/ Remove(w) \/ InsertOver(w)
  <2>1. WatchersTyped'
    BY <1>10, GotoTyped DEF ResetPending, Remove, InsertOver, WatcherPC
  <2>2. hand[w].job \in Member
    BY <1>10, HandType DEF ResetPending, Remove, InsertOver
  <2>3. MongoTyped'
    BY <1>10, <2>2 DEF ResetPending, Remove, InsertOver, Typed, MongoTyped, Primary
  <2>4. QED
    BY <1>10, <2>1, <2>3, Frame DEF ResetPending, Remove, InsertOver, Typed
<1>11. CASE CountFirst(w)
  <2>1. WatchersTyped'
    BY <1>11, GotoTyped DEF CountFirst, WatcherPC
  <2>2. MongoTyped' /\ RedisTyped'
    BY <1>11 DEF CountFirst, CountEnd, Typed, MongoTyped, RedisTyped
  <2>3. QED
    BY <1>11, <2>1, <2>2, Frame DEF CountFirst, Typed
<1>12. CASE Close(w)
  <2>1. WatchersTyped'
    BY <1>12, ReleaseTyped DEF Close
  <2>2. MongoTyped' /\ RedisTyped'
    BY <1>12 DEF Close, CountEnd, Typed, MongoTyped, RedisTyped
  <2>3. QED
    BY <1>12, <2>1, <2>2, Frame DEF Close, Typed
<1>13. QED
  BY <1>1, <1>2, <1>3, <1>4, <1>5, <1>6, <1>7, <1>8, <1>9, <1>10, <1>11, <1>12
  DEF PopRunning, Handle

\* Every variable has its type (the number of restarts: see RestartsBounded).
THEOREM TypedCorrect == Spec => []Typed
<1>1. Init => Typed
  BY ArrayAssumption DEF Init, Typed, MongoTyped, RedisTyped, ExecutorTyped, SchedulerTyped,
     WatchersTyped, Primary, WatcherPC
<1>2. Typed /\ [Next]_vars => Typed'
  <2> SUFFICES ASSUME Typed, [Next]_vars PROVE Typed'
    OBVIOUS
  <2>1. CASE Next
    BY <2>1, UsersTyped, SchedulerStepTyped, WatcherStepTyped DEF Next
  <2>2. CASE UNCHANGED vars
    BY <2>2, Frame DEF vars, Typed
  <2>3. QED
    BY <2>1, <2>2
<1>3. QED
  BY <1>1, <1>2, PTL DEF Spec

-----------------------------------------------------------------------------
(* The submission.                                                         *)

\* Until the parent is stored the scheduler has accepted no child, and none runs.
ParentFirst ==
    doc[Parent] = "new" => accepted \cap Child = {} /\ up = {}

StartInv ==
    /\ doc \in [Member -> Primary]
    /\ ParentFirst

\* A step of the scheduler keeps StartInv: only the acceptance of a child and the
\* launch could break it, the first one asks for a stored parent.
LEMMA SchedulerKeepsStartInv ==
    ASSUME StartInv, Scheduler
    PROVE  StartInv'
<1>1. Parent \in Member
    BY DEF Member
<1>2. CASE SchedulerRead \/ SchedulerEndPass \/ SchedulerSnapshot
    BY <1>2 DEF SchedulerRead, SchedulerEndPass, SchedulerSnapshot, StartInv, ParentFirst,
                mongo, executor
<1>3. ASSUME NEW c \in Child, SchedulerSkip(c)
      PROVE  StartInv'
    BY <1>3 DEF SchedulerSkip, StartInv, ParentFirst, mongo, executor
<1>4. ASSUME NEW j \in Member, SchedulerAccept(j)
      PROVE  StartInv'
    BY <1>1, <1>4 DEF SchedulerAccept, Stored, StartInv, ParentFirst, mongo, executor
<1>5. ASSUME NEW j \in Member, SchedulerPush(j)
      PROVE  StartInv'
    BY <1>5 DEF SchedulerPush, StartInv, ParentFirst, mongo, executor
<1>6. ASSUME NEW R \in SUBSET accepted, SchedulerLaunch(R)
      PROVE  StartInv'
    BY <1>6 DEF SchedulerLaunch, StartInv, ParentFirst
<1>7. CASE SchedulerMark
    BY <1>1, <1>7 DEF SchedulerMark, Stored, StartInv, ParentFirst, Primary, executor
<1> QED
    BY <1>2, <1>3, <1>4, <1>5, <1>6, <1>7 DEF Scheduler

\* A step of a watcher, of a user or of a container keeps it: no update makes a
\* document new again, and containers only go.
LEMMA OthersKeepStartInv ==
    ASSUME StartInv, UNCHANGED accepted, up' \subseteq up,
           \/ UNCHANGED doc
           \/ \E j : \E s \in Primary \ {"new"} : doc' = [doc EXCEPT ![j] = s]
    PROVE  StartInv'
<1>1. Parent \in Member
    BY DEF Member
<1> QED
    BY <1>1 DEF StartInv, ParentFirst

LEMMA UsersKeepStartInv ==
    ASSUME StartInv, Users \/ Containers
    PROVE  StartInv'
<1>1. ASSUME NEW j \in Member, Submit(j)
      PROVE  StartInv'
    BY <1>1, OthersKeepStartInv DEF Submit, Primary, executor, scheduler
<1>2. ASSUME NEW j \in Member, RequestKill(j)
      PROVE  StartInv'
    BY <1>2, OthersKeepStartInv DEF RequestKill, executor, scheduler
<1>3. ASSUME NEW c \in up, ContainerEnds(c)
      PROVE  StartInv'
    BY <1>3, OthersKeepStartInv DEF ContainerEnds, mongo, scheduler
<1> QED
    BY <1>1, <1>2, <1>3 DEF Users, Containers

LEMMA WatchersKeepStartInv ==
    ASSUME StartInv, NEW w \in Watcher, PopKill(w) \/ PopRunning(w) \/ Handle(w)
    PROVE  StartInv'
<1>1. CASE PopKill(w) \/ PopUnknown(w) \/ PopAlive(w) \/ PopOver(w) \/
             PushBack(w) \/ Stamp(w)
    BY <1>1, OthersKeepStartInv DEF PopKill, PopUnknown, PopAlive, PopOver, PushBack, Stamp,
             mongo, executor, scheduler
<1>2. CASE KillWithout(w) \/ KillContainer(w) \/ KillFails(w)
    BY <1>2, OthersKeepStartInv DEF KillWithout, KillContainer, KillFails,
             mongo, executor, scheduler
<1>3. CASE OriginalGone(w) \/ OriginalFound(w) \/ Requeue(w) \/ DeleteSnapshotAgain(w) \/
             CountFirst(w) \/ InsertOver(w) \/ Close(w)
    BY <1>3, OthersKeepStartInv DEF OriginalGone, OriginalFound, Requeue, DeleteSnapshotAgain, CountFirst, InsertOver, Close,
             mongo, executor, scheduler
<1>4. CASE ResetPending(w)
    BY <1>4, OthersKeepStartInv DEF ResetPending, Primary, executor, scheduler
<1>5. CASE Remove(w)
    BY <1>5, OthersKeepStartInv DEF Remove, Primary, executor, scheduler
<1> QED
    BY <1>1, <1>2, <1>3, <1>4, <1>5 DEF PopRunning, Handle

\* No child starts before add_task stored the parent, whatever the interleaving of
\* the submission, the scheduler and the watchers.
THEOREM StartAfterParentCorrect == Spec => []StartAfterParent
<1>1. Init => StartInv
    BY DEF Init, StartInv, ParentFirst, Primary
<1>2. StartInv /\ [Next]_vars => StartInv'
    <2> SUFFICES ASSUME StartInv, [Next]_vars
                 PROVE  StartInv'
        OBVIOUS
    <2>1. CASE Next
        BY <2>1, SchedulerKeepsStartInv, UsersKeepStartInv, WatchersKeepStartInv DEF Next
    <2>2. CASE UNCHANGED vars
        BY <2>2 DEF StartInv, ParentFirst, vars, mongo, executor, scheduler
    <2> QED
        BY <2>1, <2>2
<1>3. StartInv => StartAfterParent
    BY DEF StartInv, ParentFirst, StartAfterParent
<1> QED
    BY <1>1, <1>2, <1>3, PTL DEF Spec

-----------------------------------------------------------------------------
(* Tokens.  An id in the list of running jobs is a token: whoever took it  *)
(* is alone in charge of the job.                                          *)

\* The jobs the scheduler is about to launch or to push, and the one it has
\* pushed but not marked yet.
Waiting == batch \cup accepted \cup starting
Publishing(j) == spc \in {"pushed", "snapped"} /\ scur = j

\* A watcher that took an id from the list of running jobs is in charge of the job
\* until it has put the id back, dropped it, or removed the document.
InCharge == {"original", "requeue", "reset", "count", "remove", "alive"}
InHand(w, j) == wpc[w] \in InCharge /\ hand[w].over /\ hand[w].job = j
HasToken(j) == IsIn(j, running) \/ \E w \in Watcher : InHand(w, j)

\* A kill request carries no failure.  What restarts, counts or goes back comes from
\* the list of running jobs; without kill requests, everything in hand does.
KillTask == {t \in Task : ~t.over /\ ~t.failed}
Kinds ==
    /\ killq \in Seq(KillTask)
    /\ \A w \in Watcher :
          /\ wpc[w] # "idle" => hand[w].over \/ (~hand[w].failed /\ kills # 0)
          /\ wpc[w] = "kill" => hand[w] \in KillTask
          /\ wpc[w] \in {"requeue", "reset", "count", "alive"} => hand[w].over
    /\ kills = 0 => killq = <<>>

OneToken ==
    /\ Distinct(running)
    /\ \A j \in Member, w \in Watcher : InHand(w, j) => ~IsIn(j, running)
    /\ \A j \in Member, v, w \in Watcher : InHand(v, j) /\ InHand(w, j) => v = w

Phases ==
    /\ spc = "idle" => Waiting = {}
    /\ spc = "filter" => starting = {}
    /\ spc \in {"publish", "pushed", "snapped"} => batch = {} /\ accepted = {}
    /\ spc \in {"pushed", "snapped"} => scur \notin Waiting

\* A token is made only for a job without one.
WaitingFree == \A j \in Waiting : ~HasToken(j) /\ doc[j] \in {"pending", "gone"}
TokenLaunched == \A j \in Member : HasToken(j) => /\ doc[j] # "new"
                                                  /\ doc[j] = "pending" => Publishing(j)

\* Only the one in charge removes the document, when there are no kill requests.
TokenKept == kills = 0 => \A j \in Member : HasToken(j) \/ j \in Waiting => doc[j] # "gone"

\* Only the one in charge restarts the job.
Restarts ==
    /\ \A j \in Member : fails[j] <= FailurePolicy
    /\ \A w \in Watcher : wpc[w] \in {"requeue", "reset"} => fails[hand[w].job] < FailurePolicy

Tokens ==
    Kinds /\ OneToken /\ Phases /\ WaitingFree /\ TokenLaunched /\ TokenKept /\ Restarts

LEMMA SameTokens ==
    ASSUME Tokens, UNCHANGED running, UNCHANGED watchers
    PROVE  /\ OneToken'
           /\ \A j \in Member : HasToken(j)' <=> HasToken(j)
BY DEF Tokens, OneToken, HasToken, InHand, watchers

LEMMA FewerTokens ==
    ASSUME Tokens, Distinct(running'),
           \A j \in Member : IsIn(j, running') => IsIn(j, running),
           \A w \in Watcher, j \in Member : InHand(w, j)' => InHand(w, j)
    PROVE  /\ OneToken'
           /\ \A j \in Member : HasToken(j)' => HasToken(j)
BY DEF Tokens, OneToken, HasToken

\* When the watchers do not move: documents get pending when they are new, and
\* running when the job was published.
LEMMA SchedulerTokens ==
    ASSUME Typed, Typed', Tokens, UNCHANGED <<running, fails>>, UNCHANGED watchers,
           kills' = 0 => kills = 0,
           Kinds', Phases',
           \A j \in Waiting' : j \in Waiting \/ (doc[j] = "pending" /\ ~HasToken(j)),
           \A j \in Member : \/ doc'[j] = doc[j]
                             \/ doc[j] = "new" /\ doc'[j] = "pending"
                             \/ j \notin Waiting' /\ doc'[j] = "running",
           \A j \in Member : Publishing(j) => Publishing(j)' \/ doc'[j] # "pending"
    PROVE  Tokens'
<1>1. OneToken' /\ \A j \in Member : HasToken(j)' <=> HasToken(j)
  BY SameTokens
<1>2. Waiting' \subseteq Member
  BY DEF Waiting, Typed, SchedulerTyped
<1>3. WaitingFree'
  BY <1>1, <1>2 DEF WaitingFree, Tokens
<1>4. TokenLaunched'
  BY <1>1 DEF TokenLaunched, Tokens
<1>5. TokenKept'
  BY <1>1, <1>2 DEF TokenKept, Tokens
<1>6. Restarts'
  BY DEF Restarts, Tokens, watchers
<1>7. QED
  BY <1>1, <1>3, <1>4, <1>5, <1>6 DEF Tokens

\* When the scheduler does not move: a watcher changes a document only when it gives
\* the token up, or serves a kill request.
LEMMA WatcherTokens ==
    ASSUME Typed, Tokens, UNCHANGED scheduler, UNCHANGED kills, Kinds', OneToken', Restarts',
           \A j \in Member : HasToken(j)' => HasToken(j),
           \A j \in Member : \/ doc'[j] = doc[j]
                             \/ HasToken(j) /\ ~HasToken(j)'
                             \/ kills # 0 /\ doc'[j] = "gone"
    PROVE  Tokens'
<1>1. /\ Phases' /\ Waiting' = Waiting /\ Waiting \subseteq Member
      /\ \A j \in Member : Publishing(j)' <=> Publishing(j)
  BY DEF Tokens, Phases, Waiting, Publishing, scheduler, Typed, SchedulerTyped
<1>2. WaitingFree'
  BY <1>1 DEF WaitingFree, Tokens
<1>3. TokenLaunched'
  BY <1>1 DEF TokenLaunched, Tokens
<1>4. TokenKept'
  BY <1>1 DEF TokenKept, WaitingFree, Tokens
<1>5. QED
  BY <1>1, <1>2, <1>3, <1>4 DEF Tokens

LEMMA UsersTokens ==
    ASSUME Typed, Typed', Tokens, Users \/ Containers
    PROVE  Tokens'
<1>1. ASSUME NEW j \in Member, Submit(j) PROVE Tokens'
  <2>1. /\ UNCHANGED <<running, fails, killq, kills>> /\ UNCHANGED watchers /\ UNCHANGED scheduler
        /\ doc[j] = "new" /\ doc' = [doc EXCEPT ![j] = "pending"]
    BY <1>1 DEF Submit, redis
  <2>2. Kinds' /\ Phases' /\ Waiting' = Waiting
        /\ \A i \in Member : Publishing(i)' <=> Publishing(i)
    BY <2>1 DEF Tokens, Kinds, Phases, Waiting, Publishing, scheduler, watchers
  <2>3. \A i \in Member : doc'[i] = doc[i] \/ (doc[i] = "new" /\ doc'[i] = "pending")
    BY <2>1 DEF Typed, MongoTyped
  <2>4. QED
    BY <2>1, <2>2, <2>3, SchedulerTokens
<1>2. ASSUME NEW j \in Member, RequestKill(j) PROVE Tokens'
  <2>1. /\ UNCHANGED <<running, fails, doc>> /\ UNCHANGED watchers /\ UNCHANGED scheduler
        /\ kills' = kills + 1
    BY <1>2 DEF RequestKill
  <2>2. kills' # 0
    BY <2>1, ArrayAssumption DEF Typed
  <2>3. [job |-> j, primary |-> doc[j], over |-> FALSE, failed |-> FALSE] \in KillTask
    BY <1>2 DEF RequestKill, Stored, Task, KillTask
  <2>4. killq' \in Seq(KillTask)
    BY <1>2, <2>3, AppendType DEF RequestKill, Tokens, Kinds
  <2>5. Kinds'
    BY <2>1, <2>2, <2>4 DEF Tokens, Kinds, watchers
  <2>6. Phases' /\ Waiting' = Waiting /\ \A i \in Member : Publishing(i)' <=> Publishing(i)
    BY <2>1 DEF Tokens, Phases, Waiting, Publishing, scheduler
  <2>7. QED
    BY <2>1, <2>2, <2>5, <2>6, SchedulerTokens
<1>3. ASSUME NEW c \in up, ContainerEnds(c) PROVE Tokens'
  <2>1. /\ UNCHANGED <<running, fails, doc, killq, kills>> /\ UNCHANGED watchers
        /\ UNCHANGED scheduler
    BY <1>3 DEF ContainerEnds, mongo, redis
  <2>2. Kinds' /\ Phases' /\ Waiting' = Waiting
        /\ \A i \in Member : Publishing(i)' <=> Publishing(i)
    BY <2>1 DEF Tokens, Kinds, Phases, Waiting, Publishing, scheduler, watchers
  <2>3. QED
    BY <2>1, <2>2, SchedulerTokens
<1>4. QED
  BY <1>1, <1>2, <1>3 DEF Users, Containers

LEMMA SchedulerStepTokens ==
    ASSUME Typed, Typed', Tokens, Scheduler
    PROVE  Tokens'
<1>1. UNCHANGED watchers /\ UNCHANGED <<killq, kills, fails>> /\ Kinds'
  <2>1. UNCHANGED watchers /\ UNCHANGED <<killq, kills, fails>>
    BY DEF Scheduler, SchedulerRead, SchedulerSkip, SchedulerAccept, SchedulerLaunch,
       SchedulerPush, SchedulerSnapshot, SchedulerMark, SchedulerEndPass, mongo, redis
  <2>2. QED
    BY <2>1 DEF Tokens, Kinds, watchers
<1>2. CASE SchedulerRead
  <2>1. /\ UNCHANGED <<running, doc>> /\ spc = "idle" /\ spc' = "filter"
        /\ batch' = {j \in Member : doc[j] = "pending"}
        /\ UNCHANGED <<accepted, starting, scur>>
    BY <1>2 DEF SchedulerRead, mongo, redis
  <2>2. Phases' /\ Waiting' = {j \in Member : doc[j] = "pending"}
    BY <2>1 DEF Tokens, Phases, Waiting
  <2>3. \A j \in Member : ~Publishing(j)
    BY <2>1 DEF Publishing
  <2>4. \A j \in Waiting' : doc[j] = "pending" /\ ~HasToken(j)
    BY <2>2, <2>3 DEF Tokens, TokenLaunched
  <2>5. QED
    BY <1>1, <2>1, <2>2, <2>3, <2>4, SchedulerTokens
<1>3. ASSUME NEW j \in Member, SchedulerAccept(j) \/ (j \in Child /\ SchedulerSkip(j))
      PROVE  Tokens'
  <2>1. /\ UNCHANGED <<running, doc>> /\ spc = "filter" /\ spc' = "filter" /\ j \in batch
        /\ batch' = batch \ {j} /\ accepted' \subseteq accepted \cup {j}
        /\ UNCHANGED <<starting, scur>>
    BY <1>3 DEF SchedulerAccept, SchedulerSkip, mongo, redis
  <2>2. Phases' /\ Waiting' \subseteq Waiting
    BY <2>1 DEF Tokens, Phases, Waiting
  <2>3. \A i \in Member : ~Publishing(i)
    BY <2>1 DEF Publishing
  <2>4. QED
    BY <1>1, <2>1, <2>2, <2>3, SchedulerTokens
<1>4. ASSUME NEW R \in SUBSET accepted, SchedulerLaunch(R) PROVE Tokens'
  <2>1. /\ UNCHANGED <<running, doc>> /\ spc = "filter" /\ spc' = "publish"
        /\ batch = {} /\ accepted' = {} /\ starting' = R /\ UNCHANGED <<batch, scur>>
    BY <1>4 DEF SchedulerLaunch, redis
  <2>2. Phases' /\ Waiting' \subseteq Waiting
    BY <2>1 DEF Tokens, Phases, Waiting
  <2>3. \A i \in Member : ~Publishing(i)
    BY <2>1 DEF Publishing
  <2>4. QED
    BY <1>1, <2>1, <2>2, <2>3, SchedulerTokens
<1>5. ASSUME NEW j \in Member, SchedulerPush(j) PROVE Tokens'
  <2>1. /\ UNCHANGED doc /\ running' = Append(running, j) /\ j \in starting
        /\ starting' = starting \ {j} /\ scur' = j /\ spc = "publish" /\ spc' = "pushed"
        /\ UNCHANGED <<batch, accepted>>
    BY <1>5 DEF SchedulerPush, mongo
  <2>2. Phases' /\ j \in Waiting /\ Waiting' = Waiting \ {j}
    BY <2>1 DEF Tokens, Phases, Waiting
  <2>3. ~HasToken(j) /\ doc[j] \in {"pending", "gone"}
    BY <2>2 DEF Tokens, WaitingFree
  <2>4. /\ Distinct(running')
        /\ \A i \in Member : IsIn(i, running') <=> IsIn(i, running) \/ i = j
    BY <2>1, <2>3, DistinctAppend DEF Tokens, OneToken, HasToken, Typed, RedisTyped
  <2>5. \A w \in Watcher, i \in Member : InHand(w, i)' <=> InHand(w, i)
    BY <1>1 DEF InHand, watchers
  <2>6. OneToken' /\ \A i \in Member : HasToken(i)' <=> HasToken(i) \/ i = j
    BY <2>3, <2>4, <2>5 DEF Tokens, OneToken, HasToken
  <2>7. Waiting \subseteq Member
    BY DEF Waiting, Typed, SchedulerTyped
  <2>8. WaitingFree'
    BY <2>1, <2>2, <2>6, <2>7 DEF Tokens, WaitingFree
  <2>9. TokenLaunched'
    BY <2>1, <2>3, <2>6 DEF Tokens, TokenLaunched, Publishing
  <2>10. TokenKept'
    BY <1>1, <2>1, <2>2, <2>6 DEF Tokens, TokenKept
  <2>11. Restarts'
    BY <1>1 DEF Tokens, Restarts, watchers
  <2>12. QED
    BY <1>1, <2>2, <2>6, <2>8, <2>9, <2>10, <2>11 DEF Tokens
<1>6. CASE SchedulerSnapshot
  <2>1. /\ UNCHANGED <<running, doc, batch, accepted, starting, scur>>
        /\ spc = "pushed" /\ spc' = "snapped"
    BY <1>6 DEF SchedulerSnapshot, mongo
  <2>2. Phases' /\ Waiting' = Waiting /\ \A i \in Member : Publishing(i)' <=> Publishing(i)
    BY <2>1 DEF Tokens, Phases, Waiting, Publishing
  <2>3. QED
    BY <1>1, <2>1, <2>2, SchedulerTokens
<1>7. CASE SchedulerMark
  <2>1. /\ UNCHANGED <<running, batch, accepted, starting>> /\ spc = "snapped" /\ spc' = "publish"
        /\ scur \in Member
        /\ IF Stored(scur) THEN doc' = [doc EXCEPT ![scur] = "running"] ELSE doc' = doc
    BY <1>7 DEF SchedulerMark, redis, Typed, SchedulerTyped
  <2>2. Phases' /\ Waiting' = Waiting /\ scur \notin Waiting
    BY <2>1 DEF Tokens, Phases, Waiting
  <2>3. \A j \in Member : doc'[j] = doc[j] \/ (j \notin Waiting' /\ doc'[j] = "running")
    BY <2>1, <2>2 DEF Typed, MongoTyped
  <2>4. \A j \in Member : Publishing(j) => doc'[j] # "pending"
    BY <2>1 DEF Publishing, Stored, Typed, MongoTyped
  <2>5. QED
    BY <1>1, <2>1, <2>2, <2>3, <2>4, SchedulerTokens
<1>8. CASE SchedulerEndPass
  <2>1. /\ UNCHANGED <<running, doc, batch, accepted, starting>>
        /\ starting = {} /\ spc = "publish" /\ spc' = "idle"
    BY <1>8 DEF SchedulerEndPass, mongo, redis
  <2>2. Phases' /\ Waiting' = Waiting /\ \A i \in Member : ~Publishing(i)
    BY <2>1 DEF Tokens, Phases, Waiting, Publishing
  <2>3. QED
    BY <1>1, <2>1, <2>2, SchedulerTokens
<1>9. QED
  BY <1>2, <1>3, <1>4, <1>5, <1>6, <1>7, <1>8 DEF Scheduler, Member

\* What the one in charge of a job knows.
LEMMA TokenKnown ==
    ASSUME Typed, Tokens, NEW w \in Watcher, wpc[w] \in InCharge, hand[w].over
    PROVE  /\ hand[w] \in Task /\ hand[w].job \in Member
           /\ InHand(w, hand[w].job) /\ HasToken(hand[w].job)
           /\ ~IsIn(hand[w].job, running)
           /\ \A v \in Watcher : InHand(v, hand[w].job) => v = w
<1>1. hand[w] \in Task /\ hand[w].job \in Member
  BY HandType DEF InCharge
<1>2. InHand(w, hand[w].job)
  BY DEF InHand
<1>3. QED
  BY <1>1, <1>2 DEF Tokens, OneToken, HasToken

\* A watcher that goes on with what it has, or drops it.
LEMMA MoveTokens ==
    ASSUME Typed, Typed', Tokens, NEW w \in Watcher, NEW pc,
           wpc' = [wpc EXCEPT ![w] = pc],
           \/ hand' = hand /\ (pc \in InCharge => wpc[w] \in InCharge \/ ~hand[w].over)
           \/ pc = "idle" /\ \E t : hand' = [hand EXCEPT ![w] = t],
           UNCHANGED running
    PROVE  /\ OneToken'
           /\ \A j \in Member : HasToken(j)' => HasToken(j)
           /\ \A v \in Watcher \ {w} : wpc'[v] = wpc[v] /\ hand'[v] = hand[v]
           /\ wpc'[w] = pc
<1>1. wpc \in [Watcher -> WatcherPC] /\ hand \in [Watcher -> Task \cup {NoTask}]
  BY DEF Typed, WatchersTyped
<1>2. "idle" \notin InCharge
  BY DEF InCharge
<1>3. /\ \A v \in Watcher \ {w} : wpc'[v] = wpc[v] /\ hand'[v] = hand[v]
      /\ wpc'[w] = pc
  BY <1>1
<1>4. \A j \in Member : InHand(w, j)' => InHand(w, j)
  BY <1>2, <1>3 DEF InHand
<1>5. \A v \in Watcher, j \in Member : InHand(v, j)' => InHand(v, j)
  BY <1>3, <1>4 DEF InHand
<1>6. Distinct(running')
  BY DEF Tokens, OneToken
<1>7. QED
  BY <1>3, <1>5, <1>6, FewerTokens

\* A watcher that takes the head of the list of running jobs.
LEMMA TakeHead ==
    ASSUME Typed, Tokens, NEW w \in Watcher, wpc[w] = "idle", running # <<>>,
           running' = Tail(running), NEW pc \in {"alive", "original"},
           Take(w, Found(Head(running)), pc),
           UNCHANGED <<killq, doc, fails, kills>>, UNCHANGED scheduler
    PROVE  Tokens'
<1>1. running \in Seq(Member) /\ Distinct(running)
  BY DEF Typed, RedisTyped, Tokens, OneToken
<1>2. /\ Head(running) \in Member /\ Distinct(running') /\ IsIn(Head(running), running)
      /\ \A j \in Member : IsIn(j, running') <=> IsIn(j, running) /\ j # Head(running)
  BY <1>1, DistinctTail, HeadTailType
<1>3. Found(Head(running)).job = Head(running) /\ Found(Head(running)).over
  BY DEF Found
<1>4. /\ wpc' = [wpc EXCEPT ![w] = pc]
      /\ hand' = [hand EXCEPT ![w] = Found(Head(running))]
      /\ wpc \in [Watcher -> WatcherPC] /\ hand \in [Watcher -> Task \cup {NoTask}]
  BY DEF Take, Goto, Typed, WatchersTyped
<1>5. \A v \in Watcher, j \in Member :
         InHand(v, j)' <=> InHand(v, j) \/ (v = w /\ j = Head(running))
  BY <1>3, <1>4 DEF InHand, InCharge
<1>6. OneToken'
  BY <1>2, <1>5 DEF OneToken, Tokens
<1>7. \A j \in Member : HasToken(j)' => HasToken(j)
  BY <1>2, <1>5 DEF HasToken
<1>8. Kinds'
  BY <1>3, <1>4 DEF Kinds, Tokens
<1>9. Restarts'
  BY <1>4 DEF Restarts, Tokens
<1>10. QED
  BY <1>6, <1>7, <1>8, <1>9, WatcherTokens

LEMMA WatcherStepTokens ==
    ASSUME Typed, Typed', Tokens, NEW w \in Watcher,
           PopKill(w) \/ PopRunning(w) \/ Handle(w)
    PROVE  Tokens'
<1>1. UNCHANGED scheduler /\ UNCHANGED kills
  BY DEF PopKill, PopRunning, PopUnknown, PopAlive, PopOver, Handle, KillWithout, KillContainer,
     KillFails, PushBack, Stamp, OriginalGone, OriginalFound, Requeue, ResetPending,
     DeleteSnapshotAgain, CountFirst, Remove, InsertOver, Close
<1>2. /\ wpc \in [Watcher -> WatcherPC] /\ hand \in [Watcher -> Task \cup {NoTask}]
      /\ \A v \in Watcher : wpc[v] # "idle" => hand[v] \in Task
      /\ doc \in [Member -> Primary] /\ fails \in [Member -> Nat] /\ FailurePolicy \in Nat
  BY ArrayAssumption DEF Typed, WatchersTyped, MongoTyped
<1>3. CASE PopKill(w)
  <2>1. /\ wpc[w] = "idle" /\ killq # <<>> /\ killq' = Tail(killq)
        /\ wpc' = [wpc EXCEPT ![w] = "kill"] /\ hand' = [hand EXCEPT ![w] = Head(killq)]
        /\ UNCHANGED <<doc, fails, running>>
    BY <1>3 DEF PopKill, Take, Goto, mongo
  <2>2. Head(killq) \in KillTask /\ killq' \in Seq(KillTask) /\ kills # 0
    BY <2>1, HeadTailType DEF Tokens, Kinds
  <2>3. \A v \in Watcher, j \in Member : InHand(v, j)' <=> InHand(v, j)
    BY <1>2, <2>1 DEF InHand, InCharge
  <2>4. OneToken' /\ \A j \in Member : HasToken(j)' => HasToken(j)
    BY <2>1, <2>3, FewerTokens DEF Tokens, OneToken
  <2>5. Kinds'
    BY <1>1, <1>2, <2>1, <2>2 DEF Kinds, Tokens, KillTask
  <2>6. Restarts'
    BY <1>2, <2>1 DEF Restarts, Tokens
  <2>7. QED
    BY <1>1, <2>1, <2>4, <2>5, <2>6, WatcherTokens
<1>4. CASE PopUnknown(w)
  <2>1. /\ UNCHANGED <<doc, fails, killq>> /\ UNCHANGED watchers
        /\ running # <<>> /\ running' = Tail(running)
    BY <1>4 DEF PopUnknown, mongo
  <2>2. /\ Distinct(running')
        /\ \A j \in Member : IsIn(j, running') => IsIn(j, running)
    BY <2>1, DistinctTail DEF Tokens, OneToken, Typed, RedisTyped
  <2>3. OneToken' /\ \A j \in Member : HasToken(j)' => HasToken(j)
    BY <2>1, <2>2, FewerTokens DEF InHand, watchers
  <2>4. Kinds' /\ Restarts'
    BY <1>1, <2>1 DEF Kinds, Restarts, Tokens, watchers
  <2>5. QED
    BY <1>1, <2>1, <2>3, <2>4, WatcherTokens
<1>5. CASE PopAlive(w) \/ PopOver(w)
  <2>1. /\ wpc[w] = "idle" /\ running # <<>> /\ running' = Tail(running)
        /\ \E pc \in {"alive", "original"} : Take(w, Found(Head(running)), pc)
        /\ UNCHANGED <<killq, doc, fails, kills>>
    BY <1>5 DEF PopAlive, PopOver, mongo
  <2>2. QED
    BY <1>1, <2>1, TakeHead
<1>6. CASE KillWithout(w) \/ KillContainer(w)
  <2>1. /\ wpc[w] = "kill" /\ wpc' = [wpc EXCEPT ![w] = "original"]
        /\ UNCHANGED <<doc, fails, killq, running, hand>>
    BY <1>6 DEF KillWithout, KillContainer, Goto, mongo, redis
  <2>2. ~hand[w].over /\ ~hand[w].failed
    BY <2>1 DEF Tokens, Kinds, KillTask
  <2>3. /\ OneToken' /\ \A j \in Member : HasToken(j)' => HasToken(j)
        /\ \A v \in Watcher \ {w} : wpc'[v] = wpc[v] /\ hand'[v] = hand[v]
        /\ wpc'[w] = "original"
    BY <2>1, <2>2, MoveTokens
  <2>4. Kinds'
    BY <1>1, <2>1, <2>3 DEF Kinds, Tokens
  <2>5. Restarts'
    BY <2>1, <2>3 DEF Restarts, Tokens
  <2>6. QED
    BY <1>1, <2>1, <2>3, <2>4, <2>5, WatcherTokens
<1>7. CASE KillFails(w)
  <2>1. /\ wpc[w] = "kill" /\ wpc' = [wpc EXCEPT ![w] = "idle"]
        /\ hand' = [hand EXCEPT ![w] = NoTask]
        /\ killq' = killq \/ killq' = Append(killq, hand[w])
        /\ UNCHANGED <<doc, fails, running>>
    BY <1>7 DEF KillFails, Release, Take, Goto
  <2>2. hand[w] \in KillTask /\ kills # 0
    BY <2>1 DEF Tokens, Kinds, KillTask
  <2>3. killq' \in Seq(KillTask)
    BY <2>1, <2>2, AppendType DEF Tokens, Kinds
  <2>4. /\ OneToken' /\ \A j \in Member : HasToken(j)' => HasToken(j)
        /\ \A v \in Watcher \ {w} : wpc'[v] = wpc[v] /\ hand'[v] = hand[v]
        /\ wpc'[w] = "idle"
    BY <2>1, MoveTokens
  <2>5. Kinds'
    BY <1>1, <2>1, <2>2, <2>3, <2>4 DEF Kinds, Tokens
  <2>6. Restarts'
    BY <2>1, <2>4 DEF Restarts, Tokens
  <2>7. QED
    BY <1>1, <2>1, <2>4, <2>5, <2>6, WatcherTokens
<1>8. CASE PushBack(w)
  <2> DEFINE j == hand[w].job
  <2>1. /\ wpc[w] = "alive" /\ wpc' = [wpc EXCEPT ![w] = "stamp"]
        /\ running' = Append(running, j)
        /\ UNCHANGED <<doc, fails, killq, hand>>
    BY <1>8 DEF PushBack, Goto, mongo
  <2>2. hand[w].over /\ wpc[w] \in InCharge
    BY <2>1 DEF Tokens, Kinds, InCharge
  <2>3. /\ j \in Member /\ HasToken(j) /\ ~IsIn(j, running) /\ InHand(w, j)
        /\ \A v \in Watcher : InHand(v, j) => v = w
    BY <2>2, TokenKnown
  <2>4. /\ Distinct(running')
        /\ \A i \in Member : IsIn(i, running') <=> IsIn(i, running) \/ i = j
    BY <2>1, <2>3, DistinctAppend DEF Tokens, OneToken, Typed, RedisTyped
  <2>5. \A v \in Watcher, i \in Member : InHand(v, i)' <=> InHand(v, i) /\ v # w
    BY <1>2, <2>1 DEF InHand, InCharge
  <2>6. OneToken'
    BY <2>3, <2>4, <2>5 DEF OneToken, Tokens
  <2>7. \A i \in Member : HasToken(i)' => HasToken(i)
    BY <2>3, <2>4, <2>5 DEF HasToken
  <2>8. Kinds' /\ Restarts'
    BY <1>1, <1>2, <2>1 DEF Kinds, Restarts, Tokens
  <2>9. QED
    BY <1>1, <2>1, <2>6, <2>7, <2>8, WatcherTokens
<1>9. CASE Stamp(w) \/ DeleteSnapshotAgain(w) \/ OriginalGone(w) \/ Close(w)
  <2>1. /\ wpc' = [wpc EXCEPT ![w] = "idle"] /\ hand' = [hand EXCEPT ![w] = NoTask]
        /\ UNCHANGED <<doc, fails, killq, running>>
    BY <1>9 DEF Stamp, DeleteSnapshotAgain, OriginalGone, Close, Release, Take, Goto, mongo, redis
  <2>2. /\ OneToken' /\ \A j \in Member : HasToken(j)' => HasToken(j)
        /\ \A v \in Watcher \ {w} : wpc'[v] = wpc[v] /\ hand'[v] = hand[v]
        /\ wpc'[w] = "idle"
    BY <2>1, MoveTokens
  <2>3. Kinds' /\ Restarts'
    BY <1>1, <2>1, <2>2 DEF Kinds, Restarts, Tokens
  <2>4. QED
    BY <1>1, <2>1, <2>2, <2>3, WatcherTokens
<1>10. CASE OriginalFound(w)
  <2>1. /\ wpc[w] = "original" /\ UNCHANGED <<doc, fails, killq, running, hand>>
        /\ \E pc \in {"requeue", "count", "remove"} :
              /\ wpc' = [wpc EXCEPT ![w] = pc]
              /\ pc = "requeue" => MustRestart(hand[w])
              /\ pc = "count" => hand[w].over
    BY <1>10 DEF OriginalFound, Goto, mongo, redis
  <2>2. PICK pc \in {"requeue", "count", "remove"} :
           /\ wpc' = [wpc EXCEPT ![w] = pc]
           /\ pc = "requeue" => MustRestart(hand[w])
           /\ pc = "count" => hand[w].over
    BY <2>1
  <2>3. pc \in InCharge /\ wpc[w] \in InCharge
    BY <2>1 DEF InCharge
  <2>4. /\ OneToken' /\ \A j \in Member : HasToken(j)' => HasToken(j)
        /\ \A v \in Watcher \ {w} : wpc'[v] = wpc[v] /\ hand'[v] = hand[v]
        /\ wpc'[w] = pc
    BY <2>1, <2>2, <2>3, MoveTokens
  <2>5. pc = "requeue" => hand[w].over /\ fails[hand[w].job] < FailurePolicy
    BY <2>1, <2>2 DEF MustRestart, Failure, Tokens, Kinds
  <2>6. Kinds'
    BY <1>1, <2>1, <2>2, <2>4, <2>5 DEF Kinds, Tokens
  <2>7. Restarts'
    BY <2>1, <2>4, <2>5 DEF Restarts, Tokens
  <2>8. QED
    BY <1>1, <2>1, <2>4, <2>6, <2>7, WatcherTokens
<1>11. CASE Requeue(w) \/ CountFirst(w) \/ InsertOver(w)
  <2>1. /\ UNCHANGED <<doc, fails, killq, running, hand>> /\ wpc[w] # "idle"
        /\ \/ wpc[w] = "requeue" /\ wpc' = [wpc EXCEPT ![w] = "reset"]
           \/ wpc[w] = "count" /\ wpc' = [wpc EXCEPT ![w] = "remove"]
           \/ wpc[w] = "insert" /\ wpc' = [wpc EXCEPT ![w] = "close"]
    BY <1>11 DEF Requeue, CountFirst, InsertOver, Goto, mongo, redis
  <2>2. PICK pc \in {"reset", "remove", "close"} :
           /\ wpc' = [wpc EXCEPT ![w] = pc]
           /\ pc = "reset" => wpc[w] = "requeue"
           /\ pc \in InCharge => wpc[w] \in InCharge
    BY <2>1 DEF InCharge
  <2>3. /\ OneToken' /\ \A j \in Member : HasToken(j)' => HasToken(j)
        /\ \A v \in Watcher \ {w} : wpc'[v] = wpc[v] /\ hand'[v] = hand[v]
        /\ wpc'[w] = pc
    BY <2>1, <2>2, MoveTokens
  <2>4. Kinds'
    BY <1>1, <2>1, <2>2, <2>3 DEF Kinds, Tokens
  <2>5. Restarts'
    BY <2>1, <2>2, <2>3 DEF Restarts, Tokens
  <2>6. QED
    BY <1>1, <2>1, <2>3, <2>4, <2>5, WatcherTokens
<1>12. CASE ResetPending(w)
  <2> DEFINE j == hand[w].job
  <2>1. /\ wpc[w] = "reset" /\ wpc' = [wpc EXCEPT ![w] = "unsnap"]
        /\ UNCHANGED <<killq, running, hand>>
        /\ \/ doc' = [doc EXCEPT ![j] = "pending"] /\ fails' = [fails EXCEPT ![j] = @ + 1]
           \/ UNCHANGED <<doc, fails>>
    BY <1>12 DEF ResetPending, Goto, redis
  <2>2. /\ hand[w].over /\ wpc[w] \in InCharge /\ fails[j] < FailurePolicy
        /\ "unsnap" \notin InCharge
    BY <2>1 DEF Tokens, Kinds, Restarts, InCharge
  <2>3. /\ j \in Member /\ HasToken(j) /\ ~IsIn(j, running)
        /\ \A v \in Watcher : InHand(v, j) => v = w
    BY <2>2, TokenKnown
  <2>4. /\ OneToken' /\ \A i \in Member : HasToken(i)' => HasToken(i)
        /\ \A v \in Watcher \ {w} : wpc'[v] = wpc[v] /\ hand'[v] = hand[v]
        /\ wpc'[w] = "unsnap"
    BY <2>1, <2>2, MoveTokens
  <2>5. ~HasToken(j)'
    BY <2>1, <2>2, <2>3, <2>4 DEF HasToken, InHand
  <2>6. Kinds'
    BY <1>1, <2>1, <2>2, <2>4 DEF Kinds, Tokens
  <2>7. Restarts'
    <3>1. \A v \in Watcher \ {w} : wpc[v] \in {"requeue", "reset"} => hand[v].job # j
      BY <2>3 DEF Tokens, Kinds, InHand, InCharge
    <3>2. \A i \in Member : fails'[i] <= FailurePolicy /\ (i # j => fails'[i] = fails[i])
      BY <1>2, <2>1, <2>2, <2>3 DEF Tokens, Restarts
    <3>3. \A v \in Watcher : wpc[v] \in {"requeue", "reset"} => hand[v].job \in Member
      BY HandType
    <3>4. QED
      BY <2>1, <2>4, <3>1, <3>2, <3>3 DEF Tokens, Restarts
  <2>8. \A i \in Member : doc'[i] = doc[i] \/ i = j
    BY <1>2, <2>1
  <2>9. \A i \in Member : doc'[i] = doc[i] \/ (HasToken(i) /\ ~HasToken(i)')
    BY <2>1, <2>3, <2>5, <2>8
  <2>10. QED
    BY <1>1, <2>4, <2>6, <2>7, <2>9, WatcherTokens
<1>13. CASE Remove(w)
  <2> DEFINE j == hand[w].job
  <2>1. /\ wpc[w] = "remove" /\ wpc' = [wpc EXCEPT ![w] = "insert"]
        /\ UNCHANGED <<fails, killq, running, hand>>
        /\ doc' = [doc EXCEPT ![j] = "gone"] \/ doc' = doc
    BY <1>13 DEF Remove, Goto, redis
  <2>2. wpc[w] \in InCharge /\ "insert" \notin InCharge
    BY <2>1 DEF InCharge
  <2>3. /\ OneToken' /\ \A i \in Member : HasToken(i)' => HasToken(i)
        /\ \A v \in Watcher \ {w} : wpc'[v] = wpc[v] /\ hand'[v] = hand[v]
        /\ wpc'[w] = "insert"
    BY <2>1, <2>2, MoveTokens
  <2>4. Kinds' /\ Restarts'
    BY <1>1, <2>1, <2>3 DEF Kinds, Restarts, Tokens
  <2>5. \A i \in Member : doc'[i] = doc[i] \/ (i = j /\ doc'[i] = "gone")
    BY <1>2, <2>1
  <2>6. kills # 0 \/ (HasToken(j) /\ ~HasToken(j)')
    <3>1. CASE hand[w].over
      <4>1. ~IsIn(j, running) /\ HasToken(j) /\ \A v \in Watcher : InHand(v, j) => v = w
        BY <2>2, <3>1, TokenKnown
      <4>2. ~HasToken(j)'
        BY <2>1, <2>2, <2>3, <4>1 DEF HasToken, InHand
      <4>3. QED
        BY <4>1, <4>2
    <3>2. CASE ~hand[w].over
      BY <2>1, <3>2 DEF Tokens, Kinds
    <3>3. QED
      BY <3>1, <3>2
  <2>7. \A i \in Member : \/ doc'[i] = doc[i]
                          \/ HasToken(i) /\ ~HasToken(i)'
                          \/ kills # 0 /\ doc'[i] = "gone"
    BY <2>1, <2>5, <2>6
  <2>8. QED
    BY <1>1, <2>3, <2>4, <2>7, WatcherTokens
<1>14. QED
  BY <1>3, <1>4, <1>5, <1>6, <1>7, <1>8, <1>9, <1>10, <1>11, <1>12, <1>13
  DEF PopRunning, Handle

\* Whatever the users ask for, the ids in the list of running jobs are tokens, made
\* for documents that have none, and only the one in charge restarts a child.
THEOREM TokensCorrect == Spec => []Tokens
<1>1. Init => Tokens
  <2> SUFFICES ASSUME Init PROVE Tokens
    OBVIOUS
  <2>1. Distinct(<<>>) /\ \A j : ~IsIn(j, <<>>)
    BY DEF Distinct, IsIn
  <2>2. /\ running = <<>> /\ killq = <<>> /\ spc = "idle" /\ Waiting = {} /\ kills = 0
        /\ \A w \in Watcher : wpc[w] = "idle"
        /\ \A j \in Member : fails[j] = 0
    BY DEF Init, Waiting
  <2>3. QED
    BY <2>1, <2>2, ArrayAssumption DEF Tokens, Kinds, OneToken, Phases, WaitingFree, TokenLaunched,
       TokenKept, Restarts, HasToken, InHand, InCharge
<1>2. Typed /\ Typed' /\ Tokens /\ [Next]_vars => Tokens'
  <2> SUFFICES ASSUME Typed, Typed', Tokens, [Next]_vars PROVE Tokens'
    OBVIOUS
  <2>1. CASE Next
    BY <2>1, UsersTokens, SchedulerStepTokens, WatcherStepTokens DEF Next
  <2>2. CASE UNCHANGED vars
    <3>1. /\ UNCHANGED <<running, fails, doc, killq, kills>> /\ UNCHANGED watchers
          /\ UNCHANGED scheduler
      BY <2>2 DEF vars, mongo, redis
    <3>2. Kinds' /\ Phases' /\ Waiting' = Waiting
          /\ \A i \in Member : Publishing(i)' <=> Publishing(i)
      BY <3>1 DEF Tokens, Kinds, Phases, Waiting, Publishing, scheduler, watchers
    <3>3. QED
      BY <3>1, <3>2, SchedulerTokens
  <2>3. QED
    BY <2>1, <2>2
<1>3. QED
  BY <1>1, <1>2, TypedCorrect, PTL DEF Spec

\* Every variable has its type, and no child is restarted more often than the policy
\* says, although the count is read before the document is reset.
THEOREM TypeCorrect == Spec => []TypeOK
<1>1. Typed /\ Tokens => TypeOK
  BY DEF TypeOK, Tokens, Restarts
<1>2. QED
  BY <1>1, TypedCorrect, TokensCorrect, PTL

-----------------------------------------------------------------------------
(* The counters of the parent, when nobody asks for a kill.                *)

\* Sets of children, which are finite.
LEMMA ChildrenSize ==
    ASSUME NEW S \in SUBSET Child
    PROVE  /\ Cardinality(S) \in Nat
           /\ \A T \in SUBSET S : Cardinality(T) <= Cardinality(S)
           /\ \A T \in SUBSET Child, c \in S : T \subseteq S /\ c \notin T
                                               => Cardinality(T) <= Cardinality(S) - 1
           /\ \A T \in SUBSET Child, c \in Child : T \subseteq S \cup {c}
                                               => Cardinality(T) <= Cardinality(S) + 1
<1>1. \A T \in SUBSET Child : IsFiniteSet(T) /\ Cardinality(T) \in Nat
  BY ArrayAssumption, FS_Subset, FS_CardinalityType
<1>2. \A T \in SUBSET S : Cardinality(T) <= Cardinality(S)
  BY <1>1, FS_Subset
<1>3. ASSUME NEW T \in SUBSET Child, NEW c \in S, T \subseteq S, c \notin T
      PROVE  Cardinality(T) <= Cardinality(S) - 1
  <2>1. IsFiniteSet(S \ {c}) /\ Cardinality(S \ {c}) = Cardinality(S) - 1
    BY <1>1, FS_RemoveElement
  <2>2. T \in SUBSET (S \ {c})
    BY <1>3
  <2>3. Cardinality(T) <= Cardinality(S \ {c})
    BY <2>1, <2>2, FS_Subset
  <2>4. QED
    BY <1>1, <2>1, <2>3
<1>4. ASSUME NEW T \in SUBSET Child, NEW c \in Child, T \subseteq S \cup {c}
      PROVE  Cardinality(T) <= Cardinality(S) + 1
  <2>1. IsFiniteSet(S \cup {c}) /\ Cardinality(S \cup {c}) <= Cardinality(S) + 1
    BY <1>1, FS_AddElement
  <2>2. T \in SUBSET (S \cup {c}) /\ S \cup {c} \in SUBSET Child
    BY <1>4
  <2>3. Cardinality(T) <= Cardinality(S \cup {c})
    BY <2>1, <2>2, FS_Subset
  <2>4. QED
    BY <1>1, <2>1, <2>2, <2>3
<1>5. QED
  BY <1>1, <1>2, <1>3, <1>4

\* A watcher has removed the end of the parent from the counter, but not yet its
\* document.
Closing == \E w \in Watcher : wpc[w] = "remove" /\ hand[w].job = Parent
CounterOpen == kills = 0 /\ doc[Parent] # "gone" /\ ~Closing

\* The inductive invariant behind CountCovers and EndedOnce.
Counted ==
    /\ CounterOpen => subtaskrunning >= Cardinality(InFlight)
    /\ kills = 0 => nbOver <= Cardinality(Ended)

\* What a step without kill requests does to the documents and to the ends.
LEMMA QuietSteps ==
    ASSUME Typed, Typed', Tokens, [Next]_vars, kills' = 0
    PROVE  /\ kills = 0
           /\ \A j \in Member : doc[j] = "gone" => doc'[j] = "gone"
           /\ \A w \in Watcher : wpc[w] = "remove" =>
                 \/ wpc'[w] = "remove" /\ hand'[w] = hand[w]
                 \/ doc'[hand[w].job] = "gone"
<1>1. /\ doc \in [Member -> Primary] /\ wpc \in [Watcher -> WatcherPC]
      /\ hand \in [Watcher -> Task \cup {NoTask}] /\ kills \in Nat
  BY ArrayAssumption DEF Typed, MongoTyped, WatchersTyped
<1>2. CASE UNCHANGED vars
  BY <1>2 DEF vars, mongo, watchers
<1>3. ASSUME Users \/ Containers
      PROVE  /\ kills' = kills \/ kills' = kills + 1
             /\ \A j \in Member : doc[j] = "gone" => doc'[j] = "gone"
             /\ UNCHANGED watchers
  <2>1. ASSUME NEW j \in Member, Submit(j)
        PROVE  /\ UNCHANGED kills /\ UNCHANGED watchers
               /\ \A i \in Member : doc[i] = "gone" => doc'[i] = "gone"
    BY <1>1, <2>1 DEF Submit
  <2>2. ASSUME NEW j \in Member, RequestKill(j)
        PROVE  kills' = kills + 1 /\ UNCHANGED doc /\ UNCHANGED watchers
    BY <2>2 DEF RequestKill
  <2>3. ASSUME NEW c \in up, ContainerEnds(c)
        PROVE  UNCHANGED kills /\ UNCHANGED doc /\ UNCHANGED watchers
    BY <2>3 DEF ContainerEnds, mongo
  <2>4. QED
    BY <1>3, <2>1, <2>2, <2>3 DEF Users, Containers
<1>4. ASSUME Scheduler
      PROVE  /\ UNCHANGED kills /\ UNCHANGED watchers
             /\ \A j \in Member : doc[j] = "gone" => doc'[j] = "gone"
  <2>1. UNCHANGED kills /\ UNCHANGED watchers
    BY <1>4 DEF Scheduler, SchedulerRead, SchedulerSkip, SchedulerAccept, SchedulerLaunch,
       SchedulerPush, SchedulerSnapshot, SchedulerMark, SchedulerEndPass
  <2>2. CASE SchedulerMark
    BY <1>1, <2>1, <2>2 DEF SchedulerMark, Stored
  <2>3. CASE ~SchedulerMark
    BY <1>4, <2>1, <2>3 DEF Scheduler, SchedulerRead, SchedulerSkip, SchedulerAccept,
       SchedulerLaunch, SchedulerPush, SchedulerSnapshot, SchedulerEndPass, mongo
  <2>4. QED
    BY <2>1, <2>2, <2>3
<1>5. ASSUME NEW w \in Watcher, PopKill(w) \/ PopRunning(w) \/ Handle(w)
      PROVE  /\ UNCHANGED kills
             /\ \A j \in Member : doc[j] = "gone" => doc'[j] = "gone"
             /\ \A v \in Watcher \ {w} : wpc'[v] = wpc[v] /\ hand'[v] = hand[v]
             /\ wpc[w] = "remove" => Remove(w)
  <2>1. /\ UNCHANGED kills
        /\ \A v \in Watcher \ {w} : wpc'[v] = wpc[v] /\ hand'[v] = hand[v]
        /\ wpc[w] = "remove" => Remove(w)
    BY <1>1, <1>5 DEF PopKill, PopRunning, PopUnknown, PopAlive, PopOver, Handle, KillWithout,
       KillContainer, KillFails, PushBack, Stamp, OriginalGone, OriginalFound, Requeue,
       ResetPending, DeleteSnapshotAgain, CountFirst, Remove, InsertOver, Close,
       Take, Release, Goto, watchers
  <2>2. CASE ResetPending(w) \/ Remove(w)
    BY <1>1, <2>1, <2>2 DEF ResetPending, Remove, Stored
  <2>3. CASE ~ResetPending(w) /\ ~Remove(w)
    BY <1>5, <2>1, <2>3 DEF PopKill, PopRunning, PopUnknown, PopAlive, PopOver, Handle,
       KillWithout, KillContainer, KillFails, PushBack, Stamp, OriginalGone, OriginalFound,
       Requeue, DeleteSnapshotAgain, CountFirst, InsertOver, Close, mongo
  <2>4. QED
    BY <2>1, <2>2, <2>3
<1>6. kills = 0
  BY <1>1, <1>2, <1>3, <1>4, <1>5 DEF Next, vars
<1>7. ASSUME NEW w \in Watcher, Remove(w) PROVE doc'[hand[w].job] = "gone"
  <2>1. wpc[w] = "remove" /\ wpc[w] \in InCharge /\ wpc[w] # "idle"
    BY <1>7 DEF Remove, InCharge
  <2>2. hand[w].over
    BY <1>6, <2>1 DEF Tokens, Kinds
  <2>3. hand[w].job \in Member /\ HasToken(hand[w].job)
    BY <2>1, <2>2, TokenKnown
  <2>4. Stored(hand[w].job)
    BY <1>1, <1>6, <2>3 DEF Tokens, TokenLaunched, TokenKept, Stored, Primary
  <2>5. QED
    BY <1>1, <1>7, <2>3, <2>4 DEF Remove
<1>8. QED
  BY <1>2, <1>3, <1>4, <1>5, <1>6, <1>7 DEF Next, vars, mongo, watchers

\* The counter stays open until the parent ends, and no end is forgotten.
LEMMA QuietEnds ==
    ASSUME Typed, Typed', Tokens, [Next]_vars, kills' = 0
    PROVE  /\ CounterOpen' => CounterOpen
           /\ Ended \subseteq Ended'
<1>1. Parent \in Member /\ Child \subseteq Member
  BY DEF Member
<1>2. QED
  BY <1>1, QuietSteps DEF CounterOpen, Closing, Ended

\* All steps but two leave the counters alone and put no child in flight.
LEMMA OtherSteps ==
    ASSUME Typed, Typed', Tokens, [Next]_vars, kills' = 0,
           \A j \in Child : ~SchedulerPush(j),
           \A w \in Watcher : ~CountFirst(w)
    PROVE  UNCHANGED <<subtaskrunning, nbOver>> /\ InFlight' \subseteq InFlight
<1>1. /\ wpc \in [Watcher -> WatcherPC] /\ running \in Seq(Member)
      /\ hand \in [Watcher -> Task \cup {NoTask}]
  BY DEF Typed, WatchersTyped, RedisTyped
<1>2. kills = 0
  BY QuietSteps
<1>3. InFlight = {c \in Child : \/ IsIn(c, running)
                                \/ \E w \in Watcher : /\ wpc[w] \in {"original", "count", "alive"}
                                                      /\ hand[w].job = c}
  BY DEF InFlight, IsIn
<1>4. InFlight' = {c \in Child : \/ IsIn(c, running')
                                 \/ \E w \in Watcher : /\ wpc'[w] \in {"original", "count", "alive"}
                                                       /\ hand'[w].job = c}
  BY DEF InFlight, IsIn
<1>5. CASE UNCHANGED vars \/ Users \/ Containers
  <2>1. UNCHANGED <<subtaskrunning, nbOver, running>> /\ UNCHANGED watchers
    BY <1>5 DEF vars, Users, Submit, RequestKill, Containers, ContainerEnds, mongo, redis
  <2>2. QED
    BY <1>3, <1>4, <2>1 DEF watchers
<1>6. CASE Scheduler
  <2>1. UNCHANGED <<subtaskrunning, nbOver>> /\ UNCHANGED watchers
        /\ \/ UNCHANGED running
           \/ running' = Append(running, Parent)
    BY <1>6 DEF Scheduler, SchedulerRead, SchedulerSkip, SchedulerAccept, SchedulerLaunch,
       SchedulerPush, SchedulerSnapshot, SchedulerMark, SchedulerEndPass, Member, mongo, redis
  <2>2. \A c \in Child : IsIn(c, running') => IsIn(c, running)
    <3>1. Parent \in Member /\ Parent \notin Child /\ Child \subseteq Member
      BY ArrayAssumption DEF Member
    <3>2. CASE UNCHANGED running
      BY <3>2 DEF IsIn
    <3>3. CASE running' = Append(running, Parent)
      <4>1. \A c \in Member : IsIn(c, Append(running, Parent)) <=> IsIn(c, running) \/ c = Parent
        BY <1>1, <3>1, DistinctAppend
      <4>2. QED
        BY <3>1, <3>3, <4>1 DEF IsIn
    <3>4. QED
      BY <2>1, <3>2, <3>3
  <2>3. QED
    BY <1>3, <1>4, <2>1, <2>2 DEF watchers
<1>7. ASSUME NEW w \in Watcher, PopKill(w) \/ PopRunning(w) \/ Handle(w)
      PROVE  UNCHANGED <<subtaskrunning, nbOver>> /\ InFlight' \subseteq InFlight
  <2>1. ~PopKill(w) /\ wpc[w] # "kill" /\ (wpc[w] # "idle" => hand[w].over)
    BY <1>2 DEF Tokens, Kinds, KillTask, PopKill
  <2>2. CASE PopUnknown(w) \/ PopAlive(w) \/ PopOver(w)
    <3>1. /\ wpc[w] = "idle" /\ running # <<>> /\ running' = Tail(running)
          /\ \/ UNCHANGED <<wpc, hand>>
             \/ /\ hand' = [hand EXCEPT ![w] = Found(Head(running))]
                /\ \E pc \in {"alive", "original"} : wpc' = [wpc EXCEPT ![w] = pc]
          /\ UNCHANGED <<subtaskrunning, nbOver>>
      BY <2>2 DEF PopUnknown, PopAlive, PopOver, Take, Goto, mongo, watchers
    <3>2. /\ IsIn(Head(running), running)
          /\ \A c \in Member : IsIn(c, running') => IsIn(c, running)
      BY <1>1, <3>1, DistinctTail DEF Tokens, OneToken
    <3>3. Found(Head(running)).job = Head(running)
      BY DEF Found
    <3>4. \A v \in Watcher \ {w} : wpc'[v] = wpc[v] /\ hand'[v] = hand[v]
      BY <1>1, <3>1
    <3>5. wpc'[w] \in {"original", "count", "alive"} => hand'[w].job = Head(running)
      BY <1>1, <3>1, <3>3
    <3>6. QED
      BY <1>3, <1>4, <3>1, <3>2, <3>4, <3>5 DEF Member
  <2>3. CASE PushBack(w)
    <3>1. /\ wpc[w] = "alive" /\ wpc' = [wpc EXCEPT ![w] = "stamp"] /\ hand' = hand
          /\ running' = Append(running, hand[w].job) /\ UNCHANGED <<subtaskrunning, nbOver>>
      BY <2>3 DEF PushBack, Goto, mongo
    <3>2. hand[w].job \in Member
      BY <3>1, HandType
    <3>3. \A c \in Member : IsIn(c, running') <=> IsIn(c, running) \/ c = hand[w].job
      BY <1>1, <3>1, <3>2, DistinctAppend
    <3>4. \A v \in Watcher : wpc'[v] \in {"original", "count", "alive"} => wpc'[v] = wpc[v]
      BY <1>1, <3>1
    <3>5. QED
      BY <1>3, <1>4, <3>1, <3>3, <3>4 DEF Member
  <2>4. CASE Handle(w) /\ ~PushBack(w)
    <3>1. /\ UNCHANGED <<subtaskrunning, nbOver, running>>
          /\ \/ hand' = hand /\ \E pc \in WatcherPC : /\ wpc' = [wpc EXCEPT ![w] = pc]
                                                      /\ pc \in {"original", "count", "alive"}
                                                         => wpc[w] = "original"
             \/ Release(w)
      BY <2>1, <2>4 DEF Handle, KillWithout, KillContainer, KillFails, Stamp, OriginalGone,
         OriginalFound, Requeue, ResetPending, DeleteSnapshotAgain, Remove,
         InsertOver, Close, Goto, WatcherPC, mongo, redis
    <3>2. \A v \in Watcher : wpc'[v] \in {"original", "count", "alive"} =>
             wpc[v] \in {"original", "count", "alive"} /\ hand'[v] = hand[v]
      BY <1>1, <3>1 DEF Release, Take, Goto
    <3>3. QED
      BY <1>3, <1>4, <3>1, <3>2
  <2>5. QED
    BY <1>7, <2>1, <2>2, <2>3, <2>4 DEF PopRunning
<1>8. QED
  BY <1>5, <1>6, <1>7 DEF Next

\* The counter of an open parent covers its children in flight, and its document
\* counts no end that did not happen.
THEOREM CountedCorrect == Spec => []Counted
<1>1. Init => Counted
  <2> SUFFICES ASSUME Init PROVE Counted
    OBVIOUS
  <2>1. InFlight = {} /\ subtaskrunning = 0 /\ nbOver = 0
    BY DEF Init, InFlight
  <2>2. Ended \in SUBSET Child
    BY DEF Ended
  <2>3. Cardinality(Ended) \in Nat
    BY <2>2, ChildrenSize
  <2>4. QED
    BY <2>1, <2>3, FS_EmptySet DEF Counted
<1>2. ASSUME Typed, Typed', Tokens, Counted, [Next]_vars PROVE Counted'
  <2>1. CASE kills' # 0
    BY <2>1 DEF Counted, CounterOpen
  <2>2. CASE kills' = 0
    <3>1. kills = 0 /\ (CounterOpen' => CounterOpen) /\ Ended \subseteq Ended'
      BY <1>2, <2>2, QuietSteps, QuietEnds
    <3>2. /\ Ended \in SUBSET Child /\ Ended' \in SUBSET Child
          /\ InFlight \in SUBSET Child /\ InFlight' \in SUBSET Child
      BY DEF Ended, InFlight
    <3>3. /\ Cardinality(Ended) \in Nat /\ Cardinality(Ended') \in Nat
          /\ Cardinality(InFlight) \in Nat /\ Cardinality(InFlight') \in Nat
          /\ Cardinality(Ended) <= Cardinality(Ended')
          /\ subtaskrunning \in Int /\ nbOver \in Nat
      BY <1>2, <3>1, <3>2, ChildrenSize DEF Typed, RedisTyped, MongoTyped
    <3>4. ASSUME NEW j \in Child, SchedulerPush(j) PROVE Counted'
      <4>1. /\ subtaskrunning' = subtaskrunning + 1 /\ nbOver' = nbOver
            /\ running' = Append(running, j) /\ UNCHANGED watchers
        BY <3>4 DEF SchedulerPush, mongo
      <4>2. \A c \in Child : IsIn(c, running') <=> IsIn(c, running) \/ c = j
        BY <1>2, <4>1, DistinctAppend DEF Typed, RedisTyped, Member
      <4>3. InFlight' \subseteq InFlight \cup {j}
        BY <4>1, <4>2 DEF InFlight, IsIn, watchers
      <4>4. Cardinality(InFlight') <= Cardinality(InFlight) + 1
        BY <3>2, <4>3, ChildrenSize
      <4>5. QED
        BY <1>2, <3>1, <3>3, <4>1, <4>4 DEF Counted
    <3>5. ASSUME NEW w \in Watcher, CountFirst(w) PROVE Counted'
      <4> DEFINE c == hand[w].job
      <4>1. /\ wpc[w] = "count" /\ CountEnd(c) /\ wpc' = [wpc EXCEPT ![w] = "remove"]
            /\ UNCHANGED <<hand, running, doc>> /\ wpc \in [Watcher -> WatcherPC]
        BY <1>2, <3>5 DEF CountFirst, Goto, Typed, WatchersTyped
      <4>2. wpc[w] \in InCharge /\ hand[w].over
        BY <1>2, <4>1 DEF InCharge, Tokens, Kinds
      <4>3. /\ c \in Member /\ ~IsIn(c, running) /\ HasToken(c)
            /\ \A v \in Watcher : InHand(v, c) => v = w
        BY <1>2, <4>2, TokenKnown
      <4>4. \A v \in Watcher : wpc[v] \in InCharge => hand[v].over
        BY <1>2, <3>1 DEF Tokens, Kinds, InCharge
      <4>5. CASE c = Parent
        <5>1. Closing'
          BY <4>1, <4>5 DEF Closing
        <5>2. nbOver' = nbOver
          BY <4>1, <4>5, ArrayAssumption DEF CountEnd
        <5>3. QED
          BY <1>2, <3>1, <3>3, <5>1, <5>2 DEF Counted, CounterOpen
      <4>6. CASE c \in Child
        <5>1. subtaskrunning' = subtaskrunning - 1 /\ nbOver' \in {nbOver, nbOver + 1}
          BY <4>1, <4>6 DEF CountEnd
        <5>2. c \in InFlight /\ c \notin InFlight' /\ InFlight' \subseteq InFlight
          <6>1. c \in InFlight
            BY <4>1, <4>6 DEF InFlight
          <6>2. InFlight' \subseteq InFlight
            BY <4>1 DEF InFlight
          <6>3. \A v \in Watcher : wpc[v] \in {"original", "count", "alive"} /\ hand[v].job = c
                                   => v = w
            BY <4>3, <4>4 DEF InHand, InCharge
          <6>4. c \notin InFlight'
            BY <4>1, <4>3, <6>3 DEF InFlight, IsIn
          <6>5. QED
            BY <6>1, <6>2, <6>4
        <5>3. Cardinality(InFlight') <= Cardinality(InFlight) - 1
          BY <3>2, <5>2, ChildrenSize
        <5>4. c \in Ended' /\ c \notin Ended
          <6>1. c \in Ended'
            BY <4>1, <4>6 DEF Ended
          <6>2. doc[c] # "gone"
            BY <1>2, <3>1, <4>3 DEF Tokens, TokenKept
          <6>3. \A v \in Watcher : wpc[v] = "remove" => hand[v].job # c
            BY <4>1, <4>3, <4>4 DEF InHand, InCharge
          <6>4. QED
            BY <6>1, <6>2, <6>3 DEF Ended
        <5>5. Cardinality(Ended) <= Cardinality(Ended') - 1
          BY <3>1, <3>2, <5>4, ChildrenSize
        <5>6. QED
          BY <1>2, <3>1, <3>3, <5>1, <5>3, <5>5 DEF Counted
      <4>7. QED
        BY <4>3, <4>5, <4>6 DEF Member
    <3>6. ASSUME \A j \in Child : ~SchedulerPush(j), \A w \in Watcher : ~CountFirst(w)
          PROVE  Counted'
      <4>1. /\ subtaskrunning' = subtaskrunning /\ nbOver' = nbOver
            /\ InFlight' \subseteq InFlight
        BY <1>2, <2>2, <3>6, OtherSteps
      <4>2. Cardinality(InFlight') <= Cardinality(InFlight)
        BY <3>2, <4>1, ChildrenSize
      <4>3. QED
        BY <1>2, <3>1, <3>3, <4>1, <4>2 DEF Counted
    <3>7. QED
      BY <3>4, <3>5, <3>6
  <2>3. QED
    BY <2>1, <2>2
<1>3. QED
  BY <1>1, <1>2, TypedCorrect, TokensCorrect, PTL DEF Spec

\* Without kill requests the counter of a parent that has not ended covers its
\* children in flight, the restarted ones included.
THEOREM CountCoversCorrect == Spec => []CountCovers
<1>1. Counted => CountCovers
  <2> SUFFICES ASSUME Counted, kills = 0, doc[Parent] # "gone", ~Ending
               PROVE  subtaskrunning >= Cardinality(InFlight)
    BY DEF CountCovers
  <2>1. ~Closing
    BY DEF Closing, Ending
  <2>2. QED
    BY <2>1 DEF Counted, CounterOpen
<1>2. QED
  BY <1>1, CountedCorrect, PTL

\* Without kill requests nb_tasks_over never exceeds the number of children that
\* ended: each end is counted once, by the one in charge of the child.
THEOREM EndedOnceCorrect == Spec => []EndedOnce
<1>1. Counted => EndedOnce
  BY DEF Counted, EndedOnce
<1>2. QED
  BY <1>1, CountedCorrect, PTL

=============================================================================
