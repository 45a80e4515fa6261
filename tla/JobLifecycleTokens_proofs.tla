---------------------- MODULE JobLifecycleTokens_proofs ----------------------
(***************************************************************************)
(* As long as nobody asks for a kill or a new run, no job exceeds its life *)
(* span and the scheduler does not die, the id of a job in the list of     *)
(* running jobs is a token: whoever has it is alone in charge of the job.  *)
(* It follows that the end of a job is recorded once, that the counter of  *)
(* queued jobs is right and, with at most two restarts, that a job never   *)
(* runs twice at the same time, for any jobs, watchers and bounds.         *)
(*                                                                         *)
(* Watchers may die at any point: a token in the hands of a dead watcher   *)
(* is lost, and its job with it, but nothing is ever done twice.           *)
(***************************************************************************)
EXTENDS JobLifecycle_proofs

Undisturbed ==
    /\ kills = 0
    /\ reschedules = 0
    /\ outages = 0
    /\ Expiring = {}

-----------------------------------------------------------------------------
(* The invariant.                                                          *)

\* Without requests no kill is under way: every task in hand comes from the
\* list of running jobs.
NoRequest ==
    /\ killq = <<>> /\ reschedq = <<>>
    /\ \A w \in Watcher : /\ wpc[w] # "kill"
                          /\ wpc[w] # "idle" => hand[w].over

InHand(w, j) == wpc[w] \in InCharge /\ hand[w].job = j
HasToken(j) == IsIn(j, running) \/ \E w \in Watcher : InHand(w, j)

OneToken ==
    /\ Distinct(running)
    /\ \A j \in Job, w \in Watcher : InHand(w, j) => ~IsIn(j, running)
    /\ \A j \in Job, v, w \in Watcher : InHand(v, j) /\ InHand(w, j) => v = w

\* The jobs the scheduler is about to launch or to push, and the one it has
\* pushed but not marked yet.
Waiting == batch \cup accepted \cup starting
Publishing(j) == spc \in {"pushed", "snapped", "marking"} /\ scur = j

Phases ==
    /\ spc = "idle" => Waiting = {}
    /\ spc \in {"filter", "quota"} => starting = {} /\ batch \cap accepted = {}
    /\ spc \in {"publish", "pushed", "snapped", "marking"} => batch = {} /\ accepted = {}
    /\ spc \in {"quota", "pushed", "snapped", "marking"} => scur \notin Waiting

\* A token is made only for a job without one, when it is launched.
WaitingPending ==
    \A j \in Waiting : jobs[j].primary = "pending" /\ ~HasToken(j)

TokenLaunched ==
    /\ \A j \in Job : HasToken(j) /\ jobs[j].primary \in {"new", "counted", "pending"}
                      => Publishing(j)
    /\ spc = "quota" => ~HasToken(scur)

\* The one in charge finds the document; nobody else removes it.
TokenStored ==
    /\ \A j \in Job : IsIn(j, running) => Stored(j)
    /\ \A w \in Watcher :
          wpc[w] \in InCharge \ {"insert", "close"} => Stored(hand[w].job)

Tokens ==
    /\ NoRequest
    /\ OneToken
    /\ Phases
    /\ WaitingPending
    /\ TokenLaunched
    /\ TokenStored

\* What may happen then.
SchedulerStep ==
    \/ SchedulerRead \/ SchedulerInsertRejected \/ SchedulerSnapshot
    \/ SchedulerCountOut \/ SchedulerMark \/ SchedulerEndPass
    \/ \E j \in Job : \/ SchedulerSkip(j) \/ SchedulerAccept(j)
                      \/ SchedulerRejectQuota(j) \/ SchedulerPush(j)
                      \/ SchedulerRefuse(j)
    \/ \E R \in SUBSET accepted : SchedulerLaunch(R)

RunningStep(w) ==
    \/ OriginalGone(w) \/ OriginalRequeue(w) \/ OriginalFinish(w)
    \/ Requeue(w) \/ ResetPending(w) \/ DeleteSnapshotAgain(w)
    \/ Remove(w) \/ InsertOver(w) \/ Close(w)
    \/ PopUnknown(w) \/ PopAlive(w) \/ PopOver(w) \/ PushBack(w) \/ Stamp(w)

LEMMA UndisturbedSteps ==
    ASSUME TypeOK, [Next]_vars, Undisturbed'
    PROVE  /\ Undisturbed
           /\ NoRequest =>
                \/ UNCHANGED vars
                \/ \E j \in Job : Count(j) \/ Submit(j)
                \/ Containers
                \/ SchedulerStep
                \/ \E w \in Watcher : RunningStep(w)
                \/ \E w \in Watcher : WatcherCrash(w)
<1>1. kills \in Nat /\ reschedules \in Nat /\ outages \in Nat
  BY DEF TypeOK, BoundsTyped
<1>2. CASE UNCHANGED vars
  BY <1>2 DEF vars, bounds, Undisturbed
<1>3. ASSUME NEW j \in Job, RequestKill(j) \/ RequestReschedule(j) PROVE FALSE
  <2>1. kills' = kills + 1 \/ reschedules' = reschedules + 1
    BY <1>3 DEF RequestKill, RequestReschedule
  <2>2. QED
    BY <1>1, <2>1 DEF Undisturbed
<1>4. ~SchedulerCrash /\ \A w \in Watcher : WatcherCrash(w) => Undisturbed
  BY <1>1 DEF SchedulerCrash, WatcherCrash, Undisturbed
<1>5. CASE Containers
  BY <1>5 DEF Containers, ContainerEnds, bounds, Undisturbed
<1>6. ASSUME NEW j \in Job, Count(j) \/ Submit(j) PROVE Undisturbed
  BY <1>6 DEF Count, Submit, bounds, Undisturbed
<1>7. CASE Scheduler
  <2>1. Undisturbed
    BY <1>7 DEF Scheduler, SchedulerRead, SchedulerSkip, SchedulerAccept,
       SchedulerRejectQuota, SchedulerPush, SchedulerRefuse,
       SchedulerInsertRejected, SchedulerLaunch, SchedulerSnapshot,
       SchedulerCountOut, SchedulerMark, SchedulerEndPass, SchedulerReschedule, bounds,
       Undisturbed
  <2>2. NoRequest => ~SchedulerReschedule
    BY DEF NoRequest, SchedulerReschedule
  <2>3. QED
    BY <1>7, <2>1, <2>2 DEF Scheduler, SchedulerStep
<1>8. ASSUME NEW w \in Watcher, WatcherStep(w)
      PROVE  Undisturbed /\ (NoRequest => RunningStep(w))
  <2>1. CASE PopKill(w) \/ PopRunning(w)
    BY <2>1 DEF PopKill, PopRunning, PopUnknown, PopAlive, PopOver, bounds,
       Undisturbed, NoRequest, RunningStep
  <2>2. CASE Handle(w)
    <3>1. Undisturbed
      BY <2>2 DEF Handle, KillPending, KillContainer, KillFails, OriginalGone,
         OriginalRequeue, OriginalFinish, Requeue, ResetPending,
         DeleteSnapshotAgain, Remove, InsertOver, Close, PushBack, Stamp,
         Expire, bounds, Undisturbed
    <3>2. NoRequest => ~KillPending(w) /\ ~KillContainer(w) /\ ~KillFails(w)
      BY DEF NoRequest, KillPending, KillContainer, KillFails
    <3>3. ~Expire(w)
      BY DEF Expire, Undisturbed
    <3>4. QED
      BY <2>2, <3>1, <3>2, <3>3 DEF Handle, RunningStep
  <2>3. QED
    BY <1>8, <2>1, <2>2 DEF WatcherStep
<1>9. QED
  BY <1>2, <1>3, <1>4, <1>5, <1>6, <1>7, <1>8 DEF Next, Users

-----------------------------------------------------------------------------
(* What the calls do to the tokens and to the documents.                   *)

SameTokens ==
    /\ running' = running
    /\ \A w \in Watcher, j \in Job : InHand(w, j)' <=> InHand(w, j)

LEMMA SameTokensFrame ==
    ASSUME Tokens, SameTokens
    PROVE  /\ OneToken'
           /\ \A j \in Job : HasToken(j)' <=> HasToken(j)
BY DEF Tokens, SameTokens, OneToken, HasToken

\* A watcher in charge goes on with its task, ...
LEMMA GotoTokens ==
    ASSUME TypeOK, NoRequest, NEW w \in Watcher, wpc[w] \in InCharge,
           NEW pc \in InCharge, Goto(w, pc), UNCHANGED <<hand, killq, reschedq>>
    PROVE  /\ NoRequest'
           /\ \A v \in Watcher, j \in Job : InHand(v, j)' <=> InHand(v, j)
<1>1. wpc' = [wpc EXCEPT ![w] = pc] /\ wpc \in [Watcher -> WatcherPC]
  BY DEF Goto, TypeOK, WatchersTyped
<1>2. pc # "kill" /\ wpc[w] # "idle"
  BY DEF InCharge
<1>3. QED
  BY <1>1, <1>2 DEF NoRequest, InHand

\* ... drops it, ...
LEMMA ReleaseTokens ==
    ASSUME TypeOK, NoRequest, NEW w \in Watcher, Release(w),
           UNCHANGED <<killq, reschedq>>
    PROVE  /\ NoRequest'
           /\ \A v \in Watcher, j \in Job : InHand(v, j)' <=> InHand(v, j) /\ v # w
<1>1. /\ wpc' = [wpc EXCEPT ![w] = "idle"] /\ hand' = [hand EXCEPT ![w] = NoTask]
      /\ wpc \in [Watcher -> WatcherPC] /\ hand \in [Watcher -> Task \cup {NoTask}]
  BY DEF Release, Take, Goto, TypeOK, WatchersTyped
<1>2. "idle" \notin InCharge
  BY DEF InCharge
<1>3. QED
  BY <1>1, <1>2 DEF NoRequest, InHand

\* ... or takes one from the list.
LEMMA TakeTokens ==
    ASSUME TypeOK, NoRequest, NEW w \in Watcher, wpc[w] = "idle",
           NEW t \in Task, t.over, NEW pc \in InCharge, Take(w, t, pc),
           UNCHANGED <<killq, reschedq>>
    PROVE  /\ NoRequest'
           /\ \A v \in Watcher, j \in Job :
                 InHand(v, j)' <=> InHand(v, j) \/ (v = w /\ j = t.job)
<1>1. /\ wpc' = [wpc EXCEPT ![w] = pc] /\ hand' = [hand EXCEPT ![w] = t]
      /\ wpc \in [Watcher -> WatcherPC] /\ hand \in [Watcher -> Task \cup {NoTask}]
  BY DEF Take, Goto, TypeOK, WatchersTyped
<1>2. "idle" \notin InCharge /\ "kill" \notin InCharge
  BY DEF InCharge
<1>3. QED
  BY <1>1, <1>2 DEF NoRequest, InHand

\* The state of every document after an update, and after a removal.
LEMMA UpdatePrimary ==
    ASSUME TypeOK, NEW j \in Job, NEW d \in Document, UpdateDoc(j, d)
    PROVE  \A i \in Job : jobs'[i].primary = IF i = j /\ Stored(j) THEN d.primary
                                                                  ELSE jobs[i].primary
BY DEF TypeOK, MongoTyped, UpdateDoc

LEMMA RemovePrimary ==
    ASSUME TypeOK, NEW j \in Job, RemoveDoc(j)
    PROVE  \A i \in Job : jobs'[i].primary = IF i = j /\ Stored(j) THEN "gone"
                                                                  ELSE jobs[i].primary
BY DEF TypeOK, MongoTyped, RemoveDoc, Document

LEMMA SecondaryPrimary ==
    ASSUME TypeOK, NEW j \in Job, NEW s \in Secondary, SetSecondary(j, s)
    PROVE  \A i \in Job : jobs'[i].primary = jobs[i].primary
BY DEF TypeOK, MongoTyped, SetSecondary, UpdateDoc, Document

\* The parts of the invariant an action leaves alone.
LEMMA FrameTokens ==
    ASSUME TypeOK, Tokens
    PROVE  /\ UNCHANGED watchers /\ UNCHANGED <<killq, reschedq>> => NoRequest'
           /\ UNCHANGED watchers => \A w \in Watcher, j \in Job : InHand(w, j)' <=> InHand(w, j)
           /\ UNCHANGED scheduler => Phases' /\ Waiting' = Waiting
           /\ UNCHANGED scheduler => \A j \in Job : Publishing(j)' <=> Publishing(j)
BY DEF Tokens, NoRequest, watchers, InHand, scheduler, Phases, Waiting, Publishing

\* When neither the tokens nor the states of the documents change, what the
\* scheduler does must fit them.
LEMMA SchedulerTokens ==
    ASSUME TypeOK, Tokens, UNCHANGED <<killq, reschedq, running>>, UNCHANGED watchers,
           \A j \in Job : jobs'[j].primary = jobs[j].primary,
           Phases', Waiting' \subseteq Job,
           \A j \in Waiting' : j \in Waiting \/ (jobs[j].primary = "pending" /\ ~HasToken(j)),
           \A j \in Job : Publishing(j) => Publishing(j)',
           spc' = "quota" => ~HasToken(scur') /\ scur' \in Job
    PROVE  Tokens'
<1>1. NoRequest' /\ SameTokens
  BY FrameTokens DEF SameTokens
<1>2. OneToken' /\ \A j \in Job : HasToken(j)' <=> HasToken(j)
  BY <1>1, SameTokensFrame
<1>3. WaitingPending'
  BY <1>2 DEF WaitingPending, Tokens
<1>4. TokenLaunched'
  BY <1>2 DEF TokenLaunched, Tokens
<1>5. TokenStored'
  <2>1. \A w \in Watcher : wpc[w] # "idle" => hand[w].job \in Job
    BY HandType
  <2>2. "idle" \notin InCharge
    BY DEF InCharge
  <2>3. QED
    BY <2>1, <2>2 DEF TokenStored, Tokens, Stored, watchers
<1>6. QED
  BY <1>1, <1>2, <1>3, <1>4, <1>5 DEF Tokens

\* When the scheduler does not move, what a watcher does must fit the tokens:
\* it changes the state of a document only if it has the token of the job.
LEMMA WatcherTokens ==
    ASSUME TypeOK, Tokens, UNCHANGED scheduler, NoRequest', OneToken', TokenStored',
           \A j \in Job : HasToken(j)' => HasToken(j),
           \A j \in Job :
              \/ jobs'[j].primary = jobs[j].primary
              \/ HasToken(j) /\ ~HasToken(j)'
              \/ HasToken(j) /\ jobs'[j].primary \in {"running", "gone"}
    PROVE  Tokens'
<1>1. Phases' /\ Waiting' = Waiting /\ \A j \in Job : Publishing(j)' <=> Publishing(j)
  BY FrameTokens
<1>2. Waiting \subseteq Job /\ (spc = "quota" => scur \in Job)
  BY DEF Waiting, TypeOK, SchedulerTyped
<1>3. WaitingPending'
  BY <1>1, <1>2 DEF WaitingPending, Tokens
<1>4. TokenLaunched'
  BY <1>1, <1>2 DEF TokenLaunched, Tokens, scheduler
<1>5. QED
  BY <1>1, <1>3, <1>4 DEF Tokens

LEMMA FewerTokens ==
    ASSUME Tokens, Distinct(running'),
           \A j \in Job : IsIn(j, running') => IsIn(j, running),
           \A w \in Watcher, j \in Job : InHand(w, j)' => InHand(w, j)
    PROVE  /\ OneToken'
           /\ \A j \in Job : HasToken(j)' => HasToken(j)
BY DEF Tokens, OneToken, HasToken

\* What the one in charge of a job knows.
LEMMA TokenKnown ==
    ASSUME TypeOK, Tokens, NEW w \in Watcher, wpc[w] \in InCharge
    PROVE  /\ wpc[w] # "idle" /\ hand[w] \in Task /\ hand[w].job \in Job /\ hand[w].over
           /\ InHand(w, hand[w].job) /\ HasToken(hand[w].job)
           /\ ~IsIn(hand[w].job, running)
           /\ \A v \in Watcher : InHand(v, hand[w].job) => v = w
           /\ wpc[w] \notin {"insert", "close"} => Stored(hand[w].job)
<1>1. wpc[w] # "idle"
  BY DEF InCharge
<1>2. hand[w] \in Task /\ hand[w].job \in Job
  BY <1>1, HandType
<1>3. InHand(w, hand[w].job)
  BY DEF InHand
<1>4. QED
  BY <1>1, <1>2, <1>3 DEF Tokens, NoRequest, OneToken, HasToken, TokenStored

\* A watcher that only goes on to another step of its handler.
LEMMA GoOn ==
    ASSUME TypeOK, Tokens, NEW w \in Watcher, wpc[w] \in InCharge,
           NEW pc \in InCharge, Goto(w, pc), UNCHANGED hand, UNCHANGED lists,
           UNCHANGED scheduler, UNCHANGED jobs,
           wpc[w] \in {"insert", "close"} => pc \in {"insert", "close"}
    PROVE  Tokens'
<1>1. UNCHANGED <<killq, reschedq, running>>
  BY DEF lists
<1>2. NoRequest' /\ \A v \in Watcher, j \in Job : InHand(v, j)' <=> InHand(v, j)
  BY <1>1, GotoTokens DEF Tokens
<1>3. OneToken' /\ \A j \in Job : HasToken(j)' <=> HasToken(j)
  BY <1>1, <1>2, SameTokensFrame DEF SameTokens
<1>4. TokenStored'
  BY <1>1, TokenKnown DEF TokenStored, Tokens, Stored, Goto, TypeOK, WatchersTyped
<1>5. QED
  BY <1>2, <1>3, <1>4, WatcherTokens

\* A watcher that drops its task.
LEMMA Drop ==
    ASSUME TypeOK, Tokens, NEW w \in Watcher, Release(w), UNCHANGED lists,
           UNCHANGED scheduler, UNCHANGED jobs
    PROVE  Tokens'
<1>1. UNCHANGED <<killq, reschedq, running>>
  BY DEF lists
<1>2. NoRequest' /\ \A v \in Watcher, j \in Job : InHand(v, j)' => InHand(v, j)
  BY <1>1, ReleaseTokens DEF Tokens
<1>3. OneToken' /\ \A j \in Job : HasToken(j)' => HasToken(j)
  BY <1>1, <1>2, FewerTokens DEF Tokens, OneToken
<1>4. TokenStored'
  BY <1>1 DEF TokenStored, Tokens, Stored, Release, Take, Goto, TypeOK, WatchersTyped,
              InCharge
<1>5. QED
  BY <1>2, <1>3, <1>4, WatcherTokens

\* A watcher that takes the head of the list of running jobs.
LEMMA TakeHead ==
    ASSUME TypeOK, Tokens, NEW w \in Watcher, wpc[w] = "idle", running # <<>>,
           running' = Tail(running), NEW t \in Task, t.over, t.job = Head(running),
           NEW pc \in InCharge \ {"insert", "close"}, Take(w, t, pc),
           UNCHANGED <<killq, reschedq, jobs>>, UNCHANGED scheduler
    PROVE  Tokens'
<1>1. running \in Seq(Job) /\ Distinct(running)
  BY DEF TypeOK, ListsTyped, Tokens, OneToken
<1>2. /\ Distinct(running') /\ IsIn(t.job, running)
      /\ \A j \in Job : IsIn(j, running') <=> IsIn(j, running) /\ j # t.job
  BY <1>1, DistinctTail
<1>3. /\ NoRequest'
      /\ \A v \in Watcher, j \in Job :
            InHand(v, j)' <=> InHand(v, j) \/ (v = w /\ j = t.job)
  BY TakeTokens DEF Tokens
<1>4. OneToken'
  BY <1>2, <1>3 DEF OneToken, Tokens
<1>5. \A j \in Job : HasToken(j)' => HasToken(j)
  BY <1>2, <1>3 DEF HasToken
<1>6. t.job \in Job
  BY DEF Task
<1>7. TokenStored'
  BY <1>2, <1>6 DEF TokenStored, Tokens, Stored, Take, Goto, TypeOK, WatchersTyped
<1>8. QED
  BY <1>3, <1>4, <1>5, <1>7, WatcherTokens

-----------------------------------------------------------------------------
\* As long as nothing disturbs them the ids in the list of running jobs are
\* tokens, made for jobs that have none.
THEOREM TokensCorrect == Spec => [](Undisturbed => Tokens)
<1>1. Init => Tokens
  <2>1. Distinct(<<>>) /\ \A j : ~IsIn(j, <<>>)
    BY DEF Distinct, IsIn
  <2>2. ASSUME Init
        PROVE  /\ running = <<>> /\ spc = "idle" /\ Waiting = {}
               /\ \A w \in Watcher : wpc[w] = "idle"
               /\ killq = <<>> /\ reschedq = <<>>
    BY <2>2 DEF Init, Waiting
  <2>3. QED
    BY <2>1, <2>2 DEF Tokens, NoRequest, OneToken, Phases, WaitingPending,
       TokenLaunched, TokenStored, HasToken, InHand, InCharge
<1>2. ASSUME TypeOK, TypeOK', RemovedFirst, Undisturbed => Tokens, [Next]_vars, Undisturbed'
      PROVE  Tokens'
  <2>1. Tokens /\ NoRequest
    BY <1>2, UndisturbedSteps DEF Tokens
  <2>2. /\ \A j \in Waiting : j \in Job
        /\ spc \in {"pushed", "snapped", "marking"} => scur \in Job
        /\ Waiting' \subseteq Job
        /\ running \in Seq(Job)
    BY <1>2 DEF TypeOK, SchedulerTyped, Waiting, ListsTyped
  <2>3. CASE UNCHANGED vars
    <3>1. /\ UNCHANGED <<jobs, killq, reschedq, running>>
          /\ UNCHANGED watchers /\ UNCHANGED scheduler
      BY <2>3 DEF vars, mongo, lists
    <3>2. Phases' /\ Waiting' = Waiting /\ \A j \in Job : Publishing(j)' <=> Publishing(j)
      BY <1>2, <2>1, <3>1, FrameTokens
    <3>3. QED
      BY <1>2, <2>1, <2>2, <3>1, <3>2, SchedulerTokens DEF scheduler, Tokens,
         TokenLaunched, TypeOK, SchedulerTyped
  <2>4. ASSUME NEW j \in Job, Count(j) \/ Submit(j) PROVE Tokens'
    <3>1. /\ UNCHANGED <<killq, reschedq, running>>
          /\ UNCHANGED watchers /\ UNCHANGED scheduler
      BY <2>4 DEF Count, Submit, lists
    <3>2. /\ jobs[j].primary \in {"new", "counted"}
          /\ jobs'[j].primary \in {"counted", "pending"}
          /\ \A i \in Job \ {j} : jobs'[i].primary = jobs[i].primary
      BY <1>2, <2>4 DEF Count, Submit, TypeOK, MongoTyped, Document
    <3>3. ~HasToken(j)
      <4>1. j \notin Submitted
        BY <3>2 DEF Submitted
      <4>2. ~Publishing(j)
        BY <1>2, <4>1 DEF RemovedFirst, SchedulerRemovedFirst, Publishing
      <4>3. QED
        BY <2>1, <3>2, <4>2 DEF Tokens, TokenLaunched
    <3>4. j \notin Waiting
      BY <2>1, <3>2 DEF Tokens, WaitingPending
    <3>5. NoRequest' /\ SameTokens /\ Phases' /\ Waiting' = Waiting
          /\ \A i \in Job : Publishing(i)' <=> Publishing(i)
      BY <1>2, <2>1, <3>1, FrameTokens DEF SameTokens
    <3>6. OneToken' /\ \A i \in Job : HasToken(i)' <=> HasToken(i)
      BY <2>1, <3>5, SameTokensFrame
    <3>7. WaitingPending'
      BY <2>1, <2>2, <3>2, <3>4, <3>5, <3>6 DEF WaitingPending, Tokens
    <3>8. TokenLaunched'
      BY <1>2, <2>1, <3>1, <3>2, <3>3, <3>5, <3>6
      DEF TokenLaunched, Tokens, scheduler, TypeOK, SchedulerTyped
    <3>9. TokenStored'
      <4>1. \A w \in Watcher : wpc[w] \in InCharge => hand[w].job \in Job
        BY <1>2, <2>1, TokenKnown
      <4>2. QED
        BY <2>1, <3>1, <3>2, <4>1 DEF TokenStored, Tokens, Stored, watchers
    <3>10. QED
      BY <3>5, <3>6, <3>7, <3>8, <3>9 DEF Tokens
  <2>5. CASE Containers
    <3>1. /\ UNCHANGED <<jobs, killq, reschedq, running>>
          /\ UNCHANGED watchers /\ UNCHANGED scheduler
      BY <2>5 DEF Containers, ContainerEnds, mongo, lists
    <3>2. Phases' /\ Waiting' = Waiting /\ \A j \in Job : Publishing(j)' <=> Publishing(j)
      BY <1>2, <2>1, <3>1, FrameTokens
    <3>3. QED
      BY <1>2, <2>1, <2>2, <3>1, <3>2, SchedulerTokens DEF scheduler, Tokens,
         TokenLaunched, TypeOK, SchedulerTyped
  <2>6. CASE SchedulerRead
    <3>1. /\ UNCHANGED <<jobs, killq, reschedq, running>> /\ UNCHANGED watchers
      BY <2>6 DEF SchedulerRead, mongo, lists
    <3>2. Phases' /\ Waiting' = Eligible /\ spc' = "filter" /\ spc = "idle"
      BY <2>1, <2>6 DEF SchedulerRead, Tokens, Phases, Waiting
    <3>3. \A j \in Eligible : jobs[j].primary = "pending" /\ ~HasToken(j)
      BY <2>1, <3>2 DEF Eligible, Tokens, TokenLaunched, Publishing
    <3>4. \A j \in Job : ~Publishing(j)
      BY <3>2 DEF Publishing
    <3>5. QED
      BY <1>2, <2>1, <2>2, <3>1, <3>2, <3>3, <3>4, SchedulerTokens
  <2>7. ASSUME NEW j \in Job, SchedulerSkip(j) \/ SchedulerAccept(j) PROVE Tokens'
    <3>1. /\ UNCHANGED <<jobs, killq, reschedq, running>> /\ UNCHANGED watchers
      BY <2>7 DEF SchedulerSkip, SchedulerAccept, mongo, lists
    <3>2. Phases' /\ Waiting' \subseteq Waiting /\ spc' = "filter" /\ spc = "filter"
      BY <2>1, <2>7 DEF SchedulerSkip, SchedulerAccept, Tokens, Phases, Waiting
    <3>3. \A i \in Job : ~Publishing(i)
      BY <3>2 DEF Publishing
    <3>4. QED
      BY <1>2, <2>1, <2>2, <3>1, <3>2, <3>3, SchedulerTokens
  <2>8. ASSUME NEW j \in Job, SchedulerRejectQuota(j) PROVE Tokens'
    <3>1. /\ UNCHANGED <<killq, reschedq, running>> /\ UNCHANGED watchers
      BY <2>8 DEF SchedulerRejectQuota, lists
    <3>2. /\ j \in Waiting /\ Waiting' = Waiting \ {j} /\ Phases'
          /\ spc' = "quota" /\ scur' = j
      BY <2>1, <2>8 DEF SchedulerRejectQuota, Tokens, Phases, Waiting
    <3>3. ~HasToken(j)
      BY <2>1, <3>2 DEF Tokens, WaitingPending
    <3>4. \A i \in Job \ {j} : jobs'[i].primary = jobs[i].primary
      BY <1>2, <2>8, RemovePrimary DEF SchedulerRejectQuota
    <3>5. NoRequest' /\ SameTokens
      BY <1>2, <2>1, <3>1, FrameTokens DEF SameTokens
    <3>6. OneToken' /\ \A i \in Job : HasToken(i)' <=> HasToken(i)
      BY <2>1, <3>5, SameTokensFrame
    <3>7. WaitingPending'
      BY <2>1, <2>2, <3>2, <3>4, <3>6 DEF WaitingPending, Tokens
    <3>8. TokenLaunched'
      <4>1. spc = "filter"
        BY <2>8 DEF SchedulerRejectQuota
      <4>2. QED
        BY <2>1, <3>2, <3>3, <3>4, <3>6, <4>1 DEF TokenLaunched, Tokens, Publishing
    <3>9. TokenStored'
      <4>1. \A w \in Watcher : wpc[w] \in InCharge => hand[w].job \in Job \ {j}
        BY <1>2, <2>1, <3>3, TokenKnown
      <4>2. ~IsIn(j, running)
        BY <3>3 DEF HasToken
      <4>3. QED
        BY <2>1, <3>1, <3>4, <4>1, <4>2 DEF TokenStored, Tokens, Stored, watchers
    <3>10. QED
      BY <3>2, <3>5, <3>6, <3>7, <3>8, <3>9 DEF Tokens
  <2>9. CASE SchedulerInsertRejected
    <3>1. /\ UNCHANGED <<jobs, killq, reschedq, running>> /\ UNCHANGED watchers
      BY <2>9 DEF SchedulerInsertRejected, lists
    <3>2. Phases' /\ Waiting' = Waiting /\ spc' = "filter" /\ spc = "quota"
      BY <2>1, <2>9 DEF SchedulerInsertRejected, Tokens, Phases, Waiting
    <3>3. \A i \in Job : ~Publishing(i)
      BY <3>2 DEF Publishing
    <3>4. QED
      BY <1>2, <2>1, <2>2, <3>1, <3>2, <3>3, SchedulerTokens
  <2>10. ASSUME NEW R \in SUBSET accepted, SchedulerLaunch(R) PROVE Tokens'
    <3>1. /\ UNCHANGED <<jobs, killq, reschedq, running>> /\ UNCHANGED watchers
      BY <2>10 DEF SchedulerLaunch, mongo, lists
    <3>2. Phases' /\ Waiting' \subseteq Waiting /\ spc' = "publish" /\ spc = "filter"
      BY <2>1, <2>10 DEF SchedulerLaunch, Tokens, Phases, Waiting
    <3>3. \A i \in Job : ~Publishing(i)
      BY <3>2 DEF Publishing
    <3>4. QED
      BY <1>2, <2>1, <2>2, <3>1, <3>2, <3>3, SchedulerTokens
  <2>11. ASSUME NEW j \in Job, SchedulerPush(j) PROVE Tokens'
    <3>1. /\ UNCHANGED <<jobs, killq, reschedq>> /\ UNCHANGED watchers
          /\ running' = Append(running, j)
      BY <2>11 DEF SchedulerPush, mongo
    <3>2. /\ j \in Waiting /\ Waiting' = Waiting \ {j} /\ Phases'
          /\ spc' = "pushed" /\ spc = "publish" /\ scur' = j
      BY <2>1, <2>11 DEF SchedulerPush, Tokens, Phases, Waiting
    <3>3. jobs[j].primary = "pending" /\ ~HasToken(j)
      BY <2>1, <3>2 DEF Tokens, WaitingPending
    <3>4. /\ Distinct(running')
          /\ \A i \in Job : IsIn(i, running') <=> IsIn(i, running) \/ i = j
      BY <2>1, <2>2, <3>1, <3>3, DistinctAppend DEF Tokens, OneToken, HasToken
    <3>5. NoRequest' /\ \A w \in Watcher, i \in Job : InHand(w, i)' <=> InHand(w, i)
      BY <1>2, <2>1, <3>1, FrameTokens
    <3>6. OneToken' /\ \A i \in Job : HasToken(i)' <=> HasToken(i) \/ i = j
      BY <2>1, <3>3, <3>4, <3>5 DEF Tokens, OneToken, HasToken
    <3>7. WaitingPending'
      BY <2>1, <2>2, <3>1, <3>2, <3>6 DEF WaitingPending, Tokens
    <3>8. TokenLaunched'
      BY <2>1, <3>1, <3>2, <3>6 DEF TokenLaunched, Tokens, Publishing
    <3>9. TokenStored'
      BY <2>1, <3>1, <3>3, <3>4 DEF TokenStored, Tokens, Stored, watchers
    <3>10. QED
      BY <3>2, <3>5, <3>6, <3>7, <3>8, <3>9 DEF Tokens
  <2>12. CASE SchedulerSnapshot
    <3>1. /\ UNCHANGED <<jobs, killq, reschedq, running>> /\ UNCHANGED watchers
      BY <2>12 DEF SchedulerSnapshot, mongo, lists
    <3>2. /\ Phases' /\ Waiting' = Waiting /\ spc' = "snapped"
          /\ spc = "pushed" /\ scur' = scur
      BY <2>1, <2>12 DEF SchedulerSnapshot, Tokens, Phases, Waiting
    <3>3. \A i \in Job : Publishing(i) => Publishing(i)'
      BY <3>2 DEF Publishing
    <3>4. QED
      BY <1>2, <2>1, <2>2, <3>1, <3>2, <3>3, SchedulerTokens
  <2>12a. CASE SchedulerCountOut
    <3>1. /\ UNCHANGED <<jobs, killq, reschedq, running>> /\ UNCHANGED watchers
      BY <2>12a DEF SchedulerCountOut, mongo, lists
    <3>2. /\ Phases' /\ Waiting' = Waiting /\ spc' = "marking"
          /\ spc = "snapped" /\ scur' = scur
      BY <2>1, <2>12a DEF SchedulerCountOut, Tokens, Phases, Waiting
    <3>3. \A i \in Job : Publishing(i) => Publishing(i)'
      BY <3>2 DEF Publishing
    <3>4. QED
      BY <1>2, <2>1, <2>2, <3>1, <3>2, <3>3, SchedulerTokens
  <2>13. CASE SchedulerMark
    <3>1. /\ UNCHANGED <<killq, reschedq, running>> /\ UNCHANGED watchers
          /\ spc = "marking" /\ scur \in Job
      BY <2>2, <2>13 DEF SchedulerMark, lists
    <3>2. Phases' /\ Waiting' = Waiting /\ spc' = "publish" /\ scur \notin Waiting
      BY <2>1, <2>13 DEF SchedulerMark, Tokens, Phases, Waiting
    <3> DEFINE d == [jobs[scur] EXCEPT !.primary = "running", !.secondary = "none",
                                       !.run = launched[scur]]
    <3>3. /\ jobs[scur] \in Document /\ launched[scur] \in Nat
          /\ "running" \in Primary /\ "none" \in Secondary
      BY <1>2, <3>1 DEF TypeOK, MongoTyped, ExecutorTyped, Primary, Secondary
    <3>4. d \in Document /\ d.primary = "running"
      BY <3>3, DocumentType DEF Document
    <3>5. UpdateDoc(scur, d)
      BY <2>13 DEF SchedulerMark
    <3>6. \A i \in Job : jobs'[i].primary = IF i = scur /\ Stored(scur)
                                            THEN "running" ELSE jobs[i].primary
      <4> HIDE DEF d
      <4> QED
        BY <1>2, <3>1, <3>4, <3>5, UpdatePrimary
    <3>7. NoRequest' /\ SameTokens
      BY <1>2, <2>1, <3>1, FrameTokens DEF SameTokens
    <3>8. OneToken' /\ \A i \in Job : HasToken(i)' <=> HasToken(i)
      BY <2>1, <3>7, SameTokensFrame
    <3>9. WaitingPending'
      BY <2>1, <2>2, <3>2, <3>6, <3>8 DEF WaitingPending, Tokens
    <3>10. TokenLaunched'
      <4>1. scur \in Submitted
        BY <1>2, <3>1 DEF RemovedFirst, SchedulerRemovedFirst
      <4>2. QED
        BY <2>1, <3>1, <3>2, <3>6, <3>8, <4>1
        DEF TokenLaunched, Tokens, Publishing, Submitted, Stored
    <3>11. TokenStored'
      <4>1. \A w \in Watcher : wpc[w] \in InCharge => hand[w].job \in Job
        BY <1>2, <2>1, TokenKnown
      <4>2. QED
        BY <2>1, <3>1, <3>6, <4>1 DEF TokenStored, Tokens, Stored, watchers
    <3>12. QED
      BY <3>2, <3>7, <3>8, <3>9, <3>10, <3>11 DEF Tokens
  <2>14. ASSUME NEW j \in Job, SchedulerRefuse(j) PROVE Tokens'
    <3>1. /\ UNCHANGED <<killq, reschedq, running>> /\ UNCHANGED watchers
      BY <2>14 DEF SchedulerRefuse, lists
    <3>2. \A i \in Job : jobs'[i].primary = jobs[i].primary
      BY <1>2, <2>14, SecondaryPrimary DEF SchedulerRefuse, Secondary
    <3>3. Phases' /\ Waiting' = Waiting /\ spc' = "publish" /\ spc = "publish"
      BY <2>1, <2>14 DEF SchedulerRefuse, Tokens, Phases, Waiting
    <3>4. \A i \in Job : ~Publishing(i)
      BY <3>3 DEF Publishing
    <3>5. QED
      BY <1>2, <2>1, <2>2, <3>1, <3>2, <3>3, <3>4, SchedulerTokens
  <2>15. CASE SchedulerEndPass
    <3>1. /\ UNCHANGED <<jobs, killq, reschedq, running>> /\ UNCHANGED watchers
      BY <2>15 DEF SchedulerEndPass, mongo, lists
    <3>2. Phases' /\ Waiting' = {} /\ spc' = "idle" /\ spc = "publish"
      BY <2>1, <2>15 DEF SchedulerEndPass, Tokens, Phases, Waiting
    <3>3. \A i \in Job : ~Publishing(i)
      BY <3>2 DEF Publishing
    <3>4. QED
      BY <1>2, <2>1, <2>2, <3>1, <3>2, <3>3, SchedulerTokens
  <2>16. ASSUME NEW w \in Watcher, OriginalGone(w) PROVE FALSE
    BY <1>2, <2>1, <2>16, TokenKnown DEF OriginalGone, InCharge
  <2>17. ASSUME NEW w \in Watcher, OriginalFinish(w) PROVE Tokens'
    BY <1>2, <2>1, <2>17, GoOn DEF OriginalFinish, InCharge, mongo
  <2>18. ASSUME NEW w \in Watcher, OriginalRequeue(w) PROVE Tokens'
    <3> DEFINE t == [hand[w] EXCEPT !.fails = jobs[hand[w].job].fails + 1]
    <3>1. /\ wpc[w] \in InCharge /\ "requeue" \in InCharge /\ wpc[w] = "original"
          /\ Take(w, t, "requeue") /\ UNCHANGED <<jobs, killq, reschedq, running>>
          /\ UNCHANGED scheduler
      BY <2>18 DEF OriginalRequeue, InCharge, mongo, lists
    <3>2. hand[w] \in Task /\ hand[w].over /\ Stored(hand[w].job)
      BY <1>2, <2>1, <3>1, TokenKnown
    <3>3. t.job = hand[w].job /\ t.over
      BY <3>2 DEF Task
    <3>4. /\ wpc' = [wpc EXCEPT ![w] = "requeue"] /\ hand' = [hand EXCEPT ![w] = t]
          /\ wpc \in [Watcher -> WatcherPC] /\ hand \in [Watcher -> Task \cup {NoTask}]
      BY <1>2, <3>1 DEF Take, Goto, TypeOK, WatchersTyped
    <3> HIDE DEF t
    <3>5. NoRequest'
      BY <2>1, <3>1, <3>3, <3>4 DEF NoRequest
    <3>6. SameTokens
      BY <3>1, <3>3, <3>4 DEF SameTokens, InHand
    <3>7. OneToken' /\ \A i \in Job : HasToken(i)' <=> HasToken(i)
      BY <2>1, <3>6, SameTokensFrame
    <3>8. TokenStored'
      BY <2>1, <3>1, <3>2, <3>3, <3>4 DEF TokenStored, Tokens, Stored
    <3>9. QED
      BY <1>2, <2>1, <3>1, <3>5, <3>7, <3>8, WatcherTokens
  <2>19. ASSUME NEW w \in Watcher, Requeue(w) PROVE Tokens'
    BY <1>2, <2>1, <2>19, GoOn DEF Requeue, InCharge, mongo
  <2>20. ASSUME NEW w \in Watcher, ResetPending(w) PROVE Tokens'
    <3> DEFINE j == hand[w].job
    <3> DEFINE n == IF hand[w].over THEN hand[w].fails ELSE jobs[j].fails
    <3> DEFINE d == [jobs[j] EXCEPT !.primary = "pending",
                                    !.secondary = "rescheduled", !.fails = n]
    <3>1. wpc[w] = "reset" /\ wpc[w] \in InCharge /\ wpc[w] # "idle"
      BY <2>20 DEF ResetPending, InCharge
    <3>2. /\ j \in Job /\ hand[w].over /\ Stored(j) /\ HasToken(j) /\ ~IsIn(j, running)
          /\ \A v \in Watcher : InHand(v, j) => v = w
      BY <1>2, <2>1, <3>1, TokenKnown
    <3>3. /\ UNCHANGED <<killq, reschedq, running, hand>> /\ UNCHANGED scheduler
          /\ wpc' = [wpc EXCEPT ![w] = "unsnap"] /\ wpc \in [Watcher -> WatcherPC]
      BY <1>2, <2>20, <3>2 DEF ResetPending, lists, Goto, TypeOK, WatchersTyped
    <3>4. /\ jobs[j] \in Document /\ hand[w].fails \in Nat
          /\ "pending" \in Primary /\ "rescheduled" \in Secondary
      BY <1>2, <3>1, <3>2, HandType DEF TypeOK, MongoTyped, Primary, Secondary
    <3>5. n \in Nat
      BY <3>4, DocumentType
    <3>6. d \in Document /\ d.primary = "pending"
      BY <3>4, <3>5, DocumentType DEF Document
    <3>7. UpdateDoc(j, d)
      BY <2>20, <3>4 DEF ResetPending, Document
    <3> HIDE DEF d, n
    <3>8. \A i \in Job : jobs'[i].primary = IF i = j THEN "pending" ELSE jobs[i].primary
      <4> HIDE DEF j
      <4> QED
        BY <1>2, <3>2, <3>6, <3>7, UpdatePrimary
    <3>9. \A v \in Watcher, i \in Job : InHand(v, i)' <=> InHand(v, i) /\ v # w
      BY <3>3 DEF InHand, InCharge
    <3>10. NoRequest'
      BY <2>1, <3>3, <3>1 DEF NoRequest
    <3>11. OneToken' /\ \A i \in Job : HasToken(i)' => HasToken(i)
      BY <2>1, <3>3, <3>9, FewerTokens DEF Tokens, OneToken
    <3>12. ~HasToken(j)'
      BY <3>2, <3>3, <3>9 DEF HasToken
    <3>13. TokenStored'
      <4>1. \A v \in Watcher : wpc[v] \in InCharge => hand[v].job \in Job
        BY <1>2, <2>1, TokenKnown
      <4>2. QED
        BY <2>1, <3>3, <3>8, <4>1 DEF TokenStored, Tokens, Stored, InCharge
    <3>14. QED
      BY <1>2, <2>1, <3>2, <3>3, <3>8, <3>10, <3>11, <3>12, <3>13, WatcherTokens
  <2>21. ASSUME NEW w \in Watcher, DeleteSnapshotAgain(w) \/ Close(w) \/ Stamp(w)
         PROVE  Tokens'
    BY <1>2, <2>1, <2>21, Drop DEF DeleteSnapshotAgain, Close, Stamp, mongo
  <2>22. ASSUME NEW w \in Watcher, Remove(w) PROVE Tokens'
    <3> DEFINE j == hand[w].job
    <3>1. wpc[w] = "remove" /\ wpc[w] \in InCharge /\ "insert" \in InCharge
      BY <2>22 DEF Remove, InCharge
    <3>2. /\ j \in Job /\ Stored(j) /\ HasToken(j) /\ ~IsIn(j, running)
          /\ \A v \in Watcher : InHand(v, j) => v = w
      BY <1>2, <2>1, <3>1, TokenKnown
    <3>3. /\ UNCHANGED <<killq, reschedq, running, hand>> /\ UNCHANGED scheduler
          /\ wpc' = [wpc EXCEPT ![w] = "insert"] /\ wpc \in [Watcher -> WatcherPC]
      BY <1>2, <2>22 DEF Remove, lists, Goto, TypeOK, WatchersTyped
    <3>4. \A i \in Job : jobs'[i].primary = IF i = j THEN "gone" ELSE jobs[i].primary
      <4> HIDE DEF j
      <4>1. RemoveDoc(j)
        BY <2>22 DEF Remove, j
      <4>2. QED
        BY <1>2, <3>2, <4>1, RemovePrimary
    <3>5. NoRequest' /\ \A v \in Watcher, i \in Job : InHand(v, i)' <=> InHand(v, i)
      BY <1>2, <2>1, <2>22, <3>1, <3>3, GotoTokens DEF Remove
    <3>6. OneToken' /\ \A i \in Job : HasToken(i)' <=> HasToken(i)
      BY <2>1, <3>3, <3>5, SameTokensFrame DEF SameTokens
    <3>7. TokenStored'
      <4>1. \A v \in Watcher \ {w} : wpc[v] \in InCharge => hand[v].job \in Job \ {j}
        BY <1>2, <2>1, <3>2, TokenKnown DEF InHand
      <4>2. QED
        BY <2>1, <3>2, <3>3, <3>4, <4>1 DEF TokenStored, Tokens, Stored
    <3>8. QED
      BY <1>2, <2>1, <3>2, <3>3, <3>4, <3>5, <3>6, <3>7, WatcherTokens
  <2>23. ASSUME NEW w \in Watcher, InsertOver(w) PROVE Tokens'
    BY <1>2, <2>1, <2>23, GoOn DEF InsertOver, InCharge
  <2>24. ASSUME NEW w \in Watcher, PopUnknown(w) PROVE Tokens'
    <3>1. /\ UNCHANGED <<jobs, killq, reschedq>> /\ UNCHANGED scheduler
          /\ UNCHANGED watchers /\ running # <<>> /\ running' = Tail(running)
      BY <2>24 DEF PopUnknown, mongo
    <3>2. NoRequest' /\ \A v \in Watcher, i \in Job : InHand(v, i)' <=> InHand(v, i)
      BY <1>2, <2>1, <3>1, FrameTokens
    <3>3. /\ Distinct(running')
          /\ \A i \in Job : IsIn(i, running') => IsIn(i, running)
      BY <2>1, <2>2, <3>1, DistinctTail DEF Tokens, OneToken
    <3>4. OneToken' /\ \A i \in Job : HasToken(i)' => HasToken(i)
      BY <2>1, <3>2, <3>3, FewerTokens
    <3>5. TokenStored'
      BY <2>1, <3>1, <3>3 DEF TokenStored, Tokens, Stored, watchers
    <3>6. QED
      BY <1>2, <2>1, <3>1, <3>2, <3>4, <3>5, WatcherTokens
  <2>25. ASSUME NEW w \in Watcher, PopAlive(w) PROVE Tokens'
    <3> DEFINE t == Snapshot(Head(running), FALSE)
    <3>1. t \in Task /\ t.over /\ t.job = Head(running)
      BY <1>2, <2>2, <2>25, HeadTailType, SnapshotType DEF PopAlive, Snapshot
    <3>2. /\ wpc[w] = "idle" /\ running # <<>> /\ running' = Tail(running)
          /\ Take(w, t, "alive") /\ "alive" \in InCharge \ {"insert", "close"}
          /\ UNCHANGED <<killq, reschedq, jobs>> /\ UNCHANGED scheduler
      BY <2>25 DEF PopAlive, InCharge, mongo
    <3> HIDE DEF t
    <3>3. QED
      BY <1>2, <2>1, <3>1, <3>2, TakeHead
  <2>26. ASSUME NEW w \in Watcher, PopOver(w) PROVE Tokens'
    <3> DEFINE j == Head(running)
    <3> DEFINE f == <<j, snap[j]>> \in failed \cup retries
    <3> DEFINE t == Snapshot(j, f)
    <3>1. j \in Job /\ f \in BOOLEAN
      BY <2>2, <2>26, HeadTailType DEF PopOver
    <3>2. t \in Task /\ t.over /\ t.job = j
      <4> HIDE DEF j, f
      <4> QED
        BY <1>2, <3>1, SnapshotType DEF Snapshot
    <3>3. /\ wpc[w] = "idle" /\ running # <<>> /\ running' = Tail(running)
          /\ Take(w, t, "original") /\ "original" \in InCharge \ {"insert", "close"}
          /\ UNCHANGED <<killq, reschedq, jobs>> /\ UNCHANGED scheduler
      BY <2>26 DEF PopOver, InCharge, mongo
    <3> HIDE DEF t
    <3>4. QED
      BY <1>2, <2>1, <3>2, <3>3, TakeHead
  <2>27. ASSUME NEW w \in Watcher, PushBack(w) PROVE Tokens'
    <3> DEFINE j == hand[w].job
    <3>1. wpc[w] = "alive" /\ wpc[w] \in InCharge
      BY <2>27 DEF PushBack, InCharge
    <3>2. /\ j \in Job /\ Stored(j) /\ HasToken(j) /\ ~IsIn(j, running) /\ InHand(w, j)
          /\ \A v \in Watcher : InHand(v, j) => v = w
      BY <1>2, <2>1, <3>1, TokenKnown
    <3>3. /\ UNCHANGED <<jobs, killq, reschedq, hand>> /\ UNCHANGED scheduler
          /\ running' = Append(running, j)
          /\ wpc' = [wpc EXCEPT ![w] = "stamp"] /\ wpc \in [Watcher -> WatcherPC]
      BY <1>2, <2>27 DEF PushBack, mongo, Goto, TypeOK, WatchersTyped
    <3>4. /\ Distinct(running')
          /\ \A i \in Job : IsIn(i, running') <=> IsIn(i, running) \/ i = j
      BY <2>1, <2>2, <3>2, <3>3, DistinctAppend DEF Tokens, OneToken
    <3>5. \A v \in Watcher, i \in Job : InHand(v, i)' <=> InHand(v, i) /\ v # w
      BY <3>3 DEF InHand, InCharge
    <3>6. NoRequest'
      BY <2>1, <3>1, <3>3 DEF NoRequest
    <3>7. OneToken'
      BY <2>1, <3>2, <3>4, <3>5 DEF OneToken, Tokens
    <3>8. \A i \in Job : HasToken(i)' => HasToken(i)
      BY <3>2, <3>4, <3>5 DEF HasToken
    <3>9. TokenStored'
      BY <2>1, <3>2, <3>3, <3>4 DEF TokenStored, Tokens, Stored, InCharge
    <3>10. QED
      BY <1>2, <2>1, <3>3, <3>6, <3>7, <3>8, <3>9, WatcherTokens
  <2>28. CASE SchedulerStep
    BY <2>28, <2>6, <2>7, <2>8, <2>9, <2>10, <2>11, <2>12, <2>12a, <2>13, <2>14, <2>15
    DEF SchedulerStep
  <2>29. ASSUME NEW w \in Watcher, RunningStep(w) PROVE Tokens'
    BY <2>29, <2>16, <2>17, <2>18, <2>19, <2>20, <2>21, <2>22, <2>23, <2>24,
       <2>25, <2>26, <2>27 DEF RunningStep
  <2>30. ASSUME NEW w \in Watcher, WatcherCrash(w) PROVE Tokens'
    BY <1>2, <2>1, <2>30, Drop DEF WatcherCrash, mongo
  <2>31. QED
    BY <1>2, <2>1, <2>3, <2>4, <2>5, <2>28, <2>29, <2>30, UndisturbedSteps
<1>3. QED
  BY <1>1, <1>2, TypeCorrect, RemovedFirstCorrect, PTL DEF Spec

\* Without kill requests the id of a job is a token: in the list of running
\* jobs at most once, and then in charge of no watcher, or in charge of one.
THEOREM OneOwnerCorrect == Spec => [](Undisturbed => OneOwner)
<1>1. TypeOK /\ Tokens => OneOwner
  <2> SUFFICES ASSUME TypeOK, Tokens PROVE OneOwner
    OBVIOUS
  <2>1. \A n \in DOMAIN running : running[n] \in Job /\ IsIn(running[n], running)
    BY DEF TypeOK, ListsTyped, IsIn
  <2>2. \A n \in DOMAIN running : Owners(running[n]) = {}
    BY <2>1 DEF Tokens, OneToken, InHand, Owners
  <2>3. \A w \in Watcher : wpc[w] \in InCharge => hand[w].job \in Job
    BY TokenKnown
  <2>4. QED
    BY <2>2, <2>3 DEF Tokens, OneToken, InHand, OneOwner, Distinct
<1>2. QED
  BY <1>1, TypeCorrect, TokensCorrect, PTL

-----------------------------------------------------------------------------
(* The end of a job is recorded once.                                      *)

\* The inductive invariant behind RecordedOnce: nothing is recorded of a job
\* before it is removed, and only the one who removed it records it.
RecordsLeft ==
    /\ \A j \in Job : ~Gone(j) => jobsover[j] = 0 /\ usage[j] = 0
    /\ \A w \in Watcher :
          /\ wpc[w] = "insert" => jobsover[hand[w].job] = 0
          /\ wpc[w] \in {"insert", "close"} => Gone(hand[w].job) /\ usage[hand[w].job] = 0
    /\ spc = "quota" => Gone(scur) /\ jobsover[scur] = 0

\* Steps that touch none of the records, and start no removal.
LEMMA RecordsFrame ==
    ASSUME TypeOK, Tokens, RecordsLeft, RecordedOnce, UNCHANGED <<jobsover, usage>>,
           \A j \in Job : Gone(j)' <=> Gone(j),
           \A w \in Watcher : wpc'[w] \in {"insert", "close"}
                                => wpc'[w] = wpc[w] /\ hand'[w] = hand[w],
           spc' = "quota" => spc = "quota" /\ scur' = scur
    PROVE  RecordsLeft' /\ RecordedOnce'
<1>1. \A w \in Watcher : wpc[w] \in {"insert", "close"} => hand[w].job \in Job
  BY TokenKnown DEF InCharge
<1>2. spc = "quota" => scur \in Job
  BY DEF TypeOK, SchedulerTyped
<1>3. QED
  BY <1>1, <1>2 DEF RecordsLeft, RecordedOnce, Gone

LEMMA GoneSame ==
    ASSUME \A j \in Job : jobs'[j].primary = jobs[j].primary
    PROVE  \A j \in Job : Gone(j)' <=> Gone(j)
BY DEF Gone

\* Nothing is recorded of a job that kill_tasks, check_running_jobs or
\* reject_quota did not remove first, nor by a process that did not remove it.
THEOREM RecordsLeftCorrect == Spec => [](Undisturbed => RecordsLeft /\ RecordedOnce)
<1>1. Init => RecordsLeft /\ RecordedOnce
  BY DEF Init, RecordsLeft, RecordedOnce, Gone
<1>2. ASSUME TypeOK, TypeOK', RemovedFirst, Undisturbed => Tokens,
             Undisturbed => RecordsLeft /\ RecordedOnce, [Next]_vars, Undisturbed'
      PROVE  RecordsLeft' /\ RecordedOnce'
  <2> DEFINE Goal == RecordsLeft' /\ RecordedOnce'
  <2>1. Tokens /\ NoRequest /\ RecordsLeft /\ RecordedOnce
    BY <1>2, UndisturbedSteps DEF Tokens
  <2>2. /\ jobs \in [Job -> Document] /\ jobsover \in [Job -> Nat] /\ usage \in [Job -> Nat]
        /\ wpc \in [Watcher -> WatcherPC]
        /\ \A w \in Watcher : wpc[w] \in {"insert", "close"} => hand[w].job \in Job
        /\ spc = "quota" => scur \in Job
    BY <1>2, <2>1, TokenKnown DEF TypeOK, MongoTyped, KeysTyped, WatchersTyped,
       SchedulerTyped, InCharge
  <2>3. CASE UNCHANGED vars
    BY <1>2, <2>1, <2>3, RecordsFrame DEF vars, mongo, keys, watchers, scheduler, Gone
  <2>4. ASSUME NEW j \in Job, Count(j) \/ Submit(j) PROVE Goal
    <3>1. \A i \in Job : Gone(i)' <=> Gone(i)
      BY <2>2, <2>4 DEF Count, Submit, Gone, Document
    <3>2. QED
      BY <1>2, <2>1, <2>4, <3>1, RecordsFrame DEF Count, Submit, keys, watchers, scheduler
  <2>5. CASE Containers
    BY <1>2, <2>1, <2>5, RecordsFrame DEF Containers, ContainerEnds, mongo, keys,
       watchers, scheduler, Gone
  <2>6. ASSUME \/ SchedulerRead \/ SchedulerSnapshot \/ SchedulerCountOut \/ SchedulerEndPass
               \/ \E j \in Job : SchedulerSkip(j) \/ SchedulerAccept(j) \/ SchedulerPush(j)
               \/ \E R \in SUBSET accepted : SchedulerLaunch(R)
        PROVE  Goal
    <3>1. /\ UNCHANGED <<jobs, jobsover, usage>> /\ UNCHANGED watchers
          /\ spc' # "quota"
      BY <2>6 DEF SchedulerRead, SchedulerSnapshot, SchedulerCountOut, SchedulerEndPass, SchedulerSkip,
         SchedulerAccept, SchedulerPush, SchedulerLaunch, mongo, keys
    <3>2. QED
      BY <1>2, <2>1, <3>1, RecordsFrame DEF watchers, Gone
  <2>7. ASSUME NEW j \in Job, SchedulerRejectQuota(j) PROVE Goal
    <3>1. j \in Waiting
      BY <2>7 DEF SchedulerRejectQuota, Waiting
    <3>2. jobs[j].primary = "pending" /\ ~HasToken(j)
      BY <2>1, <3>1 DEF Tokens, WaitingPending
    <3>3. /\ jobs' = [jobs EXCEPT ![j].primary = "gone"] /\ UNCHANGED <<jobsover, usage>>
          /\ UNCHANGED watchers /\ spc' = "quota" /\ scur' = j
      BY <2>7, <3>2 DEF SchedulerRejectQuota, RemoveDoc, Stored, keys
    <3>4. ~Gone(j) /\ \A i \in Job : Gone(i)' <=> Gone(i) \/ i = j
      BY <2>2, <3>2, <3>3 DEF Gone, Document
    <3>5. QED
      BY <2>1, <2>2, <3>3, <3>4 DEF RecordsLeft, RecordedOnce, watchers, Gone
  <2>8. CASE SchedulerInsertRejected
    <3>1. /\ spc = "quota" /\ spc' = "filter" /\ scur \in Job /\ UNCHANGED <<jobs, usage>>
          /\ UNCHANGED watchers /\ jobsover' = [jobsover EXCEPT ![scur] = @ + 1]
      BY <2>2, <2>8 DEF SchedulerInsertRejected, InsertRecord
    <3>2. Gone(scur) /\ jobsover[scur] = 0 /\ ~HasToken(scur)
      BY <2>1, <3>1 DEF RecordsLeft, Tokens, TokenLaunched
    <3>3. \A w \in Watcher : wpc[w] = "insert" => hand[w].job # scur
      BY <3>1, <3>2 DEF HasToken, InHand, InCharge
    <3>4. QED
      BY <2>1, <2>2, <3>1, <3>2, <3>3 DEF RecordsLeft, RecordedOnce, watchers, Gone
  <2>9. CASE SchedulerMark
    <3>1. \A i \in Job : Gone(i)' <=> Gone(i)
      BY <2>2, <2>9 DEF SchedulerMark, UpdateDoc, Stored, Gone, Document
    <3>2. UNCHANGED <<jobsover, usage>> /\ UNCHANGED watchers /\ spc' = "publish"
      BY <2>9 DEF SchedulerMark, keys
    <3>3. QED
      BY <1>2, <2>1, <3>1, <3>2, RecordsFrame DEF watchers
  <2>10. ASSUME NEW j \in Job, SchedulerRefuse(j) PROVE Goal
    <3>1. \A i \in Job : Gone(i)' <=> Gone(i)
      BY <1>2, <2>10, SecondaryPrimary, GoneSame DEF SchedulerRefuse, Secondary
    <3>2. UNCHANGED <<jobsover, usage>> /\ UNCHANGED watchers /\ UNCHANGED <<spc, scur>>
      BY <2>10 DEF SchedulerRefuse, keys
    <3>3. QED
      BY <1>2, <2>1, <3>1, <3>2, RecordsFrame DEF watchers
  <2>11. ASSUME NEW w \in Watcher,
                \/ OriginalGone(w) \/ OriginalRequeue(w) \/ OriginalFinish(w) \/ Requeue(w)
                \/ DeleteSnapshotAgain(w) \/ PopAlive(w) \/ PopOver(w) \/ PushBack(w)
                \/ Stamp(w) \/ WatcherCrash(w)
         PROVE  Goal
    <3>1. /\ UNCHANGED <<jobs, jobsover, usage>> /\ UNCHANGED scheduler
          /\ wpc'[w] \notin {"insert", "close"}
          /\ \A v \in Watcher : v = w \/ (wpc'[v] = wpc[v] /\ hand'[v] = hand[v])
      BY <1>2, <2>11 DEF OriginalGone, OriginalRequeue, OriginalFinish, Requeue,
         DeleteSnapshotAgain, PopAlive, PopOver, PushBack, Stamp, WatcherCrash, mongo, keys,
         Release, Take, Goto, TypeOK, WatchersTyped
    <3>2. QED
      BY <1>2, <2>1, <3>1, RecordsFrame DEF scheduler, Gone
  <2>12. ASSUME NEW w \in Watcher, PopUnknown(w) PROVE Goal
    BY <1>2, <2>1, <2>12, RecordsFrame DEF PopUnknown, mongo, keys, watchers, scheduler, Gone
  <2>13. ASSUME NEW w \in Watcher, ResetPending(w) PROVE Goal
    <3>1. \A i \in Job : Gone(i)' <=> Gone(i)
      BY <2>2, <2>13 DEF ResetPending, UpdateDoc, Stored, Gone, Document
    <3>2. /\ UNCHANGED <<jobsover, usage>> /\ UNCHANGED scheduler
          /\ wpc'[w] \notin {"insert", "close"}
          /\ \A v \in Watcher : v = w \/ (wpc'[v] = wpc[v] /\ hand'[v] = hand[v])
      BY <1>2, <2>13 DEF ResetPending, keys, Release, Take, Goto, TypeOK, WatchersTyped
    <3>3. QED
      BY <1>2, <2>1, <3>1, <3>2, RecordsFrame DEF scheduler
  <2>14. ASSUME NEW w \in Watcher, Remove(w) PROVE Goal
    <3>1. /\ wpc[w] = "remove" /\ wpc[w] \in InCharge
          /\ wpc' = [wpc EXCEPT ![w] = "insert"]
          /\ UNCHANGED <<usage, hand, spc, scur>>
      BY <2>14 DEF Remove, InCharge, Goto, keys, scheduler
    <3>2. /\ hand[w].job \in Job /\ Stored(hand[w].job)
          /\ \A v \in Watcher : InHand(v, hand[w].job) => v = w
      BY <1>2, <2>1, <3>1, TokenKnown
    <3>3. jobs' = [jobs EXCEPT ![hand[w].job].primary = "gone"] /\ UNCHANGED jobsover
      BY <2>14, <3>2 DEF Remove, RemoveDoc
    <3>4. /\ ~Gone(hand[w].job)
          /\ \A i \in Job : Gone(i)' <=> Gone(i) \/ i = hand[w].job
      BY <2>2, <3>2, <3>3 DEF Gone, Stored, Document
    <3>5. QED
      BY <2>1, <2>2, <3>1, <3>2, <3>3, <3>4 DEF RecordsLeft, RecordedOnce, Gone
  <2>15. ASSUME NEW w \in Watcher, InsertOver(w) PROVE Goal
    <3>1. /\ wpc[w] = "insert" /\ wpc[w] \in InCharge
          /\ wpc' = [wpc EXCEPT ![w] = "close"]
          /\ UNCHANGED <<jobs, usage, hand, spc, scur>>
          /\ jobsover' = [jobsover EXCEPT ![hand[w].job] = @ + 1]
      BY <2>15 DEF InsertOver, InsertRecord, InCharge, Goto, keys, scheduler
    <3>2. /\ hand[w].job \in Job /\ HasToken(hand[w].job)
          /\ \A v \in Watcher : InHand(v, hand[w].job) => v = w
      BY <1>2, <2>1, <3>1, TokenKnown
    <3>3. \A v \in Watcher : wpc[v] = "insert" /\ hand[v].job = hand[w].job => v = w
      BY <3>2 DEF InHand, InCharge
    <3>4. spc = "quota" => scur # hand[w].job
      BY <2>1, <3>2 DEF Tokens, TokenLaunched
    <3>5. QED
      BY <2>1, <2>2, <3>1, <3>2, <3>3, <3>4 DEF RecordsLeft, RecordedOnce, Gone
  <2>16. ASSUME NEW w \in Watcher, Close(w) PROVE Goal
    <3>1. /\ wpc[w] = "close" /\ wpc[w] \in InCharge
          /\ UNCHANGED <<jobs, jobsover, spc, scur>>
          /\ usage' = [usage EXCEPT ![hand[w].job] = @ + 1]
          /\ wpc'[w] = "idle"
          /\ \A v \in Watcher : v = w \/ (wpc'[v] = wpc[v] /\ hand'[v] = hand[v])
      BY <1>2, <2>16 DEF Close, InCharge, Release, Take, Goto, mongo, scheduler, TypeOK,
         WatchersTyped
    <3>2. /\ hand[w].job \in Job
          /\ \A v \in Watcher : InHand(v, hand[w].job) => v = w
      BY <1>2, <2>1, <3>1, TokenKnown
    <3>3. \A v \in Watcher : wpc[v] \in {"insert", "close"} /\ hand[v].job = hand[w].job => v = w
      BY <3>2 DEF InHand, InCharge
    <3>4. QED
      BY <2>1, <2>2, <3>1, <3>2, <3>3 DEF RecordsLeft, RecordedOnce, Gone
  <2>17. CASE SchedulerStep
    BY <2>17, <2>6, <2>7, <2>8, <2>9, <2>10 DEF SchedulerStep
  <2>18. ASSUME NEW w \in Watcher, RunningStep(w) PROVE Goal
    BY <2>18, <2>11, <2>12, <2>13, <2>14, <2>15, <2>16 DEF RunningStep
  <2>19. QED
    BY <1>2, <2>1, <2>3, <2>4, <2>5, <2>11, <2>17, <2>18, UndisturbedSteps
<1>3. QED
  BY <1>1, <1>2, TypeCorrect, RemovedFirstCorrect, TokensCorrect, PTL DEF Spec

\* The end of a job is recorded once: one document in jobsover, and one call of
\* update_user_usage.
THEOREM RecordedOnceCorrect == Spec => [](Undisturbed => RecordedOnce)
BY RecordsLeftCorrect, PTL

-----------------------------------------------------------------------------
(* A job never runs twice at the same time.                                *)

Fresh == {"new", "counted", "pending"}
NoneUp(j) == \A c \in up : c[1] # j
Starting(j) == j \in starting \/ Publishing(j)

\* The numbers of containers the executor, the keys and the watchers mention.
Numbered ==
    /\ \A c \in up \cup failed : 1 <= c[2] /\ c[2] <= launched[c[1]]
    /\ \A c \in retries : c[2] >= 2
    /\ \A j \in Job : snap[j] <= launched[j]
    /\ \A w \in Watcher : wpc[w] # "idle" => hand[w].run <= launched[hand[w].job]
    /\ \A j \in Job : HasToken(j) \/ Starting(j) => launched[j] >= 1

\* A job is launched once, and once more for each restart; it waits for a
\* launch only when no container of its is up, and the failure of its first
\* container is not reported twice.
Restarts ==
    \A j \in Job :
        /\ launched[j] <= jobs[j].fails + 1
        /\ jobs[j].fails >= 1 => launched[j] >= 1 /\ <<j, 1>> \notin up \cup failed
        /\ jobs[j].primary \in Fresh /\ ~Starting(j)
              => launched[j] <= jobs[j].fails /\ NoneUp(j)

Ended(j) == NoneUp(j) /\ <<j, 1>> \notin failed

\* A watcher that is to restart a job found the last container of the job
\* stopped: with two restarts at most, a key that another watcher set again is
\* the key of the first run, which does not look failed any more.
RestartsOver ==
    \A w \in Watcher :
        /\ (/\ wpc[w] = "original" /\ hand[w].failed
            /\ jobs[hand[w].job].fails < FailurePolicy) => Ended(hand[w].job)
        /\ wpc[w] \in {"requeue", "reset"} =>
              Ended(hand[w].job) /\ hand[w].fails = jobs[hand[w].job].fails + 1

Runs ==
    /\ Numbered
    /\ Restarts
    /\ RestartsOver
    /\ \A c, d \in up : c[1] = d[1] => c = d

\* Steps that start no container and restart no job.
LEMMA RunsFrame ==
    ASSUME TypeOK, Tokens, Runs, UNCHANGED <<up, failed, retries, launched>>,
           \A j \in Job : snap'[j] <= launched[j],
           \A w \in Watcher : wpc'[w] # "idle" => hand'[w].run <= launched[hand'[w].job],
           \A j \in Job : HasToken(j)' => HasToken(j) \/ Starting(j),
           \A j \in Job : Starting(j)' => Starting(j),
           \A j \in Job : jobs'[j].fails = jobs[j].fails,
           \A j \in Job : jobs'[j].primary \in Fresh /\ ~Starting(j)'
                            => jobs[j].primary \in Fresh /\ ~Starting(j),
           \A w \in Watcher : wpc'[w] \in {"original", "requeue", "reset"}
                => /\ hand'[w] = hand[w]
                   /\ wpc'[w] = wpc[w] \/ (wpc[w] = "requeue" /\ wpc'[w] = "reset")
    PROVE  Runs'
<1>1. Numbered'
  BY DEF Runs, Numbered
<1>2. Restarts'
  BY DEF Runs, Restarts, NoneUp
<1>3. RestartsOver'
  <2>1. \A w \in Watcher : wpc'[w] \in {"original", "requeue", "reset"} => hand[w].job \in Job
    BY TokenKnown DEF InCharge
  <2>2. QED
    BY <2>1 DEF Runs, RestartsOver, Ended, NoneUp
<1>4. QED
  BY <1>1, <1>2, <1>3 DEF Runs

\* The number of failures and the state after an update, or a removal.
LEMMA SecondaryFails ==
    ASSUME TypeOK, NEW j \in Job, NEW s \in Secondary, SetSecondary(j, s)
    PROVE  \A i \in Job : /\ jobs'[i].fails = jobs[i].fails
                          /\ jobs'[i].primary = jobs[i].primary
BY DEF TypeOK, MongoTyped, SetSecondary, UpdateDoc, Document

LEMMA RemoveFails ==
    ASSUME TypeOK, NEW j \in Job, RemoveDoc(j)
    PROVE  \A i \in Job : /\ jobs'[i].fails = jobs[i].fails
                          /\ jobs'[i].primary \in {jobs[i].primary, "gone"}
BY DEF TypeOK, MongoTyped, RemoveDoc, Document

\* A watcher that finds the last container of a job stopped.
LEMMA PopFindsEnded ==
    ASSUME TypeOK, Runs, FailurePolicy <= 2, NEW j \in Job, snap[j] # 0,
           <<j, snap[j]>> \notin up, <<j, snap[j]>> \in failed \cup retries,
           jobs[j].fails < FailurePolicy
    PROVE  NoneUp(j) /\ <<j, 1>> \notin failed \ {<<j, snap[j]>>}
<1>1. /\ snap[j] \in Nat /\ launched[j] \in Nat /\ jobs[j].fails \in Nat
      /\ up \subseteq Job \X Nat /\ FailurePolicy \in Nat
  BY ConstantsAssumption, DocumentType DEF TypeOK, KeysTyped, ExecutorTyped, MongoTyped
<1>2. snap[j] <= launched[j] /\ launched[j] <= jobs[j].fails + 1
  BY DEF Runs, Numbered, Restarts
<1>3. \A c \in up : c[1] = j => c = <<j, c[2]>> /\ c[2] \in Nat /\ 1 <= c[2] /\ c[2] <= launched[j]
  BY <1>1 DEF Runs, Numbered
<1>4. CASE jobs[j].fails = 0
  <2>1. snap[j] = 1 /\ launched[j] = 1
    BY <1>1, <1>2, <1>4
  <2>2. \A c \in up : c[1] = j => c[2] = 1
    BY <1>3, <2>1
  <2>3. NoneUp(j)
    BY <1>3, <2>1, <2>2 DEF NoneUp
  <2>4. QED
    BY <2>1, <2>3
<1>5. CASE jobs[j].fails = 1
  <2>1. <<j, 1>> \notin up \cup failed
    BY <1>5 DEF Runs, Restarts
  <2>2. <<j, 1>> \notin retries
    BY DEF Runs, Numbered
  <2>3. snap[j] = 2 /\ launched[j] = 2
    <3>1. snap[j] # 1
      BY <2>1, <2>2
    <3>2. QED
      BY <1>1, <1>2, <1>5, <3>1
  <2>4. \A c \in up : c[1] = j => c[2] = 1 \/ c[2] = 2
    BY <1>3, <2>3
  <2>5. NoneUp(j)
    BY <1>3, <2>1, <2>3, <2>4 DEF NoneUp
  <2>6. QED
    BY <2>1, <2>5
<1>6. QED
  BY <1>1, <1>4, <1>5

\* The numbers of the containers, the failures counted and what the watchers
\* have in hand fit together, when a job is restarted twice at most.
THEOREM RunsCorrect ==
    ASSUME FailurePolicy <= 2
    PROVE  Spec => [](Undisturbed => Runs)
<1>1. Init => Runs
  <2>1. ASSUME Init
        PROVE  /\ \A j \in Job : ~HasToken(j) /\ ~Starting(j)
               /\ \A j \in Job : NewDocument.fails = 0
    BY <2>1 DEF Init, HasToken, IsIn, InHand, InCharge, Starting, Publishing, NewDocument
  <2>2. QED
    BY <2>1 DEF Init, Runs, Numbered, Restarts, RestartsOver, NoneUp
<1>2. ASSUME TypeOK, TypeOK', RemovedFirst, Undisturbed => Tokens,
             (Undisturbed => Tokens)', Undisturbed => Runs, [Next]_vars, Undisturbed'
      PROVE  Runs'
  <2>1. Tokens /\ NoRequest /\ Runs /\ Tokens'
    BY <1>2, UndisturbedSteps DEF Tokens
  <2>2. /\ jobs \in [Job -> Document] /\ launched \in [Job -> Nat] /\ snap \in [Job -> Nat]
        /\ wpc \in [Watcher -> WatcherPC] /\ hand \in [Watcher -> Task \cup {NoTask}]
        /\ up \subseteq Job \X Nat /\ failed \subseteq Job \X Nat
        /\ running \in Seq(Job) /\ starting \subseteq Job /\ accepted \subseteq Job
        /\ spc \in {"quota", "pushed", "snapped", "marking"} => scur \in Job
    BY <1>2 DEF TypeOK, MongoTyped, KeysTyped, WatchersTyped, ExecutorTyped, ListsTyped,
       SchedulerTyped
  <2>3. /\ \A j \in Job : snap[j] <= launched[j]
        /\ \A w \in Watcher : wpc[w] # "idle" => /\ hand[w].run <= launched[hand[w].job]
                                               /\ hand[w].job \in Job /\ hand[w] \in Task
        /\ \A j \in Job : jobs[j].fails \in Nat /\ launched[j] \in Nat
    BY <1>2, <2>1, <2>2, HandType, DocumentType DEF Runs, Numbered
  <2>4. UNCHANGED watchers =>
          /\ \A w \in Watcher : wpc'[w] # "idle" => hand'[w].run <= launched[hand'[w].job]
          /\ \A w \in Watcher : wpc'[w] = wpc[w] /\ hand'[w] = hand[w]
          /\ \A w \in Watcher, j \in Job : InHand(w, j)' <=> InHand(w, j)
    BY <2>3 DEF watchers, InHand
  <2>5. CASE UNCHANGED vars
    BY <1>2, <2>1, <2>3, <2>4, <2>5, RunsFrame
    DEF vars, mongo, lists, keys, executor, watchers, scheduler, HasToken, Starting, Publishing
  <2>6. ASSUME NEW j \in Job, Count(j) \/ Submit(j) PROVE Runs'
    <3>1. /\ UNCHANGED <<up, failed, retries, launched, snap, running, starting, spc, scur>>
          /\ UNCHANGED watchers
      BY <2>6 DEF Count, Submit, keys, executor, lists, scheduler
    <3>2. \A i \in Job : /\ jobs'[i].fails = jobs[i].fails
                         /\ jobs'[i].primary \in Fresh => jobs[i].primary \in Fresh
      <4>1. PICK p \in {"counted", "pending"} : jobs' = [jobs EXCEPT ![j].primary = p]
        BY <2>6 DEF Count, Submit
      <4>2. jobs[j] \in Document /\ jobs[j].primary \in Fresh
        BY <2>2, <2>6 DEF Count, Submit, Fresh
      <4>3. jobs'[j].fails = jobs[j].fails /\ \A i \in Job : i # j => jobs'[i] = jobs[i]
        BY <2>2, <4>1, <4>2 DEF Document
      <4>4. QED
        BY <4>2, <4>3
    <3>3. QED
      BY <1>2, <2>1, <2>3, <2>4, <3>1, <3>2, RunsFrame DEF HasToken, Starting, Publishing
  <2>7. ASSUME NEW c \in up, ContainerEnds(c) PROVE Runs'
    <3>1. /\ UNCHANGED <<retries, launched, snap, running, starting, spc, scur, jobs>>
          /\ UNCHANGED watchers
          /\ up' = up \ {c} /\ failed' \subseteq failed \cup {c}
      BY <2>7 DEF ContainerEnds, mongo, keys, lists, scheduler
    <3>2. \A i \in Job : /\ HasToken(i)' <=> HasToken(i)
                         /\ Starting(i)' <=> Starting(i)
      BY <2>4, <3>1 DEF HasToken, Starting, Publishing
    <3>3. Numbered'
      BY <2>1, <2>4, <3>1, <3>2 DEF Runs, Numbered, watchers
    <3>4. Restarts'
      BY <2>1, <3>1, <3>2 DEF Runs, Restarts, NoneUp
    <3>5. RestartsOver'
      <4>1. \A i \in Job : Ended(i) => Ended(i)'
        BY <3>1 DEF Ended, NoneUp
      <4>2. \A w \in Watcher : wpc[w] \in {"original", "requeue", "reset"} => hand[w].job \in Job
        BY <2>3
      <4>3. QED
        BY <2>1, <3>1, <4>1, <4>2 DEF Runs, RestartsOver, watchers
    <3>6. QED
      BY <2>1, <3>1, <3>3, <3>4, <3>5 DEF Runs
  <2>8. CASE SchedulerRead
    <3> DEFINE new == {<<j, launched[j] + 1>> : j \in {i \in Eligible : jobs[i].fails > 0}}
    <3>1. /\ UNCHANGED <<launched, snap, running, jobs, up, failed, starting, scur>>
          /\ UNCHANGED watchers /\ spc = "idle" /\ spc' = "filter"
          /\ retries' = retries \cup new
      BY <2>8 DEF SchedulerRead, mongo, keys, lists
    <3>2. \A c \in new : c[2] >= 2
      <4>1. \A i \in Eligible : i \in Job /\ (jobs[i].fails > 0 => launched[i] >= 1)
        <5> SUFFICES ASSUME NEW i \in Eligible, jobs[i].fails > 0 PROVE launched[i] >= 1
          BY DEF Eligible
        <5>1. i \in Job /\ jobs[i].fails >= 1
          BY <2>3 DEF Eligible
        <5>2. QED
          BY <2>1, <5>1 DEF Runs, Restarts
      <4>2. QED
        BY <2>3, <4>1
    <3> HIDE DEF new
    <3>3. \A i \in Job : /\ HasToken(i)' <=> HasToken(i)
                         /\ Starting(i)' <=> Starting(i)
      BY <2>4, <3>1 DEF HasToken, Starting, Publishing
    <3>4. Numbered'
      BY <2>1, <2>4, <3>1, <3>2, <3>3 DEF Runs, Numbered, watchers
    <3>5. Restarts' /\ RestartsOver'
      BY <2>1, <3>1, <3>3 DEF Runs, Restarts, RestartsOver, NoneUp, Ended, watchers
    <3>6. QED
      BY <2>1, <3>1, <3>4, <3>5 DEF Runs
  <2>9. ASSUME \/ SchedulerEndPass
               \/ \E j \in Job : SchedulerSkip(j) \/ SchedulerAccept(j)
        PROVE  Runs'
    <3>1. /\ UNCHANGED <<up, failed, retries, launched, snap, running, jobs, starting, scur>>
          /\ UNCHANGED watchers
          /\ spc \in {"publish", "filter"} /\ spc' \in {"idle", "filter"}
      BY <2>9 DEF SchedulerEndPass, SchedulerSkip, SchedulerAccept, mongo, keys, lists, executor
    <3>2. QED
      BY <1>2, <2>1, <2>3, <2>4, <3>1, RunsFrame DEF HasToken, Starting, Publishing
  <2>10. ASSUME NEW j \in Job, SchedulerRejectQuota(j) PROVE Runs'
    <3>1. /\ UNCHANGED <<up, failed, retries, launched, snap, running, starting>>
          /\ UNCHANGED watchers /\ spc = "filter" /\ spc' = "quota"
      BY <2>10 DEF SchedulerRejectQuota, keys, lists, executor
    <3>2. \A i \in Job : /\ jobs'[i].fails = jobs[i].fails
                         /\ jobs'[i].primary \in {jobs[i].primary, "gone"}
      BY <1>2, <2>10, RemoveFails DEF SchedulerRejectQuota
    <3>3. QED
      BY <1>2, <2>1, <2>3, <2>4, <3>1, <3>2, RunsFrame
      DEF HasToken, Starting, Publishing, Fresh
  <2>11. CASE SchedulerInsertRejected
    <3>1. /\ UNCHANGED <<up, failed, retries, launched, running, jobs, starting>>
          /\ UNCHANGED watchers /\ spc = "quota" /\ spc' = "filter" /\ scur \in Job
          /\ snap' = [snap EXCEPT ![scur] = 0]
      BY <2>2, <2>11 DEF SchedulerInsertRejected, DeleteSnapshot, lists, executor
    <3>2. \A i \in Job : snap'[i] <= launched[i]
      BY <2>2, <2>3, <3>1
    <3>3. QED
      BY <1>2, <2>1, <2>3, <2>4, <3>1, <3>2, RunsFrame DEF HasToken, Starting, Publishing
  <2>12. ASSUME NEW R \in SUBSET accepted, SchedulerLaunch(R) PROVE Runs'
    <3>1. /\ UNCHANGED <<jobs, snap, running, failed, retries, scur>> /\ UNCHANGED watchers
          /\ spc = "filter" /\ spc' = "publish" /\ starting' = R /\ R \subseteq Job
          /\ launched' = [j \in Job |-> IF j \in R THEN launched[j] + 1 ELSE launched[j]]
          /\ up' = up \cup {<<j, launched[j] + 1>> : j \in R}
      BY <2>2, <2>12 DEF SchedulerLaunch, mongo, keys, lists
    <3>2. /\ \A i \in Job : ~Starting(i) /\ (Starting(i)' <=> i \in R)
          /\ \A i \in Job : HasToken(i)' <=> HasToken(i)
      BY <2>1, <2>4, <3>1 DEF Starting, Publishing, Tokens, Phases, HasToken
    <3>3. \A i \in R : /\ ~HasToken(i) /\ jobs[i].primary \in Fresh
                       /\ launched[i] <= jobs[i].fails /\ NoneUp(i)
      <4>1. \A i \in R : i \in Waiting
        BY DEF Waiting
      <4>2. \A i \in R : ~HasToken(i) /\ jobs[i].primary \in Fresh
        BY <2>1, <4>1 DEF Tokens, WaitingPending, Fresh
      <4>3. QED
        BY <2>1, <3>1, <3>2, <4>2 DEF Runs, Restarts
    <3>4. /\ \A c \in up' : c \in up \/ (c[1] \in R /\ c[2] = launched[c[1]] + 1
                                         /\ c = <<c[1], launched[c[1]] + 1>>)
          /\ \A i \in Job \ R : NoneUp(i) => NoneUp(i)'
      <4>1. \A c \in up' : c \in up \/ (c[1] \in R /\ c[2] = launched[c[1]] + 1
                                         /\ c = <<c[1], launched[c[1]] + 1>>)
        BY <3>1
      <4>2. QED
        BY <4>1 DEF NoneUp
    <3>5. /\ \A i \in Job : launched'[i] \in Nat /\ launched[i] <= launched'[i]
          /\ \A i \in R : launched'[i] = launched[i] + 1
          /\ \A i \in Job \ R : launched'[i] = launched[i]
      BY <2>3, <3>1
    <3>6. Numbered'
      <4>1. \A c \in up' \cup failed' : 1 <= c[2] /\ c[2] <= launched'[c[1]]
        <5>1. \A c \in up \cup failed : /\ c[1] \in Job /\ c[2] \in Nat
                                       /\ 1 <= c[2] /\ c[2] <= launched[c[1]]
          BY <2>1, <2>2 DEF Runs, Numbered
        <5>2. \A c \in up \cup failed : 1 <= c[2] /\ c[2] <= launched'[c[1]]
          BY <2>3, <3>5, <5>1
        <5>3. \A i \in R : 1 <= launched[i] + 1 /\ launched[i] + 1 <= launched'[i]
          BY <2>3, <3>1, <3>5
        <5>4. QED
          BY <3>1, <3>4, <5>2, <5>3
      <4>2. \A i \in Job : snap'[i] <= launched'[i]
        BY <2>2, <2>3, <3>1, <3>5
      <4>3. \A w \in Watcher : wpc'[w] # "idle" => hand'[w].run <= launched'[hand'[w].job]
        <5> SUFFICES ASSUME NEW w \in Watcher, wpc[w] # "idle"
                     PROVE  hand[w].run <= launched'[hand[w].job]
          BY <3>1 DEF watchers
        <5>1. hand[w].run \in Nat /\ hand[w].job \in Job
          BY <1>2, HandType
        <5>2. QED
          BY <2>3, <3>5, <5>1
      <4>4. \A i \in Job : HasToken(i)' \/ Starting(i)' => launched'[i] >= 1
        BY <2>1, <2>3, <3>2, <3>5 DEF Runs, Numbered
      <4>5. QED
        BY <2>1, <3>1, <4>1, <4>2, <4>3, <4>4 DEF Runs, Numbered
    <3>7. Restarts'
      <4> SUFFICES ASSUME NEW i \in Job
                   PROVE  /\ launched'[i] <= jobs[i].fails + 1
                          /\ jobs[i].fails >= 1 => launched'[i] >= 1 /\ <<i, 1>> \notin up' \cup failed'
                          /\ jobs[i].primary \in Fresh /\ ~Starting(i)'
                                => launched'[i] <= jobs[i].fails /\ NoneUp(i)'
        BY <3>1 DEF Restarts
      <4>1. /\ launched[i] <= jobs[i].fails + 1
            /\ jobs[i].fails >= 1 => launched[i] >= 1 /\ <<i, 1>> \notin up \cup failed
            /\ jobs[i].primary \in Fresh => launched[i] <= jobs[i].fails /\ NoneUp(i)
        BY <2>1, <3>2 DEF Runs, Restarts
      <4>2. jobs[i].fails >= 1 => <<i, 1>> \notin up'
        BY <2>3, <3>4, <4>1
      <4>3. QED
        BY <2>3, <3>1, <3>2, <3>3, <3>4, <3>5, <4>1, <4>2
    <3>8. RestartsOver'
      <4>1. \A w \in Watcher : wpc[w] \in {"original", "requeue", "reset"}
                                 => hand[w].job \in Job \ R
        BY <1>2, <2>1, <3>1, <3>3, TokenKnown DEF InCharge
      <4>2. \A i \in Job \ R : Ended(i) => Ended(i)'
        BY <3>1, <3>4 DEF Ended
      <4>3. QED
        BY <2>1, <3>1, <4>1, <4>2 DEF Runs, RestartsOver, watchers
    <3>9. \A c, d \in up' : c[1] = d[1] => c = d
      BY <2>1, <3>3, <3>4 DEF Runs, NoneUp
    <3>10. QED
      BY <3>6, <3>7, <3>8, <3>9 DEF Runs
  <2>13. ASSUME NEW j \in Job, SchedulerPush(j) PROVE Runs'
    <3>1. /\ UNCHANGED <<up, failed, retries, launched, snap, jobs>> /\ UNCHANGED watchers
          /\ running' = Append(running, j) /\ spc = "publish" /\ spc' = "pushed"
          /\ j \in starting /\ starting' = starting \ {j} /\ scur' = j
      BY <2>13 DEF SchedulerPush, mongo, keys, executor
    <3>2. \A i \in Job : Starting(i)' <=> Starting(i)
      BY <3>1 DEF Starting, Publishing
    <3>3. \A i \in Job : HasToken(i)' => HasToken(i) \/ Starting(i)
      BY <2>2, <2>4, <3>1, DistinctAppend DEF HasToken, Starting
    <3>4. QED
      BY <1>2, <2>1, <2>3, <2>4, <3>1, <3>2, <3>3, RunsFrame
  <2>14. CASE SchedulerSnapshot
    <3>1. /\ UNCHANGED <<up, failed, retries, launched, jobs, running, starting, scur>>
          /\ UNCHANGED watchers /\ spc = "pushed" /\ spc' = "snapped" /\ scur \in Job
          /\ snap' = [snap EXCEPT ![scur] = launched[scur]]
      BY <2>2, <2>14 DEF SchedulerSnapshot, mongo, lists, executor
    <3>2. \A i \in Job : snap'[i] <= launched[i]
      BY <2>2, <2>3, <3>1
    <3>3. QED
      BY <1>2, <2>1, <2>3, <2>4, <3>1, <3>2, RunsFrame DEF HasToken, Starting, Publishing
  <2>14a. CASE SchedulerCountOut
    <3>1. /\ UNCHANGED <<up, failed, retries, launched, snap, jobs, running, starting, scur>>
          /\ UNCHANGED watchers /\ spc = "snapped" /\ spc' = "marking" /\ scur \in Job
      BY <2>2, <2>14a DEF SchedulerCountOut, mongo, lists, executor
    <3>2. QED
      BY <1>2, <2>1, <2>3, <2>4, <3>1, RunsFrame DEF HasToken, Starting, Publishing
  <2>15. CASE SchedulerMark
    <3>1. /\ UNCHANGED <<up, failed, retries, launched, snap, running, starting>>
          /\ UNCHANGED watchers /\ spc = "marking" /\ spc' = "publish" /\ scur \in Job
      BY <2>2, <2>15 DEF SchedulerMark, lists, keys, executor
    <3>2. \A i \in Job : /\ jobs'[i].fails = jobs[i].fails
                         /\ i # scur => jobs'[i].primary = jobs[i].primary
                         /\ i = scur => jobs'[i].primary \notin Fresh
      <4>1. scur \in Submitted
        BY <1>2, <3>1 DEF RemovedFirst, SchedulerRemovedFirst
      <4>2. QED
        BY <2>2, <2>15, <3>1, <4>1
        DEF SchedulerMark, UpdateDoc, Stored, Submitted, Fresh, Document
    <3>3. QED
      BY <1>2, <2>1, <2>3, <2>4, <3>1, <3>2, RunsFrame DEF HasToken, Starting, Publishing
  <2>16. ASSUME NEW j \in Job, SchedulerRefuse(j) PROVE Runs'
    <3>1. /\ UNCHANGED <<up, failed, retries, launched, snap, running, starting, spc, scur>>
          /\ UNCHANGED watchers
      BY <2>16 DEF SchedulerRefuse, keys, lists, executor
    <3>2. \A i \in Job : jobs'[i].fails = jobs[i].fails /\ jobs'[i].primary = jobs[i].primary
      BY <1>2, <2>16, SecondaryFails DEF SchedulerRefuse, Secondary
    <3>3. QED
      BY <1>2, <2>1, <2>3, <2>4, <3>1, <3>2, RunsFrame DEF HasToken, Starting, Publishing
  <2>17. ASSUME NEW w \in Watcher, OriginalGone(w) PROVE FALSE
    BY <1>2, <2>1, <2>17, TokenKnown DEF OriginalGone, InCharge
  <2>18. ASSUME NEW w \in Watcher,
                \/ OriginalFinish(w) \/ Requeue(w) \/ DeleteSnapshotAgain(w) \/ Remove(w)
                \/ InsertOver(w) \/ Close(w) \/ Stamp(w) \/ WatcherCrash(w)
         PROVE  Runs'
    <3>1. /\ wpc[w] # "idle"
          /\ UNCHANGED <<up, failed, retries, launched, running, starting, spc, scur>>
          /\ jobs' = jobs \/ RemoveDoc(hand[w].job)
          /\ \/ snap' = snap
             \/ snap' = [snap EXCEPT ![hand[w].job] = 0]
             \/ snap' = [snap EXCEPT ![hand[w].job] = hand[w].run]
      BY <2>18 DEF OriginalFinish, Requeue, DeleteSnapshotAgain, Remove, InsertOver, Close,
         Stamp, WatcherCrash, DeleteSnapshot, mongo, keys, lists, executor, scheduler
    <3>2. \A v \in Watcher :
            /\ wpc'[v] # "idle" => wpc[v] # "idle" /\ hand'[v] = hand[v]
            /\ wpc'[v] \in InCharge => wpc[v] \in InCharge
            /\ wpc'[v] \in {"original", "requeue", "reset"}
                 => wpc'[v] = wpc[v] \/ (wpc[v] = "requeue" /\ wpc'[v] = "reset")
      BY <2>2, <2>18 DEF OriginalFinish, Requeue, DeleteSnapshotAgain, Remove, InsertOver,
         Close, Stamp, WatcherCrash, InCharge, Goto, Release, Take
    <3>3. \A i \in Job : /\ jobs'[i].fails = jobs[i].fails
                         /\ jobs'[i].primary \in {jobs[i].primary, "gone"}
      BY <1>2, <2>3, <3>1, RemoveFails
    <3>4. \A i \in Job : snap'[i] <= launched[i]
      <4>1. hand[w].run \in Nat /\ hand[w].run <= launched[hand[w].job] /\ hand[w].job \in Job
        BY <1>2, <2>3, <3>1, HandType
      <4>2. ASSUME NEW i \in Job PROVE snap'[i] \in {snap[i], 0} \/ (i = hand[w].job /\ snap'[i] = hand[w].run)
        BY <2>2, <3>1, <4>1
      <4>3. \A i \in Job : 0 <= launched[i]
        BY <2>3
      <4>4. QED
        BY <2>3, <4>1, <4>2, <4>3
    <3>5. \A v \in Watcher : wpc'[v] # "idle" => hand'[v].run <= launched[hand'[v].job]
      BY <2>3, <3>2
    <3>6. \A i \in Job : /\ HasToken(i)' => HasToken(i)
                         /\ Starting(i)' <=> Starting(i)
      BY <3>1, <3>2 DEF HasToken, InHand, InCharge, Starting, Publishing
    <3>7. QED
      BY <1>2, <2>1, <3>1, <3>2, <3>3, <3>4, <3>5, <3>6, RunsFrame DEF Fresh
  <2>19. ASSUME NEW w \in Watcher, PushBack(w) PROVE Runs'
    <3> DEFINE j == hand[w].job
    <3>1. /\ wpc[w] = "alive" /\ wpc' = [wpc EXCEPT ![w] = "stamp"]
          /\ UNCHANGED <<up, failed, retries, launched, jobs, snap, starting, spc, scur, hand>>
          /\ running' = Append(running, j)
      BY <2>19 DEF PushBack, Goto, mongo, keys, executor, scheduler
    <3>2. j \in Job /\ HasToken(j)
      BY <1>2, <2>1, <3>1, TokenKnown DEF InCharge
    <3>3. \A i \in Job : IsIn(i, running') <=> IsIn(i, running) \/ i = j
      BY <2>2, <3>1, <3>2, DistinctAppend
    <3>4. \A i \in Job : /\ HasToken(i)' => HasToken(i)
                         /\ Starting(i)' <=> Starting(i)
      BY <2>2, <3>1, <3>2, <3>3 DEF HasToken, InHand, InCharge, Starting, Publishing
    <3>5. \A v \in Watcher : wpc'[v] # "idle" => hand'[v].run <= launched[hand'[v].job]
      BY <2>2, <2>3, <3>1
    <3>6. QED
      BY <1>2, <2>1, <2>2, <2>3, <3>1, <3>4, <3>5, RunsFrame
  <2>20. ASSUME NEW w \in Watcher, PopUnknown(w) PROVE Runs'
    <3>1. /\ UNCHANGED <<up, failed, retries, launched, jobs, snap, starting, spc, scur>>
          /\ UNCHANGED watchers /\ running # <<>> /\ running' = Tail(running)
      BY <2>20 DEF PopUnknown, mongo, keys, executor, scheduler
    <3>2. \A i \in Job : IsIn(i, running') => IsIn(i, running)
      BY <2>1, <2>2, <3>1, DistinctTail DEF Tokens, OneToken
    <3>3. \A i \in Job : /\ HasToken(i)' => HasToken(i)
                         /\ Starting(i)' <=> Starting(i)
      BY <2>4, <3>1, <3>2 DEF HasToken, Starting, Publishing
    <3>4. QED
      BY <1>2, <2>1, <2>3, <2>4, <3>1, <3>3, RunsFrame
  <2>21. ASSUME NEW w \in Watcher, PopAlive(w) \/ PopOver(w)
         PROVE  /\ running # <<>> /\ Head(running) \in Job
                /\ \A i \in Job : /\ HasToken(i)' => HasToken(i)
                                  /\ Starting(i)' <=> Starting(i)
                /\ \A v \in Watcher : wpc'[v] # "idle" => hand'[v].run <= launched[hand'[v].job]
                /\ \A v \in Watcher : v # w => wpc'[v] = wpc[v] /\ hand'[v] = hand[v]
    <3> DEFINE j == Head(running)
    <3>1. /\ wpc[w] = "idle" /\ running # <<>> /\ running' = Tail(running)
          /\ UNCHANGED <<starting, spc, scur>>
          /\ Take(w, Snapshot(j, FALSE), "alive")
             \/ Take(w, Snapshot(j, <<j, snap[j]>> \in failed \cup retries), "original")
      BY <2>21 DEF PopAlive, PopOver, scheduler
    <3>2. j \in Job /\ IsIn(j, running) /\ \A i \in Job : IsIn(i, running') => IsIn(i, running)
      BY <2>1, <2>2, <3>1, HeadTailType, DistinctTail DEF Tokens, OneToken
    <3>3. /\ hand'[w].job = j /\ hand'[w].run = snap[j]
          /\ \A v \in Watcher : v # w => wpc'[v] = wpc[v] /\ hand'[v] = hand[v]
      BY <2>2, <3>1 DEF Take, Goto, Snapshot
    <3> HIDE DEF j
    <3>4. \A i \in Job : HasToken(i)' => HasToken(i)
      BY <3>2, <3>3 DEF HasToken, InHand
    <3>5. \A i \in Job : Starting(i)' <=> Starting(i)
      BY <3>1 DEF Starting, Publishing
    <3>6. \A v \in Watcher : wpc'[v] # "idle" => hand'[v].run <= launched[hand'[v].job]
      BY <2>3, <3>2, <3>3
    <3>7. QED
      BY <3>1, <3>2, <3>3, <3>4, <3>5, <3>6 DEF j
  <2>22. ASSUME NEW w \in Watcher, PopAlive(w) PROVE Runs'
    <3>1. /\ UNCHANGED <<up, failed, retries, launched, jobs, snap>>
          /\ wpc'[w] = "alive"
      BY <2>2, <2>22 DEF PopAlive, Take, Goto, mongo, keys, executor
    <3>2. QED
      BY <1>2, <2>1, <2>3, <2>21, <2>22, <3>1, RunsFrame
  <2>23. ASSUME NEW w \in Watcher, PopOver(w) PROVE Runs'
    <3>0. PICK j \in Job : j = Head(running)
      BY <2>21, <2>23
    <3> DEFINE f == <<j, snap[j]>> \in failed \cup retries
    <3>1. /\ UNCHANGED <<up, retries, launched, jobs, snap>>
          /\ failed' = failed \ {<<j, snap[j]>>}
          /\ snap[j] # 0 /\ <<j, snap[j]>> \notin up
          /\ Take(w, Snapshot(j, f), "original")
      BY <2>23, <3>0 DEF PopOver, mongo, keys
    <3>2. wpc'[w] = "original" /\ hand'[w].job = j /\ hand'[w].failed = f
      BY <2>2, <3>1 DEF Take, Goto, Snapshot
    <3>3. f /\ jobs[j].fails < FailurePolicy => NoneUp(j) /\ <<j, 1>> \notin failed'
      BY <1>2, <2>1, <3>1, PopFindsEnded
    <3>4. f /\ jobs[j].fails < FailurePolicy => Ended(j)'
      BY <3>1, <3>3 DEF Ended, NoneUp
    <3> HIDE DEF f
    <3>5. Numbered'
      BY <2>1, <2>3, <2>21, <2>23, <3>1 DEF Runs, Numbered
    <3>6. Restarts'
      BY <2>1, <2>21, <2>23, <3>1 DEF Runs, Restarts, NoneUp
    <3>7. RestartsOver'
      <4>1. \A i \in Job : Ended(i) => Ended(i)'
        BY <3>1 DEF Ended, NoneUp
      <4>2. \A v \in Watcher : wpc[v] \in {"original", "requeue", "reset"} => hand[v].job \in Job
        BY <2>3
      <4>3. QED
        BY <2>1, <2>21, <2>23, <3>1, <3>2, <3>4, <4>1, <4>2 DEF Runs, RestartsOver
    <3>8. QED
      BY <2>1, <3>1, <3>5, <3>6, <3>7 DEF Runs
  <2>24. ASSUME NEW w \in Watcher, OriginalRequeue(w) PROVE Runs'
    <3> DEFINE j == hand[w].job
    <3> DEFINE t == [hand[w] EXCEPT !.fails = jobs[j].fails + 1]
    <3>1. /\ wpc[w] = "original" /\ Take(w, t, "requeue") /\ MustRequeue(hand[w])
          /\ UNCHANGED <<up, failed, retries, launched, jobs, snap, running, starting, spc, scur>>
      BY <2>24 DEF OriginalRequeue, mongo, keys, lists, executor, scheduler
    <3>2. j \in Job /\ hand[w] \in Task /\ hand[w].over
      BY <1>2, <2>1, <3>1, TokenKnown DEF InCharge
    <3>3. hand[w].failed /\ jobs[j].fails < FailurePolicy
      BY <3>1, <3>2 DEF MustRequeue
    <3>4. Ended(j)
      BY <2>1, <3>1, <3>3 DEF Runs, RestartsOver
    <3>5. t.job = j /\ t.run = hand[w].run /\ t.fails = jobs[j].fails + 1
      BY <3>2 DEF Task
    <3> HIDE DEF t
    <3>6. /\ wpc'[w] = "requeue" /\ hand'[w] = t
          /\ \A v \in Watcher : v # w => wpc'[v] = wpc[v] /\ hand'[v] = hand[v]
      BY <2>2, <3>1 DEF Take, Goto
    <3>7. \A i \in Job : /\ HasToken(i)' => HasToken(i)
                         /\ Starting(i)' <=> Starting(i)
      BY <3>1, <3>5, <3>6 DEF HasToken, InHand, InCharge, Starting, Publishing
    <3>8. Numbered'
      <4>1. \A v \in Watcher : wpc'[v] # "idle" => hand'[v].run <= launched[hand'[v].job]
        BY <2>3, <3>1, <3>5, <3>6
      <4>2. QED
        BY <2>1, <3>1, <3>7, <4>1 DEF Runs, Numbered
    <3>9. Restarts'
      BY <2>1, <3>1, <3>7 DEF Runs, Restarts, NoneUp
    <3>10. RestartsOver'
      BY <2>1, <3>1, <3>4, <3>5, <3>6 DEF Runs, RestartsOver, Ended, NoneUp
    <3>11. QED
      BY <2>1, <3>1, <3>8, <3>9, <3>10 DEF Runs
  <2>25. ASSUME NEW w \in Watcher, ResetPending(w) PROVE Runs'
    <3> DEFINE j == hand[w].job
    <3>1. /\ wpc[w] = "reset"
          /\ UNCHANGED <<up, failed, retries, launched, snap, running, starting, spc, scur>>
      BY <2>25 DEF ResetPending, keys, lists, executor, scheduler
    <3>2. /\ j \in Job /\ hand[w] \in Task /\ hand[w].over /\ Stored(j) /\ HasToken(j)
          /\ \A v \in Watcher : InHand(v, j) => v = w
      BY <1>2, <2>1, <3>1, TokenKnown DEF InCharge
    <3>3. Ended(j) /\ hand[w].fails = jobs[j].fails + 1
      BY <2>1, <3>1 DEF Runs, RestartsOver
    <3>4. /\ wpc' = [wpc EXCEPT ![w] = "unsnap"] /\ UNCHANGED hand
          /\ jobs' = [jobs EXCEPT ![j] = [jobs[j] EXCEPT !.primary = "pending",
                         !.secondary = "rescheduled", !.fails = hand[w].fails]]
      BY <2>25, <3>2 DEF ResetPending, UpdateDoc, Goto
    <3>5. /\ jobs'[j].fails = jobs[j].fails + 1
          /\ \A i \in Job : i # j => jobs'[i] = jobs[i]
      <4>1. jobs[j] \in Document
        BY <2>2, <3>2
      <4>2. QED
        BY <2>2, <3>2, <3>3, <3>4, <4>1 DEF Document
    <3>6. \A i \in Job : /\ HasToken(i)' => HasToken(i)
                         /\ Starting(i)' <=> Starting(i)
      BY <2>2, <3>1, <3>4 DEF HasToken, InHand, InCharge, Starting, Publishing
    <3>7. Numbered'
      <4>1. \A v \in Watcher : wpc'[v] # "idle" => hand'[v].run <= launched[hand'[v].job]
        BY <2>2, <2>3, <3>1, <3>4
      <4>2. QED
        BY <2>1, <3>1, <3>6, <4>1 DEF Runs, Numbered
    <3>8. Restarts'
      <4>1. launched[j] >= 1 /\ launched[j] <= jobs[j].fails + 1
        BY <2>1, <3>2 DEF Runs, Numbered, Restarts
      <4>2. <<j, 1>> \notin up \cup failed /\ NoneUp(j)
        BY <3>3 DEF Ended, NoneUp
      <4>3. ASSUME NEW i \in Job
            PROVE  /\ launched[i] <= jobs'[i].fails + 1
                   /\ jobs'[i].fails >= 1 => launched[i] >= 1 /\ <<i, 1>> \notin up \cup failed
                   /\ jobs'[i].primary \in Fresh /\ ~Starting(i)
                        => launched[i] <= jobs'[i].fails /\ NoneUp(i)
        <5>1. CASE i = j
          BY <2>3, <3>2, <3>5, <4>1, <4>2, <5>1
        <5>2. CASE i # j
          BY <2>1, <3>5, <5>2 DEF Runs, Restarts
        <5>3. QED
          BY <5>1, <5>2
      <4>4. QED
        BY <3>1, <3>6, <4>3 DEF Restarts, NoneUp
    <3>9. RestartsOver'
      <4>1. \A v \in Watcher : wpc'[v] \in {"original", "requeue", "reset"}
              => wpc'[v] = wpc[v] /\ hand[v].job \in Job /\ hand[v].job # j
        BY <2>2, <2>3, <3>2, <3>4 DEF InHand, InCharge
      <4>2. QED
        BY <2>1, <3>1, <3>4, <3>5, <4>1 DEF Runs, RestartsOver, Ended, NoneUp
    <3>10. QED
      BY <2>1, <3>1, <3>7, <3>8, <3>9 DEF Runs
  <2>26. CASE Containers
    BY <2>7, <2>26 DEF Containers
  <2>27. CASE SchedulerStep
    BY <2>27, <2>8, <2>9, <2>10, <2>11, <2>12, <2>13, <2>14, <2>14a, <2>15, <2>16 DEF SchedulerStep
  <2>28. ASSUME NEW w \in Watcher, RunningStep(w) PROVE Runs'
    BY <2>28, <2>17, <2>18, <2>19, <2>20, <2>22, <2>23, <2>24, <2>25 DEF RunningStep
  <2>29. QED
    BY <1>2, <2>1, <2>5, <2>6, <2>18, <2>26, <2>27, <2>28, UndisturbedSteps
<1>3. QED
  BY <1>1, <1>2, TypeCorrect, RemovedFirstCorrect, TokensCorrect, PTL DEF Spec

\* A job never runs twice at the same time, when it is restarted twice at most:
\* no container of it is up when a watcher restarts it.
THEOREM OneContainerCorrect == Spec => [](Undisturbed => OneContainer)
<1>1. CASE FailurePolicy <= 2
  <2>1. Runs => OneContainer
    BY DEF OneContainer, Runs
  <2>2. QED
    BY <1>1, <2>1, RunsCorrect, PTL
<1>2. CASE ~(FailurePolicy <= 2)
  <2>1. OneContainer
    BY <1>2 DEF OneContainer
  <2>2. QED
    BY <2>1, PTL
<1>3. QED
  BY <1>1, <1>2

-----------------------------------------------------------------------------
(* The counter of queued jobs.                                             *)

\* What the counter stands for: the jobs add_task counted and the scheduler has
\* not counted out yet, and the restarts counted before their document is reset.
\* (Counted keeps the job being marked, which AheadOfMark takes off.)
Counted == {j \in Job : Starting(j) \/ jobs[j].primary \in {"counted", "pending"}}
Resetting == {w \in Watcher : wpc[w] = "reset"}
AheadOfMark == IF spc = "marking" THEN 1 ELSE 0
InFlight == Cardinality(Counted) + Cardinality(Resetting) - AheadOfMark

\* The counter may exceed what is in flight once a document shows a restart,
\* or when a watcher that was restarting a job died.
Steady == crashes = 0 /\ \A j \in Job : jobs[j].fails = 0
RestartShows == \A w \in Watcher : wpc[w] \in {"requeue", "reset"} => hand[w].fails > 0

QueuedInFlight ==
    /\ IsFiniteSet(Counted) /\ IsFiniteSet(Resetting)
    /\ queued >= InFlight
    /\ OverQuota = {} /\ Steady => queued = InFlight
    /\ RestartShows

LEMMA InFlightType ==
    ASSUME TypeOK, QueuedInFlight
    PROVE  /\ Cardinality(Counted) \in Nat /\ Cardinality(Resetting) \in Nat
           /\ queued \in Int /\ AheadOfMark \in {0, 1}
BY FS_CardinalityType DEF QueuedInFlight, TypeOK, KeysTyped, AheadOfMark

\* Steps that change nothing of it.
LEMMA QueuedFrame ==
    ASSUME QueuedInFlight, UNCHANGED <<queued, Counted, Resetting>>,
           AheadOfMark' = AheadOfMark, Steady' => Steady, RestartShows'
    PROVE  QueuedInFlight'
BY DEF QueuedInFlight, InFlight

\* Steps of the scheduler, of the users and of the containers that move no job.
LEMMA QueuedSame ==
    ASSUME TypeOK, QueuedInFlight, UNCHANGED queued, UNCHANGED watchers,
           AheadOfMark' = AheadOfMark,
           crashes' = 0 => crashes = 0,
           \A i \in Job : /\ jobs'[i].fails = jobs[i].fails
                          /\ jobs'[i].primary = jobs[i].primary
                          /\ Starting(i)' <=> Starting(i)
    PROVE  QueuedInFlight'
<1>1. Counted' = Counted /\ Resetting' = Resetting
  BY DEF Counted, Resetting, watchers
<1>2. (Steady' => Steady) /\ RestartShows'
  BY DEF QueuedInFlight, Steady, RestartShows, watchers
<1>3. QED
  BY <1>1, <1>2, QueuedFrame

\* Steps of a watcher that neither start nor end a restart.
LEMMA QueuedWatcher ==
    ASSUME TypeOK, QueuedInFlight, UNCHANGED <<queued, starting, spc, scur>>,
           UNCHANGED jobs, crashes' = 0 => crashes = 0,
           NEW w \in Watcher, wpc[w] # "reset",
           NEW pc \in WatcherPC \ {"reset"}, NEW t, Take(w, t, pc),
           pc = "requeue" => t.fails > 0
    PROVE  QueuedInFlight'
<1>1. /\ wpc' = [wpc EXCEPT ![w] = pc] /\ hand' = [hand EXCEPT ![w] = t]
      /\ wpc \in [Watcher -> WatcherPC] /\ hand \in [Watcher -> Task \cup {NoTask}]
  BY DEF Take, Goto, TypeOK, WatchersTyped
<1>2. Resetting' = Resetting
  BY <1>1 DEF Resetting
<1>3. Counted' = Counted /\ (Steady' => Steady) /\ AheadOfMark' = AheadOfMark
  BY DEF Counted, Starting, Publishing, Steady, AheadOfMark
<1>4. RestartShows'
  BY <1>1 DEF QueuedInFlight, RestartShows
<1>5. QED
  BY <1>2, <1>3, <1>4, QueuedFrame

\* Goto is Take of the task already in hand.
LEMMA GotoTakes ==
    ASSUME TypeOK, NEW w \in Watcher, NEW pc, Goto(w, pc), UNCHANGED hand
    PROVE  Take(w, hand[w], pc)
BY DEF TypeOK, WatchersTyped, Take

\* The counter stands for at least what is in flight, and for exactly that until
\* a job is restarted or refused by a quota, or a watcher dies: every path out of
\* "pending" counts a job out once, although the decrement and the update of the
\* document are apart.
THEOREM QueuedInFlightCorrect == Spec => [](Undisturbed => QueuedInFlight)
<1>1. Init => QueuedInFlight
  <2>1. ASSUME Init PROVE /\ Counted = {} /\ Resetting = {} /\ queued = 0
                           /\ RestartShows /\ AheadOfMark = 0
    BY <2>1 DEF Init, Counted, Resetting, Starting, Publishing, NewDocument, RestartShows,
                AheadOfMark
  <2>2. QED
    BY <2>1, FS_EmptySet DEF QueuedInFlight, InFlight
<1>2. ASSUME TypeOK, TypeOK', RemovedFirst, Undisturbed => Tokens,
             (Undisturbed => Tokens)', Undisturbed => QueuedInFlight, [Next]_vars,
             Undisturbed'
      PROVE  QueuedInFlight'
  <2>1. Tokens /\ NoRequest /\ QueuedInFlight
    BY <1>2, UndisturbedSteps DEF Tokens
  <2>0. crashes' = 0 => crashes = 0
    BY <1>2, CrashesCounted DEF SchedulerCrash, WatcherCrash, TypeOK, BoundsTyped
  <2>2. /\ jobs \in [Job -> Document] /\ wpc \in [Watcher -> WatcherPC]
        /\ hand \in [Watcher -> Task \cup {NoTask}]
        /\ starting \subseteq Job /\ accepted \subseteq Job
        /\ spc \in {"quota", "pushed", "snapped", "marking"} => scur \in Job
    BY <1>2 DEF TypeOK, MongoTyped, WatchersTyped, SchedulerTyped
  <2>3. \A j \in Job : Starting(j) => jobs[j].primary \notin {"new", "counted"}
    <3>1. \A j \in Job : j \in starting => jobs[j].primary = "pending"
      BY <2>1 DEF Tokens, WaitingPending, Waiting
    <3>2. \A j \in Job : Publishing(j) => j \in Submitted
      BY <1>2 DEF RemovedFirst, SchedulerRemovedFirst, Publishing
    <3>3. QED
      BY <3>1, <3>2 DEF Starting, Submitted
  <2>4. CASE UNCHANGED vars
    BY <1>2, <2>0, <2>1, <2>4, QueuedSame
    DEF vars, mongo, keys, watchers, scheduler, Starting, Publishing, AheadOfMark
  <2>5. ASSUME NEW j \in Job, Count(j) PROVE QueuedInFlight'
    <3>1. /\ jobs' = [jobs EXCEPT ![j].primary = "counted"] /\ queued' = queued + 1
          /\ jobs[j].primary = "new"
          /\ UNCHANGED <<starting, spc, scur, wpc, hand>>
      BY <2>5 DEF Count, scheduler, watchers
    <3>2. Counted' = Counted \cup {j} /\ j \notin Counted
      <4>1. \A i \in Job : Starting(i)' <=> Starting(i)
        BY <3>1 DEF Starting, Publishing
      <4>2. \A i \in Job : jobs'[i].primary = IF i = j THEN "counted" ELSE jobs[i].primary
        BY <2>2, <3>1 DEF Document
      <4>3. QED
        BY <2>3, <3>1, <4>1, <4>2 DEF Counted
    <3>3. Resetting' = Resetting /\ RestartShows'
      BY <2>1, <3>1 DEF Resetting, QueuedInFlight, RestartShows
    <3>4. (Steady' => Steady) /\ AheadOfMark' = AheadOfMark
      BY <2>0, <2>2, <3>1 DEF Steady, Document, AheadOfMark
    <3>5. /\ IsFiniteSet(Counted')
          /\ Cardinality(Counted') = Cardinality(Counted) + 1
      BY <2>1, <3>2, FS_AddElement DEF QueuedInFlight
    <3>6. QED
      BY <1>2, <2>1, <3>1, <3>3, <3>4, <3>5, InFlightType DEF QueuedInFlight, InFlight
  <2>6. ASSUME NEW j \in Job, Submit(j) PROVE QueuedInFlight'
    <3>1. /\ jobs' = [jobs EXCEPT ![j].primary = "pending"]
          /\ jobs[j].primary = "counted"
          /\ UNCHANGED <<queued, starting, spc, scur, wpc, hand>>
      BY <2>6 DEF Submit, keys, scheduler, watchers
    <3>2. Counted' = Counted
      <4>1. \A i \in Job : Starting(i)' <=> Starting(i)
        BY <3>1 DEF Starting, Publishing
      <4>2. \A i \in Job : jobs'[i].primary = IF i = j THEN "pending" ELSE jobs[i].primary
        BY <2>2, <3>1 DEF Document
      <4>3. QED
        BY <3>1, <4>1, <4>2 DEF Counted
    <3>3. Resetting' = Resetting /\ RestartShows'
      BY <2>1, <3>1 DEF Resetting, QueuedInFlight, RestartShows
    <3>4. (Steady' => Steady) /\ AheadOfMark' = AheadOfMark
      BY <2>0, <2>2, <3>1 DEF Steady, Document, AheadOfMark
    <3>5. QED
      BY <2>1, <3>1, <3>2, <3>3, <3>4, QueuedFrame
  <2>7. CASE Containers
    BY <1>2, <2>0, <2>1, <2>7, QueuedSame
    DEF Containers, ContainerEnds, mongo, keys, watchers, scheduler, Starting, Publishing,
        AheadOfMark
  <2>8. CASE SchedulerStep
    <3>1. CASE SchedulerRead \/ SchedulerEndPass \/ SchedulerInsertRejected
               \/ SchedulerSnapshot
      BY <1>2, <2>0, <2>1, <3>1, QueuedSame
      DEF SchedulerRead, SchedulerEndPass, SchedulerInsertRejected, SchedulerSnapshot,
          mongo, keys, watchers, Starting, Publishing, AheadOfMark
    <3>2. ASSUME NEW j \in Job, SchedulerSkip(j) \/ SchedulerAccept(j)
          PROVE  QueuedInFlight'
      BY <1>2, <2>0, <2>1, <3>2, QueuedSame
      DEF SchedulerSkip, SchedulerAccept, mongo, keys, watchers, Starting, Publishing,
          AheadOfMark
    <3>3. ASSUME NEW j \in Job, SchedulerRefuse(j) PROVE QueuedInFlight'
      <4>1. \A i \in Job : /\ jobs'[i].fails = jobs[i].fails
                           /\ jobs'[i].primary = jobs[i].primary
        BY <1>2, <3>3, SecondaryFails DEF SchedulerRefuse, Secondary
      <4>2. QED
        BY <1>2, <2>0, <2>1, <3>3, <4>1, QueuedSame
        DEF SchedulerRefuse, keys, watchers, Starting, Publishing, AheadOfMark
    <3>4. ASSUME NEW j \in Job, SchedulerPush(j) PROVE QueuedInFlight'
      <4>1. \A i \in Job : Starting(i)' <=> Starting(i)
        BY <3>4 DEF SchedulerPush, Starting, Publishing
      <4>2. QED
        BY <1>2, <2>0, <2>1, <3>4, <4>1, QueuedSame
        DEF SchedulerPush, mongo, keys, watchers, AheadOfMark
    <3>5. ASSUME NEW R \in SUBSET accepted, SchedulerLaunch(R) PROVE QueuedInFlight'
      <4>1. /\ starting' = R /\ spc = "filter" /\ spc' = "publish"
            /\ UNCHANGED <<jobs, queued>> /\ UNCHANGED watchers
        BY <3>5 DEF SchedulerLaunch, mongo, keys
      <4>2. starting = {} /\ \A i \in R : jobs[i].primary = "pending"
        BY <2>1, <4>1 DEF Tokens, Phases, WaitingPending, Waiting
      <4>3. Counted' = Counted
        BY <4>1, <4>2 DEF Counted, Starting, Publishing
      <4>4. /\ Resetting' = Resetting /\ RestartShows' /\ (Steady' => Steady)
            /\ AheadOfMark' = AheadOfMark
        BY <2>0, <2>1, <4>1
        DEF Resetting, QueuedInFlight, RestartShows, Steady, watchers, AheadOfMark
      <4>5. QED
        BY <2>1, <4>1, <4>3, <4>4, QueuedFrame
    <3>6. ASSUME NEW j \in Job, SchedulerRejectQuota(j) PROVE QueuedInFlight'
      <4>1. /\ RemoveDoc(j) /\ j \in OverQuota /\ spc' = "quota" /\ spc = "filter"
            /\ UNCHANGED <<queued, starting>> /\ UNCHANGED watchers
        BY <3>6 DEF SchedulerRejectQuota, keys
      <4>2. \A i \in Job : jobs'[i].primary \in {jobs[i].primary, "gone"}
        BY <1>2, <4>1, RemoveFails
      <4>3. Counted' \subseteq Counted
        BY <4>1, <4>2 DEF Counted, Starting, Publishing
      <4>4. IsFiniteSet(Counted') /\ Cardinality(Counted') <= Cardinality(Counted)
        BY <2>1, <4>3, FS_Subset DEF QueuedInFlight
      <4>5. Cardinality(Counted') \in Nat
        BY <4>4, FS_CardinalityType
      <4>6. /\ Resetting' = Resetting /\ RestartShows' /\ OverQuota # {}
            /\ AheadOfMark' = AheadOfMark
        BY <2>1, <4>1 DEF Resetting, QueuedInFlight, RestartShows, watchers, AheadOfMark
      <4>7. QED
        BY <1>2, <2>1, <4>1, <4>4, <4>5, <4>6, InFlightType DEF QueuedInFlight, InFlight
    <3>6a. CASE SchedulerCountOut
      <4>1. /\ spc = "snapped" /\ spc' = "marking" /\ queued' = queued - 1
            /\ UNCHANGED <<jobs, starting, scur>> /\ UNCHANGED watchers
        BY <3>6a DEF SchedulerCountOut, mongo
      <4>2. Counted' = Counted /\ AheadOfMark = 0 /\ AheadOfMark' = 1
        BY <4>1 DEF Counted, Starting, Publishing, AheadOfMark
      <4>3. Resetting' = Resetting /\ RestartShows' /\ (Steady' => Steady)
        BY <2>0, <2>1, <4>1 DEF Resetting, QueuedInFlight, RestartShows, Steady, watchers
      <4>4. QED
        BY <1>2, <2>1, <4>1, <4>2, <4>3, InFlightType DEF QueuedInFlight, InFlight
    <3>7. CASE SchedulerMark
      <4>1. /\ spc = "marking" /\ spc' = "publish" /\ queued' = queued
            /\ UNCHANGED starting /\ UNCHANGED watchers
            /\ UpdateDoc(scur, [jobs[scur] EXCEPT !.primary = "running",
                                          !.secondary = "none",
                                          !.run = launched[scur]])
        BY <3>7 DEF SchedulerMark, keys
      <4>2. scur \in Job /\ scur \notin starting /\ Starting(scur)
        BY <2>1, <2>2, <4>1 DEF Tokens, Phases, Waiting, Starting, Publishing
      <4>3. \A i \in Job : /\ jobs'[i].fails = jobs[i].fails
                           /\ jobs'[i].primary = IF i = scur /\ Stored(i) THEN "running"
                                                 ELSE jobs[i].primary
        BY <2>2, <4>1, <4>2 DEF UpdateDoc, Document
      <4>4. Counted' = Counted \ {scur} /\ scur \in Counted
        <5>1. \A i \in Job : Starting(i)' <=> Starting(i) /\ i # scur
          BY <4>1, <4>2 DEF Starting, Publishing
        <5>2. jobs'[scur].primary \notin {"counted", "pending"}
          BY <2>3, <4>2, <4>3 DEF Stored
        <5>3. QED
          BY <4>2, <4>3, <5>1, <5>2 DEF Counted
      <4>5. /\ IsFiniteSet(Counted')
            /\ Cardinality(Counted') = Cardinality(Counted) - 1
        BY <2>1, <4>4, FS_RemoveElement DEF QueuedInFlight
      <4>6. /\ Resetting' = Resetting /\ RestartShows' /\ (Steady' => Steady)
            /\ AheadOfMark = 1 /\ AheadOfMark' = 0
        BY <2>0, <2>1, <4>1, <4>3
        DEF Resetting, QueuedInFlight, RestartShows, Steady, watchers, AheadOfMark
      <4>7. QED
        BY <1>2, <2>1, <4>1, <4>5, <4>6, InFlightType DEF QueuedInFlight, InFlight
    <3>8. QED
      BY <2>8, <3>1, <3>2, <3>3, <3>4, <3>5, <3>6, <3>6a, <3>7 DEF SchedulerStep
  <2>9. ASSUME NEW w \in Watcher, Requeue(w) PROVE QueuedInFlight'
    <3>1. /\ wpc[w] = "requeue" /\ wpc' = [wpc EXCEPT ![w] = "reset"]
          /\ queued' = queued + 1
          /\ UNCHANGED <<jobs, hand, starting, spc, scur>>
      BY <2>9 DEF Requeue, Goto, mongo, scheduler
    <3>2. Resetting' = Resetting \cup {w} /\ w \notin Resetting
      BY <2>2, <3>1 DEF Resetting
    <3>3. /\ IsFiniteSet(Resetting')
          /\ Cardinality(Resetting') = Cardinality(Resetting) + 1
      BY <2>1, <3>2, FS_AddElement DEF QueuedInFlight
    <3>4. Counted' = Counted /\ (Steady' => Steady) /\ AheadOfMark' = AheadOfMark
      BY <2>0, <3>1 DEF Counted, Starting, Publishing, Steady, AheadOfMark
    <3>5. RestartShows'
      BY <2>1, <2>2, <3>1 DEF QueuedInFlight, RestartShows
    <3>6. QED
      BY <1>2, <2>1, <3>1, <3>3, <3>4, <3>5, InFlightType DEF QueuedInFlight, InFlight
  <2>10. ASSUME NEW w \in Watcher, ResetPending(w) PROVE QueuedInFlight'
    <3> DEFINE j == hand[w].job
    <3>1. /\ wpc[w] = "reset" /\ hand[w].over /\ hand[w].fails > 0 /\ hand[w].fails \in Nat
          /\ j \in Job /\ Stored(j) /\ InHand(w, j)
      BY <1>2, <2>1, <2>10, TokenKnown, HandType
      DEF ResetPending, InCharge, QueuedInFlight, RestartShows
    <3>2. /\ wpc' = [wpc EXCEPT ![w] = "unsnap"]
          /\ UNCHANGED <<queued, hand, starting, spc, scur>>
          /\ UpdateDoc(j, [jobs[j] EXCEPT !.primary = "pending",
                                          !.secondary = "rescheduled",
                                          !.fails = hand[w].fails])
      BY <2>10, <3>1 DEF ResetPending, Goto, keys, scheduler
    <3>3. \A i \in Job : /\ jobs'[i].fails = IF i = j THEN hand[w].fails ELSE jobs[i].fails
                         /\ jobs'[i].primary = IF i = j THEN "pending" ELSE jobs[i].primary
      BY <2>2, <3>1, <3>2 DEF UpdateDoc, Document
    <3>4. Counted' = Counted \cup {j}
      BY <3>1, <3>2, <3>3 DEF Counted, Starting, Publishing
    <3>5. Resetting' = Resetting \ {w} /\ w \in Resetting
      BY <2>2, <3>1, <3>2 DEF Resetting
    <3>6. /\ IsFiniteSet(Counted')
          /\ Cardinality(Counted') = IF j \in Counted THEN Cardinality(Counted)
                                     ELSE Cardinality(Counted) + 1
      BY <2>1, <3>4, FS_AddElement DEF QueuedInFlight
    <3>7. /\ IsFiniteSet(Resetting')
          /\ Cardinality(Resetting') = Cardinality(Resetting) - 1
      BY <2>1, <3>5, FS_RemoveElement DEF QueuedInFlight
    <3>8. ~Steady'
      BY <3>1, <3>3 DEF Steady
    <3>9. RestartShows' /\ AheadOfMark' = AheadOfMark
      BY <2>1, <2>2, <3>2 DEF QueuedInFlight, RestartShows, AheadOfMark
    <3>10. InFlight' <= InFlight
      BY <1>2, <2>1, <3>6, <3>7, <3>9, InFlightType DEF InFlight
    <3>11. QED
      BY <1>2, <2>1, <3>2, <3>6, <3>7, <3>8, <3>9, <3>10, InFlightType
      DEF QueuedInFlight, InFlight
  <2>11. ASSUME NEW w \in Watcher, Remove(w) PROVE QueuedInFlight'
    <3> DEFINE j == hand[w].job
    <3>1. /\ wpc[w] = "remove" /\ j \in Job /\ Stored(j) /\ HasToken(j)
      BY <1>2, <2>1, <2>11, TokenKnown DEF Remove, InCharge
    <3>2. /\ wpc' = [wpc EXCEPT ![w] = "insert"] /\ RemoveDoc(j)
          /\ UNCHANGED <<queued, hand, starting, spc, scur>>
      BY <2>11 DEF Remove, Goto, keys, scheduler
    <3>3. \A i \in Job : /\ jobs'[i].fails = jobs[i].fails
                         /\ jobs'[i].primary = IF i = j THEN "gone" ELSE jobs[i].primary
      BY <1>2, <3>1, <3>2, RemoveFails, RemovePrimary
    <3>4. jobs[j].primary = "pending" => Starting(j)
      BY <2>1, <3>1 DEF Tokens, TokenLaunched, Starting
    <3>5. Counted' = Counted
      BY <3>1, <3>2, <3>3, <3>4 DEF Counted, Starting, Publishing, Stored
    <3>6. /\ Resetting' = Resetting /\ RestartShows' /\ (Steady' => Steady)
          /\ AheadOfMark' = AheadOfMark
      BY <2>0, <2>1, <2>2, <3>1, <3>2, <3>3
      DEF Resetting, QueuedInFlight, RestartShows, Steady, AheadOfMark
    <3>7. QED
      BY <2>1, <3>2, <3>5, <3>6, QueuedFrame
  <2>12. ASSUME NEW w \in Watcher, OriginalRequeue(w) PROVE QueuedInFlight'
    <3> DEFINE j == hand[w].job
    <3>1. /\ wpc[w] = "original" /\ j \in Job /\ jobs[j].fails \in Nat /\ hand[w] \in Task
      BY <1>2, <2>1, <2>2, <2>12, TokenKnown, DocumentType DEF OriginalRequeue, InCharge
    <3>2. /\ Take(w, [hand[w] EXCEPT !.fails = jobs[j].fails + 1], "requeue")
          /\ UNCHANGED <<queued, jobs, starting, spc, scur>>
      BY <2>12 DEF OriginalRequeue, mongo, keys, scheduler
    <3>3. [hand[w] EXCEPT !.fails = jobs[j].fails + 1].fails > 0
      BY <3>1 DEF Task
    <3>4. QED
      BY <1>2, <2>0, <2>1, <3>1, <3>2, <3>3, QueuedWatcher DEF WatcherPC
  <2>13. ASSUME NEW w \in Watcher, \/ OriginalGone(w) \/ DeleteSnapshotAgain(w)
                                   \/ Close(w) \/ Stamp(w)
         PROVE  QueuedInFlight'
    <3>1. /\ Take(w, NoTask, "idle") /\ wpc[w] # "reset"
          /\ UNCHANGED <<queued, jobs, starting, spc, scur>>
      BY <2>13 DEF OriginalGone, DeleteSnapshotAgain, Close, Stamp, Release, mongo, keys,
                   scheduler
    <3>2. QED
      BY <1>2, <2>0, <2>1, <3>1, QueuedWatcher DEF WatcherPC
  <2>14. ASSUME NEW w \in Watcher, OriginalFinish(w) \/ InsertOver(w) \/ PushBack(w)
         PROVE  QueuedInFlight'
    <3>1. \E pc \in WatcherPC \ {"reset", "requeue"} : Goto(w, pc)
      BY <2>14 DEF OriginalFinish, InsertOver, PushBack, WatcherPC
    <3>2. /\ UNCHANGED hand /\ wpc[w] # "reset"
          /\ UNCHANGED <<queued, jobs, starting, spc, scur>>
      BY <2>14 DEF OriginalFinish, InsertOver, PushBack, mongo, keys, scheduler
    <3>3. QED
      BY <1>2, <2>0, <2>1, <3>1, <3>2, GotoTakes, QueuedWatcher
  <2>15. ASSUME NEW w \in Watcher, PopUnknown(w) PROVE QueuedInFlight'
    BY <1>2, <2>0, <2>1, <2>15, QueuedSame
    DEF PopUnknown, mongo, keys, watchers, scheduler, Starting, Publishing, AheadOfMark
  <2>16. ASSUME NEW w \in Watcher, PopAlive(w) \/ PopOver(w) PROVE QueuedInFlight'
    <3>1. /\ \E t, pc : Take(w, t, pc) /\ pc \in {"alive", "original"}
          /\ wpc[w] = "idle" /\ UNCHANGED <<queued, jobs, starting, spc, scur>>
      BY <2>16 DEF PopAlive, PopOver, mongo, keys, scheduler
    <3>2. QED
      BY <1>2, <2>0, <2>1, <3>1, QueuedWatcher DEF WatcherPC
  <2>17. ASSUME NEW w \in Watcher, RunningStep(w) PROVE QueuedInFlight'
    BY <2>17, <2>9, <2>10, <2>11, <2>12, <2>13, <2>14, <2>15, <2>16 DEF RunningStep
  <2>18. ASSUME NEW w \in Watcher, WatcherCrash(w) PROVE QueuedInFlight'
    <3>1. /\ wpc' = [wpc EXCEPT ![w] = "idle"] /\ hand' = [hand EXCEPT ![w] = NoTask]
          /\ UNCHANGED <<queued, jobs, starting, spc, scur>> /\ crashes' # 0
      BY <1>2, <2>18
      DEF WatcherCrash, Release, Take, Goto, mongo, keys, scheduler, TypeOK, BoundsTyped
    <3>2. Counted' = Counted /\ ~Steady' /\ AheadOfMark' = AheadOfMark
      BY <3>1 DEF Counted, Starting, Publishing, Steady, AheadOfMark
    <3>3. Resetting' \subseteq Resetting /\ RestartShows'
      BY <2>1, <2>2, <3>1 DEF Resetting, QueuedInFlight, RestartShows
    <3>4. /\ IsFiniteSet(Resetting')
          /\ Cardinality(Resetting') <= Cardinality(Resetting)
      BY <2>1, <3>3, FS_Subset DEF QueuedInFlight
    <3>5. Cardinality(Resetting') \in Nat
      BY <3>4, FS_CardinalityType
    <3>6. QED
      BY <1>2, <2>1, <3>1, <3>2, <3>3, <3>4, <3>5, InFlightType
      DEF QueuedInFlight, InFlight
  <2>19. QED
    BY <1>2, <2>1, <2>4, <2>5, <2>6, <2>7, <2>8, <2>17, <2>18, UndisturbedSteps
<1>3. QED
  BY <1>1, <1>2, TypeCorrect, RemovedFirstCorrect, TokensCorrect, PTL DEF Spec

\* Until a request, or a death of the scheduler: jobs:queued never counts fewer
\* jobs than are pending, but for the one the scheduler has counted out and not
\* marked yet, also when quotas refuse some and watchers die; without quotas, until
\* a watcher dies or a job is restarted, it is exactly the number of jobs that wait,
\* between two passes of the scheduler.
THEOREM QueuedExactCorrect ==
    Spec => [](Undisturbed => /\ queued >= Cardinality(Eligible \ CountedOut)
                              /\ OverQuota = {} => QueuedExact)
<1>1. ASSUME TypeOK, Tokens, QueuedInFlight
      PROVE  /\ queued >= Cardinality(Eligible \ CountedOut)
             /\ OverQuota = {} => QueuedExact
  <2> DEFINE E == Eligible \ CountedOut
  <2>1. IsFiniteSet(E) /\ Cardinality(E) <= Cardinality(Counted) - AheadOfMark
    <3>1. CASE spc = "marking"
      <4>1. scur \in Counted
        BY <1>1, <3>1 DEF TypeOK, SchedulerTyped, Counted, Starting, Publishing
      <4>2. E \in SUBSET (Counted \ {scur})
        BY <3>1 DEF Eligible, Counted, CountedOut
      <4>3. /\ IsFiniteSet(Counted \ {scur})
            /\ Cardinality(Counted \ {scur}) = Cardinality(Counted) - 1
        BY <1>1, <4>1, FS_RemoveElement DEF QueuedInFlight
      <4>4. IsFiniteSet(E) /\ Cardinality(E) <= Cardinality(Counted \ {scur})
        BY <4>2, <4>3, FS_Subset
      <4>5. QED
        BY <3>1, <4>3, <4>4 DEF AheadOfMark
    <3>2. CASE spc # "marking"
      <4>1. E \in SUBSET Counted
        BY DEF Eligible, Counted
      <4>2. IsFiniteSet(E) /\ Cardinality(E) <= Cardinality(Counted)
        BY <1>1, <4>1, FS_Subset DEF QueuedInFlight
      <4>3. QED
        BY <1>1, <3>2, <4>2, InFlightType DEF AheadOfMark
    <3>3. QED
      BY <3>1, <3>2
  <2>2. Cardinality(E) \in Nat
    BY <2>1, FS_CardinalityType
  <2>3. queued >= Cardinality(E)
    BY <1>1, <2>1, <2>2, InFlightType DEF QueuedInFlight, InFlight
  <2>4. ASSUME spc = "idle"
        PROVE  /\ Counted = {j \in Job : jobs[j].primary \in {"counted", "pending"}}
               /\ AheadOfMark = 0
    BY <1>1, <2>4 DEF Tokens, Phases, Waiting, Counted, Starting, Publishing, AheadOfMark
  <2>5. ASSUME OverQuota = {}, spc = "idle", Steady
        PROVE  queued = Cardinality({j \in Job : jobs[j].primary \in {"counted", "pending"}})
                        + Cardinality({w \in Watcher : wpc[w] = "reset"})
    <3>1. queued = Cardinality(Counted) + Cardinality(Resetting)
      BY <1>1, <2>4, <2>5, InFlightType DEF QueuedInFlight, InFlight
    <3>2. QED
      BY <2>4, <2>5, <3>1 DEF Resetting
  <2>6. QED
    BY <2>3, <2>5 DEF QueuedExact, Steady
<1>2. QED
  BY <1>1, TypeCorrect, TokensCorrect, QueuedInFlightCorrect, PTL
=============================================================================
