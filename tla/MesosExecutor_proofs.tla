------------------------ MODULE MesosExecutor_proofs ------------------------
(***************************************************************************)
(* Proofs about MesosExecutor, for any jobs, offers and bounds: what an    *)
(* offer holds is given once, a job is launched once at a time, what was   *)
(* launched is followed, and a first restart has its cause.                *)
(***************************************************************************)
EXTENDS MesosExecutor, ListLemmas, FunctionTheorems, FiniteSetTheorems, TLAPS

-----------------------------------------------------------------------------
(* The lists the main thread makes and reads.                              *)

\* The pending jobs, as a list: each of them at most once.
LEMMA ListOfSet ==
    ASSUME NEW S, IsFiniteSet(S)
    PROVE  /\ SetToSeq(S) \in Seq(S)
           /\ \A d : Once(d, SetToSeq(S)) /\ (IsIn(d, SetToSeq(S)) => d \in S)
<1>1. PICK n \in Nat : ExistsBijection(1 .. n, S)
  BY FS_NatBijection
<1>2. Cardinality(S) = n
  BY <1>1, FS_CountingElements
<1>3. PICK f \in [1 .. n -> S] : IsInjective(f)
  BY <1>1 DEF ExistsBijection, Bijection, Injection
<1>4. SetToSeq(S) \in [1 .. n -> S] /\ IsInjective(SetToSeq(S))
  BY <1>2, <1>3 DEF SetToSeq
<1>5. SetToSeq(S) \in Seq(S)
  BY <1>4
<1>6. ASSUME NEW d PROVE Once(d, SetToSeq(S)) /\ (IsIn(d, SetToSeq(S)) => d \in S)
  BY <1>4 DEF Once, IsIn, IsInjective
<1>7. QED
  BY <1>5, <1>6

\* How often a job occurs in a list.
LEMMA Occurrences ==
    ASSUME NEW s \in Seq(Job), NEW j
    PROVE  /\ Cardinality({n \in DOMAIN s : s[n] = j}) \in Nat
           /\ IsIn(j, s) => Cardinality({n \in DOMAIN s : s[n] = j}) > 0
<1> DEFINE At == {n \in DOMAIN s : s[n] = j}
<1>1. DOMAIN s = 1 .. Len(s) /\ Len(s) \in Nat
  OBVIOUS
<1>2. IsFiniteSet(DOMAIN s)
  BY <1>1, FS_Interval
<1>3. IsFiniteSet(At)
  BY <1>2, FS_Subset
<1>4. Cardinality(At) \in Nat /\ (Cardinality(At) = 0 <=> At = {})
  BY <1>3, FS_CardinalityType, FS_EmptySet
<1>5. IsIn(j, s) => At # {}
  BY DEF IsIn
<1>6. QED
  BY <1>4, <1>5

-----------------------------------------------------------------------------
(* Types.                                                                  *)

\* The variables that do not change keep their types.
LEMMA TypeFrame ==
    ASSUME TypeOK
    PROVE  /\ UNCHANGED jobsVars => JobsTyped'
           /\ UNCHANGED redis => RedisTyped'
           /\ UNCHANGED main => MainTyped'
           /\ UNCHANGED fw => FrameworkTyped'
           /\ UNCHANGED cluster => ClusterTyped'
           /\ UNCHANGED <<repeats, history>> => HistoryTyped'
BY DEF TypeOK, JobsTyped, RedisTyped, MainTyped, FrameworkTyped, ClusterTyped, HistoryTyped,
       jobsVars, redis, main, cluster, history

\* The local variables of resourceOffers, one by one.
LEMMA FwType ==
    ASSUME FrameworkTyped
    PROVE  /\ fw.pc \in {"idle", "offers", "place"}
           /\ fw.tasks \in Seq(Job) /\ fw.placed \in SUBSET Nat
           /\ fw.next \in Nat /\ fw.offers \in Nat /\ fw.cpus \in Int
           /\ fw.port \in Nat /\ fw.slot \in Nat /\ fw.takes \in Nat
           /\ fw.given \in Seq([job : Job, port : Nat, slots : SUBSET Nat])
           /\ fw.pc = "place" => fw.next > 0
BY DEF FrameworkTyped

LEMMA IdleTyped == fw' = Idle => FrameworkTyped'
BY DEF Idle, FrameworkTyped

LEMMA ElementType ==
    ASSUME NEW S, NEW s \in Seq(S), NEW i \in DOMAIN s
    PROVE  s[i] \in S
OBVIOUS

LEMMA ToSetType ==
    ASSUME NEW S, NEW s \in Seq(S)
    PROVE  ToSet(s) \subseteq S /\ \A e : e \in ToSet(s) <=> IsIn(e, s)
BY DEF ToSet, IsIn

LEMMA UsersTyped ==
    ASSUME TypeOK, NEW j \in Job, Submit(j) \/ RequestKill(j)
    PROVE  TypeOK'
<1>1. JobsTyped'
  <2>1. CASE Submit(j)
    BY <2>1 DEF Submit, TypeOK, JobsTyped, Document
  <2>2. CASE RequestKill(j)
    <3>1. doc' \in [Job -> Document]
      BY <2>2 DEF RequestKill, TypeOK, JobsTyped, Document
    <3>2. <<j, 0>> \in Job \X (0 .. MaxTentatives)
      BY MesosAssumption
    <3>3. killq' \subseteq Job \X (0 .. MaxTentatives)
      <4>1. killq' \subseteq killq \cup {<<j, 0>>}
        BY <2>2 DEF RequestKill
      <4>2. QED
        BY <3>2, <4>1 DEF TypeOK, JobsTyped
    <3>4. early' \subseteq Job
      BY <2>2 DEF RequestKill, TypeOK, JobsTyped
    <3>5. QED
      BY <2>2, <3>1, <3>3, <3>4 DEF RequestKill, TypeOK, JobsTyped
  <2>3. QED
    BY <2>1, <2>2
<1>2. /\ UNCHANGED redis /\ UNCHANGED main /\ UNCHANGED fw
      /\ UNCHANGED cluster /\ UNCHANGED <<repeats, history>>
  BY DEF Submit, RequestKill, bounds
<1>3. QED
  BY <1>1, <1>2, TypeFrame DEF TypeOK

LEMMA MainThreadTyped ==
    ASSUME TypeOK, MainThread
    PROVE  TypeOK'
<1>1. MainTyped'
  <2>1. CASE BeginPass
    <3>1. PICK S \in SUBSET Pending : batch' = SetToSeq(S)
      BY <2>1 DEF BeginPass
    <3>2. IsFiniteSet(S) /\ S \subseteq Job
      BY MesosAssumption, FS_Subset DEF Pending
    <3>3. SetToSeq(S) \in Seq(Job)
      BY <3>2, ListOfSet
    <3>4. QED
      BY <2>1, <3>1, <3>3 DEF BeginPass, TypeOK, MainTyped
  <2>2. CASE PushTask
    <3>1. Tail(batch) \in Seq(Job)
      <4>1. batch \in Seq(Job) /\ batch # <<>>
        BY <2>2 DEF PushTask, TypeOK, MainTyped
      <4>2. QED
        BY <4>1, HeadTailType
    <3>2. batch' = Tail(batch) /\ UNCHANGED <<spc, started>>
      BY <2>2 DEF PushTask
    <3>3. QED
      BY <3>1, <3>2 DEF TypeOK, MainTyped
  <2>3. CASE Collect
    BY <2>3 DEF Collect, TypeOK, MainTyped, RedisTyped
  <2>4. CASE Publish
    <3>1. started' = <<>> /\ spc' = "idle" /\ batch' = batch
      BY <2>4 DEF Publish
    <3>2. QED
      BY <3>1 DEF TypeOK, MainTyped
  <2>5. QED
    BY <2>1, <2>2, <2>3, <2>4 DEF MainThread
<1>2. RedisTyped'
  <2>1. CASE PushTask
    <3>1. Head(batch) \in Job
      BY <2>1, HeadTailType DEF PushTask, TypeOK, MainTyped
    <3>2. pendings' \in Seq(Job)
      BY <2>1, <3>1, AppendType DEF PushTask, TypeOK, RedisTyped
    <3>3. QED
      BY <2>1, <3>2 DEF PushTask, TypeOK, RedisTyped
  <2>2. CASE BeginPass \/ Collect
    <3>1. offer' \in {0, 1} /\ (runnings' = runnings \/ runnings' = <<>>)
          /\ UNCHANGED <<pendings, mkill, over, reason>>
      BY <2>2 DEF BeginPass, Collect, TypeOK, RedisTyped
    <3>2. runnings' \in Seq(Job)
      <4>1. runnings \in Seq(Job) /\ <<>> \in Seq(Job)
        BY DEF TypeOK, RedisTyped
      <4>2. QED
        BY <3>1, <4>1
    <3>3. QED
      BY <3>1, <3>2 DEF TypeOK, RedisTyped
  <2>3. CASE Publish
    BY <2>3, TypeFrame DEF Publish
  <2>4. QED
    BY <2>1, <2>2, <2>3 DEF MainThread
<1>3. JobsTyped'
  <2>1. CASE Publish
    <3>1. started \in Seq(Job) /\ ToSet(started) \subseteq Job
      <4>1. started \in Seq(Job)
        BY DEF TypeOK, MainTyped
      <4>2. QED
        BY <4>1 DEF ToSet
    <3>2. \A j \in Job : tracked[j] + Cardinality({n \in DOMAIN started : started[n] = j}) \in Nat
      <4> SUFFICES ASSUME NEW j \in Job
                   PROVE  tracked[j] + Cardinality({n \in DOMAIN started : started[n] = j}) \in Nat
        OBVIOUS
      <4>1. tracked[j] \in Nat
        BY DEF TypeOK, JobsTyped
      <4>2. Cardinality({n \in DOMAIN started : started[n] = j}) \in Nat
        BY <3>1, Occurrences
      <4>3. QED
        BY <4>1, <4>2
    <3>3. tracked' \in [Job -> Nat]
      BY <2>1, <3>2 DEF Publish
    <3>4. doc' \in [Job -> Document]
      BY <2>1 DEF Publish, TypeOK, JobsTyped, Document
    <3>5. QED
      BY <2>1, <3>1, <3>3, <3>4 DEF Publish, TypeOK, JobsTyped
  <2>2. CASE ~Publish
    BY <2>2, TypeFrame DEF MainThread, BeginPass, PushTask, Collect
  <2>3. QED
    BY <2>1, <2>2
<1>4. HistoryTyped'
  <2>1. CASE Collect
    <3>1. Untreated \subseteq Job
      <4>1. pendings \in Seq(Job) /\ fw.tasks \in Seq(Job)
        BY FwType DEF TypeOK, RedisTyped
      <4>2. QED
        BY <4>1, ToSetType DEF Untreated
    <3>2. QED
      BY <2>1, <3>1 DEF Collect, bounds, TypeOK, HistoryTyped
  <2>2. CASE ~Collect
    BY <2>2, TypeFrame DEF MainThread, BeginPass, PushTask, Publish, bounds
  <2>3. QED
    BY <2>1, <2>2
<1>5. UNCHANGED fw /\ UNCHANGED cluster
  BY DEF MainThread, BeginPass, PushTask, Collect, Publish
<1>6. QED
  BY <1>1, <1>2, <1>3, <1>4, <1>5, TypeFrame DEF TypeOK

\* The tasks in the hands of the driver's thread, and what was given to them.
LEMMA TasksType ==
    ASSUME FrameworkTyped
    PROVE  /\ \A i \in DOMAIN fw.given : fw.given[i].job \in Job
           /\ fw.pc = "place" /\ fw.next <= Len(fw.tasks) =>
                 fw.next \in DOMAIN fw.tasks /\ fw.tasks[fw.next] \in Job
<1>1. \A i \in DOMAIN fw.given : fw.given[i] \in [job : Job, port : Nat, slots : SUBSET Nat]
  BY FwType, ElementType
<1>2. fw.pc = "place" /\ fw.next <= Len(fw.tasks) =>
         fw.next \in DOMAIN fw.tasks /\ fw.tasks[fw.next] \in Job
  <2>1. fw.tasks \in Seq(Job) /\ fw.next \in Nat /\ (fw.pc = "place" => fw.next > 0)
    BY FwType
  <2>2. QED
    BY <2>1
<1>3. QED
  BY <1>1, <1>2

LEMMA FrameworkStepTyped ==
    ASSUME TypeOK, Framework
    PROVE  TypeOK'
<1> USE DEF TypeOK
<1>1. CASE BeginOffers
  <2>1. pendings \in Seq(Job) /\ pendings' = <<>>
    BY <1>1 DEF BeginOffers, RedisTyped
  <2>2. PICK n \in 1 .. MaxOffers :
           fw' = [Idle EXCEPT !.pc = "offers", !.offers = n, !.tasks = pendings]
    BY <1>1 DEF BeginOffers
  <2>3. n \in Nat
    BY MesosAssumption
  <2>4. fw' = [pc |-> "offers", tasks |-> pendings, placed |-> {}, next |-> 1, offers |-> n,
               cpus |-> 0, port |-> 1, slot |-> 0, takes |-> 0, given |-> <<>>]
    BY <2>2 DEF Idle
  <2>5. FrameworkTyped'
    BY <2>1, <2>3, <2>4 DEF FrameworkTyped
  <2>6. RedisTyped'
    BY <1>1, <2>1 DEF BeginOffers, RedisTyped
  <2>7. ClusterTyped'
    BY <1>1 DEF BeginOffers, ClusterTyped, KillsOf, Live, State, Terminal
  <2>8. QED
    BY <1>1, <2>5, <2>6, <2>7, TypeFrame DEF BeginOffers, bounds
<1>2. ASSUME NEW c \in OfferCpus, NextOffer(c) PROVE TypeOK'
  <2>1. /\ fw' = [fw EXCEPT !.pc = "place", !.offers = @ - 1, !.next = 1, !.cpus = c,
                            !.port = 1, !.slot = 0, !.takes = 0, !.given = <<>>]
        /\ fw.offers > 0
    BY <1>2 DEF NextOffer
  <2>2. FrameworkTyped'
    <3>1. fw.offers - 1 \in Nat /\ c \in Int
      <4>1. fw.offers \in Nat
        BY FwType
      <4>2. fw.offers - 1 \in Nat
        BY ONLY <2>1, <4>1
      <4>3. c \in Int
        BY ONLY c \in OfferCpus, MesosAssumption
      <4>4. QED
        BY <4>2, <4>3
    <3>2. fw' = [pc |-> "place", tasks |-> fw.tasks, placed |-> fw.placed, next |-> 1,
                 offers |-> fw.offers - 1, cpus |-> c, port |-> 1, slot |-> 0, takes |-> 0,
                 given |-> <<>>]
      BY <2>1 DEF FrameworkTyped
    <3>3. fw.tasks \in Seq(Job) /\ fw.placed \in SUBSET Nat
      BY FwType
    <3>4. QED
      BY <3>1, <3>2, <3>3 DEF FrameworkTyped
  <2>3. QED
    BY <1>2, <2>2, TypeFrame DEF NextOffer, bounds
<1>3. CASE PlaceTask
  <2> DEFINE j == fw.tasks[fw.next]
  <2>1. fw.next \in DOMAIN fw.tasks /\ j \in Job
    BY <1>3, FwType, TasksType DEF PlaceTask
  <2>2. /\ Cpu[j] \in Nat /\ Slots[j] \in Nat /\ fw.slot \in Nat /\ fw.port \in Nat
        /\ fw.cpus \in Int /\ fw.next \in Nat
        /\ NextSlot(Slots[j]) \in Nat /\ NextTakes(Slots[j]) \in Nat
    <3>1. /\ Cpu[j] \in Nat /\ Slots[j] \in Nat /\ fw.slot \in Nat /\ fw.port \in Nat
          /\ fw.cpus \in Int /\ fw.next \in Nat /\ fw.takes \in Nat
      BY <2>1, FwType, MesosAssumption
    <3>2. QED
      BY <3>1 DEF NextSlot, NextTakes
  <2>3. CASE /\ fw' = [fw EXCEPT !.placed = @ \cup {fw.next}, !.next = @ + 1,
                                 !.cpus = @ - Cpu[j], !.slot = NextSlot(Slots[j]),
                                 !.takes = NextTakes(Slots[j]),
                                 !.port = IF j \in Interactive THEN @ + 1 ELSE @,
                                 !.given = Append(@, Given(j))]
             /\ runnings' = Append(runnings, j)
             /\ over' = [over EXCEPT ![j] = "live"]
    <3>1. Given(j) \in [job : Job, port : Nat, slots : SUBSET Nat]
      <4>1. fw.slot .. (fw.slot + Slots[j] - 1) \in SUBSET Nat
        BY <2>2
      <4>2. (IF j \in Interactive THEN fw.port ELSE 0) \in Nat
        BY <2>2
      <4>3. QED
        BY <2>1, <4>1, <4>2 DEF Given
    <3>2. Append(fw.given, Given(j)) \in Seq([job : Job, port : Nat, slots : SUBSET Nat])
      BY <3>1, FwType, AppendType
    <3>3. fw.placed \cup {fw.next} \in SUBSET Nat
      BY <2>1, FwType
    <3>4. (IF j \in Interactive THEN fw.port + 1 ELSE fw.port) \in Nat
          /\ fw.cpus - Cpu[j] \in Int /\ fw.next + 1 \in Nat /\ fw.next + 1 > 0
      BY <2>2
    <3>5. FrameworkTyped'
      <4>1. fw' = [pc |-> fw.pc, tasks |-> fw.tasks, placed |-> fw.placed \cup {fw.next},
                   next |-> fw.next + 1, offers |-> fw.offers, cpus |-> fw.cpus - Cpu[j],
                   port |-> IF j \in Interactive THEN fw.port + 1 ELSE fw.port,
                   slot |-> NextSlot(Slots[j]), takes |-> NextTakes(Slots[j]),
                   given |-> Append(fw.given, Given(j))]
        BY <2>3 DEF FrameworkTyped
      <4>2. fw.tasks \in Seq(Job) /\ fw.pc \in {"idle", "offers", "place"} /\ fw.offers \in Nat
        BY FwType
      <4>3. QED
        BY <2>2, <3>2, <3>3, <3>4, <4>1, <4>2 DEF FrameworkTyped
    <3>6. runnings' \in Seq(Job)
      BY <2>1, <2>3, AppendType DEF RedisTyped
    <3>7. RedisTyped'
      BY <1>3, <2>1, <2>3, <3>6 DEF PlaceTask, RedisTyped, State
    <3>8. QED
      BY <1>3, <3>5, <3>7, TypeFrame DEF PlaceTask, bounds
  <2>4. CASE /\ \/ fw' = [fw EXCEPT !.next = @ + 1]
                \/ fw' = [fw EXCEPT !.next = @ + 1, !.slot = NextSlot(Slots[j]),
                                    !.takes = NextTakes(Slots[j])]
             /\ UNCHANGED <<runnings, over>>
    <3>1. FrameworkTyped'
      <4>1. fw.next + 1 \in Nat /\ fw.next + 1 > 0
        BY <2>2
      <4>2. QED
        BY <2>2, <2>4, <4>1 DEF FrameworkTyped
    <3>2. QED
      BY <1>3, <2>4, <3>1, TypeFrame DEF PlaceTask, redis, bounds
  <2>5. QED
    BY <1>3, <2>3, <2>4 DEF PlaceTask
<1>4. CASE LaunchOffer
  <2>1. FrameworkTyped'
    <3>1. fw' = [fw EXCEPT !.pc = "offers", !.given = <<>>]
      BY <1>4 DEF LaunchOffer
    <3>2. fw' = [pc |-> "offers", tasks |-> fw.tasks, placed |-> fw.placed, next |-> fw.next,
                 offers |-> fw.offers, cpus |-> fw.cpus, port |-> fw.port, slot |-> fw.slot,
                 takes |-> fw.takes, given |-> <<>>]
      BY <3>1 DEF FrameworkTyped
    <3>3. QED
      BY <3>2, FwType DEF FrameworkTyped
  <2>2. ClusterTyped'
    BY <1>4 DEF LaunchOffer, ClusterTyped, State
  <2>3. HistoryTyped'
    <3>1. {fw.given[i].job : i \in DOMAIN fw.given} \subseteq Job
      BY TasksType
    <3>2. QED
      BY <1>4, <3>1 DEF LaunchOffer, HistoryTyped, bounds
  <2>4. QED
    BY <1>4, <2>1, <2>2, <2>3, TypeFrame DEF LaunchOffer
<1>5. CASE EndOffers
  <2>1. FrameworkTyped'
    BY <1>5, IdleTyped DEF EndOffers
  <2>2. RedisTyped'
    BY <1>5 DEF EndOffers, RedisTyped
  <2>3. QED
    BY <1>5, <2>1, <2>2, TypeFrame DEF EndOffers, bounds
<1>6. QED
  BY <1>1, <1>2, <1>3, <1>4, <1>5 DEF Framework

LEMMA ClusterStepTyped ==
    ASSUME TypeOK, NEW j \in Job,
           StatusUpdate(j) \/ RepeatUpdate(j) \/ ClashUpdate(j) \/ TaskEnds(j)
    PROVE  TypeOK'
<1> USE DEF TypeOK
<1>1. ASSUME NEW s \in State, Report(j, s), UNCHANGED <<offer, pendings, runnings, mkill>>
      PROVE  RedisTyped'
  BY <1>1 DEF Report, RedisTyped
<1>2. mesos[j] \in State /\ told[j] \in State /\ "crashed" \in State
  BY DEF ClusterTyped, State, Terminal
<1>3. CASE StatusUpdate(j)
  BY <1>1, <1>2, <1>3, TypeFrame DEF StatusUpdate, ClusterTyped, bounds
<1>4. CASE RepeatUpdate(j) \/ ClashUpdate(j)
  <2>1. RedisTyped'
    BY <1>1, <1>2, <1>4 DEF RepeatUpdate, ClashUpdate
  <2>2. HistoryTyped'
    BY <1>4 DEF RepeatUpdate, ClashUpdate, HistoryTyped, history
  <2>3. QED
    BY <1>4, <2>1, <2>2, TypeFrame DEF RepeatUpdate, ClashUpdate
<1>5. CASE TaskEnds(j)
  BY <1>5, TypeFrame DEF TaskEnds, ClusterTyped, State, bounds
<1>6. QED
  BY <1>3, <1>4, <1>5

LEMMA CrashTyped ==
    ASSUME TypeOK, Crash
    PROVE  TypeOK'
<1> USE DEF TypeOK
<1>1. MainTyped' /\ FrameworkTyped'
  BY IdleTyped DEF Crash, MainTyped
<1>2. ClusterTyped' /\ repeats' \in Nat
  <2>1. CASE Reconcile
    BY <2>1 DEF Crash, ClusterTyped, HistoryTyped, State, Terminal
  <2>2. CASE ~Reconcile
    BY <2>2 DEF Crash, ClusterTyped, HistoryTyped, cluster
  <2>3. QED
    BY <2>1, <2>2
<1>3. HistoryTyped'
  <2>1. ToSet(pendings) \subseteq Job /\ ToSet(runnings) \subseteq Job
    BY ToSetType DEF RedisTyped
  <2>2. ToSet(started) \subseteq Job
    BY ToSetType DEF MainTyped
  <2>3. ToSet(fw.tasks) \subseteq Job
    BY FwType, ToSetType
  <2>4. left' \subseteq Job
    BY <2>1, <2>2, <2>3 DEF Crash, Untreated, HistoryTyped
  <2>5. QED
    BY <1>2, <2>4 DEF Crash, HistoryTyped
<1>4. QED
  BY <1>1, <1>2, <1>3, TypeFrame DEF Crash

LEMMA WatchersTyped ==
    ASSUME TypeOK, Watchers
    PROVE  TypeOK'
<1> USE DEF TypeOK
<1>1. ASSUME NEW j \in Job, Watch(j) PROVE JobsTyped' /\ RedisTyped'
  <2>1. tracked[j] - 1 \in Nat
    <3>1. tracked[j] > 0
      BY <1>1 DEF Watch
    <3>2. tracked[j] \in Nat
      BY DEF JobsTyped
    <3>3. QED
      BY <3>1, <3>2
  <2>2. tracked' \in [Job -> Nat]
    BY <1>1, <2>1 DEF Watch, JobsTyped
  <2>3. ending' \subseteq Job \X {"watch", "watch failed", "kill"}
    <3>1. PICK h \in {"watch", "watch failed"} : ending' \subseteq ending \cup {<<j, h>>}
      BY <1>1 DEF Watch
    <3>2. <<j, h>> \in Job \X {"watch", "watch failed", "kill"}
      OBVIOUS
    <3>3. QED
      BY <3>1, <3>2 DEF JobsTyped
  <2>4. over' \in [Job -> State] /\ reason' \subseteq Job
    BY <1>1 DEF Watch, RedisTyped, State
  <2>5. QED
    BY <1>1, <2>2, <2>3, <2>4 DEF Watch, JobsTyped, RedisTyped
<1>2. ASSUME NEW k \in killq, KillTask(k) PROVE JobsTyped' /\ RedisTyped'
  <2>0. k \in Job \X (0 .. MaxTentatives)
    BY DEF JobsTyped
  <2>1. k[1] \in Job /\ k[2] \in 0 .. MaxTentatives
    BY <2>0
  <2>2. RedisTyped'
    BY <1>2, <2>1 DEF KillTask, RedisTyped, State
  <2>3. k[2] < MaxTentatives => <<k[1], k[2] + 1>> \in Job \X (0 .. MaxTentatives)
    BY <2>1, MesosAssumption
  <2>4. killq' \subseteq Job \X (0 .. MaxTentatives)
    BY <1>2, <2>3 DEF KillTask, JobsTyped
  <2>5. ending' \subseteq Job \X {"watch", "watch failed", "kill"}
    <3>1. ending' \subseteq ending \cup {<<k[1], "kill">>}
      BY <1>2 DEF KillTask
    <3>2. <<k[1], "kill">> \in Job \X {"watch", "watch failed", "kill"}
      BY <2>1
    <3>3. QED
      BY <3>1, <3>2 DEF JobsTyped
  <2>6. doc' \in [Job -> Document]
    <3>1. doc' = doc \/ doc' = [doc EXCEPT ![k[1]].secondary = "unknown"]
      BY <1>2 DEF KillTask
    <3>2. doc \in [Job -> Document] /\ doc[k[1]] \in Document
      BY <2>1 DEF JobsTyped
    <3>3. [doc[k[1]] EXCEPT !.secondary = "unknown"] \in Document
      BY <3>2 DEF Document
    <3>4. QED
      BY <2>1, <3>1, <3>2, <3>3
  <2>7. QED
    BY <1>2, <2>2, <2>4, <2>5, <2>6 DEF KillTask, JobsTyped
<1>3. ASSUME NEW e \in ending, Finish(e) PROVE JobsTyped' /\ RedisTyped'
  <2>0. e \in Job \X {"watch", "watch failed", "kill"}
    BY DEF JobsTyped
  <2>1. e[1] \in Job
    BY <2>0
  <2>2. doc \in [Job -> Document] /\ doc[e[1]] \in Document
    BY <2>1 DEF JobsTyped
  <2>3. doc' \in [Job -> Document]
    <3>1. \/ doc' = doc
          \/ \E n \in {doc[e[1]].fails, doc[e[1]].fails + 1} :
                doc' = [doc EXCEPT ![e[1]] = [doc[e[1]] EXCEPT !.status = "pending",
                                                !.secondary = "rescheduled", !.fails = n]]
          \/ doc' = [doc EXCEPT ![e[1]] = [doc[e[1]] EXCEPT !.status = "over"]]
      BY <1>3, <2>1, <2>2 DEF Finish
    <3>2. ASSUME NEW d \in Document
          PROVE  /\ \A n \in {d.fails, d.fails + 1} :
                       [d EXCEPT !.status = "pending", !.secondary = "rescheduled",
                                 !.fails = n] \in Document
                 /\ [d EXCEPT !.status = "over"] \in Document
      <4>1. d.fails \in Nat /\ d.fails + 1 \in Nat
        <5>1. d.fails \in Nat
          BY DEF Document
        <5>2. QED
          BY <5>1
      <4>2. QED
        BY <4>1 DEF Document
    <3>3. QED
      BY <2>1, <2>2, <3>1, <3>2
  <2>4. snap' \subseteq Job
    BY <1>3 DEF Finish, JobsTyped
  <2>5. QED
    BY <1>3, <2>3, <2>4, TypeFrame DEF Finish, JobsTyped
<1>4. ASSUME NEW j \in Job, KillPending(j) PROVE JobsTyped' /\ RedisTyped' /\ HistoryTyped'
  <2>1. doc' \in [Job -> Document]
    <3>1. \/ doc' = doc
          \/ doc' = [doc EXCEPT ![j].status = "pending", ![j].secondary = "rescheduled"]
          \/ doc' = [doc EXCEPT ![j].status = "over"]
      BY <1>4 DEF KillPending
    <3>2. doc \in [Job -> Document] /\ doc[j] \in Document
      BY DEF JobsTyped
    <3>3. /\ [doc[j] EXCEPT !.status = "pending", !.secondary = "rescheduled"] \in Document
          /\ [doc[j] EXCEPT !.status = "over"] \in Document
      BY <3>2 DEF Document
    <3>4. QED
      BY <3>1, <3>2, <3>3
  <2>2. snap' \subseteq Job /\ early' \subseteq Job
    BY <1>4 DEF KillPending, JobsTyped
  <2>3. left' \subseteq Job
    <3>1. left' \subseteq left \cup {j}
      BY <1>4 DEF KillPending
    <3>2. QED
      BY <3>1 DEF HistoryTyped
  <2>4. QED
    BY <1>4, <2>1, <2>2, <2>3, TypeFrame DEF KillPending, JobsTyped, HistoryTyped, bounds
<1>5. ASSUME Watchers, \A j \in Job : ~KillPending(j)
      PROVE  UNCHANGED <<repeats, history>>
  BY <1>5 DEF Watchers, Watch, KillTask, Finish, bounds
<1>6. /\ UNCHANGED main /\ UNCHANGED fw /\ UNCHANGED cluster
  BY DEF Watchers, Watch, KillTask, Finish, KillPending
<1>7. CASE \E j \in Job : KillPending(j)
  BY <1>4, <1>6, <1>7, TypeFrame
<1>8. CASE \A j \in Job : ~KillPending(j)
  BY <1>1, <1>2, <1>3, <1>5, <1>6, <1>8, TypeFrame DEF Watchers
<1>9. QED
  BY <1>7, <1>8

\* Every variable keeps its type: in particular the driver's thread places tasks of jobs
\* only, and gives them ports and slots that are numbers.
THEOREM TypeCorrect == Spec => []TypeOK
<1>1. Init => TypeOK
  <2> SUFFICES ASSUME Init PROVE TypeOK
    OBVIOUS
  <2>1. JobsTyped /\ MainTyped
    BY DEF Init, JobsTyped, Document, MainTyped
  <2>2. RedisTyped /\ ClusterTyped
    BY DEF Init, RedisTyped, ClusterTyped, State
  <2>3. FrameworkTyped
    BY DEF Init, Idle, FrameworkTyped
  <2>4. HistoryTyped
    BY DEF Init, HistoryTyped
  <2>5. QED
    BY <2>1, <2>2, <2>3, <2>4 DEF TypeOK
<1>2. ASSUME TypeOK, [Next]_vars PROVE TypeOK'
  <2>1. CASE UNCHANGED vars
    BY <1>2, <2>1, TypeFrame DEF vars, bounds, TypeOK
  <2>2. QED
    BY <1>2, <2>1, UsersTyped, MainThreadTyped, FrameworkStepTyped, ClusterStepTyped,
       CrashTyped, WatchersTyped DEF Next
<1>3. QED
  BY <1>1, <1>2, PTL DEF Spec

-----------------------------------------------------------------------------
(* What an offer holds.                                                    *)

\* The ports given are below the next one; and so are the slots, as long as one task at
\* most took some.
Offer ==
    /\ fw.port > 0
    /\ \A n \in DOMAIN fw.given : fw.given[n].port < fw.port
    /\ fw.takes = 0 => fw.slot = 0
    /\ fw.takes <= 1 => \A n \in DOMAIN fw.given : fw.given[n].slots \subseteq 0 .. (fw.slot - 1)

\* The inductive invariant behind GivenOnce.
Offers ==
    /\ GivenOnce
    /\ IF fw.pc = "place" THEN Offer ELSE fw.given = <<>>

\* A task takes what it gets from what is left.
LEMMA PlaceOffers ==
    ASSUME TypeOK, Offers, fw.pc = "place",
           NEW j \in Job, Fits(j),
           fw'.pc = fw.pc, fw'.cpus = fw.cpus - Cpu[j], fw'.slot = NextSlot(Slots[j]),
           fw'.takes = NextTakes(Slots[j]),
           fw'.port = (IF j \in Interactive THEN fw.port + 1 ELSE fw.port),
           fw'.given = Append(fw.given, Given(j))
    PROVE  Offers'
<1> DEFINE L == Len(fw.given)
           g == fw.given
           h == fw'.given
           new == fw.slot .. (fw.slot + Slots[j] - 1)
<1>1. /\ fw.slot \in Nat /\ fw.takes \in Nat /\ fw.port \in Nat /\ fw.cpus \in Int
      /\ Cpu[j] \in Nat /\ Slots[j] \in Nat
  BY FwType, MesosAssumption DEF TypeOK
<1>2. g \in Seq([job : Job, port : Nat, slots : SUBSET Nat])
  BY FwType DEF TypeOK
<1>3. /\ L \in Nat /\ DOMAIN g = 1 .. L /\ DOMAIN h = 1 .. (L + 1)
      /\ h[L + 1] = Given(j) /\ L + 1 \in 1 .. (L + 1)
      /\ \A n \in 1 .. L : h[n] = g[n]
      /\ \A n \in 1 .. (L + 1) : n \in 1 .. L \/ n = L + 1
  <2>1. h = Append(g, Given(j))
    OBVIOUS
  <2>2. L \in Nat /\ DOMAIN g = 1 .. L
    BY <1>2
  <2>3. /\ DOMAIN h = 1 .. (L + 1) /\ h[L + 1] = Given(j)
        /\ \A n \in 1 .. L : h[n] = g[n]
    BY <1>2, <2>1
  <2>4. QED
    BY <2>2, <2>3
<1>4. \A n \in 1 .. L : g[n].port \in Nat /\ g[n].slots \in SUBSET Nat
  <2>1. \A n \in 1 .. L : g[n] \in [job : Job, port : Nat, slots : SUBSET Nat]
    BY <1>2, <1>3, ElementType
  <2>2. QED
    BY <2>1
<1>5. /\ Given(j).port = (IF j \in Interactive THEN fw.port ELSE 0)
      /\ Given(j).slots = new
  BY DEF Given
<1>6. /\ Slots[j] = 0 => new = {} /\ fw'.slot = fw.slot /\ fw'.takes = fw.takes
      /\ Slots[j] # 0 => fw'.slot = Slots[j] /\ fw'.takes = fw.takes + 1
  BY <1>1 DEF NextSlot, NextTakes
<1>7. /\ fw.port > 0
      /\ \A n \in 1 .. L : g[n].port < fw.port
      /\ fw.takes = 0 => fw.slot = 0
      /\ fw.takes <= 1 => \A n \in 1 .. L : g[n].slots \subseteq 0 .. (fw.slot - 1)
  BY <1>3 DEF Offers, Offer
<1>8. GivenOnce'
  <2>1. fw'.cpus >= 0
    BY <1>1 DEF Fits
  <2>2. ASSUME NEW m \in 1 .. (L + 1), NEW n \in 1 .. (L + 1), m < n
        PROVE  /\ h[m].port = h[n].port => h[m].port = 0
               /\ fw'.takes <= 2 => h[m].slots \cap h[n].slots = {}
    <3>1. m \in 1 .. L /\ h[m] = g[m]
      BY <1>3, <2>2
    <3>2. CASE n \in 1 .. L
      <4>1. h[n] = g[n] /\ fw.takes <= fw'.takes
        BY <1>1, <1>3, <1>6, <3>2
      <4>2. fw'.takes <= 2 => fw.takes <= 2
        BY <1>1, <1>6
      <4>3. QED
        BY <1>3, <2>2, <3>1, <3>2, <4>1, <4>2 DEF Offers, GivenOnce
    <3>3. CASE n = L + 1
      <4>1. h[n].slots = new
        BY <1>3, <1>5, <3>3
      <4>2. h[m].port = h[n].port => h[m].port = 0
        <5>1. h[m].port \in Nat /\ h[m].port < fw.port
          BY <1>4, <1>7, <3>1
        <5>2. h[n].port = (IF j \in Interactive THEN fw.port ELSE 0)
          BY <1>3, <1>5, <3>3
        <5>3. CASE j \in Interactive
          <6>1. h[n].port = fw.port
            BY <5>2, <5>3
          <6>2. h[m].port # h[n].port
            BY ONLY <1>1, <5>1, <6>1
          <6>3. QED
            BY ONLY <6>2
        <5>4. CASE j \notin Interactive
          BY ONLY <5>2, <5>4
        <5>5. QED
          BY <5>3, <5>4
      <4>3. ASSUME fw'.takes <= 2 PROVE g[m].slots \cap new = {}
        <5>1. CASE Slots[j] = 0
          BY <1>6, <5>1
        <5>2. CASE Slots[j] # 0
          <6>1. fw.takes <= 1
            BY <1>1, <1>6, <4>3, <5>2
          <6>2. g[m].slots \subseteq 0 .. (fw.slot - 1)
            BY <1>7, <3>1, <6>1
          <6>3. \A x \in new : x \notin 0 .. (fw.slot - 1)
            BY <1>1
          <6>4. QED
            BY <6>2, <6>3
        <5>3. QED
          BY <5>1, <5>2
      <4>4. QED
        BY <1>3, <3>1, <4>1, <4>2, <4>3
    <3>4. QED
      BY <1>3, <3>2, <3>3
  <2>3. QED
    BY <1>3, <2>1, <2>2 DEF GivenOnce
<1>9. Offer'
  <2>1. ASSUME NEW n \in 1 .. (L + 1) PROVE h[n].port < fw'.port
    <3>1. CASE n \in 1 .. L
      BY <1>1, <1>3, <1>4, <1>7, <3>1
    <3>2. CASE n = L + 1
      BY <1>1, <1>3, <1>5, <1>7, <3>2
    <3>3. QED
      BY <1>3, <3>1, <3>2
  <2>2. ASSUME fw'.takes <= 1, NEW n \in 1 .. (L + 1)
        PROVE  h[n].slots \subseteq 0 .. (fw'.slot - 1)
    <3>1. CASE Slots[j] = 0
      <4>1. new = {} /\ fw'.slot = fw.slot /\ fw.takes <= 1
        BY <1>6, <2>2, <3>1
      <4>2. QED
        BY <1>3, <1>5, <1>7, <4>1
    <3>2. CASE Slots[j] # 0
      <4>1. fw.takes = 0 /\ fw.slot = 0 /\ fw'.slot = Slots[j]
        BY <1>1, <1>6, <1>7, <2>2, <3>2
      <4>2. new = 0 .. (fw'.slot - 1)
        BY <1>1, <4>1
      <4>3. n \in 1 .. L => h[n].slots \subseteq 0 .. (0 - 1)
        BY <1>1, <1>3, <1>7, <4>1
      <4>4. 0 .. (0 - 1) = {}
        OBVIOUS
      <4>5. QED
        BY <1>3, <1>5, <4>2, <4>3, <4>4
    <3>3. QED
      BY <3>1, <3>2
  <2>3. fw'.takes = 0 => fw'.slot = 0
    BY <1>1, <1>6, <1>7
  <2>4. fw'.port > 0
    BY <1>1, <1>7
  <2>5. QED
    BY <1>3, <2>1, <2>2, <2>3, <2>4 DEF Offer
<1>10. QED
  BY <1>8, <1>9 DEF Offers

\* A task that is given up leaves the offer without the slots it took.
LEMMA WasteOffers ==
    ASSUME TypeOK, Offers, fw.pc = "place", NEW j \in Job,
           fw'.pc = fw.pc, fw'.cpus = fw.cpus, fw'.slot = NextSlot(Slots[j]),
           fw'.takes = NextTakes(Slots[j]), fw'.port = fw.port, fw'.given = fw.given
    PROVE  Offers'
<1>1. fw.slot \in Nat /\ fw.takes \in Nat /\ Slots[j] \in Nat
  BY FwType, MesosAssumption DEF TypeOK
<1>2. CASE Slots[j] = 0
  <2>1. fw'.slot = fw.slot /\ fw'.takes = fw.takes
    BY <1>2 DEF NextSlot, NextTakes
  <2>2. QED
    BY <2>1 DEF Offers, Offer, GivenOnce
<1>3. CASE Slots[j] # 0
  <2>1. fw'.slot = Slots[j] /\ fw'.takes = fw.takes + 1
    BY <1>3 DEF NextSlot, NextTakes
  <2>2. GivenOnce'
    BY <1>1, <2>1 DEF Offers, GivenOnce
  <2>3. ASSUME fw'.takes <= 1, NEW n \in DOMAIN fw.given
        PROVE  fw.given[n].slots \subseteq 0 .. (fw'.slot - 1)
    <3>1. fw.takes = 0 /\ fw.slot = 0
      BY <1>1, <2>1, <2>3 DEF Offers, Offer
    <3>2. fw.given[n].slots \subseteq 0 .. (0 - 1)
      BY <3>1 DEF Offers, Offer
    <3>3. 0 .. (0 - 1) = {}
      OBVIOUS
    <3>4. QED
      BY <3>2, <3>3
  <2>4. fw'.takes # 0
    BY <1>1, <2>1
  <2>5. QED
    BY <2>2, <2>3, <2>4 DEF Offers, Offer
<1>4. QED
  BY <1>2, <1>3

\* What an offer holds is given once: cpus, ports, and the slots as long as two tasks at
\* most took some, for any number of tasks, offers and jobs.
THEOREM GivenOnceCorrect == Spec => []GivenOnce
<1>1. Init => Offers
  BY DEF Init, Idle, Offers, GivenOnce
<1>2. ASSUME TypeOK, Offers, [Next]_vars PROVE Offers'
  <2>1. CASE UNCHANGED fw
    BY <1>2, <2>1 DEF Offers, Offer, GivenOnce
  <2>2. CASE fw'.given = <<>> /\ fw'.pc # "place" /\ fw'.cpus >= 0
    BY <2>2 DEF Offers, GivenOnce
  <2>3. CASE Framework
    <3>1. CASE BeginOffers
      <4>1. fw'.given = <<>> /\ fw'.pc = "offers" /\ fw'.cpus = 0
        BY <3>1 DEF BeginOffers, Idle
      <4>2. QED
        BY <2>2, <4>1
    <3>2. ASSUME NEW c \in OfferCpus, NextOffer(c) PROVE Offers'
      <4>1. /\ fw'.pc = "place" /\ fw'.cpus = c /\ fw'.port = 1 /\ fw'.slot = 0
            /\ fw'.takes = 0 /\ fw'.given = <<>>
        BY <1>2, <3>2 DEF NextOffer, TypeOK, FrameworkTyped
      <4>2. c >= 0
        BY MesosAssumption
      <4>3. QED
        BY <4>1, <4>2 DEF Offers, Offer, GivenOnce
    <3>3. CASE PlaceTask
      <4> DEFINE j == fw.tasks[fw.next]
      <4>1. j \in Job /\ fw.pc = "place"
        BY <1>2, <3>3, TasksType DEF PlaceTask, TypeOK
      <4>2. CASE /\ Fits(j)
                 /\ fw' = [fw EXCEPT !.placed = @ \cup {fw.next}, !.next = @ + 1,
                                     !.cpus = @ - Cpu[j], !.slot = NextSlot(Slots[j]),
                                     !.takes = NextTakes(Slots[j]),
                                     !.port = IF j \in Interactive THEN @ + 1 ELSE @,
                                     !.given = Append(@, Given(j))]
        <5>1. /\ fw'.pc = fw.pc /\ fw'.cpus = fw.cpus - Cpu[j]
              /\ fw'.slot = NextSlot(Slots[j]) /\ fw'.takes = NextTakes(Slots[j])
              /\ fw'.port = (IF j \in Interactive THEN fw.port + 1 ELSE fw.port)
              /\ fw'.given = Append(fw.given, Given(j))
          BY <1>2, <4>2 DEF TypeOK, FrameworkTyped
        <5>2. QED
          BY <1>2, <4>1, <4>2, <5>1, PlaceOffers
      <4>3. CASE fw' = [fw EXCEPT !.next = @ + 1]
        <5>1. /\ fw'.pc = fw.pc /\ fw'.cpus = fw.cpus /\ fw'.slot = fw.slot
              /\ fw'.takes = fw.takes /\ fw'.port = fw.port /\ fw'.given = fw.given
          BY <1>2, <4>3 DEF TypeOK, FrameworkTyped
        <5>2. QED
          BY <1>2, <5>1 DEF Offers, Offer, GivenOnce
      <4>4. CASE fw' = [fw EXCEPT !.next = @ + 1, !.slot = NextSlot(Slots[j]),
                                  !.takes = NextTakes(Slots[j])]
        <5>1. /\ fw'.pc = fw.pc /\ fw'.cpus = fw.cpus /\ fw'.slot = NextSlot(Slots[j])
              /\ fw'.takes = NextTakes(Slots[j])
              /\ fw'.port = fw.port /\ fw'.given = fw.given
          BY <1>2, <4>4 DEF TypeOK, FrameworkTyped
        <5>2. QED
          BY <1>2, <4>1, <5>1, WasteOffers
      <4>5. QED
        BY <3>3, <4>2, <4>3, <4>4 DEF PlaceTask
    <3>4. CASE LaunchOffer
      <4>1. fw'.given = <<>> /\ fw'.pc = "offers" /\ fw'.cpus = fw.cpus
        BY <1>2, <3>4 DEF LaunchOffer, TypeOK, FrameworkTyped
      <4>2. QED
        BY <1>2, <2>2, <4>1 DEF Offers, GivenOnce
    <3>5. CASE EndOffers
      <4>1. fw'.given = <<>> /\ fw'.pc = "idle" /\ fw'.cpus = 0
        BY <3>5 DEF EndOffers, Idle
      <4>2. QED
        BY <2>2, <4>1
    <3>6. QED
      BY <2>3, <3>1, <3>2, <3>3, <3>4, <3>5 DEF Framework
  <2>4. CASE Crash
    <3>1. fw'.given = <<>> /\ fw'.pc = "idle" /\ fw'.cpus = 0
      BY <2>4 DEF Crash, Idle
    <3>2. QED
      BY <2>2, <3>1
  <2>5. UNCHANGED fw \/ Framework \/ Crash
    BY <1>2 DEF Next, vars, Submit, RequestKill, MainThread, BeginPass, PushTask, Collect,
       Publish, Watchers, Watch, KillTask, KillPending, Finish, StatusUpdate, RepeatUpdate, ClashUpdate,
       TaskEnds
  <2>6. QED
    BY <2>1, <2>3, <2>4, <2>5
<1>3. Offers => GivenOnce
  BY DEF Offers
<1>4. QED
  BY <1>1, <1>2, <1>3, TypeCorrect, PTL DEF Spec

-----------------------------------------------------------------------------
(***************************************************************************)
(* What runs.  A job that run_tasks did not leave behind is in one list at *)
(* most while it waits for an offer; its end is one signal, which is what  *)
(* Mesos has not yet told, then the key of its state, then in the hands of *)
(* one watcher; and it waits again only when that signal was used up.      *)
(***************************************************************************)

\* Waiting for an offer, placed in the one at hand, placed or launched but not yet
\* published, and over for a watcher.
Unplaced(j) == \E i \in DOMAIN fw.tasks : fw.tasks[i] = j /\ i \notin fw.placed
ToPlace(j) == IsIn(j, batch) \/ IsIn(j, pendings) \/ Unplaced(j)
Placed(j) == \E i \in DOMAIN fw.given : fw.given[i].job = j
Going(j) == IsIn(j, runnings) \/ IsIn(j, started)
EndInHand(j) == \E e \in ending : e[1] = j

Waits(j) == doc[j].status \in {"new", "pending"}

\* What the two threads have at hand between their steps.
Phases ==
    /\ spc # "push" => batch = <<>>
    /\ spc # "publish" => started = <<>>
    /\ fw.pc = "idle" => fw.tasks = <<>>
    /\ fw.pc # "place" => fw.given = <<>>
    /\ \A j \in Job : Placed(j) => IsIn(j, fw.tasks) /\ over[j] = "live"

\* The lists a job is in.
Lists(j) ==
    /\ spc # "push" => ~IsIn(j, pendings) /\ ~IsIn(j, fw.tasks) /\ ~IsIn(j, runnings)
    /\ Once(j, batch) /\ Once(j, pendings) /\ Once(j, fw.tasks)
    /\ IsIn(j, batch) => ~IsIn(j, pendings) /\ ~IsIn(j, fw.tasks)
    /\ IsIn(j, pendings) => ~IsIn(j, fw.tasks)
    /\ ToPlace(j) => ~Going(j) /\ ~Placed(j)
    /\ Placed(j) => IsIn(j, runnings)
    /\ Going(j) /\ ~Placed(j) => launched[j] > 0

\* No run of the job goes on, and the end of the last one was handled.
Settled(j) == told[j] = mesos[j] /\ ~Live(j) /\ over[j] \notin Terminal /\ ~EndInHand(j)

FirstRun(j) ==
    launched[j] = 0 =>
        /\ mesos[j] = "none" /\ Settled(j) /\ j \notin clash
        /\ doc[j].status # "running"
        /\ ToPlace(j) \/ Placed(j) => Waits(j)

\* What the theorems promise: no second launch of a live task, and a live task is
\* followed, nothing having been said of its end.
Run(j) ==
    /\ j \notin clash
    /\ Live(j) =>
        /\ told[j] \notin Terminal /\ over[j] = "live" /\ ~EndInHand(j)
        /\ repeats = 0 => told[j] = "live"
        /\ ~ToPlace(j) /\ ~Placed(j)
        /\ doc[j].status # "over"
        /\ Going(j) \/ (tracked[j] > 0 /\ j \in snap /\ doc[j].status = "running")

\* One signal of an end at a time, when Mesos repeats none.
OneEnd(j) ==
    /\ \A d, e \in ending : d[1] = j /\ e[1] = j => d = e
    /\ EndInHand(j) \/ over[j] \in Terminal => told[j] = mesos[j] /\ mesos[j] \in Terminal
    /\ EndInHand(j) => over[j] \notin Terminal
    /\ (Waits(j) /\ ~Going(j)) \/ Placed(j) => Settled(j)
    /\ ToPlace(j) \/ Placed(j) => Waits(j)

Trusted(j) == launched[j] <= 1 \/ repeats = 0

JobInv(j) ==
    /\ Lists(j)
    /\ FirstRun(j)
    /\ Trusted(j) => Run(j)
    /\ repeats = 0 => OneEnd(j)

\* The inductive invariant behind LaunchedOnce and LiveIsFollowed.
Runs == Phases /\ \A j \in Job \ left : JobInv(j)

-----------------------------------------------------------------------------
(* Steps that move no job from one list to another.                        *)

positions == <<main, pendings, runnings, fw, launched>>

\* The job stays in the lists it is in; it may no longer wait for an offer.
SamePlace(j) ==
    /\ Lists(j)'
    /\ ToPlace(j)' => ToPlace(j)
    /\ Placed(j)' => Placed(j)
    /\ Going(j)' <=> Going(j)
    /\ launched'[j] = launched[j]

LEMMA SamePositions ==
    ASSUME UNCHANGED positions, NEW j, Lists(j)
    PROVE  SamePlace(j) /\ (Unplaced(j)' <=> Unplaced(j))
BY DEF positions, main, SamePlace, Lists, ToPlace, Placed, Going, Unplaced

\* Nothing else happens to the job.
LEMMA OtherJob ==
    ASSUME NEW j \in Job, JobInv(j), SamePlace(j),
           mesos'[j] = mesos[j], told'[j] = told[j], over'[j] = over[j],
           doc'[j].status = doc[j].status, tracked'[j] = tracked[j],
           j \in snap' <=> j \in snap, j \in clash' <=> j \in clash,
           \A e : e[1] = j => (e \in ending' <=> e \in ending),
           repeats' = 0 => repeats = 0
    PROVE  JobInv(j)'
<1>1. /\ Lists(j)'
      /\ ToPlace(j)' => ToPlace(j)
      /\ Placed(j)' => Placed(j)
      /\ Going(j)' <=> Going(j)
      /\ launched'[j] = launched[j]
  BY DEF SamePlace
<1>2. EndInHand(j)' <=> EndInHand(j)
  BY DEF EndInHand
<1>3. (Settled(j)' <=> Settled(j)) /\ (Waits(j)' <=> Waits(j)) /\ (Live(j)' <=> Live(j))
  BY <1>2 DEF Settled, Waits, Live
<1>4. FirstRun(j)'
  BY <1>1, <1>3 DEF JobInv, FirstRun
<1>5. Trusted(j)' => Trusted(j)
  BY <1>1 DEF Trusted
<1>6. Run(j) => Run(j)'
  BY <1>1, <1>2, <1>3 DEF Run
<1>7. OneEnd(j) => OneEnd(j)'
  BY <1>1, <1>2, <1>3 DEF OneEnd
<1>8. QED
  BY <1>1, <1>4, <1>5, <1>6, <1>7 DEF JobInv

\* The users.
LEMMA UsersRuns ==
    ASSUME TypeOK, NEW j \in Job, JobInv(j), NEW i \in Job, Submit(i) \/ RequestKill(i)
    PROVE  JobInv(j)'
<1>1. /\ UNCHANGED positions
      /\ UNCHANGED <<mesos, told, over, tracked, snap, clash, ending, repeats>>
  BY DEF Submit, RequestKill, positions, redis, cluster, bounds, history
<1>2. doc \in [Job -> Document]
  BY DEF TypeOK, JobsTyped
<1>3. CASE doc'[j].status = doc[j].status
  BY <1>1, <1>3, SamePositions, OtherJob DEF JobInv
<1>4. CASE doc'[j].status # doc[j].status
  <2>1. doc[j].status = "new" /\ doc'[j].status = "pending"
    <3>1. CASE Submit(i)
      BY <1>2, <1>4, <3>1 DEF Submit, Document
    <3>2. CASE RequestKill(i)
      <4>1. PICK t : doc' = [doc EXCEPT ![i].secondary = t]
        BY <3>2 DEF RequestKill
      <4>2. doc'[j] = doc[j] \/ doc'[j] = [doc[j] EXCEPT !.secondary = t]
        BY <1>2, <4>1
      <4>3. QED
        BY <1>2, <1>4, <4>2 DEF Document
    <3>3. QED
      BY <3>1, <3>2
  <2>2. /\ Lists(j)'
        /\ ToPlace(j)' => ToPlace(j)
        /\ Placed(j)' => Placed(j)
        /\ Going(j)' <=> Going(j)
        /\ launched'[j] = launched[j]
    BY <1>1, SamePositions DEF JobInv, SamePlace
  <2>3. /\ EndInHand(j)' <=> EndInHand(j)
        /\ Live(j)' <=> Live(j)
        /\ Settled(j)' <=> Settled(j)
    BY <1>1 DEF EndInHand, Live, Settled
  <2>4. Waits(j) /\ Waits(j)'
    BY <2>1 DEF Waits
  <2>5. FirstRun(j)' /\ (Trusted(j)' => Trusted(j))
    BY <1>1, <2>1, <2>2, <2>3, <2>4 DEF JobInv, FirstRun, Trusted
  <2>6. Run(j) => Run(j)'
    BY <1>1, <2>1, <2>2, <2>3 DEF Run
  <2>7. OneEnd(j) => OneEnd(j)'
    BY <1>1, <2>2, <2>3, <2>4 DEF OneEnd
  <2>8. QED
    BY <1>1, <2>2, <2>5, <2>6, <2>7 DEF JobInv
<1>5. QED
  BY <1>3, <1>4

\* A task ends: nothing was told of it yet.
LEMMA EndsRuns ==
    ASSUME TypeOK, NEW j \in Job, JobInv(j), SamePlace(j),
           UNCHANGED <<told, over, doc, tracked, snap, clash, ending, repeats>>,
           mesos'[j] = mesos[j] \/ (Live(j) /\ mesos'[j] \in Terminal)
    PROVE  JobInv(j)'
<1>1. CASE mesos'[j] = mesos[j]
  BY <1>1, OtherJob
<1>2. CASE Live(j) /\ mesos'[j] \in Terminal
  <2>1. /\ Lists(j)'
        /\ ToPlace(j)' => ToPlace(j)
        /\ Placed(j)' => Placed(j)
        /\ Going(j)' <=> Going(j)
        /\ launched'[j] = launched[j]
    BY DEF SamePlace
  <2>2. ~Live(j)' /\ mesos[j] # "none" /\ (EndInHand(j)' <=> EndInHand(j))
    BY <1>2 DEF Live, Terminal, EndInHand
  <2>3. FirstRun(j)'
    BY <2>1, <2>2 DEF JobInv, FirstRun
  <2>4. Trusted(j)' => Run(j)'
    BY <2>1, <2>2 DEF JobInv, Trusted, Run
  <2>5. ASSUME repeats = 0 PROVE OneEnd(j)'
    <3>1. /\ told[j] \notin Terminal /\ over[j] = "live" /\ ~EndInHand(j)
          /\ ~ToPlace(j) /\ ~Placed(j)
      BY <1>2, <2>5 DEF JobInv, Trusted, Run
    <3>2. ~(Waits(j) /\ ~Going(j))
      BY <1>2, <2>5 DEF JobInv, OneEnd, Settled
    <3>3. OneEnd(j)
      BY <2>5 DEF JobInv
    <3>4. (Waits(j)' <=> Waits(j)) /\ "live" \notin Terminal
      BY DEF Waits, Terminal
    <3>5. QED
      BY <2>1, <2>2, <3>1, <3>2, <3>3, <3>4 DEF OneEnd
  <2>6. QED
    BY <2>1, <2>3, <2>4, <2>5 DEF JobInv
<1>3. QED
  BY <1>1, <1>2

\* Mesos tells the state of a task, once or again, or an error.
LEMMA UpdateRuns ==
    ASSUME TypeOK, Phases, NEW j \in Job, JobInv(j), NEW i \in Job,
           StatusUpdate(i) \/ RepeatUpdate(i) \/ ClashUpdate(i)
    PROVE  JobInv(j)'
<1>1. /\ UNCHANGED positions /\ UNCHANGED <<mesos, doc, tracked, snap, clash, ending>>
      /\ fw.pc = "idle" /\ fw.given = <<>> /\ fw.tasks = <<>>
      /\ over \in [Job -> State] /\ told \in [Job -> State] /\ mesos \in [Job -> State]
      /\ repeats \in Nat
  <2>1. UNCHANGED positions /\ UNCHANGED <<mesos, doc, tracked, snap, clash, ending>>
    BY DEF StatusUpdate, RepeatUpdate, ClashUpdate, positions, jobsVars, cluster, history
  <2>2. fw.pc = "idle" /\ fw.given = <<>> /\ fw.tasks = <<>>
    BY DEF StatusUpdate, RepeatUpdate, ClashUpdate, Phases
  <2>3. QED
    BY <2>1, <2>2 DEF TypeOK, RedisTyped, ClusterTyped, HistoryTyped
<1>2. (repeats' = 0 => repeats = 0) /\ ~Placed(j)
  BY <1>1 DEF StatusUpdate, RepeatUpdate, ClashUpdate, bounds, Placed
<1>3. CASE i # j
  <2>1. told'[j] = told[j] /\ over'[j] = over[j]
    BY <1>1, <1>3 DEF StatusUpdate, RepeatUpdate, ClashUpdate, Report, cluster
  <2>2. QED
    BY <1>1, <1>2, <2>1, SamePositions, OtherJob DEF JobInv
<1>4. CASE i = j
  <2>1. /\ Lists(j)'
        /\ ToPlace(j)' => ToPlace(j)
        /\ Placed(j)' => Placed(j)
        /\ Going(j)' <=> Going(j)
        /\ launched'[j] = launched[j]
    BY <1>1, SamePositions DEF JobInv, SamePlace
  <2>2. /\ EndInHand(j)' <=> EndInHand(j)
        /\ Live(j)' <=> Live(j)
        /\ Waits(j)' <=> Waits(j)
    BY <1>1 DEF EndInHand, Live, Waits
  <2>3. CASE StatusUpdate(j)
    <3>1. /\ told[j] # mesos[j] /\ told'[j] = mesos[j] /\ over'[j] = mesos[j]
          /\ repeats' = repeats
      BY <1>1, <2>3 DEF StatusUpdate, Report, bounds
    <3>2. ~Settled(j) /\ launched[j] # 0
      BY <3>1 DEF Settled, JobInv, FirstRun
    <3>3. FirstRun(j)'
      BY <2>1, <3>2 DEF FirstRun
    <3>4. Trusted(j)' => Run(j)'
      <4>1. SUFFICES ASSUME Trusted(j)' PROVE Run(j)'
        OBVIOUS
      <4>2. Run(j)
        BY <2>1, <3>1, <4>1 DEF Trusted, JobInv
      <4>3. Live(j) => mesos[j] = "live" /\ "live" \notin Terminal
        BY DEF Live, Terminal
      <4>4. QED
        BY <1>1, <2>1, <2>2, <3>1, <4>2, <4>3 DEF Run
    <3>5. ASSUME repeats = 0 PROVE OneEnd(j)'
      <4>1. OneEnd(j)
        BY <3>5 DEF JobInv
      <4>2. /\ ~EndInHand(j) /\ over[j] \notin Terminal
            /\ ~(Waits(j) /\ ~Going(j)) /\ ~Placed(j)
        BY <3>1, <3>2, <4>1 DEF OneEnd
      <4>3. QED
        BY <1>1, <2>1, <2>2, <3>1, <4>1, <4>2 DEF OneEnd
    <3>6. QED
      BY <2>1, <3>1, <3>3, <3>4, <3>5 DEF JobInv
  <2>4. CASE RepeatUpdate(j) \/ ClashUpdate(j)
    <3>1. repeats' # 0 /\ told'[j] = told[j] /\ (told[j] \in Terminal \/ j \in clash)
      BY <1>1, <2>4 DEF RepeatUpdate, ClashUpdate, cluster
    <3>2. "none" \notin Terminal
      BY DEF Terminal
    <3>3. launched[j] # 0
      BY <3>1, <3>2 DEF JobInv, FirstRun, Settled
    <3>4. Trusted(j)' => Run(j)'
      <4>1. SUFFICES ASSUME Trusted(j)' PROVE Run(j)'
        OBVIOUS
      <4>2. Trusted(j) /\ Run(j)
        BY <2>1, <3>1, <4>1 DEF Trusted, JobInv
      <4>3. ~Live(j)
        BY <3>1, <4>2 DEF Run
      <4>4. QED
        BY <1>1, <2>2, <4>2, <4>3 DEF Run
    <3>5. QED
      BY <2>1, <3>1, <3>3, <3>4 DEF JobInv, FirstRun
  <2>5. QED
    BY <1>4, <2>3, <2>4
<1>5. QED
  BY <1>3, <1>4

\* TaskEnds, which is not the framework's.
LEMMA TaskEndsRuns ==
    ASSUME TypeOK, NEW j \in Job, JobInv(j), NEW i \in Job, TaskEnds(i)
    PROVE  JobInv(j)'
<1>1. UNCHANGED positions /\ UNCHANGED <<told, over, doc, tracked, snap, clash, ending, repeats>>
  BY DEF TaskEnds, positions, redis, jobsVars, bounds, history
<1>2. mesos'[j] = mesos[j] \/ (Live(j) /\ mesos'[j] \in Terminal)
  BY DEF TaskEnds, TypeOK, ClusterTyped
<1>3. QED
  BY <1>1, <1>2, SamePositions, EndsRuns DEF JobInv

-----------------------------------------------------------------------------
(* The watchers.                                                           *)

\* The key of the state is exchanged for a handler.
LEMMA EndTaken ==
    ASSUME NEW j \in Job, JobInv(j), UNCHANGED positions,
           UNCHANGED <<mesos, told, snap, clash, repeats>>,
           doc'[j].status = doc[j].status,
           over[j] \in Terminal, over'[j] = "none",
           NEW h, ending' = ending \cup {<<j, h>>}
    PROVE  JobInv(j)'
<1>1. /\ Lists(j)'
      /\ ToPlace(j)' => ToPlace(j)
      /\ Placed(j)' => Placed(j)
      /\ Going(j)' <=> Going(j)
      /\ launched'[j] = launched[j]
  BY SamePositions DEF JobInv, SamePlace
<1>2. ~Settled(j) /\ "none" \notin Terminal /\ "live" \notin Terminal
  BY DEF Settled, Terminal
<1>3. FirstRun(j)'
  BY <1>1, <1>2 DEF JobInv, FirstRun
<1>4. Trusted(j)' => Run(j)'
  BY <1>1, <1>2 DEF JobInv, Trusted, Run, Live
<1>5. ASSUME repeats = 0 PROVE OneEnd(j)'
  <2>1. OneEnd(j)
    BY <1>5 DEF JobInv
  <2>2. /\ ~EndInHand(j) /\ ~Placed(j) /\ ~(Waits(j) /\ ~Going(j))
        /\ told[j] = mesos[j] /\ mesos[j] \in Terminal
        /\ ToPlace(j) => Waits(j)
    BY <1>2, <2>1 DEF OneEnd
  <2>3. Waits(j)' <=> Waits(j)
    BY DEF Waits
  <2>4. \A d \in ending' : d[1] = j => d = <<j, h>>
    BY <2>2 DEF EndInHand
  <2>5. QED
    BY <1>1, <1>2, <2>2, <2>3, <2>4 DEF OneEnd
<1>6. QED
  BY <1>1, <1>3, <1>4, <1>5 DEF JobInv

LEMMA WatchRuns ==
    ASSUME TypeOK, NEW j \in Job, JobInv(j), NEW i \in Job, Watch(i)
    PROVE  JobInv(j)'
<1>1. /\ UNCHANGED positions /\ UNCHANGED <<mesos, told, doc, snap, clash, repeats>>
      /\ tracked[i] > 0
  BY DEF Watch, positions, cluster, bounds, history
<1>2. tracked \in [Job -> Nat] /\ over \in [Job -> State]
  BY DEF TypeOK, JobsTyped, RedisTyped
<1>3. CASE i # j
  <2>1. tracked'[j] = tracked[j] /\ over'[j] = over[j]
    BY <1>2, <1>3 DEF Watch
  <2>2. \A e : e[1] = j => (e \in ending' <=> e \in ending)
    <3>1. ending' = ending \/ \E h : ending' = ending \cup {<<i, h>>}
      BY DEF Watch
    <3>2. QED
      BY <1>3, <3>1
  <2>3. QED
    BY <1>1, <2>1, <2>2, SamePositions, OtherJob DEF JobInv
<1>4. CASE i = j /\ j \in snap
  <2>1. /\ over[j] \in Terminal /\ over'[j] = "none"
        /\ \E h : ending' = ending \cup {<<j, h>>}
    BY <1>2, <1>4 DEF Watch
  <2>2. QED
    BY <1>1, <2>1, EndTaken
<1>5. CASE i = j /\ j \notin snap
  <2>1. UNCHANGED <<over, ending>>
    BY <1>5 DEF Watch
  <2>2. /\ Lists(j)'
        /\ ToPlace(j)' => ToPlace(j)
        /\ Placed(j)' => Placed(j)
        /\ Going(j)' <=> Going(j)
        /\ launched'[j] = launched[j]
    BY <1>1, SamePositions DEF JobInv, SamePlace
  <2>3. /\ EndInHand(j)' <=> EndInHand(j)
        /\ Live(j)' <=> Live(j)
        /\ Waits(j)' <=> Waits(j)
        /\ Settled(j)' <=> Settled(j)
    BY <1>1, <2>1 DEF EndInHand, Live, Waits, Settled
  <2>4. FirstRun(j)' /\ (Trusted(j)' => Trusted(j))
    BY <1>1, <2>2, <2>3 DEF JobInv, FirstRun, Trusted
  <2>5. Run(j) => Run(j)'
    BY <1>1, <1>5, <2>1, <2>2, <2>3 DEF Run
  <2>6. OneEnd(j) => OneEnd(j)'
    BY <1>1, <2>1, <2>2, <2>3 DEF OneEnd
  <2>7. QED
    BY <1>1, <2>2, <2>4, <2>5, <2>6 DEF JobInv
<1>6. QED
  BY <1>3, <1>4, <1>5

LEMMA KillTaskRuns ==
    ASSUME TypeOK, NEW j \in Job, JobInv(j), NEW k \in killq, KillTask(k)
    PROVE  JobInv(j)'
<1>1. /\ UNCHANGED positions
      /\ UNCHANGED <<mesos, told, tracked, snap, clash, repeats>>
  BY DEF KillTask, positions, cluster, bounds, history
<1>2. over \in [Job -> State] /\ doc \in [Job -> Document] /\ k[1] \in Job
  BY DEF TypeOK, JobsTyped, RedisTyped
<1>3. doc'[j].status = doc[j].status
  <2>1. doc' = doc \/ doc' = [doc EXCEPT ![k[1]].secondary = "unknown"]
    BY DEF KillTask
  <2>2. doc[j] \in Document
    BY <1>2
  <2>3. doc'[j] = doc[j] \/ doc'[j] = [doc[j] EXCEPT !.secondary = "unknown"]
    BY <1>2, <2>1
  <2>4. QED
    BY <2>2, <2>3 DEF Document
<1>4. CASE k[1] = j /\ over[j] \in Terminal
  <2>1. over'[j] = "none" /\ ending' = ending \cup {<<j, "kill">>}
    BY <1>2, <1>4 DEF KillTask
  <2>2. QED
    BY <1>1, <1>3, <1>4, <2>1, EndTaken
<1>5. CASE ~(k[1] = j /\ over[j] \in Terminal)
  <2>1. over'[j] = over[j]
    BY <1>2, <1>5 DEF KillTask
  <2>2. \A e : e[1] = j => (e \in ending' <=> e \in ending)
    BY <1>5 DEF KillTask
  <2>3. QED
    BY <1>1, <1>3, <2>1, <2>2, SamePositions, OtherJob DEF JobInv
<1>6. QED
  BY <1>4, <1>5

\* A job killed as a pending one, which run_tasks did not have, has no task.
LEMMA KillPendingRuns ==
    ASSUME TypeOK, Phases, NEW i \in Job, KillPending(i), NEW j \in Job \ left', JobInv(j)
    PROVE  JobInv(j)'
<1>1. /\ UNCHANGED positions
      /\ UNCHANGED <<mesos, told, over, tracked, clash, ending, repeats>>
  BY DEF KillPending, positions, redis, cluster, bounds
<1>2. doc \in [Job -> Document]
  BY DEF TypeOK, JobsTyped
<1>3. CASE i # j \/ doc[i].status = "over"
  <2>1. doc'[j].status = doc[j].status
    BY <1>2, <1>3 DEF KillPending
  <2>2. j \in snap' <=> j \in snap
    BY <1>3 DEF KillPending
  <2>3. QED
    BY <1>1, <2>1, <2>2, SamePositions, OtherJob DEF JobInv
<1>4. CASE i = j /\ doc[j].status # "over"
  <2>1. doc[j].status # "running" /\ j \notin Taken
    BY <1>4 DEF KillPending
  <2>2. Waits(j) /\ doc'[j].status \in {"pending", "over"}
    <3>1. \/ doc' = [doc EXCEPT ![j].status = "pending", ![j].secondary = "rescheduled"]
          \/ doc' = [doc EXCEPT ![j].status = "over"]
      BY <1>4 DEF KillPending
    <3>2. QED
      BY <1>2, <1>4, <2>1, <3>1 DEF Document, Waits
  <2>3. ~IsIn(j, batch) /\ ~IsIn(j, pendings) /\ ~IsIn(j, fw.tasks) /\ ~Going(j)
    <3>1. /\ batch \in Seq(Job) /\ pendings \in Seq(Job) /\ fw.tasks \in Seq(Job)
          /\ runnings \in Seq(Job) /\ started \in Seq(Job)
      BY FwType DEF TypeOK, RedisTyped, MainTyped
    <3>2. QED
      BY <2>1, <3>1, ToSetType DEF Taken, Untreated, Going
  <2>4. ~ToPlace(j) /\ ~Placed(j)
    BY <2>3 DEF ToPlace, Unplaced, IsIn, JobInv, Lists, Going
  <2>5. /\ Lists(j)'
        /\ ToPlace(j)' => ToPlace(j)
        /\ Placed(j)' => Placed(j)
        /\ Going(j)' <=> Going(j)
        /\ launched'[j] = launched[j]
    BY <1>1, SamePositions DEF JobInv, SamePlace
  <2>6. /\ EndInHand(j)' <=> EndInHand(j)
        /\ Live(j)' <=> Live(j)
        /\ Settled(j)' <=> Settled(j)
    BY <1>1 DEF EndInHand, Live, Settled
  <2>7. FirstRun(j)'
    BY <1>1, <2>2, <2>4, <2>5, <2>6 DEF JobInv, FirstRun
  <2>8. Trusted(j)' => Run(j)'
    BY <1>1, <2>1, <2>3, <2>5, <2>6 DEF JobInv, Trusted, Run
  <2>9. OneEnd(j) => OneEnd(j)'
    BY <1>1, <2>2, <2>3, <2>4, <2>5, <2>6 DEF OneEnd
  <2>10. QED
    BY <1>1, <2>5, <2>7, <2>8, <2>9 DEF JobInv
<1>5. QED
  BY <1>3, <1>4

LEMMA FinishRuns ==
    ASSUME TypeOK, NEW j \in Job, JobInv(j), NEW e \in ending, Finish(e)
    PROVE  JobInv(j)'
<1>1. /\ UNCHANGED positions
      /\ UNCHANGED <<mesos, told, over, tracked, clash, repeats>>
      /\ ending' = ending \ {e}
  BY DEF Finish, positions, redis, cluster, bounds, history
<1>2. doc \in [Job -> Document] /\ e[1] \in Job
  BY DEF TypeOK, JobsTyped
<1>3. CASE e[1] # j
  <2>1. doc'[j].status = doc[j].status
    BY <1>2, <1>3 DEF Finish
  <2>2. j \in snap' <=> j \in snap
    BY <1>3 DEF Finish
  <2>3. QED
    BY <1>1, <1>3, <2>1, <2>2, SamePositions, OtherJob DEF JobInv
<1>4. CASE e[1] = j
  <2>1. /\ Lists(j)'
        /\ ToPlace(j)' => ToPlace(j)
        /\ Placed(j)' => Placed(j)
        /\ Going(j)' <=> Going(j)
        /\ launched'[j] = launched[j]
    BY <1>1, SamePositions DEF JobInv, SamePlace
  <2>2. EndInHand(j) /\ ~Settled(j)
    BY <1>4 DEF EndInHand, Settled
  <2>3. FirstRun(j)'
    BY <2>1, <2>2 DEF JobInv, FirstRun
  <2>4. Trusted(j)' => Run(j)'
    BY <1>1, <2>1, <2>2 DEF JobInv, Trusted, Run, Live
  <2>5. ASSUME repeats = 0 PROVE OneEnd(j)'
    <3>1. OneEnd(j) /\ (ToPlace(j) => ~Going(j))
      BY <2>5 DEF JobInv, Lists
    <3>2. /\ told[j] = mesos[j] /\ mesos[j] \in Terminal /\ over[j] \notin Terminal
          /\ ~Placed(j) /\ ~ToPlace(j)
      BY <2>2, <3>1 DEF OneEnd
    <3>3. ~EndInHand(j)'
      BY <1>1, <1>4, <3>1 DEF OneEnd, EndInHand
    <3>4. Settled(j)'
      BY <1>1, <3>2, <3>3 DEF Settled, Live, Terminal
    <3>5. QED
      BY <1>1, <2>1, <3>2, <3>3, <3>4 DEF OneEnd, EndInHand
  <2>6. QED
    BY <1>1, <2>1, <2>3, <2>4, <2>5 DEF JobInv
<1>5. QED
  BY <1>3, <1>4

-----------------------------------------------------------------------------
(* The main thread.                                                        *)

LEMMA BeginPassRuns ==
    ASSUME TypeOK, Phases, NEW j \in Job, JobInv(j), BeginPass
    PROVE  JobInv(j)'
<1>0. PICK S \in SUBSET Pending : batch' = SetToSeq(S)
  BY DEF BeginPass
<1>1. /\ spc = "idle" /\ spc' = "push"
      /\ UNCHANGED <<started, pendings, runnings, over, fw>>
      /\ UNCHANGED <<doc, tracked, snap, ending, mesos, told, repeats, launched, clash>>
  BY DEF BeginPass, jobsVars, cluster, bounds, history
<1>2. Once(j, batch') /\ (IsIn(j, batch') => doc[j].status = "pending")
  <2>1. IsFiniteSet(S)
    BY MesosAssumption, FS_Subset DEF Pending
  <2>2. QED
    BY <1>0, <2>1, ListOfSet DEF Pending
<1>3. /\ ~IsIn(j, pendings) /\ ~IsIn(j, fw.tasks) /\ ~IsIn(j, runnings) /\ ~IsIn(j, started)
      /\ started = <<>> /\ ~Placed(j)
  BY <1>1 DEF Phases, JobInv, Lists, IsIn
<1>4. ~Going(j) /\ ~Going(j)' /\ ~Placed(j)'
  BY <1>1, <1>3 DEF Going, Placed
<1>5. ~Unplaced(j)'
  BY <1>1, <1>3 DEF Unplaced, IsIn
<1>6. ToPlace(j)' => doc[j].status = "pending"
  BY <1>1, <1>2, <1>3, <1>5 DEF ToPlace
<1>7. Lists(j)'
  BY <1>1, <1>2, <1>3, <1>4 DEF JobInv, Lists
<1>8. /\ EndInHand(j)' <=> EndInHand(j)
      /\ Live(j)' <=> Live(j)
      /\ Waits(j)' <=> Waits(j)
      /\ Settled(j)' <=> Settled(j)
  BY <1>1 DEF EndInHand, Live, Waits, Settled
<1>9. FirstRun(j)'
  BY <1>1, <1>4, <1>6, <1>8 DEF JobInv, FirstRun, Waits
<1>10. Trusted(j)' => Run(j)'
  BY <1>1, <1>4, <1>6, <1>8 DEF JobInv, Trusted, Run
<1>11. OneEnd(j) => OneEnd(j)'
  BY <1>1, <1>4, <1>6, <1>8 DEF OneEnd, Waits
<1>12. QED
  BY <1>1, <1>7, <1>9, <1>10, <1>11 DEF JobInv

LEMMA PushTaskRuns ==
    ASSUME TypeOK, NEW j \in Job, JobInv(j), PushTask
    PROVE  JobInv(j)'
<1>1. /\ spc = "push" /\ batch # <<>> /\ batch \in Seq(Job) /\ pendings \in Seq(Job)
      /\ batch' = Tail(batch) /\ pendings' = Append(pendings, Head(batch))
      /\ UNCHANGED <<spc, started, runnings, over, fw>>
      /\ UNCHANGED <<doc, tracked, snap, ending, mesos, told, repeats, launched, clash>>
  BY DEF PushTask, jobsVars, cluster, bounds, history, TypeOK, MainTyped, RedisTyped
<1>2. Head(batch) \in Job
  BY <1>1, HeadTailType
<1>3. /\ IsIn(Head(batch), batch)
      /\ IsIn(j, batch') => IsIn(j, batch)
      /\ Once(j, batch) => Once(j, batch') /\ (j = Head(batch) => ~IsIn(j, batch'))
  BY <1>1, OnceTail
<1>4. /\ Once(j, pendings) /\ (j = Head(batch) => ~IsIn(j, pendings)) => Once(j, pendings')
      /\ IsIn(j, pendings') <=> IsIn(j, pendings) \/ j = Head(batch)
  BY <1>1, <1>2, OnceAppend
<1>5. /\ Unplaced(j)' <=> Unplaced(j)
      /\ Placed(j)' <=> Placed(j)
      /\ Going(j)' <=> Going(j)
  BY <1>1 DEF Unplaced, Placed, Going
<1>6. ToPlace(j)' => ToPlace(j)
  BY <1>3, <1>4, <1>5 DEF ToPlace
<1>7. Lists(j)'
  BY <1>1, <1>3, <1>4, <1>5, <1>6 DEF JobInv, Lists
<1>8. SamePlace(j)
  BY <1>1, <1>5, <1>6, <1>7 DEF SamePlace
<1>9. QED
  BY <1>1, <1>8, OtherJob

LEMMA CollectRuns ==
    ASSUME TypeOK, Phases, NEW j \in Job \ left', JobInv(j), Collect
    PROVE  JobInv(j)'
<1>1. /\ spc = "push" /\ spc' = "publish" /\ batch = <<>> /\ batch' = <<>>
      /\ started' = runnings /\ runnings' = <<>>
      /\ UNCHANGED <<pendings, over, fw>>
      /\ UNCHANGED <<doc, tracked, snap, ending, mesos, told, repeats, launched, clash>>
  BY DEF Collect, jobsVars, cluster, bounds
<1>2. ~IsIn(j, pendings) /\ ~IsIn(j, fw.tasks)
  <2>1. j \notin Untreated /\ pendings \in Seq(Job) /\ fw.tasks \in Seq(Job)
    BY FwType DEF Collect, TypeOK, RedisTyped
  <2>2. QED
    BY <2>1, ToSetType DEF Untreated
<1>3. ~Placed(j) /\ ~Placed(j)'
  BY <1>1, <1>2 DEF Phases, Placed
<1>4. ~ToPlace(j)'
  BY <1>1, <1>2 DEF ToPlace, Unplaced, IsIn
<1>5. Going(j)' <=> Going(j)
  BY <1>1 DEF Going, Phases, IsIn
<1>6. Lists(j)'
  BY <1>1, <1>2, <1>3, <1>4, <1>5 DEF JobInv, Lists, IsIn, Once
<1>7. SamePlace(j)
  BY <1>1, <1>3, <1>4, <1>5, <1>6 DEF SamePlace
<1>8. QED
  BY <1>1, <1>7, OtherJob

LEMMA PublishRuns ==
    ASSUME TypeOK, Phases, NEW j \in Job, JobInv(j), Publish
    PROVE  JobInv(j)'
<1>1. /\ spc = "publish" /\ spc' = "idle" /\ started \in Seq(Job) /\ started' = <<>>
      /\ tracked \in [Job -> Nat] /\ doc \in [Job -> Document]
      /\ UNCHANGED <<batch, pendings, runnings, over, fw>>
      /\ UNCHANGED <<ending, mesos, told, repeats, launched, clash>>
  BY DEF Publish, redis, cluster, bounds, history, TypeOK, MainTyped, JobsTyped
<1>2. /\ tracked'[j] = tracked[j] + Cardinality({n \in DOMAIN started : started[n] = j})
      /\ j \in snap' <=> j \in snap \/ j \in ToSet(started)
      /\ doc'[j] = IF j \in ToSet(started) /\ doc[j].status # "over"
                   THEN [doc[j] EXCEPT !.status = "running", !.secondary = "none"]
                   ELSE doc[j]
  BY DEF Publish
<1>3. /\ Cardinality({n \in DOMAIN started : started[n] = j}) \in Nat
      /\ IsIn(j, started) => Cardinality({n \in DOMAIN started : started[n] = j}) > 0
      /\ j \in ToSet(started) <=> IsIn(j, started)
  BY <1>1, Occurrences, ToSetType
<1>4. /\ tracked[j] > 0 \/ IsIn(j, started) => tracked'[j] > 0
      /\ IsIn(j, started) => j \in snap'
      /\ j \in snap => j \in snap'
  BY <1>1, <1>2, <1>3
<1>5. /\ ~IsIn(j, started) => doc'[j].status = doc[j].status
      /\ IsIn(j, started) => doc'[j].status = IF doc[j].status = "over" THEN "over" ELSE "running"
  BY <1>1, <1>2, <1>3 DEF Document
<1>6. ~IsIn(j, runnings) /\ ~Placed(j) /\ ~Placed(j)'
  BY <1>1 DEF JobInv, Lists, Placed
<1>7. (Unplaced(j)' <=> Unplaced(j)) /\ (ToPlace(j)' <=> ToPlace(j))
  BY <1>1 DEF Unplaced, ToPlace
<1>8. (Going(j) <=> IsIn(j, started)) /\ ~Going(j)'
  BY <1>1, <1>6 DEF Going, IsIn
<1>9. Lists(j)'
  BY <1>1, <1>6, <1>7, <1>8 DEF JobInv, Lists
<1>10. /\ EndInHand(j)' <=> EndInHand(j)
       /\ Live(j)' <=> Live(j)
       /\ Settled(j)' <=> Settled(j)
  BY <1>1 DEF EndInHand, Live, Settled
<1>11. FirstRun(j)'
  <2>1. launched[j] = 0 => ~IsIn(j, started)
    BY <1>6, <1>8 DEF JobInv, Lists
  <2>2. QED
    BY <1>1, <1>5, <1>6, <1>7, <1>10, <2>1 DEF JobInv, FirstRun, Waits
<1>12. Trusted(j)' => Run(j)'
  BY <1>1, <1>4, <1>5, <1>6, <1>7, <1>8, <1>10 DEF JobInv, Trusted, Run
<1>13. OneEnd(j) => OneEnd(j)'
  <2>1. ToPlace(j) => ~IsIn(j, started)
    BY <1>8 DEF JobInv, Lists
  <2>2. Waits(j)' => Waits(j) /\ ~IsIn(j, started)
    BY <1>5 DEF Waits
  <2>3. ~IsIn(j, started) /\ Waits(j) => Waits(j)'
    BY <1>5 DEF Waits
  <2>4. QED
    BY <1>1, <1>6, <1>7, <1>8, <1>10, <2>1, <2>2, <2>3 DEF OneEnd
<1>14. QED
  BY <1>1, <1>9, <1>11, <1>12, <1>13 DEF JobInv

-----------------------------------------------------------------------------
(* The driver's thread.                                                    *)

LEMMA BeginOffersRuns ==
    ASSUME TypeOK, Phases, NEW j \in Job, JobInv(j), BeginOffers
    PROVE  JobInv(j)'
<1>1. /\ fw.pc = "idle" /\ pendings' = <<>> /\ fw.tasks = <<>>
      /\ UNCHANGED <<spc, batch, started, runnings, launched>>
      /\ UNCHANGED <<told, over, doc, tracked, snap, clash, ending, repeats>>
  BY DEF BeginOffers, Phases, main, jobsVars, bounds, history
<1>2. fw'.tasks = pendings /\ fw'.placed = {} /\ fw'.given = <<>> /\ fw'.pc = "offers"
  BY DEF BeginOffers, Idle
<1>3. ~Placed(j) /\ ~Placed(j)' /\ (Going(j)' <=> Going(j))
  BY <1>1, <1>2 DEF Placed, Phases, Going
<1>4. (IsIn(j, fw'.tasks) <=> IsIn(j, pendings)) /\ ~IsIn(j, pendings')
  BY <1>1, <1>2 DEF IsIn
<1>5. ToPlace(j)' => ToPlace(j)
  BY <1>1, <1>2, <1>4 DEF ToPlace, Unplaced, IsIn
<1>6. Lists(j)'
  BY <1>1, <1>2, <1>3, <1>4, <1>5 DEF JobInv, Lists, Once
<1>7. SamePlace(j)
  BY <1>1, <1>3, <1>5, <1>6 DEF SamePlace
<1>8. mesos'[j] = mesos[j] \/ (Live(j) /\ mesos'[j] \in Terminal)
  BY DEF BeginOffers, KillsOf, Terminal
<1>9. QED
  BY <1>1, <1>7, <1>8, EndsRuns

LEMMA NextOfferRuns ==
    ASSUME TypeOK, Phases, NEW j \in Job, JobInv(j), NEW c \in OfferCpus, NextOffer(c)
    PROVE  JobInv(j)'
<1>1. /\ UNCHANGED <<main, pendings, runnings, launched>>
      /\ UNCHANGED <<mesos, told, over, doc, tracked, snap, clash, ending, repeats>>
  BY DEF NextOffer, redis, jobsVars, cluster, bounds, history
<1>2. /\ fw.given = <<>> /\ fw'.given = <<>>
      /\ fw'.tasks = fw.tasks /\ fw'.placed = fw.placed
  BY DEF NextOffer, Phases, TypeOK, FrameworkTyped
<1>3. /\ Unplaced(j)' <=> Unplaced(j)
      /\ Placed(j)' <=> Placed(j)
      /\ Going(j)' <=> Going(j)
  BY <1>1, <1>2 DEF Unplaced, Placed, Going, main
<1>4. Lists(j)' /\ (ToPlace(j)' => ToPlace(j))
  BY <1>1, <1>2, <1>3 DEF JobInv, Lists, ToPlace, main
<1>5. SamePlace(j)
  BY <1>1, <1>3, <1>4 DEF SamePlace
<1>6. QED
  BY <1>1, <1>5, OtherJob

LEMMA EndOffersRuns ==
    ASSUME TypeOK, Phases, NEW j \in Job, JobInv(j), EndOffers
    PROVE  JobInv(j)'
<1>1. /\ UNCHANGED <<main, pendings, runnings, launched>>
      /\ UNCHANGED <<mesos, told, over, doc, tracked, snap, clash, ending, repeats>>
  BY DEF EndOffers, jobsVars, cluster, bounds, history
<1>2. fw.given = <<>> /\ fw'.given = <<>> /\ fw'.tasks = <<>>
  BY DEF EndOffers, Phases, Idle
<1>3. /\ ~Unplaced(j)'
      /\ Placed(j)' <=> Placed(j)
      /\ Going(j)' <=> Going(j)
      /\ ~IsIn(j, fw'.tasks) /\ Once(j, fw'.tasks)
  BY <1>1, <1>2 DEF Unplaced, Placed, Going, IsIn, Once, main
<1>4. Lists(j)' /\ (ToPlace(j)' => ToPlace(j))
  BY <1>1, <1>3 DEF JobInv, Lists, ToPlace, main
<1>5. SamePlace(j)
  BY <1>1, <1>3, <1>4 DEF SamePlace
<1>6. QED
  BY <1>1, <1>5, OtherJob

\* A job is placed: from now on it is going, and its key is there.
LEMMA Placing ==
    ASSUME TypeOK, NEW j \in Job, JobInv(j),
           fw.next \in DOMAIN fw.tasks, fw.next \notin fw.placed, fw.tasks[fw.next] = j,
           fw'.placed = fw.placed \cup {fw.next}, UNCHANGED <<main, pendings>>,
           fw'.tasks = fw.tasks, Placed(j)', IsIn(j, runnings'), over'[j] = "live",
           UNCHANGED <<mesos, told, doc, tracked, snap, clash, ending, repeats, launched>>
    PROVE  JobInv(j)'
<1>1. Unplaced(j) /\ IsIn(j, fw.tasks)
  BY DEF Unplaced, IsIn
<1>2. /\ Once(j, fw.tasks) /\ ~IsIn(j, batch) /\ ~IsIn(j, pendings)
      /\ ToPlace(j) /\ ~Going(j) /\ ~Placed(j) /\ spc = "push"
  BY <1>1 DEF JobInv, Lists, ToPlace
<1>3. ~ToPlace(j)'
  BY <1>2 DEF ToPlace, Unplaced, Once, main
<1>4. Going(j)'
  BY DEF Going
<1>5. Lists(j)'
  BY <1>2, <1>3 DEF JobInv, Lists, main
<1>6. (Waits(j)' <=> Waits(j)) /\ (EndInHand(j)' <=> EndInHand(j)) /\ (Live(j)' <=> Live(j))
      /\ "live" \notin Terminal
  BY DEF Waits, EndInHand, Live, Terminal
<1>7. Settled(j) => Settled(j)'
  BY <1>6 DEF Settled
<1>8. FirstRun(j)'
  BY <1>2, <1>3, <1>6, <1>7 DEF JobInv, FirstRun
<1>9. Trusted(j)' => Run(j)'
  BY <1>2, <1>6 DEF JobInv, Trusted, Run
<1>10. ASSUME OneEnd(j) PROVE OneEnd(j)'
  <2>1. Waits(j) /\ Settled(j)
    BY <1>2, <1>10 DEF OneEnd
  <2>2. ~EndInHand(j)
    BY <2>1 DEF Settled
  <2>3. QED
    BY <1>3, <1>4, <1>6, <1>7, <2>1, <2>2 DEF OneEnd, EndInHand
<1>11. QED
  BY <1>5, <1>8, <1>9, <1>10 DEF JobInv

LEMMA PlaceTaskRuns ==
    ASSUME TypeOK, Phases, PlaceTask
    PROVE  /\ \A j \in Job : JobInv(j) => JobInv(j)'
           /\ Phases'
<1> DEFINE i == fw.tasks[fw.next]
<1>1. /\ UNCHANGED <<main, pendings, launched>>
      /\ UNCHANGED <<mesos, told, doc, tracked, snap, clash, ending, repeats>>
      /\ fw.pc = "place"
  BY DEF PlaceTask, jobsVars, cluster, bounds, history
<1>2. fw.next \in DOMAIN fw.tasks /\ i \in Job
  BY FwType, TasksType DEF PlaceTask, TypeOK
<1>3. /\ runnings \in Seq(Job) /\ over \in [Job -> State]
      /\ fw.given \in Seq([job : Job, port : Nat, slots : SUBSET Nat])
  BY FwType DEF TypeOK, RedisTyped
<1>4. CASE /\ fw.next \notin fw.placed
           /\ fw' = [fw EXCEPT !.placed = @ \cup {fw.next}, !.next = @ + 1,
                               !.cpus = @ - Cpu[i], !.slot = NextSlot(Slots[i]),
                               !.takes = NextTakes(Slots[i]),
                               !.port = IF i \in Interactive THEN @ + 1 ELSE @,
                               !.given = Append(@, Given(i))]
           /\ runnings' = Append(runnings, i)
           /\ over' = [over EXCEPT ![i] = "live"]
  <2>1. /\ fw'.placed = fw.placed \cup {fw.next} /\ fw'.tasks = fw.tasks
        /\ fw'.given = Append(fw.given, Given(i)) /\ fw'.pc = fw.pc
    BY <1>4 DEF TypeOK, FrameworkTyped
  <2>2. \A j \in Job : Placed(j)' <=> Placed(j) \/ j = i
    <3>1. /\ DOMAIN fw.given = 1 .. Len(fw.given) /\ Len(fw.given) \in Nat
          /\ DOMAIN fw'.given = 1 .. Len(fw.given) + 1
          /\ fw'.given[Len(fw.given) + 1] = Given(i)
          /\ \A n \in 1 .. Len(fw.given) : fw'.given[n] = fw.given[n]
      BY <1>3, <2>1
    <3>2. /\ \A n \in 1 .. Len(fw.given) + 1 : n \in 1 .. Len(fw.given) \/ n = Len(fw.given) + 1
          /\ Len(fw.given) + 1 \in 1 .. Len(fw.given) + 1
          /\ \A n \in 1 .. Len(fw.given) : n \in 1 .. Len(fw.given) + 1
      BY <3>1
    <3>3. Given(i).job = i
      BY DEF Given
    <3>4. QED
      BY <3>1, <3>2, <3>3 DEF Placed
  <2>3. \A j \in Job : IsIn(j, runnings') <=> IsIn(j, runnings) \/ j = i
    BY <1>2, <1>3, <1>4, DistinctAppend
  <2>4. ASSUME NEW j \in Job, JobInv(j) PROVE JobInv(j)'
    <3>1. CASE j = i
      BY <1>1, <1>2, <1>3, <1>4, <2>1, <2>2, <2>3, <2>4, <3>1, Placing
    <3>2. CASE j # i
      <4>1. /\ Unplaced(j)' <=> Unplaced(j)
            /\ Placed(j)' <=> Placed(j)
            /\ Going(j)' <=> Going(j)
        BY <1>1, <2>1, <2>2, <2>3, <3>2 DEF Unplaced, Going, main
      <4>2. Lists(j)' /\ (ToPlace(j)' => ToPlace(j))
        BY <1>1, <2>1, <2>3, <2>4, <3>2, <4>1 DEF JobInv, Lists, ToPlace, main
      <4>3. over'[j] = over[j]
        BY <1>3, <1>4, <3>2
      <4>4. SamePlace(j)
        BY <1>1, <4>1, <4>2 DEF SamePlace
      <4>5. QED
        BY <1>1, <2>4, <4>3, <4>4, OtherJob
    <3>3. QED
      BY <3>1, <3>2
  <2>5. \A j \in Job : Placed(j)' => IsIn(j, fw'.tasks) /\ over'[j] = "live"
    BY <1>2, <1>3, <1>4, <2>1, <2>2 DEF Phases, IsIn
  <2>6. Phases'
    BY <1>1, <2>1, <2>5 DEF Phases, main
  <2>7. QED
    BY <2>4, <2>6
<1>5. CASE /\ \/ fw' = [fw EXCEPT !.next = @ + 1]
              \/ fw' = [fw EXCEPT !.next = @ + 1, !.slot = NextSlot(Slots[i]),
                                  !.takes = NextTakes(Slots[i])]
           /\ UNCHANGED <<runnings, over>>
  <2>1. fw'.placed = fw.placed /\ fw'.tasks = fw.tasks /\ fw'.given = fw.given /\ fw'.pc = fw.pc
    BY <1>5 DEF TypeOK, FrameworkTyped
  <2>2. ASSUME NEW j \in Job
        PROVE  /\ Unplaced(j)' <=> Unplaced(j)
               /\ Placed(j)' <=> Placed(j)
               /\ Going(j)' <=> Going(j)
    BY <1>1, <1>5, <2>1 DEF Unplaced, Placed, Going, main
  <2>3. ASSUME NEW j \in Job, JobInv(j) PROVE JobInv(j)'
    <3>1. Lists(j)' /\ (ToPlace(j)' => ToPlace(j))
      BY <1>1, <1>5, <2>1, <2>2, <2>3 DEF JobInv, Lists, ToPlace, main
    <3>2. SamePlace(j)
      BY <1>1, <2>2, <3>1 DEF SamePlace
    <3>3. QED
      BY <1>1, <1>5, <2>3, <3>2, OtherJob
  <2>4. Phases'
    BY <1>1, <1>5, <2>1, <2>2 DEF Phases, main
  <2>5. QED
    BY <2>3, <2>4
<1>6. QED
  BY <1>4, <1>5 DEF PlaceTask

LEMMA LaunchOfferRuns ==
    ASSUME TypeOK, Phases, NEW j \in Job, JobInv(j), LaunchOffer
    PROVE  JobInv(j)'
<1> DEFINE ids == {fw.given[i].job : i \in DOMAIN fw.given}
<1>1. /\ UNCHANGED <<main, pendings, runnings, over, doc, tracked, snap, ending, repeats>>
      /\ clash' = clash \cup {k \in ids : Live(k)}
      /\ launched'[j] = IF j \in ids THEN launched[j] + 1 ELSE launched[j]
      /\ mesos'[j] = IF j \in ids /\ ~Live(j) THEN "live" ELSE mesos[j]
      /\ told'[j] = IF j \in ids /\ ~Live(j) THEN "live" ELSE told[j]
  BY DEF LaunchOffer, redis, jobsVars, bounds
<1>2. fw'.tasks = fw.tasks /\ fw'.placed = fw.placed /\ fw'.given = <<>>
  BY DEF LaunchOffer, TypeOK, FrameworkTyped
<1>3. j \in ids <=> Placed(j)
  BY DEF Placed
<1>4. /\ Unplaced(j)' <=> Unplaced(j)
      /\ ~Placed(j)'
      /\ Going(j)' <=> Going(j)
  BY <1>1, <1>2 DEF Unplaced, Placed, Going, main
<1>5. launched[j] \in Nat
  BY DEF TypeOK, HistoryTyped
<1>6. Lists(j)' /\ (ToPlace(j)' <=> ToPlace(j))
  <2>1. ToPlace(j)' <=> ToPlace(j)
    BY <1>1, <1>4 DEF ToPlace, main
  <2>2. Going(j)' => launched'[j] > 0
    BY <1>1, <1>3, <1>4, <1>5 DEF JobInv, Lists
  <2>3. QED
    BY <1>1, <1>2, <1>4, <2>1, <2>2 DEF JobInv, Lists, main
<1>7. CASE ~Placed(j)
  <2>1. SamePlace(j)
    BY <1>1, <1>3, <1>4, <1>6, <1>7 DEF SamePlace
  <2>2. QED
    BY <1>1, <1>3, <1>7, <2>1, OtherJob
<1>8. CASE Placed(j)
  <2>1. launched'[j] = launched[j] + 1 /\ launched'[j] # 0
    BY <1>1, <1>3, <1>5, <1>8
  <2>2. IsIn(j, runnings) /\ ~ToPlace(j) /\ over[j] = "live" /\ "live" \notin Terminal
    BY <1>8 DEF JobInv, Lists, Phases, Terminal
  <2>3. Going(j)' /\ (Waits(j)' <=> Waits(j)) /\ (EndInHand(j)' <=> EndInHand(j))
    BY <1>1, <2>2 DEF Going, Waits, EndInHand
  <2>4. launched[j] = 0 \/ repeats = 0 => Settled(j) /\ Waits(j)
    BY <1>8 DEF JobInv, FirstRun, OneEnd
  <2>5. FirstRun(j)'
    BY <2>1 DEF FirstRun
  <2>6. ASSUME Trusted(j)' PROVE Run(j)'
    <3>1. launched[j] = 0 \/ repeats = 0
      BY <1>1, <1>5, <2>1, <2>6 DEF Trusted
    <3>2. Trusted(j)
      BY <3>1 DEF Trusted
    <3>3. ~Live(j) /\ ~EndInHand(j) /\ Waits(j) /\ j \notin clash
      BY <2>4, <3>1, <3>2 DEF JobInv, Run, Settled
    <3>4. mesos'[j] = "live" /\ told'[j] = "live" /\ j \notin clash'
      BY <1>1, <1>3, <1>8, <3>3
    <3>5. doc[j].status # "over"
      BY <3>3 DEF Waits
    <3>6. QED
      BY <1>1, <1>4, <1>6, <2>2, <2>3, <3>3, <3>4, <3>5 DEF Run
  <2>7. ASSUME repeats = 0 PROVE OneEnd(j)'
    <3>1. OneEnd(j) /\ Settled(j) /\ Waits(j)
      BY <2>4, <2>7 DEF JobInv
    <3>2. ~EndInHand(j) /\ over[j] \notin Terminal
      BY <3>1 DEF Settled
    <3>3. QED
      BY <1>1, <1>4, <1>6, <2>2, <2>3, <3>1, <3>2 DEF OneEnd, EndInHand
  <2>8. QED
    BY <1>1, <1>6, <2>5, <2>6, <2>7 DEF JobInv
<1>9. QED
  BY <1>7, <1>8

-----------------------------------------------------------------------------
(* The process dies.                                                       *)

LEMMA CrashRuns ==
    ASSUME TypeOK, Phases, NEW j \in Job \ left', JobInv(j), Crash
    PROVE  JobInv(j)'
<1>1. /\ spc' = "idle" /\ batch' = <<>> /\ started' = <<>>
      /\ fw'.given = <<>> /\ fw'.tasks = <<>>
      /\ UNCHANGED <<pendings, runnings, over, doc, tracked, snap, ending, launched, clash>>
  BY DEF Crash, Idle, redis, jobsVars
<1>2. ~IsIn(j, pendings) /\ ~IsIn(j, fw.tasks) /\ ~IsIn(j, runnings) /\ ~IsIn(j, started)
  <2>1. /\ j \notin Untreated /\ j \notin ToSet(runnings) /\ j \notin ToSet(started)
        /\ pendings \in Seq(Job) /\ fw.tasks \in Seq(Job)
        /\ runnings \in Seq(Job) /\ started \in Seq(Job)
    BY FwType DEF Crash, TypeOK, RedisTyped, MainTyped
  <2>2. QED
    BY <2>1, ToSetType DEF Untreated
<1>3. /\ ~IsIn(j, batch') /\ Once(j, batch') /\ ~IsIn(j, started')
      /\ ~IsIn(j, fw'.tasks) /\ Once(j, fw'.tasks)
  BY <1>1 DEF IsIn, Once
<1>4. ~Unplaced(j)' /\ ~Placed(j)' /\ ~Going(j) /\ ~Going(j)'
  BY <1>1, <1>2, <1>3 DEF Unplaced, Placed, Going
<1>5. ~ToPlace(j)'
  BY <1>1, <1>2, <1>3, <1>4 DEF ToPlace
<1>6. Lists(j)'
  BY <1>1, <1>2, <1>3, <1>4, <1>5 DEF JobInv, Lists
<1>7. SamePlace(j)
  BY <1>1, <1>4, <1>5, <1>6 DEF SamePlace
<1>8. CASE mesos'[j] = mesos[j] /\ told'[j] = told[j] /\ (repeats' = 0 => repeats = 0)
  BY <1>1, <1>7, <1>8, OtherJob
<1>9. CASE ~(mesos'[j] = mesos[j] /\ told'[j] = told[j] /\ (repeats' = 0 => repeats = 0))
  <2>1. Reconcile
    BY <1>9 DEF Crash, cluster
  <2>2. repeats \in Nat /\ repeats' = repeats + 1
    BY <2>1 DEF Crash, TypeOK, HistoryTyped
  <2>3. /\ doc[j].status = "running"
        /\ mesos'[j] = IF mesos[j] = "none" THEN "crashed" ELSE mesos[j]
        /\ told'[j] = "none"
    BY <1>9, <2>1, <2>2 DEF Crash
  <2>4. launched[j] # 0
    BY <2>3 DEF JobInv, FirstRun, Waits
  <2>5. FirstRun(j)' /\ repeats' # 0
    BY <1>1, <2>2, <2>4 DEF FirstRun
  <2>6. Trusted(j)' => Run(j)'
    <3>1. (Live(j)' => Live(j)) /\ (EndInHand(j)' <=> EndInHand(j)) /\ "none" \notin Terminal
      BY <1>1, <2>3 DEF Live, EndInHand, Terminal
    <3>2. QED
      BY <1>1, <1>4, <1>5, <2>3, <2>5, <3>1 DEF JobInv, Trusted, Run
  <2>7. QED
    BY <1>6, <2>5, <2>6 DEF JobInv
<1>10. QED
  BY <1>8, <1>9

-----------------------------------------------------------------------------
(* The whole.                                                              *)

\* A key that holds the end of a run is not the one of a placed task.
LEMMA KeysOfPlaced ==
    ASSUME TypeOK, Phases, Next, UNCHANGED positions, NEW j \in Job, Placed(j)
    PROVE  over'[j] = "live"
<1>1. over[j] = "live" /\ "live" \notin Terminal /\ fw.pc # "idle"
      /\ over \in [Job -> State] /\ fw.pc = "place"
  BY DEF Phases, Placed, Terminal, TypeOK, RedisTyped
<1>2. CASE UNCHANGED over
  BY <1>1, <1>2
<1>3. ASSUME NEW i \in Job, Watch(i) PROVE over'[j] = "live"
  BY <1>1, <1>3 DEF Watch
<1>4. ASSUME NEW k \in killq, KillTask(k) PROVE over'[j] = "live"
  BY <1>1, <1>4 DEF KillTask
<1>5. ASSUME PlaceTask PROVE FALSE
  <2>1. fw.next \in Nat /\ fw' = fw
    BY FwType DEF positions, TypeOK
  <2>2. fw'.next = fw.next + 1
    BY <1>5 DEF PlaceTask, TypeOK, FrameworkTyped
  <2>3. QED
    BY <2>1, <2>2
<1>6. UNCHANGED over \/ PlaceTask \/ (\E i \in Job : Watch(i)) \/ (\E k \in killq : KillTask(k))
  BY <1>1 DEF Next, Submit, RequestKill, MainThread, BeginPass, PushTask, Collect, Publish,
     Framework, BeginOffers, NextOffer, LaunchOffer, EndOffers, Watchers, Finish, KillPending,
     StatusUpdate, RepeatUpdate, ClashUpdate, TaskEnds, Crash, redis
<1>7. QED
  BY <1>2, <1>3, <1>4, <1>5, <1>6

LEMMA PhasesKept ==
    ASSUME TypeOK, Phases, Next
    PROVE  Phases'
<1>1. CASE UNCHANGED positions
  <2>1. \A j \in Job : Placed(j)' <=> Placed(j)
    BY <1>1 DEF positions, Placed
  <2>2. \A j \in Job : Placed(j) => over'[j] = "live"
    BY <1>1, KeysOfPlaced
  <2>3. QED
    BY <1>1, <2>1, <2>2 DEF Phases, positions, main
<1>2. CASE MainThread
  <2>1. UNCHANGED <<fw, over>>
    BY <1>2 DEF MainThread, BeginPass, PushTask, Collect, Publish, redis
  <2>2. \A j \in Job : Placed(j)' <=> Placed(j)
    BY <2>1 DEF Placed
  <2>3. (spc' # "push" => batch' = <<>>) /\ (spc' # "publish" => started' = <<>>)
    BY <1>2 DEF MainThread, BeginPass, PushTask, Collect, Publish, Phases
  <2>4. QED
    BY <2>1, <2>2, <2>3 DEF Phases
<1>3. CASE PlaceTask
  BY <1>3, PlaceTaskRuns
<1>4. CASE BeginOffers \/ LaunchOffer \/ EndOffers \/ (\E c \in OfferCpus : NextOffer(c))
  <2>1. UNCHANGED main /\ fw'.given = <<>> /\ (fw'.pc = "idle" => fw'.tasks = <<>>)
    <3>1. CASE BeginOffers
      <4>1. fw'.pc = "offers" /\ fw'.given = <<>> /\ UNCHANGED main
        BY <3>1 DEF BeginOffers, Idle
      <4>2. QED
        BY <4>1
    <3>2. CASE LaunchOffer
      BY <3>2 DEF LaunchOffer, TypeOK, FrameworkTyped
    <3>3. ASSUME NEW c \in OfferCpus, NextOffer(c)
          PROVE  UNCHANGED main /\ fw'.given = <<>> /\ fw'.pc # "idle"
      BY <3>3 DEF NextOffer, TypeOK, FrameworkTyped
    <3>4. CASE EndOffers
      BY <3>4 DEF EndOffers, Idle
    <3>5. QED
      BY <1>4, <3>1, <3>2, <3>3, <3>4
  <2>2. \A j \in Job : ~Placed(j)'
    BY <2>1 DEF Placed
  <2>3. QED
    BY <2>1, <2>2 DEF Phases, main
<1>5. CASE Crash
  <2>1. /\ spc' = "idle" /\ batch' = <<>> /\ started' = <<>>
        /\ fw'.given = <<>> /\ fw'.tasks = <<>>
    BY <1>5 DEF Crash, Idle
  <2>2. QED
    BY <2>1 DEF Phases, Placed
<1>6. CASE \/ \E j \in Job : Submit(j) \/ RequestKill(j) \/ StatusUpdate(j) \/ RepeatUpdate(j)
                            \/ ClashUpdate(j) \/ TaskEnds(j)
           \/ Watchers
  <2>1. UNCHANGED positions
    BY <1>6 DEF Submit, RequestKill, Watchers, Watch, KillTask, KillPending, Finish, StatusUpdate,
       RepeatUpdate, ClashUpdate, TaskEnds, positions, redis, history
  <2>2. QED
    BY <1>1, <2>1
<1>7. QED
  BY <1>2, <1>3, <1>4, <1>5, <1>6 DEF Next, Framework

LEMMA JobKept ==
    ASSUME TypeOK, Phases, Next, NEW j \in Job \ left', JobInv(j)
    PROVE  JobInv(j)'
<1>1. ASSUME NEW i \in Job,
             \/ Submit(i) \/ RequestKill(i) \/ TaskEnds(i)
             \/ StatusUpdate(i) \/ RepeatUpdate(i) \/ ClashUpdate(i)
      PROVE  JobInv(j)'
  BY <1>1, UsersRuns, UpdateRuns, TaskEndsRuns
<1>2. CASE MainThread
  BY <1>2, BeginPassRuns, PushTaskRuns, CollectRuns, PublishRuns DEF MainThread
<1>3. CASE Framework
  BY <1>3, BeginOffersRuns, NextOfferRuns, PlaceTaskRuns, LaunchOfferRuns, EndOffersRuns
     DEF Framework
<1>4. CASE Watchers
  BY <1>4, WatchRuns, KillTaskRuns, KillPendingRuns, FinishRuns DEF Watchers
<1>5. CASE Crash
  BY <1>5, CrashRuns
<1>6. QED
  BY <1>1, <1>2, <1>3, <1>4, <1>5 DEF Next

\* The inductive invariant: whatever the order of the callbacks, of the steps of
\* run_tasks and of the watchers, a job that was not left behind is in one list at a
\* time and its end is one signal.
THEOREM RunsCorrect == Spec => []Runs
<1>1. Init => Runs
  <2> SUFFICES ASSUME Init PROVE Runs
    OBVIOUS
  <2>1. Phases
    BY DEF Init, Idle, Phases, Placed
  <2>2. ASSUME NEW j \in Job PROVE JobInv(j)
    <3>1. /\ doc[j].status = "new" /\ mesos[j] = "none" /\ told[j] = "none" /\ over[j] = "none"
          /\ launched[j] = 0 /\ clash = {} /\ ending = {}
          /\ batch = <<>> /\ pendings = <<>> /\ runnings = <<>> /\ started = <<>>
          /\ fw.tasks = <<>> /\ fw.given = <<>>
      BY DEF Init, Idle
    <3>2. ~ToPlace(j) /\ ~Going(j) /\ ~Placed(j)
      BY <3>1 DEF ToPlace, Going, Placed, Unplaced, IsIn
    <3>3. Lists(j)
      BY <3>1, <3>2 DEF Lists, IsIn, Once
    <3>4. ~Live(j) /\ ~EndInHand(j) /\ Waits(j) /\ "none" \notin Terminal
      BY <3>1 DEF Live, EndInHand, Waits, Terminal
    <3>5. Settled(j)
      BY <3>1, <3>4 DEF Settled
    <3>6. QED
      BY <3>1, <3>2, <3>3, <3>4, <3>5 DEF JobInv, FirstRun, Run, OneEnd, EndInHand
  <2>3. QED
    BY <2>1, <2>2 DEF Runs
<1>2. ASSUME TypeOK, Runs, [Next]_vars PROVE Runs'
  <2>1. CASE Next
    <3>1. left \subseteq left'
      BY <2>1 DEF Next, Submit, RequestKill, MainThread, BeginPass, PushTask, Collect, Publish,
         Framework, BeginOffers, NextOffer, PlaceTask, LaunchOffer, EndOffers, Watchers, Watch,
         KillTask, KillPending, Finish, StatusUpdate, RepeatUpdate, ClashUpdate, TaskEnds, Crash,
         history
    <3>2. Phases'
      BY <1>2, <2>1, PhasesKept DEF Runs
    <3>3. \A j \in Job \ left' : JobInv(j)'
      BY <1>2, <2>1, <3>1, JobKept DEF Runs
    <3>4. QED
      BY <3>2, <3>3 DEF Runs
  <2>2. CASE UNCHANGED vars
    <3>1. UNCHANGED positions /\ UNCHANGED <<mesos, told, over, doc, tracked, snap, clash,
                                            ending, repeats, left>>
      BY <2>2 DEF vars, positions, redis, jobsVars, cluster, bounds, history
    <3>2. Phases'
      BY <1>2, <3>1 DEF Runs, Phases, Placed, positions, main
    <3>3. \A j \in Job \ left : JobInv(j)'
      BY <1>2, <3>1, SamePositions, OtherJob DEF Runs, JobInv
    <3>4. QED
      BY <3>1, <3>2, <3>3 DEF Runs
  <2>3. QED
    BY <1>2, <2>1, <2>2
<1>3. QED
  BY <1>1, <1>2, TypeCorrect, PTL DEF Spec

\* resourceOffers launches no job while a task of the same id is live: launchTasks is
\* not refused, and no error that answers a launch ends the run of another.
THEOREM LaunchedOnceCorrect == Spec => []LaunchedOnce
<1>1. Runs => LaunchedOnce
  BY DEF Runs, JobInv, Trusted, Run, LaunchedOnce, Undisturbed
<1>2. QED
  BY <1>1, RunsCorrect, PTL

\* A live task is on its way to the list of the watchers or in it, with the document
\* and the key that watch_tasks and kill_task need.
THEOREM LiveIsFollowedCorrect == Spec => []LiveIsFollowed
<1>1. TypeOK /\ Runs => LiveIsFollowed
  <2> SUFFICES ASSUME TypeOK, Runs, NEW j \in Job, Live(j), Undisturbed(j)
               PROVE  /\ doc[j].status # "over"
                      /\ over[j] # "none"
                      /\ \/ j \in ToSet(runnings) \cup ToSet(started)
                         \/ tracked[j] > 0 /\ j \in snap
    BY DEF LiveIsFollowed
  <2>1. Run(j)
    BY DEF Runs, JobInv, Trusted, Undisturbed
  <2>2. IsIn(j, runnings) => j \in ToSet(runnings)
    BY ToSetType DEF TypeOK, RedisTyped
  <2>3. IsIn(j, started) => j \in ToSet(started)
    BY ToSetType DEF TypeOK, MainTyped
  <2>4. QED
    BY <2>1, <2>2, <2>3 DEF Run, Going
<1>2. QED
  BY <1>1, TypeCorrect, RunsCorrect, PTL

-----------------------------------------------------------------------------
(***************************************************************************)
(* The cause of the first restart.  In the first run of a job, what blames *)
(* the system for its end, the last state told, the key of the reason or   *)
(* the handler of a failure, is about that run.                            *)
(***************************************************************************)

Failure == "watch failed"
Blamed(j) == j \in reason \/ told[j] = "crashed" \/ <<j, Failure>> \in ending

FirstCause(j) ==
    doc[j].fails = 0 /\ launched[j] <= 1 /\ Blamed(j) => mesos[j] = "crashed"

FirstCauses == \A j \in Job \ left : FirstCause(j)

\* The failure count of a document after an update.
LEMMA Fields ==
    ASSUME NEW S, NEW N, NEW U, NEW d \in [status : S, fails : N, secondary : U]
    PROVE  /\ d.fails \in N
           /\ \A x : /\ [d EXCEPT !.status = x].fails = d.fails
                     /\ [d EXCEPT !.secondary = x].fails = d.fails
           /\ \A x, y : [d EXCEPT !.status = x, !.secondary = y].fails = d.fails
           /\ \A x, y, n : [d EXCEPT !.status = x, !.secondary = y, !.fails = n].fails = n
OBVIOUS

LEMMA DocumentFields ==
    ASSUME NEW d \in Document
    PROVE  /\ d.fails \in Nat
           /\ \A x : /\ [d EXCEPT !.status = x].fails = d.fails
                     /\ [d EXCEPT !.secondary = x].fails = d.fails
           /\ \A x, y : [d EXCEPT !.status = x, !.secondary = y].fails = d.fails
           /\ \A x, y, n : [d EXCEPT !.status = x, !.secondary = y, !.fails = n].fails = n
BY Fields DEF Document

\* What the end of a job does to its document.
Restarted(e) ==
    /\ e[2] = Failure \/ (e[2] = "watch" /\ doc[e[1]].fails > 0)
    /\ doc[e[1]].fails < FailurePolicy

LEMMA FinishDocument ==
    ASSUME TypeOK, NEW j \in Job, NEW e \in ending, Finish(e)
    PROVE  \/ doc'[j].fails = doc[j].fails
           \/ e[1] = j /\ Restarted(e) /\ doc'[j].fails = doc[j].fails + 1
<1>1. \/ doc' = doc
      \/ doc' = [doc EXCEPT ![e[1]].status = "over"]
      \/ \E n : /\ n = doc[e[1]].fails \/ (n = doc[e[1]].fails + 1 /\ Restarted(e))
                /\ doc' = [doc EXCEPT ![e[1]].status = "pending",
                                      ![e[1]].secondary = "rescheduled", ![e[1]].fails = n]
  BY DEF Finish, Restarted, Failure
<1>2. doc \in [Job -> Document] /\ doc[j] \in Document
  BY DEF TypeOK, JobsTyped
<1>3. CASE doc'[j] = doc[j]
  BY <1>3
<1>4. CASE e[1] = j /\ doc'[j] = [doc[j] EXCEPT !.status = "over"]
  BY <1>2, <1>4, DocumentFields
<1>5. ASSUME e[1] = j, NEW n, n = doc[j].fails \/ (n = doc[j].fails + 1 /\ Restarted(e)),
             doc'[j] = [doc[j] EXCEPT !.status = "pending", !.secondary = "rescheduled",
                                      !.fails = n]
      PROVE  \/ doc'[j].fails = doc[j].fails
             \/ Restarted(e) /\ doc'[j].fails = doc[j].fails + 1
  <2>1. [doc[j] EXCEPT !.status = "pending", !.secondary = "rescheduled", !.fails = n].fails = n
    BY <1>2, DocumentFields
  <2>2. doc'[j].fails = n
    BY <1>5, <2>1
  <2>3. QED
    BY <1>5, <2>2
<1>6. CASE \/ doc' = doc
           \/ doc' = [doc EXCEPT ![e[1]].status = "over"]
  BY <1>2, <1>3, <1>4, <1>6
<1>7. ASSUME NEW n, n = doc[e[1]].fails \/ (n = doc[e[1]].fails + 1 /\ Restarted(e)),
             doc' = [doc EXCEPT ![e[1]].status = "pending",
                                ![e[1]].secondary = "rescheduled", ![e[1]].fails = n]
      PROVE  \/ doc'[j].fails = doc[j].fails
             \/ e[1] = j /\ Restarted(e) /\ doc'[j].fails = doc[j].fails + 1
  <2>1. e[1] # j => doc'[j] = doc[j]
    BY <1>2, <1>7
  <2>2. e[1] = j => doc'[j] = [doc[j] EXCEPT !.status = "pending", !.secondary = "rescheduled",
                                             !.fails = n]
    BY <1>2, <1>7
  <2>3. QED
    BY <1>3, <1>5, <1>7, <2>1, <2>2
<1>8. QED
  BY <1>1, <1>6, <1>7

\* The other steps leave the failure count alone.
LEMMA KillPendingFails ==
    ASSUME TypeOK, NEW j \in Job, NEW i \in Job, KillPending(i)
    PROVE  doc'[j].fails = doc[j].fails
<1>1. doc \in [Job -> Document] /\ doc[j] \in Document
  BY DEF TypeOK, JobsTyped
<1>2. \/ doc' = doc
      \/ doc' = [doc EXCEPT ![i].status = "pending", ![i].secondary = "rescheduled"]
      \/ doc' = [doc EXCEPT ![i].status = "over"]
  BY DEF KillPending
<1>3. \/ doc'[j] = doc[j]
      \/ doc'[j] = [doc[j] EXCEPT !.status = "pending", !.secondary = "rescheduled"]
      \/ doc'[j] = [doc[j] EXCEPT !.status = "over"]
  BY <1>1, <1>2
<1>4. /\ [doc[j] EXCEPT !.status = "pending", !.secondary = "rescheduled"].fails = doc[j].fails
      /\ [doc[j] EXCEPT !.status = "over"].fails = doc[j].fails
  BY <1>1, DocumentFields
<1>5. QED
  BY <1>3, <1>4

LEMMA PublishFails ==
    ASSUME TypeOK, NEW j \in Job, Publish
    PROVE  doc'[j].fails = doc[j].fails
<1>1. doc[j] \in Document
  BY DEF TypeOK, JobsTyped
<1>2. \/ doc'[j] = doc[j]
      \/ doc'[j] = [doc[j] EXCEPT !.status = "running", !.secondary = "none"]
  BY DEF Publish
<1>3. [doc[j] EXCEPT !.status = "running", !.secondary = "none"].fails = doc[j].fails
  BY <1>1, DocumentFields
<1>4. QED
  BY <1>2, <1>3

\* Steps that do not launch the job: a new blame is justified.
LEMMA CauseFrame ==
    ASSUME NEW j, FirstCause(j), launched'[j] = launched[j],
           doc'[j].fails = 0 => doc[j].fails = 0,
           mesos[j] = "crashed" => mesos'[j] = "crashed",
           launched[j] <= 1 /\ Blamed(j)' => Blamed(j) \/ mesos'[j] = "crashed"
    PROVE  FirstCause(j)'
BY DEF FirstCause

LEMMA UsersCause ==
    ASSUME TypeOK, NEW j \in Job, FirstCause(j), NEW i \in Job, Submit(i) \/ RequestKill(i)
    PROVE  FirstCause(j)'
<1>1. UNCHANGED <<mesos, told, reason, ending, launched>>
  BY DEF Submit, RequestKill, redis, cluster, history
<1>2. doc \in [Job -> Document] /\ doc[j] \in Document
  BY DEF TypeOK, JobsTyped
<1>3. doc'[j].fails = doc[j].fails
  <2>1. \/ doc' = [doc EXCEPT ![i].status = "pending"]
        \/ \E t : doc' = [doc EXCEPT ![i].secondary = t]
    BY DEF Submit, RequestKill
  <2>2. \/ doc'[j] = doc[j]
        \/ doc'[j] = [doc[j] EXCEPT !.status = "pending"]
        \/ \E t : doc'[j] = [doc[j] EXCEPT !.secondary = t]
    BY <1>2, <2>1
  <2>3. [doc[j] EXCEPT !.status = "pending"].fails = doc[j].fails
    BY <1>2, DocumentFields
  <2>4. ASSUME NEW t, doc'[j] = [doc[j] EXCEPT !.secondary = t]
        PROVE  doc'[j].fails = doc[j].fails
    <3>1. [doc[j] EXCEPT !.secondary = t].fails = doc[j].fails
      BY <1>2, DocumentFields
    <3>2. QED
      BY <2>4, <3>1
  <2>5. QED
    BY <2>2, <2>3, <2>4
<1>4. Blamed(j)' <=> Blamed(j)
  BY <1>1 DEF Blamed
<1>5. QED
  BY <1>1, <1>3, <1>4, CauseFrame

LEMMA ClusterCause ==
    ASSUME TypeOK, NEW j \in Job, JobInv(j), FirstCause(j), NEW i \in Job,
           TaskEnds(i) \/ StatusUpdate(i) \/ RepeatUpdate(i) \/ ClashUpdate(i)
    PROVE  FirstCause(j)'
<1>1. UNCHANGED <<doc, ending, launched>>
  BY DEF TaskEnds, StatusUpdate, RepeatUpdate, ClashUpdate, jobsVars, history
<1>2. told \in [Job -> State] /\ mesos \in [Job -> State]
  BY DEF TypeOK, ClusterTyped
<1>3. mesos[j] = "crashed" => mesos'[j] = "crashed"
  BY <1>2 DEF TaskEnds, StatusUpdate, RepeatUpdate, ClashUpdate, cluster, Live
<1>4. ASSUME launched[j] <= 1, Blamed(j)', ~Blamed(j) PROVE mesos'[j] = "crashed"
  <2>1. CASE TaskEnds(i)
    BY <1>1, <1>4, <2>1 DEF TaskEnds, redis, Blamed
  <2>2. CASE StatusUpdate(i)
    BY <1>1, <1>2, <1>4, <2>2 DEF StatusUpdate, Report, Blamed
  <2>3. CASE RepeatUpdate(i)
    <3>1. told' = told /\ (j \in reason' => j \in reason \/ (i = j /\ told[i] = "crashed"))
      BY <2>3 DEF RepeatUpdate, Report, cluster
    <3>2. QED
      BY <1>1, <1>4, <3>1 DEF Blamed
  <2>4. CASE ClashUpdate(i)
    <3>1. told' = told /\ (j \in reason' => j \in reason \/ i = j) /\ i \in clash
      BY <2>4 DEF ClashUpdate, Report, cluster
    <3>2. j \notin clash
      BY <1>4 DEF JobInv, Trusted, Run
    <3>3. QED
      BY <1>1, <1>4, <3>1, <3>2 DEF Blamed
  <2>5. QED
    BY <2>1, <2>2, <2>3, <2>4
<1>5. QED
  BY <1>1, <1>3, <1>4, CauseFrame

LEMMA WatchersCause ==
    ASSUME TypeOK, NEW j \in Job, FirstCause(j), Watchers
    PROVE  FirstCause(j)'
<1>1. UNCHANGED <<mesos, told, launched>>
  BY DEF Watchers, Watch, KillTask, KillPending, Finish, cluster, history
<1>2. doc \in [Job -> Document] /\ doc[j] \in Document /\ doc[j].fails \in Nat
  BY DocumentFields DEF TypeOK, JobsTyped
<1>3. ASSUME NEW i \in Job, Watch(i) PROVE FirstCause(j)'
  <2>1. doc' = doc /\ reason' \subseteq reason
    BY <1>3 DEF Watch
  <2>2. <<j, Failure>> \in ending' => <<j, Failure>> \in ending \/ j \in reason
    <3>1. \/ ending' = ending
          \/ ending' = ending \cup {<<i, "watch">>}
          \/ i \in reason /\ ending' = ending \cup {<<i, Failure>>}
      BY <1>3 DEF Watch, Failure
    <3>2. Failure # "watch"
      BY DEF Failure
    <3>3. QED
      BY <3>1, <3>2
  <2>3. Blamed(j)' => Blamed(j)
    BY <1>1, <2>1, <2>2 DEF Blamed
  <2>4. QED
    BY <1>1, <2>1, <2>3, CauseFrame
<1>4. ASSUME NEW k \in killq, KillTask(k) PROVE FirstCause(j)'
  <2>1. reason' = reason /\ ending' \subseteq ending \cup {<<k[1], "kill">>}
    BY <1>4 DEF KillTask
  <2>2. Blamed(j)' => Blamed(j)
    <3>1. Failure # "kill"
      BY DEF Failure
    <3>2. QED
      BY <1>1, <2>1, <3>1 DEF Blamed
  <2>3. doc' = doc \/ doc' = [doc EXCEPT ![k[1]].secondary = "unknown"]
    BY <1>4 DEF KillTask
  <2>4. doc'[j] = doc[j] \/ doc'[j] = [doc[j] EXCEPT !.secondary = "unknown"]
    BY <1>2, <2>3
  <2>5. doc'[j].fails = doc[j].fails
    <3>1. [doc[j] EXCEPT !.secondary = "unknown"].fails = doc[j].fails
      BY <1>2, DocumentFields
    <3>2. QED
      BY <2>4, <3>1
  <2>6. QED
    BY <1>1, <2>2, <2>5, CauseFrame
<1>5. ASSUME NEW e \in ending, Finish(e) PROVE FirstCause(j)'
  <2>1. reason' = reason /\ ending' \subseteq ending
    BY <1>5 DEF Finish, redis
  <2>2. Blamed(j)' => Blamed(j)
    BY <1>1, <2>1 DEF Blamed
  <2>3. doc'[j].fails = 0 => doc[j].fails = 0
    BY <1>2, <1>5, FinishDocument
  <2>4. QED
    BY <1>1, <2>2, <2>3, CauseFrame
<1>6. ASSUME NEW i \in Job, KillPending(i) PROVE FirstCause(j)'
  <2>1. reason' = reason /\ ending' = ending
    BY <1>6 DEF KillPending, redis
  <2>2. Blamed(j)' <=> Blamed(j)
    BY <1>1, <2>1 DEF Blamed
  <2>3. doc'[j].fails = doc[j].fails
    BY <1>2, <1>6, KillPendingFails
  <2>4. QED
    BY <1>1, <2>2, <2>3, CauseFrame
<1>7. QED
  BY <1>3, <1>4, <1>5, <1>6 DEF Watchers

LEMMA MainThreadCause ==
    ASSUME TypeOK, NEW j \in Job, FirstCause(j), MainThread
    PROVE  FirstCause(j)'
<1>1. UNCHANGED <<launched, mesos, told, reason, ending>>
  BY DEF MainThread, BeginPass, PushTask, Collect, Publish, redis, jobsVars, cluster, history
<1>2. doc'[j].fails = doc[j].fails
  BY PublishFails DEF MainThread, BeginPass, PushTask, Collect, jobsVars
<1>3. Blamed(j)' <=> Blamed(j)
  BY <1>1 DEF Blamed
<1>4. QED
  BY <1>1, <1>2, <1>3, CauseFrame

LEMMA FrameworkCause ==
    ASSUME TypeOK, NEW j \in Job, JobInv(j), FirstCause(j), Framework
    PROVE  FirstCause(j)'
<1>1. UNCHANGED <<doc, reason, ending>>
  BY DEF Framework, BeginOffers, NextOffer, PlaceTask, LaunchOffer, EndOffers, redis, jobsVars
<1>2. CASE ~LaunchOffer
  <2>1. UNCHANGED <<told, launched>>
    BY <1>2 DEF Framework, BeginOffers, NextOffer, PlaceTask, EndOffers, cluster, history
  <2>2. mesos[j] = "crashed" => mesos'[j] = "crashed"
    BY <1>2 DEF Framework, BeginOffers, NextOffer, PlaceTask, EndOffers, cluster, KillsOf, Live
  <2>3. Blamed(j)' <=> Blamed(j)
    BY <1>1, <2>1 DEF Blamed
  <2>4. QED
    BY <1>1, <2>1, <2>2, <2>3, CauseFrame
<1>3. CASE LaunchOffer
  <2> DEFINE ids == {fw.given[n].job : n \in DOMAIN fw.given}
  <2>1. /\ launched'[j] = IF j \in ids THEN launched[j] + 1 ELSE launched[j]
        /\ mesos'[j] = IF j \in ids /\ ~Live(j) THEN "live" ELSE mesos[j]
        /\ told'[j] = IF j \in ids /\ ~Live(j) THEN "live" ELSE told[j]
    BY <1>3 DEF LaunchOffer
  <2>2. CASE j \notin ids
    <3>1. Blamed(j)' <=> Blamed(j)
      BY <1>1, <2>1, <2>2 DEF Blamed
    <3>2. QED
      BY <1>1, <2>1, <2>2, <3>1, CauseFrame
  <2>3. CASE j \in ids
    <3>1. launched[j] \in Nat
      BY DEF TypeOK, HistoryTyped
    <3>2. SUFFICES ASSUME doc[j].fails = 0, launched[j] = 0 PROVE ~Blamed(j)'
      BY <1>1, <2>1, <2>3, <3>1 DEF FirstCause
    <3>3. mesos[j] = "none" /\ ~Blamed(j)
      BY <3>2 DEF JobInv, FirstRun, FirstCause
    <3>4. told'[j] = "live"
      BY <2>1, <2>3, <3>3 DEF Live
    <3>5. QED
      BY <1>1, <3>3, <3>4 DEF Blamed
  <2>4. QED
    BY <2>2, <2>3
<1>4. QED
  BY <1>2, <1>3

LEMMA CrashCause ==
    ASSUME TypeOK, NEW j \in Job, FirstCause(j), Crash
    PROVE  FirstCause(j)'
<1>1. UNCHANGED <<doc, reason, ending, launched>>
  BY DEF Crash, redis, jobsVars
<1>2. (mesos[j] = "crashed" => mesos'[j] = "crashed") /\ told'[j] \in {told[j], "none"}
  BY DEF Crash, cluster
<1>3. Blamed(j)' => Blamed(j)
  BY <1>1, <1>2 DEF Blamed
<1>4. QED
  BY <1>1, <1>2, <1>3, CauseFrame

\* The inductive invariant behind the first restart.
THEOREM FirstCausesCorrect == Spec => []FirstCauses
<1>1. Init => FirstCauses
  BY DEF Init, FirstCauses, FirstCause, Blamed
<1>2. ASSUME TypeOK, Runs, FirstCauses, [Next]_vars PROVE FirstCauses'
  <2>1. CASE Next
    <3>1. left \subseteq left'
      BY <2>1 DEF Next, Submit, RequestKill, MainThread, BeginPass, PushTask, Collect, Publish,
         Framework, BeginOffers, NextOffer, PlaceTask, LaunchOffer, EndOffers, Watchers, Watch,
         KillTask, KillPending, Finish, StatusUpdate, RepeatUpdate, ClashUpdate, TaskEnds, Crash,
         history
    <3>2. ASSUME NEW j \in Job \ left' PROVE FirstCause(j)'
      <4>1. Phases /\ JobInv(j) /\ FirstCause(j)
        BY <1>2, <3>1 DEF Runs, FirstCauses
      <4>2. QED
        BY <1>2, <2>1, <4>1, UsersCause, ClusterCause, WatchersCause, MainThreadCause,
           FrameworkCause, CrashCause DEF Next
    <3>3. QED
      BY <3>2 DEF FirstCauses
  <2>2. CASE UNCHANGED vars
    <3>1. UNCHANGED <<mesos, told, doc, reason, ending, left, launched>>
      BY <2>2 DEF vars, redis, jobsVars, cluster, history
    <3>2. ASSUME NEW j \in Job \ left PROVE FirstCause(j)'
      <4>1. FirstCause(j) /\ (Blamed(j)' <=> Blamed(j))
        BY <1>2, <3>1 DEF FirstCauses, Blamed
      <4>2. QED
        BY <3>1, <4>1, CauseFrame
    <3>3. QED
      BY <3>1, <3>2 DEF FirstCauses
  <2>3. QED
    BY <1>2, <2>1, <2>2
<1>3. QED
  BY <1>1, <1>2, TypeCorrect, RunsCorrect, PTL DEF Spec

\* With one restart at most, a job that was not rescheduled is started again only when
\* the system made its run fail: not because of a reason or a failure told of anything
\* else.
THEOREM RestartHasCauseCorrect ==
    ASSUME FailurePolicy <= 1
    PROVE  Spec => RestartHasCause
<1>1. ASSUME TypeOK, FirstCauses, Next, NEW j \in Job, doc'[j].fails > doc[j].fails,
             Undisturbed(j), launched[j] <= doc[j].fails + 1
      PROVE  mesos[j] = "crashed"
  <2>1. doc \in [Job -> Document] /\ doc[j] \in Document /\ doc[j].fails \in Nat
    BY <1>1, DocumentFields DEF TypeOK, JobsTyped
  <2>2. \/ \E i \in Job : Submit(i) \/ RequestKill(i)
        \/ Publish \/ (\E k \in killq : KillTask(k)) \/ (\E e \in ending : Finish(e))
        \/ (\E i \in Job : KillPending(i))
        \/ UNCHANGED doc
    BY <1>1 DEF Next, MainThread, BeginPass, PushTask, Collect, Framework, BeginOffers,
       NextOffer, PlaceTask, LaunchOffer, EndOffers, Watchers, Watch, StatusUpdate,
       RepeatUpdate, ClashUpdate, TaskEnds, Crash, jobsVars
  <2>3. ASSUME NEW i \in Job, Submit(i) \/ RequestKill(i) PROVE doc'[j].fails = doc[j].fails
    <3>1. \/ doc' = [doc EXCEPT ![i].status = "pending"]
          \/ \E s : doc' = [doc EXCEPT ![i].secondary = s]
      BY <2>3 DEF Submit, RequestKill
    <3>2. CASE doc' = [doc EXCEPT ![i].status = "pending"]
      <4>1. doc'[j] = doc[j] \/ doc'[j] = [doc[j] EXCEPT !.status = "pending"]
        BY <2>1, <3>2
      <4>2. CASE doc'[j] = [doc[j] EXCEPT !.status = "pending"]
        BY <2>1, <4>2, DocumentFields
      <4>3. QED
        BY <4>1, <4>2
    <3>3. ASSUME NEW s, doc' = [doc EXCEPT ![i].secondary = s]
          PROVE  doc'[j].fails = doc[j].fails
      <4>1. doc'[j] = doc[j] \/ doc'[j] = [doc[j] EXCEPT !.secondary = s]
        BY <2>1, <3>3
      <4>2. CASE doc'[j] = [doc[j] EXCEPT !.secondary = s]
        BY <2>1, <4>2, DocumentFields
      <4>3. QED
        BY <4>1, <4>2
    <3>4. QED
      BY <3>1, <3>2, <3>3
  <2>4. Publish => doc'[j].fails = doc[j].fails
    BY <1>1, PublishFails
  <2>5. ASSUME NEW k \in killq, KillTask(k) PROVE doc'[j].fails = doc[j].fails
    <3>1. doc' = doc \/ doc' = [doc EXCEPT ![k[1]].secondary = "unknown"]
      BY <2>5 DEF KillTask
    <3>2. doc'[j] = doc[j] \/ doc'[j] = [doc[j] EXCEPT !.secondary = "unknown"]
      BY <2>1, <3>1
    <3>3. QED
      BY <2>1, <3>2 DEF Document
  <2>6. ASSUME NEW e \in ending, Finish(e) PROVE mesos[j] = "crashed"
    <3>1. e[1] = j /\ Restarted(e)
      BY <1>1, <2>1, <2>6, FinishDocument
    <3>2. doc[j].fails = 0
      <4>1. FailurePolicy \in Nat
        BY MesosAssumption
      <4>2. doc[j].fails < FailurePolicy
        BY <3>1 DEF Restarted
      <4>3. QED
        BY <2>1, <4>1, <4>2
    <3>3. e = <<j, Failure>>
      <4>1. \E H : ending \subseteq Job \X H
        BY <1>1 DEF TypeOK, JobsTyped
      <4>2. QED
        BY <3>1, <3>2, <4>1 DEF Restarted
    <3>4. FirstCause(j) /\ Blamed(j) /\ launched[j] <= 1
      BY <1>1, <3>2, <3>3 DEF FirstCauses, Undisturbed, Blamed
    <3>5. QED
      BY <3>2, <3>4 DEF FirstCause
  <2>7. ASSUME NEW i \in Job, KillPending(i) PROVE doc'[j].fails = doc[j].fails
    BY <1>1, <2>7, KillPendingFails
  <2>8. QED
    BY <1>1, <2>1, <2>2, <2>3, <2>4, <2>5, <2>6, <2>7
<1>2. TypeOK /\ FirstCauses /\ [Next]_vars
        => [\A j \in Job : (/\ doc'[j].fails > doc[j].fails
                            /\ Undisturbed(j) /\ launched[j] <= doc[j].fails + 1)
                               => mesos[j] = "crashed"]_vars
  BY <1>1
<1>3. QED
  BY <1>2, TypeCorrect, FirstCausesCorrect, PTL DEF Spec, RestartHasCause
=============================================================================
