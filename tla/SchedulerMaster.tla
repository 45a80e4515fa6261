-------------------------- MODULE SchedulerMaster --------------------------
(***************************************************************************)
(* Which scheduler is active: GoDScheduler.is_master and the loop of run.  *)
(* The office is the Redis key :master.  It is taken with SETNX, read back *)
(* with GET, and given a life time with EXPIRE, three calls between which  *)
(* the other instances and the clock may move.  The main loop never calls  *)
(* is_master again, and run deletes the key, whoever owns it, when its     *)
(* loop ends.  Redis counts the life time down; one tick of the model is   *)
(* any unit of time.                                                       *)
(***************************************************************************)
EXTENDS Naturals

CONSTANTS
    Scheduler,   \* the instances
    NoOne,       \* no key
    Stale,       \* the random key of an instance that died
    Timeout,     \* master_timeout, in ticks
    MayCrash,    \* where an instance may die: a subset of the states below
    MaxCrashes,  \* bound: deaths
    MaxStops     \* bound: ends of a main loop

\* "down": not started; "wait": sleeping between two attempts; "get" and
\* "expire": the second and third call of is_master; "active": in the main
\* loop; "leave": the loop has ended, the key is still there.
State == {"down", "wait", "get", "expire", "active", "leave"}

ASSUME MasterAssumption ==
    /\ NoOne \notin Scheduler
    /\ Stale \notin Scheduler
    /\ NoOne # Stale
    /\ Timeout \in Nat \ {0}
    /\ MayCrash \subseteq State
    /\ MaxCrashes \in Nat
    /\ MaxStops \in Nat

VARIABLES
    pc,       \* where each instance is
    master,   \* the value of the key: an instance stands for its random key
    ttl,      \* ticks left before the key expires, 0: it does not expire
    overrun,  \* history: a key expired while its owner was in office
    crashes, stops

vars == <<pc, master, ttl, overrun, crashes, stops>>

InOffice(s) == pc[s] \in {"active", "leave"}

TypeOK ==
    /\ pc \in [Scheduler -> State]
    /\ master \in Scheduler \cup {NoOne, Stale}
    /\ ttl \in 0 .. Timeout
    /\ overrun \in BOOLEAN
    /\ crashes \in 0 .. MaxCrashes
    /\ stops \in 0 .. MaxStops

Goto(s, to) == pc' = [pc EXCEPT ![s] = to]

Init ==
    /\ pc = [s \in Scheduler |-> "down"]
    /\ master = NoOne
    /\ ttl = 0
    /\ overrun = FALSE
    /\ crashes = 0
    /\ stops = 0

-----------------------------------------------------------------------------
\* An instance is started, with a new random key.
Start(s) ==
    /\ pc[s] = "down"
    /\ Goto(s, "wait")
    /\ UNCHANGED <<master, ttl, overrun, crashes, stops>>

\* Mutant: SET instead of SETNX.
SetAlways(s) ==
    /\ pc[s] = "wait"
    /\ Goto(s, "get")
    /\ master' = s /\ ttl' = 0
    /\ UNCHANGED <<overrun, crashes, stops>>

\* SETNX: a new key has no life time.
SetIfAbsent(s) ==
    /\ pc[s] = "wait"
    /\ Goto(s, "get")
    /\ IF master = NoOne
       THEN master' = s /\ ttl' = 0
       ELSE UNCHANGED <<master, ttl>>
    /\ UNCHANGED <<overrun, crashes, stops>>

\* Mutant: the answer of SETNX is not compared with the key.
ReadBackAny(s) ==
    /\ pc[s] = "get"
    /\ Goto(s, IF master # NoOne THEN "expire" ELSE "wait")
    /\ UNCHANGED <<master, ttl, overrun, crashes, stops>>

\* GET: is it my key?
ReadBack(s) ==
    /\ pc[s] = "get"
    /\ Goto(s, IF master = s THEN "expire" ELSE "wait")
    /\ UNCHANGED <<master, ttl, overrun, crashes, stops>>

\* Mutant: the key gets no life time.
SetNoExpiry(s) ==
    /\ pc[s] = "expire"
    /\ Goto(s, "active")
    /\ UNCHANGED <<master, ttl, overrun, crashes, stops>>

\* Mutant: the life time in milliseconds.
SetExpiryInMillis(s) ==
    /\ pc[s] = "expire"
    /\ Goto(s, "active")
    /\ ttl' = IF master = NoOne THEN 0 ELSE 1000 * Timeout
    /\ UNCHANGED <<master, overrun, crashes, stops>>

\* EXPIRE sets the life time of the key there is, whoever owns it.
SetExpiry(s) ==
    /\ pc[s] = "expire"
    /\ Goto(s, "active")
    /\ ttl' = IF master = NoOne THEN 0 ELSE Timeout
    /\ UNCHANGED <<master, overrun, crashes, stops>>

\* One turn of the main loop, which does not look at the key.
Pass(s) ==
    /\ pc[s] = "active"
    /\ UNCHANGED vars

\* The loop ends: SIGINT, or an exception in a pass.
EndLoop(s) ==
    /\ pc[s] = "active"
    /\ stops < MaxStops
    /\ stops' = stops + 1
    /\ Goto(s, "leave")
    /\ UNCHANGED <<master, ttl, overrun, crashes>>

DeleteKey(s) ==
    /\ pc[s] = "leave"
    /\ Goto(s, "down")
    /\ master' = NoOne
    /\ ttl' = 0
    /\ UNCHANGED <<overrun, crashes, stops>>

\* The instance dies; SIGTERM, which go-d-scheduler stop sends, has no handler
\* and has the same effect.
Crash(s) ==
    /\ pc[s] \in MayCrash \ {"down"}
    /\ crashes < MaxCrashes
    /\ crashes' = crashes + 1
    /\ Goto(s, "down")
    /\ master' = IF master = s THEN Stale ELSE master
    /\ UNCHANGED <<ttl, overrun, stops>>

\* Time passes; Redis drops a key at the end of its life.
Tick ==
    /\ ttl > 0
    /\ ttl' = ttl - 1
    /\ IF ttl = 1
       THEN /\ master' = NoOne
            /\ overrun' = (overrun \/ \E s \in Scheduler :
                              master = s /\ pc[s] \in {"expire", "active", "leave"})
       ELSE UNCHANGED <<master, overrun>>
    /\ UNCHANGED <<pc, crashes, stops>>

Next ==
    \/ \E s \in Scheduler :
          \/ Start(s) \/ SetIfAbsent(s) \/ ReadBack(s) \/ SetExpiry(s)
          \/ Pass(s) \/ EndLoop(s) \/ DeleteKey(s) \/ Crash(s)
    \/ Tick

Spec == Init /\ [][Next]_vars

\* Time passes, and an instance that is not dead goes on with is_master; when
\* its loop ended it deletes the key.  Nothing obliges a loop to end, an instance
\* to be started or to die.
Fairness ==
    /\ WF_vars(Tick)
    /\ \A s \in Scheduler :
          /\ WF_vars(SetIfAbsent(s)) /\ WF_vars(ReadBack(s)) /\ WF_vars(SetExpiry(s))
          /\ WF_vars(DeleteKey(s))

FairSpec == Spec /\ Fairness

-----------------------------------------------------------------------------
\* "There is only one scheduler running" (README).
OneActive == \A s, t \in Scheduler : InOffice(s) /\ InOffice(t) => s = t

\* The election is exclusive as long as no instance has been in office for
\* longer than the life time of its key.
OneActiveInTime == ~overrun => OneActive

\* The inductive invariant: until a key expires under its owner, an instance
\* past the read of the key owns it, and keeps it until it leaves.
OwnsKey ==
    ~overrun =>
        \A s \in Scheduler : pc[s] \in {"expire", "active", "leave"} => master = s

\* "In case of failure, one need to wait for the previous keep-alive timeout"
\* (README): until a key expires under its owner, nobody takes the office of an
\* instance that died before the key it left has expired.
WaitForTimeout ==
    [][(master = Stale /\ ~overrun /\ master' # Stale) => (ttl = 1 /\ master' = NoOne)]_vars

\* "If one instance is stopped, an other will take leadership" (README): when an
\* instance waits, some instance is eventually in office, or all have died.
Failover ==
    (\E s \in Scheduler : pc[s] = "wait")
        ~> \/ \E s \in Scheduler : InOffice(s)
           \/ \A s \in Scheduler : pc[s] = "down"
=============================================================================
