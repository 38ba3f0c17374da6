------------------------------ MODULE CurlEasy ------------------------------
(***************************************************************************)
(* core::curl_easy_handler (src/core/curl_easy_handler.cpp): requests run  *)
(* by blocking threads.  The fetch and the protocol requests have a thread *)
(* each (a loop), with a mutex, a condition and a deque; the others go to  *)
(* three thread pools, each behind a mutex that guards the pointer to it.  *)
(*                                                                         *)
(* A pool is what ThreadPool promises: a queue, at most so many tasks      *)
(* executed at a time, and a destructor that returns when all were, unless *)
(* a worker missed the notification (DestructorReturnsOrMissed).           *)
(*                                                                         *)
(* A completion function runs on the thread of its request, and may        *)
(* perform another one there: async_loader asks for the next chunk of a    *)
(* file that way.                                                          *)
(***************************************************************************)
EXTENDS Naturals, Sequences, FiniteSets

CONSTANTS Tasks,      \* the requests
          Loops,      \* the fetch and the protocol thread
          Pools,      \* the pools, in the order cleanup destroys them
          Width(_),   \* how many threads a pool has
          Lane(_),    \* where a request goes: a loop or a pool
          Follow(_),  \* the request its completion performs, or NoTask
          NoTask

PoolSet == {Pools[i] : i \in DOMAIN Pools}
Lanes == Loops \cup PoolSet

ASSUME TasksAssumption ==
    /\ NoTask \notin Tasks
    /\ \A t \in Tasks : Lane(t) \in Lanes /\ Follow(t) \in Tasks \cup {NoTask}
ASSUME PoolsAssumption ==
    Pools \in Seq(PoolSet) /\ Pools # <<>> /\ PoolSet \cap Loops = {}
ASSUME ChainAssumption ==
    \A t, u \in Tasks : Follow(t) # NoTask /\ Follow(t) = Follow(u) => t = u

VARIABLES
    stop,      \* stop_
    calling,   \* requests whose caller saw stop_ unset and did not queue them yet
    queue,     \* fetch_tasks_, protocol_tasks_ and the queues of the pools
    active,    \* the requests each lane's threads execute
    pc,        \* where the thread of each loop is
    core,      \* how far cleanup is
    at,        \* the pool it is at
    crashed,   \* a pool was used that cleanup had destroyed
    asked,     \* history: requests performed
    answers,   \* history: how often each was completed
    late,      \* history: requests queued for a loop that had ended
    missed     \* history: loops and pools with a thread that missed a notify_all

client == <<calling, asked, late>>
control == <<stop, core, at, missed>>
vars == <<queue, active, pc, client, control, crashed, answers>>

Init ==
    /\ stop = FALSE /\ core = "idle" /\ at = 1 /\ crashed = FALSE
    /\ calling = {} /\ asked = {} /\ late = {} /\ missed = {}
    /\ queue = [l \in Lanes |-> <<>>] /\ active = [l \in Lanes |-> {}]
    /\ pc = [l \in Loops |-> "run"]
    /\ answers = [t \in Tasks |-> 0]

Completed(t) == answers' = [answers EXCEPT ![t] = @ + 1]

\* Between its test of the condition and its wait a loop holds its mutex, and
\* cleanup holds a pool's from before it destroys it until all threads joined.
MutexFree(l) ==
    IF l \in Loops THEN pc[l] # "toWait" ELSE ~(core = "joinPool" /\ Pools[at] = l)

Gone(l) == l \in PoolSet /\ \A i \in DOMAIN Pools : Pools[i] = l =>
               i < at \/ core \in {"notify", "joinLoops", "done"}

FollowUps == {Follow(t) : t \in Tasks} \ {NoTask}

-----------------------------------------------------------------------------
(* The threads that perform requests. *)

\* perform, perform_async: stop_ is looked at before any mutex is taken.
Perform(t) ==
    /\ t \notin asked \cup FollowUps
    /\ asked' = asked \cup {t}
    /\ IF stop THEN Completed(t) /\ UNCHANGED calling
               ELSE calling' = calling \cup {t} /\ UNCHANGED answers
    /\ UNCHANGED <<late, queue, active, pc, control, crashed>>

\* Mutant: nobody is notified.
MutantAddTask(t) ==
    /\ t \in calling /\ MutexFree(Lane(t)) /\ ~Gone(Lane(t))
    /\ calling' = calling \ {t}
    /\ queue' = [queue EXCEPT ![Lane(t)] = Append(@, t)]
    /\ active' = [l \in Lanes |-> {u \in active[l] : Follow(u) # t}]
    /\ UNCHANGED <<pc, asked, late, control, crashed, answers>>

\* The rest of add_task.  The completion function that called it returns.
AddTask(t) ==
    LET lane == Lane(t)
        left == lane \in Loops /\ pc[lane] = "left" IN
    /\ t \in calling /\ MutexFree(lane) /\ ~Gone(lane)
    /\ calling' = calling \ {t}
    /\ queue' = [queue EXCEPT ![lane] = Append(@, t)]
    /\ active' = [l \in Lanes |-> {u \in active[l] : Follow(u) # t}]
    /\ pc' = [l \in Loops |-> IF l = lane /\ pc[l] = "waiting" THEN "run" ELSE pc[l]]
    /\ late' = IF left THEN late \cup {t} ELSE late
    /\ UNCHANGED <<asked, control, crashed, answers>>

\* The pool is gone: a null pointer is dereferenced.
Crash(t) ==
    /\ t \in calling /\ MutexFree(Lane(t)) /\ Gone(Lane(t))
    /\ crashed' = TRUE
    /\ UNCHANGED <<queue, active, pc, client, control, answers>>

\* The k-th request moves to the front.
Raised(q, k) ==
    [j \in 1..Len(q) |-> IF j = 1 THEN q[k] ELSE IF j <= k THEN q[j - 1] ELSE q[j]]

\* raise_task, which the core thread calls: not any more once it cleans up.
RaiseTask(l, k) ==
    /\ core = "idle" /\ l \in PoolSet /\ k \in 2..Len(queue[l])
    /\ queue' = [queue EXCEPT ![l] = Raised(@, k)]
    /\ UNCHANGED <<active, pc, client, control, crashed, answers>>

-----------------------------------------------------------------------------
(* The threads that execute them. *)

\* Mutant: the request stays in front.
MutantTakes(l) ==
    /\ queue[l] # <<>>
    /\ active' = [active EXCEPT ![l] = @ \cup {Head(queue[l])}]
    /\ UNCHANGED <<queue, pc, client, control, crashed, answers>>

Takes(l) ==
    /\ queue[l] # <<>>
    /\ queue' = [queue EXCEPT ![l] = Tail(@)]
    /\ active' = [active EXCEPT ![l] = @ \cup {Head(queue[l])}]
    /\ UNCHANGED <<pc, client, control, crashed, answers>>

LoopTakes(l) == pc[l] = "run" /\ active[l] = {} /\ Takes(l)

PoolTakes(l) == Cardinality(active[l]) < Width(l) /\ Takes(l)

\* curl_task::execute ends with the completion function, which performs the
\* next request, if any, before it returns.
Finish(l, t) ==
    /\ t \in active[l] /\ answers[t] = 0
    /\ LET next == Follow(t) IN
       IF next = NoTask
       THEN /\ Completed(t)
            /\ active' = [active EXCEPT ![l] = @ \ {t}]
            /\ UNCHANGED client
       ELSE /\ asked' = asked \cup {next} /\ UNCHANGED late
            /\ IF stop THEN /\ answers' = [answers EXCEPT ![t] = @ + 1, ![next] = @ + 1]
                            /\ active' = [active EXCEPT ![l] = @ \ {t}]
                            /\ UNCHANGED calling
                       ELSE /\ Completed(t)
                            /\ calling' = calling \cup {next}
                            /\ UNCHANGED active
    /\ UNCHANGED <<queue, pc, control, crashed>>

LoopGoes(l, from, to) ==
    /\ pc[l] = from /\ active[l] = {}
    /\ pc' = [pc EXCEPT ![l] = to]
    /\ UNCHANGED <<queue, active, client, control, crashed, answers>>

DecideToWait(l) == queue[l] = <<>> /\ ~stop /\ LoopGoes(l, "run", "toWait")

Wait(l) == LoopGoes(l, "toWait", "waiting")

\* Mutant: what is in the deque when stop_ is set is dropped.
MutantLeave(l) == stop /\ LoopGoes(l, "run", "left")

Leave(l) == queue[l] = <<>> /\ stop /\ LoopGoes(l, "run", "left")

\* A condition may wake a thread nobody notified, in a pool as well.
SpuriousWakeup(l) ==
    \/ l \in Loops /\ LoopGoes(l, "waiting", "run")
    \/ /\ l \in PoolSet \cap missed
       /\ missed' = missed \ {l}
       /\ UNCHANGED <<queue, active, pc, client, stop, core, at, crashed, answers>>

-----------------------------------------------------------------------------
(* cleanup, on the core thread. *)

CoreGoes(from, to) ==
    /\ core = from /\ core' = to
    /\ UNCHANGED <<queue, active, client, crashed, answers>>

StoreStop ==
    /\ CoreGoes("idle", "resetPool")
    /\ stop' = TRUE
    /\ UNCHANGED <<pc, at, missed>>

\* The mutex is taken and the pool's destructor notifies.  A worker that is
\* about to block misses it.
ResetPool ==
    /\ CoreGoes("resetPool", "joinPool")
    /\ missed' \in {missed} \cup
          (IF queue[Pools[at]] = <<>> /\ Cardinality(active[Pools[at]]) < Width(Pools[at])
           THEN {missed \cup {Pools[at]}} ELSE {})
    /\ UNCHANGED <<stop, at, pc>>

PoolDestroyed ==
    /\ Pools[at] \notin missed
    /\ queue[Pools[at]] = <<>> /\ active[Pools[at]] = {}
    /\ IF at < Len(Pools) THEN CoreGoes("joinPool", "resetPool") /\ at' = at + 1
                          ELSE CoreGoes("joinPool", "notify") /\ UNCHANGED at
    /\ UNCHANGED <<stop, missed, pc>>

\* Mutant: one of the loops is forgotten.
MutantNotifyLoops ==
    /\ CoreGoes("notify", "joinLoops")
    /\ missed' = missed \cup {l \in Loops : pc[l] = "toWait"}
    /\ UNCHANGED <<stop, at, pc>>

\* Both conditions are notified, without their mutexes.
NotifyLoops ==
    /\ CoreGoes("notify", "joinLoops")
    /\ pc' = [l \in Loops |-> IF pc[l] = "waiting" THEN "run" ELSE pc[l]]
    /\ missed' = missed \cup {l \in Loops : pc[l] = "toWait"}
    /\ UNCHANGED <<stop, at>>

JoinLoops ==
    /\ \A l \in Loops : pc[l] = "left"
    /\ CoreGoes("joinLoops", "done")
    /\ UNCHANGED <<stop, at, missed, pc>>

-----------------------------------------------------------------------------

LoopStep(l) == LoopTakes(l) \/ DecideToWait(l) \/ Wait(l) \/ Leave(l)

Cleanup == StoreStop \/ ResetPool \/ PoolDestroyed \/ NotifyLoops \/ JoinLoops

Next ==
    /\ ~crashed
    /\ \/ \E t \in Tasks : Perform(t) \/ AddTask(t) \/ Crash(t)
       \/ \E l \in PoolSet : PoolTakes(l) \/ \E k \in 2..Len(queue[l]) : RaiseTask(l, k)
       \/ \E l \in Lanes : \E t \in active[l] : Finish(l, t)
       \/ \E l \in Loops : LoopStep(l)
       \/ \E l \in Lanes : SpuriousWakeup(l)
       \/ Cleanup

Spec == Init /\ [][Next]_vars

\* Threads run, transfers end (curl has timeouts, and its progress function stops
\* it once stop_ is set), mutexes are handed on; cleanup goes on once it began.
\* A request takes each of its steps once, so that fairness to all requests
\* together is fairness to each.
Fairness ==
    /\ \A l \in Loops : WF_vars(~crashed /\ LoopStep(l))
    /\ WF_vars(~crashed /\ \E l \in PoolSet : PoolTakes(l))
    /\ WF_vars(~crashed /\ \E l \in Lanes : \E t \in active[l] : Finish(l, t))
    /\ SF_vars(~crashed /\ \E t \in calling : AddTask(t) \/ Crash(t))
    /\ WF_vars(~crashed /\ stop /\ Cleanup)

FairSpec == Spec /\ Fairness

-----------------------------------------------------------------------------

TypeOK ==
    /\ {stop, crashed} \subseteq BOOLEAN
    /\ \A s \in {calling, asked, late} : s \subseteq Tasks
    /\ queue \in [Lanes -> Seq(Tasks)] /\ active \in [Lanes -> SUBSET Tasks]
    /\ pc \in [Loops -> {"run", "toWait", "waiting", "left"}]
    /\ core \in {"idle", "resetPool", "joinPool", "notify", "joinLoops", "done"}
    /\ at \in DOMAIN Pools
    /\ answers \in [Tasks -> Nat] /\ missed \subseteq Lanes

Elements(q) == {q[i] : i \in DOMAIN q}
Distinct(q) == \A i, j \in DOMAIN q : q[i] = q[j] => i = j

\* A request is completed at most once (set_value twice throws), and until it is,
\* its caller, its lane's queue or one of its lane's threads has it, and only one
\* of them: neither a follow-up performed on a thread of the handler nor one
\* refused by stop_ is executed twice.
InOnePlace ==
    /\ \A l \in Lanes :
          /\ Distinct(queue[l])
          /\ \A t \in Elements(queue[l]) \cup active[l] : Lane(t) = l
          /\ \A t \in calling : t \notin Elements(queue[l]) \cup active[l]
          /\ Elements(queue[l]) \cap active[l] = {}
    /\ \A t \in Tasks :
        LET waiting == t \in Elements(queue[Lane(t)])
            running == t \in active[Lane(t)] IN
        /\ answers[t] <= 1
        /\ t \in asked /\ answers[t] = 0 => t \in calling \/ waiting \/ running
        /\ answers[t] = 1 =>
              t \notin calling /\ ~waiting /\ (running => Follow(t) \in calling)

\* When cleanup has returned everything was completed, but for requests whose
\* caller had seen stop_ unset and is still on its way, or queued them for a loop
\* that had ended.  A pool leaves none behind.
NothingLeftBehind ==
    core = "done" => \A t \in asked : answers[t] > 0 \/ t \in calling \cup late

\* The completion function of a pool's request asks for another of the same pool,
\* whose mutex cleanup holds until that completion function returns.
Deadlocked ==
    /\ core = "joinPool"
    /\ \E t \in active[Pools[at]] : Follow(t) \in calling /\ Lane(Follow(t)) = Pools[at]

\* A pool's worker that missed the notification sleeps, and cleanup waits for it.
MissedByPool == missed \cap PoolSet # {}

\* Every request is completed, but for those queued for a loop that had
\* ended, and but for a cleanup that never returns and the crash.
EveryRequestCompleted ==
    \A t \in Tasks :
        (t \in asked) ~> (\/ answers[t] > 0 \/ t \in late
                          \/ Deadlocked \/ MissedByPool \/ crashed)

\* cleanup returns, unless a thread missed a notification and sleeps on, or it
\* waits for a completion function that waits for its mutex.
CleanupReturnsOrMissed ==
    stop ~> (\/ core = "done" \/ crashed \/ Deadlocked \/ MissedByPool
             \/ \E l \in missed \cap Loops : pc[l] = "waiting")
=============================================================================
