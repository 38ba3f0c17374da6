----------------------------- MODULE ThreadPool -----------------------------
(***************************************************************************)
(* core::tools::threadpool (src/core/tools/threadpool.cpp): a fixed set of *)
(* worker threads that take closures from one deque.  Every queue of the   *)
(* core (the core main thread, the async executers, the easy curl handler) *)
(* is an instance of this class.                                           *)
(*                                                                         *)
(* A critical section of queue_mutex_ is one step, except the one that     *)
(* matters: a worker that found the queue empty still holds the mutex when *)
(* it is about to block, and the destructor stores stop_ and notifies      *)
(* without taking the mutex.                                               *)
(***************************************************************************)
EXTENDS Naturals, Sequences, FiniteSets

CONSTANTS Workers,   \* the pool's threads
          Tasks,     \* the closures clients may push, one push each
          IdOf(_),   \* the id a closure is pushed with
          NoId,      \* the default id, -1
          NoTask     \* what a worker that executes nothing executes

ASSUME WorkersAssumption == IsFiniteSet(Workers) /\ Workers # {}
ASSUME NoTaskAssumption == NoTask \notin Tasks

VARIABLES tasks,     \* tasks_
          stop,      \* stop_
          pc,        \* where each worker is
          current,   \* the closure a running worker executes
          owed,      \* pushes that left the mutex and did not notify yet
          life,      \* how far the destructor is
          accepted,  \* history: closures whose push returned true
          done,      \* history: closures that were executed
          missed     \* history: workers about to block while notify_all ran

vars == <<tasks, stop, pc, current, owed, life, accepted, done, missed>>

InPc(p) == {w \in Workers : pc[w] = p}

\* Mutant: the condition is waited for after the mutex was released.
MutantMutexFree == TRUE

\* queue_mutex_ is only held between two steps by a worker about to block.
MutexFree == InPc("blocking") = {}

Init ==
    /\ tasks = <<>>
    /\ stop = FALSE
    /\ pc = [w \in Workers |-> "outside"]
    /\ current = [w \in Workers |-> NoTask]
    /\ owed = 0
    /\ life = "alive"
    /\ accepted = {}
    /\ done = {}
    /\ missed = {}

-----------------------------------------------------------------------------
(* Workers: run_task_impl. *)

\* The queue is not empty: take its first closure, unlock, execute it.
TakeTask(w) ==
    /\ pc[w] = "outside" /\ MutexFree
    /\ tasks # <<>>
    /\ tasks' = Tail(tasks)
    /\ current' = [current EXCEPT ![w] = Head(tasks)]
    /\ pc' = [pc EXCEPT ![w] = "running"]
    /\ UNCHANGED <<stop, owed, life, accepted, done, missed>>

FinishTask(w) ==
    /\ pc[w] = "running"
    /\ done' = done \cup {current[w]}
    /\ current' = [current EXCEPT ![w] = NoTask]
    /\ pc' = [pc EXCEPT ![w] = "outside"]
    /\ UNCHANGED <<tasks, stop, owed, life, accepted, missed>>

\* Mutant: stop_ ends a thread although closures are queued.
MutantExitThread(w) ==
    /\ pc[w] = "outside" /\ MutexFree
    /\ stop
    /\ pc' = [pc EXCEPT ![w] = "exited"]
    /\ UNCHANGED <<tasks, stop, current, owed, life, accepted, done, missed>>

\* stop_ and nothing queued: run_task returns false and the thread ends.
ExitThread(w) ==
    /\ pc[w] = "outside" /\ MutexFree
    /\ tasks = <<>> /\ stop
    /\ pc' = [pc EXCEPT ![w] = "exited"]
    /\ UNCHANGED <<tasks, stop, current, owed, life, accepted, done, missed>>

\* The loop condition !(stop_ || !tasks_.empty()) was true: the worker is
\* going to wait, still inside the mutex.
DecideToWait(w) ==
    /\ pc[w] = "outside" /\ MutexFree
    /\ tasks = <<>> /\ ~stop
    /\ pc' = [pc EXCEPT ![w] = "blocking"]
    /\ UNCHANGED <<tasks, stop, current, owed, life, accepted, done, missed>>

\* condition_.wait releases the mutex and blocks.
StartWaiting(w) ==
    /\ pc[w] = "blocking"
    /\ pc' = [pc EXCEPT ![w] = "waiting"]
    /\ UNCHANGED <<tasks, stop, current, owed, life, accepted, done, missed>>

\* A condition variable may wake a thread nobody notified.
SpuriousWakeup(w) ==
    /\ pc[w] = "waiting"
    /\ pc' = [pc EXCEPT ![w] = "outside"]
    /\ UNCHANGED <<tasks, stop, current, owed, life, accepted, done, missed>>

-----------------------------------------------------------------------------
(* Clients: push_back, push_front and raise_task, from any thread, as long *)
(* as the object exists.                                                   *)

Enqueue(t, queue) ==
    /\ life # "destroyed" /\ MutexFree
    /\ t \notin accepted
    /\ ~stop
    /\ tasks' = queue
    /\ accepted' = accepted \cup {t}
    /\ owed' = owed + 1
    /\ UNCHANGED <<stop, pc, current, life, done, missed>>

PushBack(t) == Enqueue(t, Append(tasks, t))

\* Mutant: push_front forgets to notify.
MutantPushFront(t) ==
    /\ life # "destroyed" /\ MutexFree
    /\ t \notin accepted /\ ~stop
    /\ tasks' = <<t>> \o tasks
    /\ accepted' = accepted \cup {t}
    /\ UNCHANGED <<stop, pc, current, owed, life, done, missed>>

PushFront(t) == Enqueue(t, <<t>> \o tasks)

\* condition_.notify_one(), after the mutex was released.
NotifyOne ==
    /\ owed > 0
    /\ owed' = owed - 1
    /\ \/ InPc("waiting") = {} /\ UNCHANGED pc
       \/ \E w \in InPc("waiting") : pc' = [pc EXCEPT ![w] = "outside"]
    /\ UNCHANGED <<tasks, stop, current, life, accepted, done, missed>>

\* Mutant: the raised closure is not erased from its old place.
MutantRaiseTask(k) ==
    /\ life # "destroyed" /\ MutexFree
    /\ k \in 2..Len(tasks)
    /\ IdOf(tasks[k]) # NoId
    /\ Len(tasks) < 4
    /\ tasks' = <<tasks[k]>> \o tasks
    /\ UNCHANGED <<stop, pc, current, owed, life, accepted, done, missed>>

\* The first closure with the id moves to the front; ids that are -1,
\* absent or already in front change nothing.
RaiseTask(k) ==
    /\ life # "destroyed" /\ MutexFree
    /\ k \in 2..Len(tasks)
    /\ IdOf(tasks[k]) # NoId
    /\ \A j \in 1..(k - 1) : IdOf(tasks[j]) # IdOf(tasks[k])
    /\ tasks' = [j \in DOMAIN tasks |->
                    IF j = 1 THEN tasks[k]
                    ELSE IF j <= k THEN tasks[j - 1] ELSE tasks[j]]
    /\ UNCHANGED <<stop, pc, current, owed, life, accepted, done, missed>>

-----------------------------------------------------------------------------
(* The owner: ~threadpool. *)

StoreStop ==
    /\ life = "alive"
    /\ life' = "stopping"
    /\ stop' = TRUE
    /\ UNCHANGED <<tasks, pc, current, owed, accepted, done, missed>>

\* Mutant: the destructor notifies one thread only.
MutantNotifyAll ==
    /\ life = "stopping"
    /\ life' = "joining"
    /\ \/ InPc("waiting") = {} /\ UNCHANGED pc
       \/ \E w \in InPc("waiting") : pc' = [pc EXCEPT ![w] = "outside"]
    /\ missed' = InPc("blocking")
    /\ UNCHANGED <<tasks, stop, current, owed, accepted, done>>

NotifyAll ==
    /\ life = "stopping"
    /\ life' = "joining"
    /\ pc' = [w \in Workers |-> IF pc[w] = "waiting" THEN "outside" ELSE pc[w]]
    /\ missed' = InPc("blocking")
    /\ UNCHANGED <<tasks, stop, current, owed, accepted, done>>

JoinAll ==
    /\ life = "joining"
    /\ InPc("exited") = Workers
    /\ life' = "destroyed"
    /\ UNCHANGED <<tasks, stop, pc, current, owed, accepted, done, missed>>

-----------------------------------------------------------------------------

WorkerStep(w) ==
    \/ TakeTask(w)
    \/ FinishTask(w)
    \/ ExitThread(w)
    \/ DecideToWait(w)
    \/ StartWaiting(w)

Destructor == StoreStop \/ NotifyAll \/ JoinAll

Client ==
    \/ \E t \in Tasks : PushBack(t) \/ PushFront(t)
    \/ \E k \in 2..Len(tasks) : RaiseTask(k)

Next ==
    \/ \E w \in Workers : WorkerStep(w) \/ SpuriousWakeup(w)
    \/ Client
    \/ NotifyOne
    \/ Destructor

Spec == Init /\ [][Next]_vars

\* Threads that can run do run, closures return, a push that left the mutex
\* reaches its notify, and the destructor runs to the end once entered.
\* Spurious wake-ups, new pushes and the destructor's start are not promised.
Fairness ==
    /\ \A w \in Workers : SF_vars(WorkerStep(w))
    /\ WF_vars(NotifyOne)
    /\ WF_vars(NotifyAll \/ JoinAll)

FairSpec == Spec /\ Fairness

-----------------------------------------------------------------------------

TypeOK ==
    /\ tasks \in Seq(Tasks)
    /\ stop \in BOOLEAN
    /\ pc \in [Workers -> {"outside", "blocking", "waiting", "running", "exited"}]
    /\ current \in [Workers -> Tasks \cup {NoTask}]
    /\ owed \in Nat
    /\ life \in {"alive", "stopping", "joining", "destroyed"}
    /\ accepted \in SUBSET Tasks
    /\ done \in SUBSET Tasks
    /\ missed \in SUBSET Workers

Queued == {tasks[i] : i \in DOMAIN tasks}

\* Every accepted closure is in exactly one place: once in the queue, with
\* exactly one worker, or executed.  Nothing pushed is dropped by stop_ or by
\* raise_task, and nothing runs twice (push_back, push_front, raise_task,
\* run_task_impl together).
ExactlyOnce ==
    /\ \A i, j \in DOMAIN tasks : tasks[i] = tasks[j] => i = j
    /\ \A v, w \in InPc("running") : current[v] = current[w] => v = w
    /\ \A w \in InPc("running") : current[w] \notin Queued \cup done
    /\ Queued \cap done = {}
    /\ accepted = Queued \cup {current[w] : w \in InPc("running")} \cup done

\* A worker sleeps on the condition only while every queued closure has an
\* awake worker coming for it or a notify_one on its way: the notify after
\* the unlock in push_back is never lost, although it is outside the mutex.
WorkConserving ==
    InPc("waiting") # {} => Len(tasks) <= Cardinality(InPc("outside")) + owed

\* When the destructor has joined its workers, every accepted closure ran:
\* stop_ refuses new closures and does not discard queued ones.
DrainedWhenDestroyed == life = "destroyed" => done = accepted

\* A queued closure is executed sooner or later, whether or not the pool is
\* destroyed meanwhile.
EveryAcceptedTaskRuns == \A t \in Tasks : (t \in accepted) ~> (t \in done)

\* Once entered, the destructor returns, with one exception: a worker that had
\* found the queue empty and was about to block while notify_all ran
\* sleeps on, and join waits for it (stop_ is stored without queue_mutex_).
DestructorReturnsOrMissed ==
    (life = "stopping")
        ~> (life = "destroyed" \/ \E w \in missed : pc[w] = "waiting")

=============================================================================
