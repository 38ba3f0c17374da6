-------------------------- MODULE ThreadPoolProofs --------------------------
(***************************************************************************)
(* Proofs about core::tools::threadpool for any number of workers and      *)
(* closures: its type invariant, that an accepted closure is in exactly    *)
(* one place, that the destructor drains the queue, and that no wake-up of *)
(* a push is lost.                                                         *)
(***************************************************************************)
EXTENDS ThreadPool, FiniteSetTheorems, TLAPS

-----------------------------------------------------------------------------
(* The deque operations. *)

\* What pop_front, push_back and push_front do to the length and elements.
LEMMA DequeFacts ==
    ASSUME NEW q \in Seq(Tasks), NEW t \in Tasks
    PROVE  /\ Append(q, t) \in Seq(Tasks) /\ <<t>> \o q \in Seq(Tasks)
           /\ Len(Append(q, t)) = Len(q) + 1 /\ Len(<<t>> \o q) = Len(q) + 1
           /\ \A i \in 1..Len(q) : Append(q, t)[i] = q[i]
           /\ Append(q, t)[Len(q) + 1] = t
           /\ (<<t>> \o q)[1] = t
           /\ \A i \in 2..(Len(q) + 1) : (<<t>> \o q)[i] = q[i - 1]
  OBVIOUS

LEMMA PopFacts ==
    ASSUME NEW q \in Seq(Tasks), q # <<>>
    PROVE  /\ Tail(q) \in Seq(Tasks) /\ Head(q) \in Tasks /\ Head(q) = q[1]
           /\ Len(q) \in Nat /\ Len(q) >= 1
           /\ Len(Tail(q)) = Len(q) - 1
           /\ \A i \in 1..(Len(q) - 1) : Tail(q)[i] = q[i + 1]
  OBVIOUS

\* raise_task's new deque: the k-th closure first, the ones before it behind.
Raised(q, k) == [j \in DOMAIN q |->
                    IF j = 1 THEN q[k] ELSE IF j <= k THEN q[j - 1] ELSE q[j]]

LEMMA RaisedFacts ==
    ASSUME NEW q \in Seq(Tasks), NEW k \in 2..Len(q)
    PROVE  /\ Raised(q, k) \in Seq(Tasks) /\ Len(Raised(q, k)) = Len(q)
           /\ \A j \in 1..Len(q) : Raised(q, k)[j] =
                IF j = 1 THEN q[k] ELSE IF j <= k THEN q[j - 1] ELSE q[j]
<1>1. DOMAIN q = 1..Len(q) /\ Len(q) \in Nat
  OBVIOUS
<1>2. \A j \in 1..Len(q) : q[j] \in Tasks
  OBVIOUS
<1>3. Raised(q, k) \in [1..Len(q) -> Tasks]
  BY <1>1, <1>2 DEF Raised
<1>4. Raised(q, k) \in Seq(Tasks) /\ Len(Raised(q, k)) = Len(q)
  BY <1>1, <1>3
<1>. QED
  BY <1>1, <1>4 DEF Raised

-----------------------------------------------------------------------------

\* A running worker has a closure: TypeOK is inductive together with it.
RunningHasTask == \A w \in Workers : pc[w] = "running" => current[w] \in Tasks

LEMMA InitType == Init => TypeOK /\ RunningHasTask
<1> SUFFICES ASSUME Init PROVE TypeOK /\ RunningHasTask
  OBVIOUS
<1>1. tasks \in Seq(Tasks) /\ owed \in Nat
  BY DEF Init
<1>2. stop \in BOOLEAN
  BY Zenon DEF Init
<1>. QED
  BY <1>1, <1>2 DEF Init, TypeOK, RunningHasTask

LEMMA NextType ==
    ASSUME TypeOK, RunningHasTask, [Next]_vars
    PROVE  TypeOK' /\ RunningHasTask'
<1> USE DEF TypeOK, RunningHasTask
<1>1. ASSUME NEW w \in Workers, TakeTask(w) PROVE TypeOK' /\ RunningHasTask'
  BY <1>1, PopFacts DEF TakeTask
<1>2. ASSUME NEW w \in Workers, FinishTask(w) PROVE TypeOK' /\ RunningHasTask'
  BY <1>2 DEF FinishTask
<1>3. ASSUME NEW w \in Workers, ExitThread(w) PROVE TypeOK' /\ RunningHasTask'
  BY <1>3 DEF ExitThread
<1>4. ASSUME NEW w \in Workers, DecideToWait(w) PROVE TypeOK' /\ RunningHasTask'
  BY <1>4 DEF DecideToWait
<1>5. ASSUME NEW w \in Workers, StartWaiting(w) PROVE TypeOK' /\ RunningHasTask'
  BY <1>5 DEF StartWaiting
<1>6. ASSUME NEW w \in Workers, SpuriousWakeup(w) PROVE TypeOK' /\ RunningHasTask'
  BY <1>6 DEF SpuriousWakeup
<1>7. ASSUME NEW t \in Tasks, PushBack(t) PROVE TypeOK' /\ RunningHasTask'
  BY <1>7, DequeFacts DEF PushBack, Enqueue
<1>8. ASSUME NEW t \in Tasks, PushFront(t) PROVE TypeOK' /\ RunningHasTask'
  BY <1>8, DequeFacts DEF PushFront, Enqueue
<1>9. ASSUME NEW k \in 2..Len(tasks), RaiseTask(k) PROVE TypeOK' /\ RunningHasTask'
  BY <1>9, RaisedFacts DEF RaiseTask, Raised
<1>10. CASE NotifyOne
  BY <1>10 DEF NotifyOne, InPc
<1>11. CASE StoreStop
  <2>1. stop' \in BOOLEAN
    BY <1>11, Zenon DEF StoreStop
  <2>. QED
    BY <1>11, <2>1 DEF StoreStop
<1>12. CASE NotifyAll
  BY <1>12 DEF NotifyAll, InPc
<1>13. CASE JoinAll
  BY <1>13 DEF JoinAll
<1>14. CASE UNCHANGED vars
  BY <1>14 DEF vars
<1>. QED
  BY <1>1, <1>2, <1>3, <1>4, <1>5, <1>6, <1>7, <1>8, <1>9, <1>10, <1>11,
     <1>12, <1>13, <1>14 DEF Next, WorkerStep, Client, Destructor

\* Every variable of the pool keeps its type (all operations).
THEOREM TypeCorrect == Spec => [](TypeOK /\ RunningHasTask)
  BY InitType, NextType, PTL DEF Spec

-----------------------------------------------------------------------------
(* An accepted closure is in exactly one place. *)

\* What raise_task does to the deque as a set of closures: nothing, and no
\* closure is doubled.
LEMMA RaisedSet ==
    ASSUME NEW q \in Seq(Tasks), NEW k \in 2..Len(q),
           \A i, j \in DOMAIN q : q[i] = q[j] => i = j
    PROVE  LET r == Raised(q, k)
           IN /\ {r[i] : i \in DOMAIN r} = {q[i] : i \in DOMAIN q}
              /\ \A i, j \in DOMAIN r : r[i] = r[j] => i = j
<1> DEFINE r == Raised(q, k)
<1>1. DOMAIN q = 1..Len(q) /\ DOMAIN r = 1..Len(q) /\ Len(q) \in Nat
  BY RaisedFacts
<1>2. \A j \in 1..Len(q) : r[j] = IF j = 1 THEN q[k] ELSE IF j <= k THEN q[j - 1] ELSE q[j]
  BY RaisedFacts
<1> HIDE DEF r
<1>3. \A i, j \in 1..Len(q) : r[i] = r[j] => i = j
  BY <1>1, <1>2
<1>4. \A i \in 1..Len(q) : \E j \in 1..Len(q) : r[i] = q[j]
  BY <1>1, <1>2
<1>5. \A j \in 1..Len(q) : \E i \in 1..Len(q) : r[i] = q[j]
  <2> TAKE j \in 1..Len(q)
  <2>1. CASE j = k
    BY <1>2, <2>1, 1 \in 1..Len(q)
  <2>2. CASE j < k
    BY <1>2, <2>2, j + 1 \in 1..Len(q)
  <2>3. CASE j > k
    BY <1>2, <2>3
  <2>. QED
    BY <2>1, <2>2, <2>3
<1>6. {r[i] : i \in 1..Len(q)} = {q[i] : i \in 1..Len(q)}
  <2>1. ASSUME NEW x \in {r[i] : i \in 1..Len(q)} PROVE x \in {q[i] : i \in 1..Len(q)}
    <3>1. PICK i \in 1..Len(q) : x = r[i]
      BY <2>1
    <3>2. PICK j \in 1..Len(q) : r[i] = q[j]
      BY <1>4
    <3>. QED
      BY <3>1, <3>2
  <2>2. ASSUME NEW x \in {q[i] : i \in 1..Len(q)} PROVE x \in {r[i] : i \in 1..Len(q)}
    <3>1. PICK j \in 1..Len(q) : x = q[j]
      BY <2>2
    <3>2. PICK i \in 1..Len(q) : r[i] = q[j]
      BY <1>5
    <3>. QED
      BY <3>1, <3>2
  <2>. QED
    BY <2>1, <2>2
<1>7. /\ {r[i] : i \in DOMAIN r} = {q[i] : i \in DOMAIN q}
      /\ \A i, j \in DOMAIN r : r[i] = r[j] => i = j
  BY <1>1, <1>3, <1>6
<1>. QED
  BY <1>7 DEF r

Running == {current[w] : w \in InPc("running")}

LEMMA ExactlyOnceStep ==
    ASSUME TypeOK, RunningHasTask, ExactlyOnce, [Next]_vars
    PROVE  ExactlyOnce'
<1> USE DEF TypeOK, RunningHasTask, InPc, Queued
<1>1. ASSUME NEW w \in Workers, TakeTask(w) PROVE ExactlyOnce'
  <2>1. tasks' \in Seq(Tasks) /\ DOMAIN tasks = 1..Len(tasks)
        /\ DOMAIN tasks' = 1..(Len(tasks) - 1) /\ Len(tasks) \in Nat /\ Len(tasks) >= 1
        /\ \A i \in 1..(Len(tasks) - 1) : tasks'[i] = tasks[i + 1]
        /\ current'[w] = tasks[1]
    BY <1>1, PopFacts DEF TakeTask
  <2>2. Queued = Queued' \cup {tasks[1]} /\ tasks[1] \notin Queued'
    <3>1. \A i \in DOMAIN tasks : i # 1 => tasks[i] = tasks'[i - 1] /\ i - 1 \in DOMAIN tasks'
      BY <2>1
    <3>2. \A i \in DOMAIN tasks' : i + 1 \in DOMAIN tasks /\ i + 1 # 1 /\ tasks'[i] = tasks[i + 1]
      BY <2>1
    <3>3. 1 \in DOMAIN tasks
      BY <2>1
    <3>4. tasks[1] \notin Queued'
      BY <3>2, <3>3 DEF ExactlyOnce
    <3>5. \A x \in Queued : x \in Queued' \cup {tasks[1]}
      BY <2>1, <3>1
    <3>6. \A x \in Queued' \cup {tasks[1]} : x \in Queued
      BY <3>2, <3>3
    <3>. QED
      BY <3>4, <3>5, <3>6
  <2>3. \A i, j \in DOMAIN tasks' : tasks'[i] = tasks'[j] => i = j
    BY <2>1, SMTT(30) DEF ExactlyOnce
  <2>4. InPc("running")' = InPc("running") \cup {w} /\ w \notin InPc("running")
    BY <1>1 DEF TakeTask
  <2>5. \A v \in InPc("running") : current'[v] = current[v] /\ v # w
    BY <1>1 DEF TakeTask
  <2>6. tasks[1] \in Queued
    BY <2>1
  <2> HIDE DEF InPc, Queued
  <2>. QED
    BY <1>1, <2>1, <2>2, <2>3, <2>4, <2>5, <2>6 DEF TakeTask, ExactlyOnce
<1>2. ASSUME NEW w \in Workers, FinishTask(w) PROVE ExactlyOnce'
  <2>1. InPc("running") = InPc("running")' \cup {w} /\ w \notin InPc("running")'
    BY <1>2 DEF FinishTask
  <2>2. \A v \in InPc("running")' : current'[v] = current[v]
    BY <1>2 DEF FinishTask
  <2>3. Queued' = Queued
    BY <1>2 DEF FinishTask
  <2> HIDE DEF InPc, Queued
  <2>. QED
    BY <1>2, <2>1, <2>2, <2>3 DEF FinishTask, ExactlyOnce
<1>3. ASSUME NEW t \in Tasks, PushBack(t) PROVE ExactlyOnce'
  <2>1. DOMAIN tasks = 1..Len(tasks) /\ DOMAIN tasks' = 1..(Len(tasks) + 1)
        /\ Len(tasks) \in Nat /\ tasks'[Len(tasks) + 1] = t
        /\ \A i \in 1..Len(tasks) : tasks'[i] = tasks[i]
    BY <1>3, DequeFacts DEF PushBack, Enqueue
  <2>2. t \notin Queued
    BY <1>3 DEF PushBack, Enqueue, ExactlyOnce
  <2>3. Queued' = Queued \cup {t} /\ \A i, j \in DOMAIN tasks' : tasks'[i] = tasks'[j] => i = j
    BY <2>1, <2>2, SMTT(30) DEF ExactlyOnce
  <2>4. InPc("running")' = InPc("running")
    BY <1>3 DEF PushBack, Enqueue
  <2> HIDE DEF InPc, Queued
  <2>. QED
    BY <1>3, <2>3, <2>4 DEF PushBack, Enqueue, ExactlyOnce
<1>4. ASSUME NEW t \in Tasks, PushFront(t) PROVE ExactlyOnce'
  <2>1. DOMAIN tasks = 1..Len(tasks) /\ DOMAIN tasks' = 1..(Len(tasks) + 1)
        /\ Len(tasks) \in Nat /\ tasks'[1] = t
        /\ \A i \in 2..(Len(tasks) + 1) : tasks'[i] = tasks[i - 1]
    BY <1>4, DequeFacts DEF PushFront, Enqueue
  <2>2. t \notin Queued
    BY <1>4 DEF PushFront, Enqueue, ExactlyOnce
  <2>3. \A i, j \in DOMAIN tasks' : tasks'[i] = tasks'[j] => i = j
    BY <2>1, <2>2 DEF ExactlyOnce
  <2>4. Queued' = Queued \cup {t}
    <3>1. \A i \in DOMAIN tasks : i + 1 \in DOMAIN tasks' /\ tasks'[i + 1] = tasks[i]
      BY <2>1
    <3>2. \A i \in DOMAIN tasks' : i = 1 \/ (i - 1 \in DOMAIN tasks /\ tasks'[i] = tasks[i - 1])
      BY <2>1
    <3>3. 1 \in DOMAIN tasks'
      BY <2>1
    <3>4. \A x \in Queued \cup {t} : x \in Queued'
      BY <2>1, <3>1, <3>3
    <3>5. \A x \in Queued' : x \in Queued \cup {t}
      BY <2>1, <3>2
    <3>. QED
      BY <3>4, <3>5
  <2>5. InPc("running")' = InPc("running")
    BY <1>4 DEF PushFront, Enqueue
  <2> HIDE DEF InPc, Queued
  <2>. QED
    BY <1>4, <2>3, <2>4, <2>5 DEF PushFront, Enqueue, ExactlyOnce
<1>5. ASSUME NEW k \in 2..Len(tasks), RaiseTask(k) PROVE ExactlyOnce'
  <2>1. tasks' = Raised(tasks, k)
    BY <1>5 DEF RaiseTask, Raised
  <2>2. Queued' = Queued /\ \A i, j \in DOMAIN tasks' : tasks'[i] = tasks'[j] => i = j
    <3>1. \A i, j \in DOMAIN tasks : tasks[i] = tasks[j] => i = j
      BY DEF ExactlyOnce
    <3>2. tasks \in Seq(Tasks)
      OBVIOUS
    <3>3. LET r == Raised(tasks, k)
          IN /\ {r[i] : i \in DOMAIN r} = {tasks[i] : i \in DOMAIN tasks}
             /\ \A i, j \in DOMAIN r : r[i] = r[j] => i = j
      BY <3>1, <3>2, RaisedSet
    <3>. QED
      BY <2>1, <3>3
  <2>3. InPc("running")' = InPc("running")
    BY <1>5 DEF RaiseTask
  <2> HIDE DEF InPc, Queued
  <2>. QED
    BY <1>5, <2>2, <2>3 DEF RaiseTask, ExactlyOnce
<1>6. ASSUME InPc("running")' = InPc("running"),
             UNCHANGED <<tasks, current, accepted, done>>
      PROVE  ExactlyOnce'
  BY <1>6 DEF ExactlyOnce
<1>7. ASSUME NEW w \in Workers,
             ExitThread(w) \/ DecideToWait(w) \/ StartWaiting(w) \/ SpuriousWakeup(w)
      PROVE  ExactlyOnce'
  BY <1>6, <1>7 DEF ExitThread, DecideToWait, StartWaiting, SpuriousWakeup
<1>8. CASE NotifyOne \/ Destructor \/ UNCHANGED vars
  BY <1>6, <1>8 DEF NotifyOne, Destructor, StoreStop, NotifyAll, JoinAll, vars
<1>. QED
  BY <1>1, <1>2, <1>3, <1>4, <1>5, <1>7, <1>8 DEF Next, WorkerStep, Client

\* No closure is lost, doubled or run twice, for any number of threads and
\* any interleaving of pushes, raises and the destructor.
THEOREM AcceptedExactlyOnce == Spec => []ExactlyOnce
<1>1. Init => ExactlyOnce
  BY DEF Init, ExactlyOnce, Queued, InPc
<1>. QED
  BY <1>1, ExactlyOnceStep, TypeCorrect, PTL DEF Spec

-----------------------------------------------------------------------------
(* The destructor drains the queue. *)

\* stop_ is set once the destructor was entered, a thread only ends on an
\* empty queue that stop_ closed, and the join waits for every thread.
ExitDiscipline ==
    /\ stop <=> life # "alive"
    /\ \A w \in Workers : pc[w] = "exited" => stop /\ tasks = <<>>
    /\ life = "destroyed" => \A w \in Workers : pc[w] = "exited"

LEMMA ExitDisciplineStep ==
    ASSUME TypeOK, ExitDiscipline, [Next]_vars
    PROVE  ExitDiscipline'
<1> USE DEF TypeOK, ExitDiscipline
<1>1. ASSUME NEW w \in Workers, WorkerStep(w) \/ SpuriousWakeup(w) PROVE ExitDiscipline'
  <2>1. CASE TakeTask(w)
    BY <2>1 DEF TakeTask
  <2>2. CASE FinishTask(w)
    BY <2>2 DEF FinishTask
  <2>3. CASE ExitThread(w)
    BY <2>3 DEF ExitThread
  <2>4. CASE DecideToWait(w) \/ StartWaiting(w) \/ SpuriousWakeup(w)
    BY <2>4 DEF DecideToWait, StartWaiting, SpuriousWakeup
  <2>. QED
    BY <1>1, <2>1, <2>2, <2>3, <2>4 DEF WorkerStep
<1>2. ASSUME NEW t \in Tasks, PushBack(t) \/ PushFront(t) PROVE ExitDiscipline'
  BY <1>2, WorkersAssumption DEF PushBack, PushFront, Enqueue
<1>3. ASSUME NEW k \in 2..Len(tasks), RaiseTask(k) PROVE ExitDiscipline'
  <2>1. tasks # <<>>
    BY <1>3
  <2>. QED
    BY <1>3, <2>1 DEF RaiseTask
<1>4. CASE NotifyOne
  BY <1>4 DEF NotifyOne, InPc
<1>5. CASE Destructor
  BY <1>5, WorkersAssumption DEF Destructor, StoreStop, NotifyAll, JoinAll, InPc
<1>6. CASE UNCHANGED vars
  BY <1>6 DEF vars
<1>. QED
  BY <1>1, <1>2, <1>3, <1>4, <1>5, <1>6 DEF Next, Client

\* When ~threadpool has joined its threads, every closure whose push returned
\* true was executed.
THEOREM DestructorDrains == Spec => []DrainedWhenDestroyed
<1>1. Init => ExitDiscipline
  BY DEF Init, ExitDiscipline
<1>2. TypeOK /\ ExactlyOnce /\ ExitDiscipline => DrainedWhenDestroyed
  <2> SUFFICES ASSUME TypeOK, ExactlyOnce, ExitDiscipline, life = "destroyed"
               PROVE  done = accepted
    BY DEF DrainedWhenDestroyed
  <2>1. InPc("running") = {} /\ tasks = <<>>
    BY WorkersAssumption DEF ExitDiscipline, InPc
  <2>2. Queued = {}
    BY <2>1 DEF Queued
  <2>. QED
    BY <2>1, <2>2 DEF ExactlyOnce
<1>. QED
  BY <1>1, <1>2, ExitDisciplineStep, AcceptedExactlyOnce, TypeCorrect, PTL DEF Spec

-----------------------------------------------------------------------------
(* No wake-up of a push is lost. *)

\* The mutex is what makes it true: while a worker is between finding the
\* queue empty and blocking, nobody else can enqueue.
BlockingMeansEmpty == InPc("blocking") # {} => tasks = <<>>

Awake == Cardinality(InPc("outside"))

LEMMA WorkersFinite ==
    ASSUME TypeOK
    PROVE  IsFiniteSet(InPc("outside")) /\ Awake \in Nat
  BY WorkersAssumption, FS_Subset, FS_CardinalityType DEF InPc, Awake

LEMMA BlockingStep ==
    ASSUME TypeOK, BlockingMeansEmpty, [Next]_vars
    PROVE  BlockingMeansEmpty'
<1> USE DEF TypeOK, BlockingMeansEmpty, InPc
<1>1. ASSUME NEW w \in Workers, WorkerStep(w) \/ SpuriousWakeup(w) PROVE BlockingMeansEmpty'
  <2>1. CASE TakeTask(w)
    BY <2>1 DEF TakeTask, MutexFree
  <2>2. CASE FinishTask(w) \/ ExitThread(w) \/ DecideToWait(w) \/ StartWaiting(w) \/ SpuriousWakeup(w)
    BY <2>2 DEF FinishTask, ExitThread, DecideToWait, StartWaiting, SpuriousWakeup
  <2>. QED
    BY <1>1, <2>1, <2>2 DEF WorkerStep
<1>2. CASE Client
  BY <1>2 DEF Client, PushBack, PushFront, Enqueue, RaiseTask, MutexFree
<1>3. CASE NotifyOne \/ Destructor \/ UNCHANGED vars
  BY <1>3 DEF NotifyOne, Destructor, StoreStop, NotifyAll, JoinAll, vars
<1>. QED
  BY <1>1, <1>2, <1>3 DEF Next

LEMMA WorkConservingStep ==
    ASSUME TypeOK, BlockingMeansEmpty, WorkConserving, [Next]_vars
    PROVE  WorkConserving'
<1>0. /\ IsFiniteSet(InPc("outside")) /\ Awake \in Nat
      /\ tasks \in Seq(Tasks) /\ Len(tasks) \in Nat /\ owed \in Nat
      /\ WorkConserving <=> (InPc("waiting") # {} => Len(tasks) <= Awake + owed)
      /\ WorkConserving' <=> (InPc("waiting")' # {} => Len(tasks)' <= Awake' + owed')
  BY WorkersFinite DEF TypeOK, WorkConserving, Awake
<1>1. ASSUME NEW w \in Workers, TakeTask(w) PROVE WorkConserving'
  <2>1. InPc("outside")' = InPc("outside") \ {w} /\ w \in InPc("outside")
        /\ InPc("waiting")' = InPc("waiting")
    BY <1>1 DEF TakeTask, InPc, TypeOK
  <2>2. Awake' = Awake - 1
    BY <1>0, <2>1, FS_RemoveElement DEF Awake
  <2>3. Len(tasks)' = Len(tasks) - 1 /\ owed' = owed
    BY <1>0, <1>1, PopFacts DEF TakeTask
  <2>. QED
    BY <1>0, <2>1, <2>2, <2>3
<1>2. ASSUME NEW w \in Workers, FinishTask(w) \/ SpuriousWakeup(w) PROVE WorkConserving'
  <2>1. InPc("outside")' = InPc("outside") \cup {w} /\ w \notin InPc("outside")
        /\ InPc("waiting")' \subseteq InPc("waiting")
    BY <1>2 DEF FinishTask, SpuriousWakeup, InPc, TypeOK
  <2>2. Awake' = Awake + 1
    BY <1>0, <2>1, FS_AddElement DEF Awake
  <2>3. Len(tasks)' = Len(tasks) /\ owed' = owed
    BY <1>2 DEF FinishTask, SpuriousWakeup
  <2>. QED
    BY <1>0, <2>1, <2>2, <2>3
<1>3. ASSUME NEW w \in Workers, ExitThread(w) \/ DecideToWait(w) \/ StartWaiting(w)
      PROVE  WorkConserving'
  <2>1. tasks = <<>> /\ tasks' = tasks
    BY <1>3 DEF ExitThread, DecideToWait, StartWaiting, BlockingMeansEmpty, InPc
  <2>2. Awake' \in Nat /\ owed' \in Nat
    <3>1. TypeOK'
      <4>1. pc' \in [Workers -> {"outside", "blocking", "waiting", "running", "exited"}]
        BY <1>3 DEF ExitThread, DecideToWait, StartWaiting, TypeOK
      <4>. QED
        BY <1>3, <4>1 DEF ExitThread, DecideToWait, StartWaiting, TypeOK
    <3>2. IsFiniteSet(InPc("outside")')
      BY WorkersAssumption, FS_Subset DEF InPc
    <3>. QED
      BY <3>1, <3>2, FS_CardinalityType DEF Awake, TypeOK
  <2>3. Len(tasks)' = 0
    BY <2>1
  <2>4. \A a, b \in Nat : 0 <= a + b
    OBVIOUS
  <2>5. 0 <= Awake' + owed'
    BY <2>2, <2>4
  <2>. QED
    BY <1>0, <2>3, <2>5
<1>4. ASSUME NEW t \in Tasks, PushBack(t) \/ PushFront(t) PROVE WorkConserving'
  <2>1. Len(tasks)' = Len(tasks) + 1 /\ owed' = owed + 1 /\ pc' = pc
    BY <1>0, <1>4, DequeFacts DEF PushBack, PushFront, Enqueue
  <2>2. Awake' = Awake /\ InPc("waiting")' = InPc("waiting")
    BY <2>1 DEF Awake, InPc
  <2>. QED
    BY <1>0, <2>1, <2>2
<1>5. ASSUME NEW k \in 2..Len(tasks), RaiseTask(k) PROVE WorkConserving'
  <2>1. Len(tasks)' = Len(tasks) /\ owed' = owed /\ pc' = pc
    BY <1>0, <1>5, RaisedFacts DEF RaiseTask, Raised
  <2>. QED
    BY <1>0, <2>1 DEF Awake, InPc
<1>6. CASE NotifyOne
  <2>0. tasks' = tasks /\ owed' = owed - 1
    BY <1>6 DEF NotifyOne
  <2>1. CASE InPc("waiting") = {} /\ UNCHANGED pc
    BY <1>0, <2>1 DEF InPc
  <2>2. ASSUME NEW w \in InPc("waiting"), pc' = [pc EXCEPT ![w] = "outside"]
        PROVE  WorkConserving'
    <3>1. InPc("outside")' = InPc("outside") \cup {w} /\ w \notin InPc("outside")
      BY <2>2 DEF InPc, TypeOK
    <3>2. Awake' = Awake + 1
      BY <1>0, <3>1, FS_AddElement DEF Awake
    <3>3. Len(tasks) <= Awake + owed
      BY <1>0, <2>2
    <3>4. Len(tasks)' <= Awake' + owed'
      BY <1>0, <2>0, <3>2, <3>3
    <3>. QED
      BY <1>0, <3>4
  <2>. QED
    BY <1>6, <2>1, <2>2 DEF NotifyOne
<1>7. CASE NotifyAll
  <2>1. InPc("waiting")' = {}
    BY <1>7 DEF NotifyAll, InPc
  <2>. QED
    BY <1>0, <2>1
<1>8. CASE StoreStop \/ JoinAll \/ UNCHANGED vars
  BY <1>0, <1>8 DEF StoreStop, JoinAll, vars, Awake, InPc
<1>. QED
  BY <1>1, <1>2, <1>3, <1>4, <1>5, <1>6, <1>7, <1>8 DEF Next, WorkerStep, Client, Destructor

\* A worker sleeps only while every queued closure has an awake worker or a
\* pending notify_one: pushes wake enough threads although they notify after
\* unlocking.
THEOREM NoPushWakeupLost == Spec => []WorkConserving
<1>1. Init => BlockingMeansEmpty /\ WorkConserving
  BY DEF Init, BlockingMeansEmpty, WorkConserving, InPc
<1>. QED
  BY <1>1, BlockingStep, WorkConservingStep, TypeCorrect, PTL DEF Spec

=============================================================================
