--------------------------- MODULE CurlMultiProofs --------------------------
(***************************************************************************)
(* Theorems about the handler of the one-domain mode, for every set of     *)
(* requests, their priorities and every limit of handles.                  *)
(***************************************************************************)
EXTENDS CurlMulti, WellFoundedInduction, TLAPS

Elements(s) == {s[i] : i \in DOMAIN s}
Distinct(s) == \A i, j \in DOMAIN s : s[i] = s[j] => i = j
Sorted(s) == \A i, j \in DOMAIN s : i < j => Priority(s[i]) <= Priority(s[j])

-----------------------------------------------------------------------------
(* Lemmas about the queue. *)

LEMMA LeastElement ==
    ASSUME NEW S, S \subseteq Nat, S # {}
    PROVE  \E m \in S : \A n \in S : m <= n
<1>1. PICK m \in S : \A n \in S : ~(<<n, m>> \in OpToRel(<, Nat))
  BY NatLessThanWellFounded, WFMin
<1>2. \A n \in S : ~(n < m)
  BY <1>1 DEF OpToRel
<1>. QED
  BY <1>2

\* The loop of add_task_to_queue finds a place.
LEMMA PlaceFacts ==
    ASSUME NEW s \in Seq(Tasks), NEW t \in Tasks
    PROVE  /\ Place(s, t) \in 1..(Len(s) + 1)
           /\ \A i \in 1..(Place(s, t) - 1) : Priority(s[i]) <= Priority(t)
           /\ Place(s, t) <= Len(s) => Priority(t) < Priority(s[Place(s, t)])
<1> DEFINE Lower == {k \in 1..(Len(s) + 1) : k <= Len(s) => Priority(t) < Priority(s[k])}
<1>1. Len(s) \in Nat /\ Len(s) + 1 \in Lower /\ Lower \subseteq Nat
  OBVIOUS
<1>2. PICK k \in Lower : \A n \in Lower : k <= n
  BY <1>1, LeastElement
<1>3. ASSUME NEW i \in 1..(k - 1) PROVE Priority(s[i]) <= Priority(t)
  <2>1. i \in 1..Len(s) /\ i \notin Lower
    BY <1>1, <1>2
  <2>2. s[i] \in Tasks /\ ~(Priority(t) < Priority(s[i]))
    BY <1>1, <2>1
  <2>. QED
    BY <2>2, PriorityAssumption
<1>4. \E n \in 1..(Len(s) + 1) :
          /\ \A i \in 1..(n - 1) : Priority(s[i]) <= Priority(t)
          /\ n <= Len(s) => Priority(t) < Priority(s[n])
  BY <1>2, <1>3
<1>. QED
  BY <1>4 DEF Place

LEMMA InsertFacts ==
    ASSUME NEW s \in Seq(Tasks), NEW t \in Tasks
    PROVE  /\ Insert(s, t) \in Seq(Tasks)
           /\ Elements(Insert(s, t)) = Elements(s) \cup {t}
           /\ Distinct(s) /\ t \notin Elements(s) => Distinct(Insert(s, t))
           /\ Sorted(s) => Sorted(Insert(s, t))
<1> DEFINE k == Place(s, t)
           r == Insert(s, t)
           n == Len(s)
<1>1. /\ k \in 1..(n + 1)
      /\ \A i \in 1..(k - 1) : Priority(s[i]) <= Priority(t)
      /\ k <= n => Priority(t) < Priority(s[k])
  BY PlaceFacts
<1>2. /\ n \in Nat /\ DOMAIN s = 1..n /\ \A i \in 1..n : s[i] \in Tasks
      /\ r = [i \in 1..(n + 1) |-> IF i < k THEN s[i] ELSE IF i = k THEN t ELSE s[i - 1]]
  BY DEF Insert
<1> HIDE DEF k, r, n
<1>3. /\ DOMAIN r = 1..(n + 1)
      /\ \A i \in 1..(n + 1) : /\ i < k => i \in 1..n /\ r[i] = s[i]
                               /\ i = k => r[i] = t
                               /\ i > k => i - 1 \in 1..n /\ r[i] = s[i - 1]
  BY <1>1, <1>2
<1>4. r \in Seq(Tasks)
  <2>1. \A i \in 1..(n + 1) : r[i] \in Tasks
    BY <1>1, <1>2, <1>3
  <2>2. r \in [1..(n + 1) -> Tasks]
    BY <1>2, <2>1
  <2>. QED
    BY <1>2, <2>2
<1>5. ASSUME NEW x PROVE x \in Elements(r) <=> x \in Elements(s) \cup {t}
  <2>1. ASSUME x \in Elements(r) PROVE x \in Elements(s) \cup {t}
    <3>1. PICK i \in 1..(n + 1) : x = r[i]
      BY <1>3, <2>1 DEF Elements
    <3>. QED
      BY <1>1, <1>2, <1>3, <3>1 DEF Elements
  <2>2. t \in Elements(r)
    BY <1>1, <1>3 DEF Elements
  <2>3. ASSUME x \in Elements(s) PROVE x \in Elements(r)
    <3>1. PICK i \in 1..n : x = s[i]
      BY <1>2, <2>3 DEF Elements
    <3>2. CASE i < k
      <4>1. i \in 1..(n + 1) /\ r[i] = x
        BY <1>2, <1>3, <3>1, <3>2
      <4>. QED
        BY <1>3, <4>1 DEF Elements
    <3>3. CASE ~(i < k)
      <4>1. i + 1 \in 1..(n + 1) /\ i + 1 > k /\ (i + 1) - 1 = i
        BY <1>1, <1>2, <3>3
      <4>2. r[i + 1] = x
        BY <1>3, <3>1, <4>1
      <4>. QED
        BY <1>3, <4>1, <4>2 DEF Elements
    <3>. QED
      BY <3>2, <3>3
  <2>. QED
    BY <2>1, <2>2, <2>3
<1>6. ASSUME Distinct(s), t \notin Elements(s) PROVE Distinct(r)
  <2>1. \A i, j \in 1..n : s[i] = s[j] => i = j
    BY <1>2, <1>6 DEF Distinct
  <2>2. \A i \in 1..n : s[i] # t
    BY <1>2, <1>6 DEF Elements
  <2>3. ASSUME NEW i \in 1..(n + 1), NEW j \in 1..(n + 1), r[i] = r[j], i < j PROVE FALSE
    <3>1. CASE j < k
      BY <1>1, <1>2, <1>3, <2>1, <2>3, <3>1
    <3>2. CASE j = k
      BY <1>1, <1>2, <1>3, <2>2, <2>3, <3>2
    <3>3. CASE j > k /\ i < k
      <4>1. i \in 1..n /\ j - 1 \in 1..n /\ s[i] = s[j - 1] /\ i # j - 1
        BY <1>1, <1>2, <1>3, <2>3, <3>3
      <4>. QED
        BY <2>1, <4>1
    <3>4. CASE j > k /\ i = k
      BY <1>3, <2>2, <2>3, <3>4
    <3>5. CASE i > k
      <4>1. i - 1 \in 1..n /\ j - 1 \in 1..n /\ s[i - 1] = s[j - 1] /\ i - 1 # j - 1
        BY <1>1, <1>2, <1>3, <2>3, <3>5
      <4>. QED
        BY <2>1, <4>1
    <3>. QED
      BY <1>1, <2>3, <3>1, <3>2, <3>3, <3>4, <3>5
  <2>4. \A i, j \in 1..(n + 1) : r[i] = r[j] => i = j
    BY <1>2, <2>3
  <2>. QED
    BY <1>3, <2>4 DEF Distinct
<1>7. ASSUME Sorted(s) PROVE Sorted(r)
  <2>1. \A i, j \in 1..n : i < j => Priority(s[i]) <= Priority(s[j])
    BY <1>2, <1>7 DEF Sorted
  <2>2. \A i \in 1..n : Priority(s[i]) \in Nat
    BY <1>2, PriorityAssumption
  <2>3. Priority(t) \in Nat
    BY PriorityAssumption
  <2>4. \A i \in 1..n : i >= k => Priority(t) <= Priority(s[i])
    BY <1>1, <1>2, <2>1, <2>2, <2>3
  <2>5. \A i \in 1..n : i < k => Priority(s[i]) <= Priority(t)
    BY <1>1, <1>2
  <2>6. ASSUME NEW i \in 1..(n + 1), NEW j \in 1..(n + 1), i < j
        PROVE  Priority(r[i]) <= Priority(r[j])
    <3>1. CASE j < k
      BY <1>1, <1>2, <1>3, <2>1, <2>6, <3>1
    <3>2. CASE j = k
      BY <1>1, <1>2, <1>3, <2>5, <2>6, <3>2
    <3>3. CASE j > k /\ i < k
      <4>1. i \in 1..n /\ j - 1 \in 1..n /\ i < j - 1 /\ r[i] = s[i] /\ r[j] = s[j - 1]
        BY <1>1, <1>2, <1>3, <2>6, <3>3
      <4>. QED
        BY <2>1, <4>1
    <3>4. CASE j > k /\ i = k
      <4>1. j - 1 \in 1..n /\ j - 1 >= k /\ r[i] = t /\ r[j] = s[j - 1]
        BY <1>1, <1>2, <1>3, <2>6, <3>4
      <4>. QED
        BY <2>4, <4>1
    <3>5. CASE i > k
      <4>1. /\ i - 1 \in 1..n /\ j - 1 \in 1..n /\ i - 1 < j - 1
            /\ r[i] = s[i - 1] /\ r[j] = s[j - 1]
        BY <1>1, <1>2, <1>3, <2>6, <3>5
      <4>. QED
        BY <2>1, <4>1
    <3>. QED
      BY <1>1, <2>6, <3>1, <3>2, <3>3, <3>4, <3>5
  <2>. QED
    BY <1>3, <2>6 DEF Sorted
<1>. QED
  BY <1>4, <1>5, <1>6, <1>7 DEF r

LEMMA ErasedFacts ==
    ASSUME NEW s \in Seq(Tasks), NEW k \in DOMAIN s
    PROVE  /\ Erased(s, k) \in Seq(Tasks)
           /\ Elements(s) = Elements(Erased(s, k)) \cup {s[k]}
           /\ Distinct(s) => Distinct(Erased(s, k)) /\ s[k] \notin Elements(Erased(s, k))
           /\ Sorted(s) => Sorted(Erased(s, k))
<1> DEFINE r == Erased(s, k)
           n == Len(s)
<1>1. /\ n \in Nat /\ DOMAIN s = 1..n /\ k \in 1..n /\ \A i \in 1..n : s[i] \in Tasks
      /\ r = [i \in 1..(n - 1) |-> IF i < k THEN s[i] ELSE s[i + 1]]
  BY DEF Erased
<1> HIDE DEF r, n
<1>2. /\ n - 1 \in Nat /\ DOMAIN r = 1..(n - 1)
      /\ \A i \in 1..(n - 1) : /\ i \in 1..n /\ i + 1 \in 1..n
                               /\ i < k => r[i] = s[i]
                               /\ ~(i < k) => r[i] = s[i + 1]
  BY <1>1
<1>3. r \in Seq(Tasks)
  <2>1. \A i \in 1..(n - 1) : r[i] \in Tasks
    BY <1>1, <1>2
  <2>2. r \in [1..(n - 1) -> Tasks]
    BY <1>1, <2>1
  <2>. QED
    BY <1>2, <2>2, SMTT(30)
<1>4. ASSUME NEW x PROVE x \in Elements(s) <=> x \in Elements(r) \cup {s[k]}
  <2>1. ASSUME x \in Elements(r) PROVE x \in Elements(s)
    BY <1>1, <1>2, <2>1 DEF Elements
  <2>2. s[k] \in Elements(s)
    BY <1>1 DEF Elements
  <2>3. ASSUME x \in Elements(s), x # s[k] PROVE x \in Elements(r)
    <3>1. PICK i \in 1..n : x = s[i] /\ i # k
      BY <1>1, <2>3 DEF Elements
    <3>2. CASE i < k
      <4>1. i \in 1..(n - 1) /\ r[i] = x
        BY <1>1, <1>2, <3>1, <3>2
      <4>. QED
        BY <1>2, <4>1 DEF Elements
    <3>3. CASE i > k
      <4>1. i - 1 \in 1..(n - 1) /\ ~(i - 1 < k) /\ (i - 1) + 1 = i
        BY <1>1, <3>1, <3>3
      <4>2. r[i - 1] = x
        BY <1>2, <3>1, <4>1
      <4>. QED
        BY <1>2, <4>1, <4>2 DEF Elements
    <3>. QED
      BY <1>1, <3>1, <3>2, <3>3
  <2>. QED
    BY <2>1, <2>2, <2>3
<1>5. ASSUME Distinct(s) PROVE Distinct(r) /\ s[k] \notin Elements(r)
  <2>1. \A i, j \in 1..n : s[i] = s[j] => i = j
    BY <1>1, <1>5 DEF Distinct
  <2>2. \A i, j \in 1..(n - 1) : r[i] = r[j] => i = j
    BY <1>1, <1>2, <2>1
  <2>3. \A i \in 1..(n - 1) : r[i] # s[k]
    BY <1>1, <1>2, <2>1
  <2>. QED
    BY <1>2, <2>2, <2>3 DEF Distinct, Elements
<1>6. ASSUME Sorted(s) PROVE Sorted(r)
  <2>1. \A i, j \in 1..n : i < j => Priority(s[i]) <= Priority(s[j])
    BY <1>1, <1>6 DEF Sorted
  <2>2. \A i, j \in 1..(n - 1) : i < j => Priority(r[i]) <= Priority(r[j])
    BY <1>1, <1>2, <2>1
  <2>. QED
    BY <1>2, <2>2 DEF Sorted
<1>. QED
  BY <1>3, <1>4, <1>5, <1>6 DEF r

LEMMA PopFacts ==
    ASSUME NEW s \in Seq(Tasks), s # <<>>
    PROVE  /\ Head(s) \in Tasks /\ Tail(s) \in Seq(Tasks)
           /\ Elements(s) = Elements(Tail(s)) \cup {Head(s)}
           /\ Distinct(s) => Distinct(Tail(s)) /\ Head(s) \notin Elements(Tail(s))
           /\ Sorted(s) => Sorted(Tail(s))
                           /\ \A u \in Elements(s) : Priority(Head(s)) <= Priority(u)
<1>1. Len(s) \in Nat /\ DOMAIN s = 1..Len(s) /\ 1 \in DOMAIN s /\ Head(s) = s[1]
  OBVIOUS
<1>2. Tail(s) = Erased(s, 1)
  <2> DEFINE r == Tail(s)
             e == Erased(s, 1)
  <2>1. r \in Seq(Tasks) /\ Len(r) = Len(s) - 1 /\ \A i \in 1..(Len(s) - 1) : r[i] = s[i + 1]
    OBVIOUS
  <2>2. e = [i \in 1..(Len(s) - 1) |-> s[i + 1]]
    BY <1>1 DEF Erased
  <2>3. e \in [1..(Len(s) - 1) -> Tasks] /\ \A i \in 1..(Len(s) - 1) : e[i] = s[i + 1]
    BY <1>1, <2>2
  <2> HIDE DEF r, e
  <2>4. r \in [1..(Len(s) - 1) -> Tasks]
    BY <2>1
  <2>5. r = e
    BY <2>1, <2>3, <2>4
  <2>. QED
    BY <2>5 DEF r, e
<1>3. ASSUME Sorted(s), NEW u \in Elements(s) PROVE Priority(s[1]) <= Priority(u)
  <2>1. PICK i \in 1..Len(s) : u = s[i]
    BY <1>1 DEF Elements
  <2>2. CASE i = 1
    <3>1. s[1] \in Tasks
      BY <1>1
    <3>. QED
      BY <2>1, <2>2, <3>1, PriorityAssumption
  <2>3. CASE i # 1
    BY <1>1, <1>3, <2>1, <2>3 DEF Sorted
  <2>. QED
    BY <2>2, <2>3
<1>4. /\ Erased(s, 1) \in Seq(Tasks)
      /\ Elements(s) = Elements(Erased(s, 1)) \cup {s[1]}
      /\ Distinct(s) => Distinct(Erased(s, 1)) /\ s[1] \notin Elements(Erased(s, 1))
      /\ Sorted(s) => Sorted(Erased(s, 1))
  BY <1>1, ErasedFacts
<1>5. ASSUME Sorted(s) PROVE \A u \in Elements(s) : Priority(s[1]) <= Priority(u)
  BY <1>3, <1>5
<1>6. Head(s) = s[1] /\ s[1] \in Tasks
  BY <1>1
<1>. QED
  BY <1>2, <1>4, <1>5, <1>6, Zenon

-----------------------------------------------------------------------------

Handlers == {"add", "cancel", "stopped"}

LEMMA InitType == Init => TypeOK
<1> SUFFICES ASSUME Init PROVE TypeOK
  OBVIOUS
<1>1. answers \in [Tasks -> Nat]
  BY DEF Init
<1>3. queue \in Seq(Tasks) /\ posted \in Seq({"add", "cancel", "stopped"})
  BY DEF Init
<1>2. controls \in 0..MaxControls
  BY LimitsAssumption DEF Init
<1>4. \A s \in {calling, stopped, asked, unlucky, late} : s \subseteq Tasks
  BY DEF Init
<1>. QED
  BY <1>1, <1>2, <1>3, <1>4 DEF Init, TypeOK

\* What a completion does to the count of answers.
LEMMA CompletedFacts ==
    ASSUME answers \in [Tasks -> Nat], NEW ts, answers' = Completed(ts)
    PROVE  /\ answers' \in [Tasks -> Nat]
           /\ \A t \in Tasks : answers'[t] = IF t \in ts THEN answers[t] + 1 ELSE answers[t]
  BY DEF Completed

\* The handler that is run is the first one posted.
LEMMA HandlerFacts ==
    ASSUME posted \in Seq(Handlers), NEW h, RunHandler(h)
    PROVE  /\ pc = "run" /\ posted' \in Seq(Handlers)
           /\ Elements(posted) = Elements(posted') \cup {h}
<1>1. /\ Len(posted) \in Nat /\ Len(posted) > 0 /\ DOMAIN posted = 1..Len(posted)
      /\ Len(posted') = Len(posted) - 1 /\ DOMAIN posted' = 1..(Len(posted) - 1)
      /\ \A i \in 1..(Len(posted) - 1) : posted'[i] = posted[i + 1]
      /\ h = posted[1] /\ pc = "run" /\ posted' \in Seq(Handlers)
  BY DEF RunHandler
<1>2. ASSUME NEW x PROVE x \in Elements(posted) <=> x \in Elements(posted') \cup {h}
  <2>1. ASSUME x \in Elements(posted') PROVE x \in Elements(posted)
    <3>1. PICK i \in 1..(Len(posted) - 1) : x = posted'[i]
      BY <1>1, <2>1 DEF Elements
    <3>2. i + 1 \in 1..Len(posted) /\ x = posted[i + 1]
      BY <1>1, <3>1
    <3>. QED
      BY <1>1, <3>2 DEF Elements
  <2>2. h \in Elements(posted)
    BY <1>1 DEF Elements
  <2>3. ASSUME x \in Elements(posted), x # h PROVE x \in Elements(posted')
    <3>1. PICK i \in 1..Len(posted) : x = posted[i] /\ i # 1
      BY <1>1, <2>3 DEF Elements
    <3>2. i - 1 \in 1..(Len(posted) - 1) /\ (i - 1) + 1 = i
      BY <1>1, <3>1
    <3>3. posted'[i - 1] = x
      BY <1>1, <3>1, <3>2
    <3>. QED
      BY <1>1, <3>2, <3>3 DEF Elements
  <2>. QED
    BY <2>1, <2>2, <2>3
<1>. QED
  BY <1>1, <1>2

LEMMA PostedFacts ==
    ASSUME posted \in Seq(Handlers), NEW h \in Handlers, posted' = Append(posted, h)
    PROVE  /\ posted' \in Seq(Handlers)
           /\ Elements(posted') = Elements(posted) \cup {h}
<1>1. /\ posted' \in Seq(Handlers)
      /\ Len(posted) \in Nat /\ DOMAIN posted = 1..Len(posted)
      /\ DOMAIN posted' = 1..(Len(posted) + 1)
      /\ \A i \in 1..Len(posted) : posted'[i] = posted[i]
      /\ posted'[Len(posted) + 1] = h
  OBVIOUS
<1>. QED
  BY <1>1 DEF Elements

\* The task that add_task is about to execute is in the map.
Started == pc = "starting" => starting \in tasks

LEMMA NextType == TypeOK /\ Started /\ [Next]_vars => TypeOK'
<1> SUFFICES ASSUME TypeOK, Started, [Next]_vars PROVE TypeOK'
  OBVIOUS
<1>0. /\ queue \in Seq(Tasks) /\ tasks \subseteq Tasks /\ running \subseteq tasks
      /\ posted \in Seq(Handlers) /\ answers \in [Tasks -> Nat]
  BY DEF TypeOK, Handlers
<1>1. ASSUME NEW t \in Tasks, Perform(t) PROVE TypeOK'
  <2>1. answers' \in [Tasks -> Nat]
    BY <1>0, <1>1, CompletedFacts DEF Perform
  <2>. QED
    BY <1>1, <2>1 DEF Perform, TypeOK, service, control
<1>2. ASSUME NEW t \in Tasks, AddTaskToQueue(t) PROVE TypeOK'
  <2>1. queue' \in Seq(Tasks) /\ posted' \in Seq(Handlers)
    BY <1>0, <1>2, InsertFacts, PostedFacts DEF AddTaskToQueue, Handlers
  <2>2. /\ calling' \subseteq Tasks /\ late' \subseteq Tasks
        /\ pc' \in {"run", "adding", "starting", "toWait", "waiting", "left"}
    BY <1>2 DEF AddTaskToQueue, TypeOK, Notified
  <2>3. UNCHANGED <<tasks, running, starting, asked, control, answers, unlucky>>
    BY <1>2 DEF AddTaskToQueue
  <2>. QED
    BY <2>1, <2>2, <2>3 DEF TypeOK, Handlers, control
<1>3. ASSUME NEW k \in DOMAIN queue, RaiseTask(k) PROVE TypeOK'
  <2>1. queue' \in Seq(Tasks)
    <3>1. Erased(queue, k) \in Seq(Tasks) /\ queue[k] \in Tasks
      BY <1>0, <1>3, ErasedFacts
    <3>. QED
      BY <1>3, <3>1, InsertFacts DEF RaiseTask
  <2>. QED
    BY <1>3, <2>1 DEF RaiseTask, TypeOK, service, client, control
<1>4. ASSUME NEW t \in Tasks, FinishMulti(t) PROVE TypeOK'
  <2>1. answers' \in [Tasks -> Nat]
    BY <1>0, <1>4, CompletedFacts DEF FinishMulti
  <2>. QED
    BY <1>4, <2>1 DEF FinishMulti, TypeOK, client, control
<1>5. CASE BeginAddTask
  <2>1. posted' \in Seq(Handlers)
    BY <1>0, <1>5, HandlerFacts DEF BeginAddTask
  <2>. QED
    BY <1>5, <2>1 DEF BeginAddTask, TypeOK, Handlers, client, control
<1>6. CASE InitHandler
  <2>1. Head(queue) \in Tasks /\ queue' \in Seq(Tasks)
    BY <1>0, <1>6, PopFacts DEF InitHandler, HasRoom
  <2>2. answers' \in [Tasks -> Nat]
    BY <1>0, <1>6, CompletedFacts DEF InitHandler
  <2>3. /\ tasks' \subseteq Tasks /\ tasks \subseteq tasks' /\ starting' \in Tasks \cup {NoTask}
        /\ pc' \in {"run", "adding", "starting", "toWait", "waiting", "left"}
    BY <1>6, <2>1 DEF InitHandler, TypeOK
  <2>4. UNCHANGED <<running, posted, client, control, unlucky>>
    BY <1>6 DEF InitHandler
  <2>. QED
    BY <2>1, <2>2, <2>3, <2>4 DEF TypeOK, client, control
<1>7. CASE ExecuteMulti
  <2>1. starting \in tasks
    BY <1>7 DEF ExecuteMulti, Started
  <2>2. answers' \in [Tasks -> Nat]
    BY <1>0, <1>7, CompletedFacts DEF ExecuteMulti
  <2>3. /\ running' \subseteq tasks /\ unlucky' \subseteq Tasks
        /\ starting' = NoTask /\ pc' = "adding"
    BY <1>0, <1>7, <2>1 DEF ExecuteMulti, TypeOK
  <2>4. UNCHANGED <<queue, tasks, posted, client, control>>
    BY <1>7 DEF ExecuteMulti
  <2>. QED
    BY <2>2, <2>3, <2>4 DEF TypeOK, client, control
<1>8. CASE EndAddTask
  BY <1>8 DEF EndAddTask, TypeOK, client, control
<1>9. CASE CancelTasks \/ CancelStopped
  <2>1. posted' \in Seq(Handlers)
    BY <1>0, <1>9, HandlerFacts DEF CancelTasks, CancelStopped
  <2>2. answers' \in [Tasks -> Nat]
    BY <1>0, <1>9, CompletedFacts DEF CancelTasks, CancelStopped
  <2>3. queue' \in Seq(Tasks)
    <3>1. queue' = <<>> \/ queue' = queue
      BY <1>9 DEF CancelTasks, CancelStopped
    <3>2. <<>> \in Seq(Tasks)
      OBVIOUS
    <3>. QED
      BY <1>0, <3>1, <3>2
  <2>4. /\ tasks' \subseteq Tasks /\ running' \subseteq tasks'
        /\ UNCHANGED <<pc, starting, client, control, unlucky>>
    BY <1>0, <1>9 DEF CancelTasks, CancelStopped
  <2>. QED
    BY <2>1, <2>2, <2>3, <2>4 DEF TypeOK, Handlers, client, control
<1>10. CASE RunReturns
  <2>1. posted' \in Seq(Handlers)
    <3>1. <<>> \in Seq(Handlers) /\ <<"add">> \in Seq(Handlers)
      BY DEF Handlers
    <3>2. posted' = <<>> \/ posted' = <<"add">>
      BY <1>10 DEF RunReturns
    <3>. QED
      BY <3>1, <3>2
  <2>. QED
    BY <1>10, <2>1 DEF RunReturns, TypeOK, Handlers, client, control
<1>11. CASE Wait \/ SpuriousWakeup \/ RunLeavesTransfers
  BY <1>11 DEF Wait, SpuriousWakeup, RunLeavesTransfers, TypeOK, client, control
<1>12. CASE CancelRequests
  BY <1>12, LimitsAssumption DEF CancelRequests, CoreGoes, TypeOK, service, client
<1>13. CASE ProcessStoppedTasks \/ CleanupPost
  <2>1. posted' \in Seq(Handlers)
    BY <1>0, <1>13, PostedFacts DEF ProcessStoppedTasks, CleanupPost, Post, Handlers
  <2>. QED
    BY <1>13, <2>1 DEF ProcessStoppedTasks, CleanupPost, CoreGoes, TypeOK, Handlers, service, client
<1>14. CASE Reset
  <2>1. posted' \in Seq(Handlers)
    BY <1>0, <1>14, PostedFacts DEF Reset, Post, Handlers
  <2>. QED
    BY <1>14, <2>1, LimitsAssumption DEF Reset, CoreGoes, TypeOK, Handlers, service, client
<1>15. CASE Notify \/ CleanupNotify
  <2>1. missed' \in BOOLEAN
    BY <1>15 DEF Notify, CleanupNotify, TypeOK
  <2>2. /\ pc' \in {"run", "adding", "starting", "toWait", "waiting", "left"}
        /\ core' \in {"idle", "joining"}
        /\ UNCHANGED <<queue, tasks, running, posted, starting, client, controls, stop,
                        stopped, answers, unlucky>>
    BY <1>15 DEF Notify, CleanupNotify, CoreGoes, Notified, TypeOK
  <2>. QED
    BY <2>1, <2>2 DEF TypeOK, client
<1>16. CASE Cleanup \/ Join
  BY <1>16 DEF Cleanup, Join, CoreGoes, TypeOK, service, client
<1>17. CASE UNCHANGED vars
  BY <1>17 DEF vars, TypeOK, service, client, control
<1>. QED
  BY <1>1, <1>2, <1>3, <1>4, <1>5, <1>6, <1>7, <1>8, <1>9, <1>10, <1>11, <1>12, <1>13,
     <1>14, <1>15, <1>16, <1>17 DEF Next, Service, Core

LEMMA NextStarted == TypeOK /\ Started /\ [Next]_vars => Started'
<1> SUFFICES ASSUME TypeOK, Started, [Next]_vars, pc' = "starting" PROVE starting' \in tasks'
  BY DEF Started
<1>1. CASE InitHandler
  BY <1>1 DEF InitHandler, Started
<1>2. CASE ~InitHandler
  <2>1. pc = "starting"
    BY <1>2 DEF Next, Service, Core, Perform, AddTaskToQueue, RaiseTask, FinishMulti,
                BeginAddTask, ExecuteMulti, EndAddTask, CancelTasks, CancelStopped,
                RunReturns, RunLeavesTransfers, Wait, SpuriousWakeup, CancelRequests,
                ProcessStoppedTasks,
                Reset, Notify, Cleanup, CleanupPost, CleanupNotify, Join, RunHandler,
                CoreGoes, Notified, MutexFree, vars, service
  <2>2. UNCHANGED <<starting, tasks>>
    BY <1>2, <2>1
            DEF Next, Service, Core, Perform, AddTaskToQueue, RaiseTask, FinishMulti,
                BeginAddTask, ExecuteMulti, EndAddTask, CancelTasks, CancelStopped,
                RunReturns, RunLeavesTransfers, Wait, SpuriousWakeup, CancelRequests,
                ProcessStoppedTasks,
                Reset, Notify, Cleanup, CleanupPost, CleanupNotify, Join, RunHandler,
                CoreGoes, Notified, MutexFree, vars, service
  <2>. QED
    BY <2>1, <2>2 DEF Started
<1>. QED
  BY <1>1, <1>2

\* The variables of the handler keep their types.
THEOREM TypeCorrect == Spec => [](TypeOK /\ Started)
<1>1. Init => TypeOK /\ Started
  BY InitType DEF Init, Started
<1>2. (TypeOK /\ Started) /\ [Next]_vars => (TypeOK /\ Started)'
  BY NextType, NextStarted
<1>. QED
  BY <1>1, <1>2, PTL DEF Spec

-----------------------------------------------------------------------------
(* Every request is in one place. *)

\* Where a request is says how often it was completed.
Counted(t) ==
    answers[t] = IF t \in unlucky THEN IF t \in tasks THEN 1 ELSE 2
                 ELSE IF t \in asked \ (calling \cup Queued \cup tasks) THEN 1 ELSE 0

Placed ==
    /\ Distinct(queue)
    /\ calling \cup Queued \cup tasks \cup unlucky \subseteq asked
    /\ calling \cap (Queued \cup tasks) = {}
    /\ Queued \cap tasks = {}
    /\ unlucky \cap (calling \cup Queued) = {}
    /\ pc = "starting" => starting \in tasks \ unlucky
    /\ \A t \in Tasks : Counted(t)

LEMMA QueuedFacts == Queued = Elements(queue) /\ (queue = <<>> => Queued = {})
  BY DEF Queued, Elements

LEMMA InitPlaced == Init => Placed
<1> SUFFICES ASSUME Init PROVE Placed
  OBVIOUS
<1>1. Distinct(queue) /\ Queued = {}
  BY DEF Init, Distinct, Queued
<1>2. \A t \in Tasks : Counted(t)
  BY <1>1 DEF Init, Counted
<1>. QED
  BY <1>1, <1>2 DEF Init, Placed

LEMMA PlacedImplies == TypeOK /\ Placed => OnePlaceOneAnswer
<1> SUFFICES ASSUME TypeOK, Placed PROVE OnePlaceOneAnswer
  OBVIOUS
<1>1. asked \subseteq Tasks
  BY DEF TypeOK
<1>. QED
  BY <1>1 DEF Placed, Counted, Distinct, OnePlaceOneAnswer

LEMMA NextPlaced == TypeOK /\ Placed /\ [Next]_vars => Placed'
<1> SUFFICES ASSUME TypeOK, Placed, [Next]_vars PROVE Placed'
  OBVIOUS
<1>0. /\ queue \in Seq(Tasks) /\ tasks \subseteq Tasks /\ running \subseteq tasks
      /\ posted \in Seq(Handlers) /\ answers \in [Tasks -> Nat]
      /\ NoTask \notin Tasks
  BY TasksAssumption DEF TypeOK, Handlers
<1>p. /\ Distinct(queue)
      /\ calling \cup Queued \cup tasks \cup unlucky \subseteq asked
      /\ calling \cap (Queued \cup tasks) = {}
      /\ Queued \cap tasks = {}
      /\ unlucky \cap (calling \cup Queued) = {}
      /\ pc = "starting" => starting \in tasks \ unlucky
      /\ \A t \in Tasks :
            answers[t] = IF t \in unlucky THEN IF t \in tasks THEN 1 ELSE 2
                         ELSE IF t \in asked \ (calling \cup Queued \cup tasks) THEN 1 ELSE 0
  BY DEF Placed, Counted
\* A step that leaves the places as they are.
<1>q. ASSUME UNCHANGED <<queue, tasks, calling, asked, unlucky, answers>>,
             pc' = "starting" => pc = "starting" /\ starting' = starting
      PROVE  Placed'
  BY <1>p, <1>q DEF Placed, Counted, Queued
<1>1. ASSUME NEW t \in Tasks, Perform(t) PROVE Placed'
  <2>1. /\ t \notin asked /\ asked' = asked \cup {t}
        /\ UNCHANGED <<queue, tasks, unlucky, pc, starting>>
    BY <1>1 DEF Perform, service
  <2>2. Queued' = Queued
    BY <2>1 DEF Queued
  <2>3. CASE stop
    <3>1. /\ UNCHANGED calling
          /\ \A u \in Tasks : answers'[u] = IF u \in {t} THEN answers[u] + 1 ELSE answers[u]
      BY <1>0, <1>1, <2>3, CompletedFacts DEF Perform
    <3>. QED
      BY <1>p, <2>1, <2>2, <3>1 DEF Placed, Counted
  <2>4. CASE ~stop
    <3>1. calling' = calling \cup {t} /\ answers' = answers
      BY <1>1, <2>4 DEF Perform
    <3>. QED
      BY <1>p, <2>1, <2>2, <3>1 DEF Placed, Counted
  <2>. QED
    BY <2>3, <2>4
<1>2. ASSUME NEW t \in Tasks, AddTaskToQueue(t) PROVE Placed'
  <2>1. /\ t \in calling /\ calling' = calling \ {t} /\ queue' = Insert(queue, t)
        /\ UNCHANGED <<tasks, asked, unlucky, answers, starting>>
        /\ pc' = "starting" => pc = "starting"
    BY <1>2 DEF AddTaskToQueue, Notified
  <2>2. t \notin Elements(queue)
    BY <1>p, <2>1, QueuedFacts
  <2>3. Distinct(queue') /\ Elements(queue') = Elements(queue) \cup {t}
    BY <1>0, <1>p, <2>1, <2>2, InsertFacts
  <2>4. Queued' = Queued \cup {t}
    BY <2>3 DEF Queued, Elements
  <2>. QED
    BY <1>p, <2>1, <2>3, <2>4 DEF Placed, Counted
<1>3. ASSUME NEW k \in DOMAIN queue, RaiseTask(k) PROVE Placed'
  <2> DEFINE e == Erased(queue, k)
             t == queue[k]
  <2>1. /\ e \in Seq(Tasks) /\ t \in Tasks
        /\ Elements(queue) = Elements(e) \cup {t} /\ Distinct(e) /\ t \notin Elements(e)
    BY <1>0, <1>3, <1>p, ErasedFacts
  <2>2. /\ queue' = Insert(e, t)
        /\ UNCHANGED <<tasks, calling, asked, unlucky, answers, pc, starting>>
    BY <1>3 DEF RaiseTask, service, client
  <2> HIDE DEF e, t
  <2>3. Distinct(queue') /\ Elements(queue') = Elements(queue)
    BY <2>1, <2>2, InsertFacts
  <2>4. Queued' = Queued
    BY <2>3 DEF Queued, Elements
  <2>. QED
    BY <1>p, <2>2, <2>3, <2>4 DEF Placed, Counted
<1>4. ASSUME NEW t \in Tasks, FinishMulti(t) PROVE Placed'
  <2>1. /\ t \in tasks /\ tasks' = tasks \ {t} /\ pc = "run"
        /\ UNCHANGED <<queue, calling, asked, unlucky, pc, starting>>
        /\ \A u \in Tasks : answers'[u] = IF u \in {t} THEN answers[u] + 1 ELSE answers[u]
    BY <1>0, <1>4, CompletedFacts DEF FinishMulti, client
  <2>2. Queued' = Queued
    BY <2>1 DEF Queued
  <2>. QED
    BY <1>p, <2>1, <2>2 DEF Placed, Counted
<1>5. CASE BeginAddTask
  BY <1>5, <1>q DEF BeginAddTask, client
<1>6. CASE InitHandler
  <2> DEFINE t == Head(queue)
  <2>1. /\ t \in Tasks /\ Elements(queue) = Elements(queue') \cup {t}
        /\ Distinct(queue') /\ t \notin Elements(queue')
    BY <1>0, <1>6, <1>p, PopFacts DEF InitHandler, HasRoom
  <2>2. Queued' = Queued \ {t} /\ t \in Queued
    BY <2>1 DEF Queued, Elements
  <2>3. UNCHANGED <<calling, asked, unlucky>> /\ pc = "adding"
    BY <1>6 DEF InitHandler, client
  <2>4. CASE tasks' = tasks \cup {t} /\ pc' = "starting" /\ starting' = t /\ UNCHANGED answers
    <3> HIDE DEF t
    <3>. QED
      BY <1>p, <2>1, <2>2, <2>3, <2>4 DEF Placed, Counted
  <2>5. CASE answers' = Completed({t}) /\ UNCHANGED <<tasks, pc, starting>>
    <3> HIDE DEF t
    <3>1. \A u \in Tasks : answers'[u] = IF u \in {t} THEN answers[u] + 1 ELSE answers[u]
      BY <1>0, <2>5, CompletedFacts
    <3>2. UNCHANGED <<tasks, pc, starting>>
      BY <2>5
    <3>. QED
      BY <1>p, <2>1, <2>2, <2>3, <3>1, <3>2 DEF Placed, Counted
  <2>. QED
    BY <1>6, <2>4, <2>5 DEF InitHandler
<1>7. CASE ExecuteMulti
  <2>1. /\ starting \in tasks \ unlucky /\ pc' = "adding"
        /\ UNCHANGED <<queue, tasks, calling, asked>>
    BY <1>7, <1>p DEF ExecuteMulti, client
  <2>2. CASE UNCHANGED <<answers, unlucky>>
    BY <1>q, <2>1, <2>2
  <2>3. CASE answers' = Completed({starting}) /\ unlucky' = unlucky \cup {starting}
    <3>1. \A u \in Tasks :
             answers'[u] = IF u \in {starting} THEN answers[u] + 1 ELSE answers[u]
      BY <1>0, <2>3, CompletedFacts
    <3>2. Queued' = Queued /\ unlucky' = unlucky \cup {starting}
      BY <2>1, <2>3 DEF Queued
    <3>. QED
      BY <1>0, <1>p, <2>1, <3>1, <3>2 DEF Placed, Counted
  <2>. QED
    BY <1>7, <2>2, <2>3 DEF ExecuteMulti
<1>8. CASE EndAddTask
  BY <1>8, <1>q DEF EndAddTask, client
<1>9. CASE CancelTasks
  <2>1. /\ queue' = <<>> /\ tasks' = {} /\ pc = "run"
        /\ UNCHANGED <<calling, asked, unlucky, pc, starting>>
        /\ \A u \in Tasks :
              answers'[u] = IF u \in Queued \cup tasks THEN answers[u] + 1 ELSE answers[u]
    BY <1>0, <1>9, CompletedFacts DEF CancelTasks, RunHandler, client
  <2>2. Distinct(queue') /\ Queued' = {}
    BY <2>1 DEF Distinct, Queued
  <2>. QED
    BY <1>p, <2>1, <2>2 DEF Placed, Counted
<1>10. CASE CancelStopped
  <2>1. /\ tasks' = tasks \ stopped /\ pc = "run"
        /\ UNCHANGED <<queue, calling, asked, unlucky, pc, starting>>
        /\ \A u \in Tasks :
              answers'[u] = IF u \in tasks \cap stopped THEN answers[u] + 1 ELSE answers[u]
    BY <1>0, <1>10, CompletedFacts DEF CancelStopped, RunHandler, client
  <2>2. Queued' = Queued
    BY <2>1 DEF Queued
  <2>. QED
    BY <1>p, <2>1, <2>2 DEF Placed, Counted
<1>11. CASE RunReturns \/ RunLeavesTransfers \/ Wait \/ SpuriousWakeup
  BY <1>11, <1>q DEF RunReturns, RunLeavesTransfers, Wait, SpuriousWakeup, client
<1>12. CASE CancelRequests \/ ProcessStoppedTasks \/ Reset \/ Cleanup \/ CleanupPost \/ Join
  BY <1>12, <1>q DEF CancelRequests, ProcessStoppedTasks, Reset, Cleanup, CleanupPost, Join,
                     service, client
<1>13. CASE Notify \/ CleanupNotify
  BY <1>13, <1>q DEF Notify, CleanupNotify, Notified, client
<1>14. CASE UNCHANGED vars
  BY <1>14, <1>q DEF vars, service, client
<1>. QED
  BY <1>1, <1>2, <1>3, <1>4, <1>5, <1>6, <1>7, <1>8, <1>9, <1>10, <1>11, <1>12, <1>13,
     <1>14 DEF Next, Service, Core

LEMMA PlacedInvariant == Spec => [](TypeOK /\ Placed)
<1>1. Init => TypeOK /\ Placed
  BY InitType, InitPlaced
<1>2. Placed => Started
  BY DEF Placed, Started
<1>3. (TypeOK /\ Placed) /\ [Next]_vars => (TypeOK /\ Placed)'
  BY <1>2, NextType, NextPlaced
<1>. QED
  BY <1>1, <1>3, PTL DEF Spec

\* A request is in one place until it is completed, once, except those that the
\* second check of add_task completed and left in the map.
THEOREM CompletedOnce == Spec => []OnePlaceOneAnswer
  BY PlacedInvariant, PlacedImplies, PTL

-----------------------------------------------------------------------------
(* The order of the queue. *)

LEMMA NextSorted == TypeOK /\ Sorted(queue) /\ [Next]_vars => Sorted(queue')
<1> SUFFICES ASSUME TypeOK, Sorted(queue), [Next]_vars PROVE Sorted(queue')
  OBVIOUS
<1>0. queue \in Seq(Tasks)
  BY DEF TypeOK
<1>1. ASSUME NEW t \in Tasks, AddTaskToQueue(t) PROVE Sorted(queue')
  BY <1>0, <1>1, InsertFacts DEF AddTaskToQueue
<1>2. ASSUME NEW k \in DOMAIN queue, RaiseTask(k) PROVE Sorted(queue')
  <2>1. Erased(queue, k) \in Seq(Tasks) /\ queue[k] \in Tasks /\ Sorted(Erased(queue, k))
    BY <1>0, <1>2, ErasedFacts
  <2>. QED
    BY <1>2, <2>1, InsertFacts DEF RaiseTask
<1>3. CASE InitHandler
  BY <1>0, <1>3, PopFacts DEF InitHandler, HasRoom
<1>4. CASE CancelTasks
  BY <1>4 DEF CancelTasks, Sorted
<1>5. CASE UNCHANGED queue
  BY <1>5
<1>6. ASSUME NEW t \in Tasks, Perform(t) \/ FinishMulti(t) PROVE UNCHANGED queue
  BY <1>6 DEF Perform, FinishMulti
<1>7. CASE BeginAddTask \/ ExecuteMulti \/ EndAddTask \/ CancelStopped \/ RunReturns \/ Wait
           \/ RunLeavesTransfers \/ SpuriousWakeup
  BY <1>5, <1>7 DEF BeginAddTask, ExecuteMulti, EndAddTask, CancelStopped, RunReturns, Wait,
                    RunLeavesTransfers, SpuriousWakeup
<1>8. CASE Core
  BY <1>5, <1>8 DEF Core, CancelRequests, ProcessStoppedTasks, Reset, Notify, Cleanup,
                    CleanupPost, CleanupNotify, Join
<1>9. CASE UNCHANGED vars
  BY <1>5, <1>9 DEF vars
<1>. QED
  BY <1>1, <1>2, <1>3, <1>4, <1>5, <1>6, <1>7, <1>8, <1>9 DEF Next, Service

\* What the step does to the map of tasks, but for the step that starts a task.
LEMMA OnlyInitHandlerStarts ==
    ASSUME [Next]_vars, ~InitHandler
    PROVE  tasks' \subseteq tasks
  BY DEF Next, Service, Core, Perform, AddTaskToQueue, RaiseTask, FinishMulti, BeginAddTask,
         ExecuteMulti, EndAddTask, CancelTasks, CancelStopped, RunReturns, Wait,
         RunLeavesTransfers, SpuriousWakeup, CancelRequests, ProcessStoppedTasks, Reset,
         Notify, Cleanup, CleanupPost, CleanupNotify, Join, vars

LEMMA StartsInOrder ==
    ASSUME TypeOK, Sorted(queue), [Next]_vars
    PROVE  \A t \in tasks' \ tasks : \A u \in Queued : Priority(t) <= Priority(u)
<1>1. CASE InitHandler
  <2>1. \A u \in Elements(queue) : Priority(Head(queue)) <= Priority(u)
    BY <1>1, PopFacts DEF InitHandler, HasRoom, TypeOK
  <2>2. tasks' \subseteq tasks \cup {Head(queue)}
    BY <1>1 DEF InitHandler
  <2>. QED
    BY <2>1, <2>2, QueuedFacts
<1>2. CASE ~InitHandler
  BY <1>2, OnlyInitHandlerStarts
<1>. QED
  BY <1>1, <1>2

\* No request is started while one of a higher priority waits in the queue: neither
\* the loop of add_task_to_queue nor raise_task ever breaks its order.
THEOREM StartedByPriority == Spec => HigherPriorityFirst
<1>1. Init => Sorted(queue)
  BY DEF Init, Sorted
<1>2. TypeOK /\ Sorted(queue) /\ [Next]_vars => Sorted(queue)'
  BY NextSorted
<1>3. TypeOK /\ Sorted(queue) /\ [Next]_vars
      => [\A t \in tasks' \ tasks : \A u \in Queued : Priority(t) <= Priority(u)]_vars
  BY StartsInOrder
<1>. QED
  BY <1>1, <1>2, <1>3, PlacedInvariant, PTL DEF Spec, HigherPriorityFirst

-----------------------------------------------------------------------------
(* What cleanup leaves. *)

\* The last cancel_tasks is still to run, or all that is left is late.
Emptied ==
    /\ core \in {"stopping", "posted", "joining", "done"} => stop
    /\ core \in {"posted", "joining", "done"} =>
          "cancel" \in Elements(posted) \/ Queued \cup tasks \subseteq late

LEMMA NextEmptied == TypeOK /\ Emptied /\ [Next]_vars => Emptied'
<1> SUFFICES ASSUME TypeOK, Emptied, [Next]_vars PROVE Emptied'
  OBVIOUS
<1>0. queue \in Seq(Tasks) /\ posted \in Seq(Handlers)
  BY DEF TypeOK, Handlers
\* A step that forgets no cancel_tasks and leaves the places as they are.
<1>q. ASSUME UNCHANGED <<core, stop>>, late \subseteq late',
             Queued' \cup tasks' \subseteq Queued \cup tasks,
             "cancel" \in Elements(posted) => "cancel" \in Elements(posted')
      PROVE  Emptied'
  BY <1>q DEF Emptied
<1>1. ASSUME NEW t \in Tasks, Perform(t) \/ FinishMulti(t) PROVE Emptied'
  <2>1. UNCHANGED <<queue, posted, core, stop, late>> /\ tasks' \subseteq tasks
    BY <1>1 DEF Perform, FinishMulti, service, client, control
  <2>. QED
    BY <1>q, <2>1 DEF Queued
<1>2. ASSUME NEW t \in Tasks, AddTaskToQueue(t) PROVE Emptied'
  <2>1. /\ UNCHANGED <<tasks, core, stop>>
        /\ late' = IF stop THEN late \cup {t} ELSE late
        /\ queue' = Insert(queue, t) /\ posted' = Append(posted, "add")
    BY <1>2 DEF AddTaskToQueue, control
  <2>2. Elements(queue') = Elements(queue) \cup {t}
    BY <1>0, <2>1, InsertFacts
  <2>3. Queued' = Queued \cup {t}
    BY <2>2 DEF Queued, Elements
  <2>4. Elements(posted) \subseteq Elements(posted')
    BY <1>0, <2>1, PostedFacts DEF Handlers
  <2>. QED
    BY <2>1, <2>3, <2>4 DEF Emptied
<1>3. ASSUME NEW k \in DOMAIN queue, RaiseTask(k) PROVE Emptied'
  <2>1. /\ Erased(queue, k) \in Seq(Tasks) /\ queue[k] \in Tasks
        /\ Elements(queue) = Elements(Erased(queue, k)) \cup {queue[k]}
    BY <1>0, <1>3, ErasedFacts
  <2>2. Elements(queue') = Elements(queue)
    BY <1>3, <2>1, InsertFacts DEF RaiseTask
  <2>3. Queued' = Queued
    BY <2>2 DEF Queued, Elements
  <2>4. UNCHANGED <<tasks, posted, core, stop, late>>
    BY <1>3 DEF RaiseTask, client, control
  <2>. QED
    BY <1>q, <2>3, <2>4
<1>4. CASE BeginAddTask \/ CancelStopped
  <2>1. \E h \in {"add", "stopped"} : Elements(posted) = Elements(posted') \cup {h}
    BY <1>0, <1>4, HandlerFacts DEF BeginAddTask, CancelStopped
  <2>2. UNCHANGED <<queue, core, stop, late>> /\ tasks' \subseteq tasks
    BY <1>4 DEF BeginAddTask, CancelStopped, client, control
  <2>. QED
    BY <1>q, <2>1, <2>2 DEF Queued
<1>5. CASE InitHandler
  <2>1. Elements(queue) = Elements(queue') \cup {Head(queue)}
    BY <1>0, <1>5, PopFacts DEF InitHandler, HasRoom
  <2>2. Queued = Queued' \cup {Head(queue)}
    BY <2>1 DEF Queued, Elements
  <2>3. tasks' \subseteq tasks \cup {Head(queue)} /\ UNCHANGED <<posted, core, stop, late>>
    BY <1>5 DEF InitHandler, client, control
  <2>. QED
    BY <1>q, <2>2, <2>3
<1>6. CASE ExecuteMulti \/ EndAddTask \/ Wait \/ SpuriousWakeup \/ RunLeavesTransfers
  <2>1. UNCHANGED <<queue, tasks, posted, core, stop, late>>
    BY <1>6 DEF ExecuteMulti, EndAddTask, Wait, SpuriousWakeup, RunLeavesTransfers,
                client, control
  <2>. QED
    BY <1>q, <2>1 DEF Queued
<1>7. CASE CancelTasks
  <2>1. queue' = <<>> /\ tasks' = {} /\ UNCHANGED <<core, stop>>
    BY <1>7 DEF CancelTasks, control
  <2>2. Queued' = {}
    BY <2>1 DEF Queued
  <2>. QED
    BY <2>1, <2>2 DEF Emptied
<1>8. CASE RunReturns
  <2>1. posted = <<>> /\ UNCHANGED <<queue, tasks, core, stop, late>>
    BY <1>8 DEF RunReturns, client, control
  <2>2. "cancel" \notin Elements(posted)
    BY <2>1 DEF Elements
  <2>. QED
    BY <1>q, <2>1, <2>2 DEF Queued
<1>9. CASE CancelRequests \/ ProcessStoppedTasks \/ Reset \/ Notify
  BY <1>9 DEF CancelRequests, ProcessStoppedTasks, Reset, Notify, CoreGoes, Emptied
<1>10. CASE Cleanup
  BY <1>10 DEF Cleanup, CoreGoes, Emptied
<1>11. CASE CleanupPost
  <2>1. "cancel" \in Elements(posted')
    BY <1>0, <1>11, PostedFacts DEF CleanupPost, Post, Handlers
  <2>2. stop'
    BY <1>11 DEF CleanupPost, CoreGoes, Emptied
  <2>. QED
    BY <2>1, <2>2 DEF Emptied
<1>12. CASE CleanupNotify \/ Join
  <2>1. /\ core \in {"posted", "joining"}
        /\ UNCHANGED <<queue, tasks, posted, stop, late>>
    BY <1>12 DEF CleanupNotify, Join, CoreGoes, client
  <2>. QED
    BY <2>1 DEF Emptied, Queued
<1>13. CASE UNCHANGED vars
  BY <1>13, <1>q DEF vars, client, control, Queued
<1>. QED
  BY <1>1, <1>2, <1>3, <1>4, <1>5, <1>6, <1>7, <1>8, <1>9, <1>10, <1>11, <1>12, <1>13
     DEF Next, Service, Core

LEMMA EmptiedImplies == TypeOK /\ Placed /\ Emptied => CleanupCompletes
<1> SUFFICES ASSUME TypeOK, Placed, Emptied, core = "done", posted = <<>>,
                    NEW t \in asked \ (late \cup calling)
             PROVE  answers[t] > 0
  BY DEF CleanupCompletes
<1>1. "cancel" \notin Elements(posted)
  BY DEF Elements
<1>2. t \notin Queued \cup tasks
  BY <1>1 DEF Emptied
<1>3. t \in Tasks
  BY DEF TypeOK
<1>. QED
  BY <1>2, <1>3 DEF Placed, Counted

\* When cleanup returns everything was completed, except for requests queued while
\* it ran, and unless the thread left before it ran the last cancel_tasks.
THEOREM NothingLeft == Spec => []CleanupCompletes
<1>1. Init => Emptied
  BY DEF Init, Emptied
<1>2. TypeOK /\ Emptied /\ [Next]_vars => Emptied'
  BY NextEmptied
<1>. QED
  BY <1>1, <1>2, PlacedInvariant, EmptiedImplies, PTL DEF Spec
=============================================================================
