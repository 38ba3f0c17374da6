--------------------------- MODULE CurlEasyProofs ---------------------------
(***************************************************************************)
(* Theorems about the handler of blocking requests, for every number of    *)
(* requests, loops, pools and threads of a pool.                           *)
(***************************************************************************)
EXTENDS CurlEasy, TLAPS

-----------------------------------------------------------------------------
(* Lemmas about queues. *)

\* A queue that gets a new element at its end.
LEMMA AppendFacts ==
    ASSUME NEW q \in Seq(Tasks), NEW t \in Tasks
    PROVE  /\ Append(q, t) \in Seq(Tasks)
           /\ Elements(Append(q, t)) = Elements(q) \cup {t}
           /\ Distinct(q) /\ t \notin Elements(q) => Distinct(Append(q, t))
<1> DEFINE r == Append(q, t)
<1>1. /\ r \in Seq(Tasks) /\ Len(r) = Len(q) + 1 /\ Len(q) \in Nat
      /\ DOMAIN q = 1..Len(q) /\ DOMAIN r = 1..(Len(q) + 1)
      /\ \A i \in 1..Len(q) : r[i] = q[i]
      /\ r[Len(q) + 1] = t
  OBVIOUS
<1> HIDE DEF r
<1>2. ASSUME NEW x PROVE x \in Elements(r) <=> x \in Elements(q) \cup {t}
  BY <1>1 DEF Elements
<1>3. ASSUME Distinct(q), t \notin Elements(q) PROVE Distinct(r)
  BY <1>1, <1>3 DEF Distinct, Elements
<1>. QED
  BY <1>1, <1>2, <1>3 DEF r

\* A queue whose first element is taken.
LEMMA PopFacts ==
    ASSUME NEW q \in Seq(Tasks), q # <<>>
    PROVE  /\ Head(q) \in Tasks /\ Head(q) \in Elements(q)
           /\ Tail(q) \in Seq(Tasks)
           /\ Elements(q) = Elements(Tail(q)) \cup {Head(q)}
           /\ Distinct(q) => Distinct(Tail(q)) /\ Head(q) \notin Elements(Tail(q))
<1> DEFINE r == Tail(q)
<1>1. /\ r \in Seq(Tasks) /\ Len(q) \in Nat /\ Len(q) > 0 /\ Len(r) = Len(q) - 1
      /\ DOMAIN q = 1..Len(q) /\ DOMAIN r = 1..(Len(q) - 1)
      /\ \A i \in 1..(Len(q) - 1) : r[i] = q[i + 1]
      /\ Head(q) = q[1] /\ Head(q) \in Tasks
  OBVIOUS
<1> HIDE DEF r
<1>2. ASSUME NEW i \in 1..Len(q) PROVE i = 1 \/ (i - 1 \in 1..(Len(q) - 1) /\ q[i] = r[i - 1])
  BY <1>1
<1>3. ASSUME NEW x PROVE x \in Elements(q) <=> x \in Elements(r) \cup {Head(q)}
  <2>1. ASSUME x \in Elements(r) PROVE x \in Elements(q)
    <3>1. PICK i \in 1..(Len(q) - 1) : x = r[i]
      BY <2>1, <1>1 DEF Elements
    <3>2. i + 1 \in 1..Len(q) /\ x = q[i + 1]
      BY <3>1, <1>1
    <3>. QED
      BY <3>2, <1>1 DEF Elements
  <2>2. q[1] \in Elements(q)
    BY <1>1, 1 \in 1..Len(q) DEF Elements
  <2>3. ASSUME x \in Elements(q), x # q[1] PROVE x \in Elements(r)
    BY <2>3, <1>1, <1>2 DEF Elements
  <2>. QED
    BY <2>1, <2>2, <2>3, <1>1
<1>4. ASSUME Distinct(q) PROVE Distinct(r) /\ Head(q) \notin Elements(r)
  <2>0. \A i, j \in 1..Len(q) : q[i] = q[j] => i = j
    BY <1>1, <1>4 DEF Distinct
  <2>1. ASSUME NEW i \in 1..(Len(q) - 1), NEW j \in 1..(Len(q) - 1), r[i] = r[j]
        PROVE  i = j
    <3>1. i + 1 \in 1..Len(q) /\ j + 1 \in 1..Len(q) /\ q[i + 1] = q[j + 1]
      BY <2>1, <1>1
    <3>2. i + 1 = j + 1
      BY <3>1, <2>0
    <3>. QED
      BY <3>2
  <2>2. ASSUME NEW i \in 1..(Len(q) - 1) PROVE r[i] # q[1]
    <3>1. i + 1 \in 1..Len(q) /\ 1 \in 1..Len(q) /\ r[i] = q[i + 1]
      BY <1>1
    <3>. QED
      BY <3>1, <2>0
  <2>. QED
    BY <2>1, <2>2, <1>1 DEF Distinct, Elements
<1>. QED
  BY <1>1, <1>3, <1>4 DEF r

\* A queue one of whose elements is raised.
LEMMA RaisedFacts ==
    ASSUME NEW q \in Seq(Tasks), NEW k \in 2..Len(q)
    PROVE  /\ Raised(q, k) \in Seq(Tasks)
           /\ Elements(Raised(q, k)) = Elements(q)
           /\ Distinct(q) => Distinct(Raised(q, k))
<1> DEFINE r == Raised(q, k)
<1>1. DOMAIN q = 1..Len(q) /\ Len(q) \in Nat /\ \A j \in 1..Len(q) : q[j] \in Tasks
  OBVIOUS
<1>2. r \in [1..Len(q) -> Tasks]
  BY <1>1 DEF Raised
<1>3. r \in Seq(Tasks) /\ DOMAIN r = 1..Len(q)
  BY <1>1, <1>2
<1>4. \A j \in 1..Len(q) :
         r[j] = IF j = 1 THEN q[k] ELSE IF j <= k THEN q[j - 1] ELSE q[j]
  BY DEF Raised
<1> HIDE DEF r
<1>5. \A i \in 1..Len(q) : \E j \in 1..Len(q) : r[i] = q[j]
  BY <1>1, <1>4
<1>6. \A j \in 1..Len(q) : \E i \in 1..Len(q) : r[i] = q[j]
  <2> TAKE j \in 1..Len(q)
  <2>1. CASE j = k
    BY <1>4, <2>1, 1 \in 1..Len(q)
  <2>2. CASE j < k
    BY <1>4, <2>2, j + 1 \in 1..Len(q)
  <2>3. CASE j > k
    BY <1>4, <2>3
  <2>. QED
    BY <2>1, <2>2, <2>3
<1>7. ASSUME NEW x PROVE x \in Elements(r) <=> x \in Elements(q)
  <2>1. ASSUME x \in Elements(r) PROVE x \in Elements(q)
    BY <2>1, <1>1, <1>3, <1>5 DEF Elements
  <2>2. ASSUME x \in Elements(q) PROVE x \in Elements(r)
    BY <2>2, <1>1, <1>3, <1>6 DEF Elements
  <2>. QED
    BY <2>1, <2>2
<1>8. ASSUME Distinct(q) PROVE Distinct(r)
  BY <1>1, <1>3, <1>4, <1>8, SMTT(30) DEF Distinct
<1>. QED
  BY <1>3, <1>7, <1>8 DEF r

-----------------------------------------------------------------------------
(* Types. *)

LEMMA InitType == Init => TypeOK
<1> SUFFICES ASSUME Init PROVE TypeOK
  OBVIOUS
<1>1. {stop, crashed} \subseteq BOOLEAN
  BY Zenon DEF Init
<1>2. at \in DOMAIN Pools
  BY PoolsAssumption DEF Init
<1>3. queue \in [Lanes -> Seq(Tasks)] /\ active \in [Lanes -> SUBSET Tasks]
  BY DEF Init
<1>4. pc \in [Loops -> {"run", "toWait", "waiting", "left"}] /\ answers \in [Tasks -> Nat]
  BY DEF Init
<1>. QED
  BY <1>1, <1>2, <1>3, <1>4 DEF Init, TypeOK

\* What a request's lane is, and the lanes of the pools.
LEMMA LaneFacts ==
    /\ \A t \in Tasks : Lane(t) \in Lanes
    /\ \A t \in Tasks : Follow(t) # NoTask => Follow(t) \in Tasks
    /\ Loops \subseteq Lanes /\ PoolSet \subseteq Lanes
    /\ \A i \in DOMAIN Pools : Pools[i] \in PoolSet
  BY TasksAssumption DEF Lanes, PoolSet

\* Answers are counted.
LEMMA CountFacts ==
    ASSUME NEW f \in [Tasks -> Nat], NEW t \in Tasks
    PROVE  [f EXCEPT ![t] = @ + 1] \in [Tasks -> Nat]
<1>1. f[t] + 1 \in Nat
  OBVIOUS
<1>. QED
  BY <1>1

LEMMA NextType == TypeOK /\ [Next]_vars => TypeOK'
<1> SUFFICES ASSUME TypeOK, [Next]_vars PROVE TypeOK'
  OBVIOUS
<1> USE LaneFacts DEF TypeOK, client, control
<1>1. ASSUME NEW t \in Tasks, Perform(t) PROVE TypeOK'
  <2>1. answers' \in [Tasks -> Nat]
    <3>1. [answers EXCEPT ![t] = @ + 1] \in [Tasks -> Nat]
      BY CountFacts
    <3>. QED
      BY <1>1, <3>1 DEF Perform, Completed
  <2>2. calling' \subseteq Tasks
    BY <1>1 DEF Perform
  <2>. QED
    BY <1>1, <2>1, <2>2 DEF Perform
<1>2. ASSUME NEW t \in Tasks, AddTask(t) PROVE TypeOK'
  <2>1. queue' \in [Lanes -> Seq(Tasks)]
    BY <1>2, AppendFacts DEF AddTask
  <2>2. pc' \in [Loops -> {"run", "toWait", "waiting", "left"}]
    BY <1>2 DEF AddTask
  <2>3. calling' \subseteq Tasks /\ late' \subseteq Tasks /\ active' \in [Lanes -> SUBSET Tasks]
    BY <1>2 DEF AddTask
  <2>. QED
    BY <1>2, <2>1, <2>2, <2>3 DEF AddTask
<1>3. ASSUME NEW t \in Tasks, Crash(t) PROVE TypeOK'
  <2>1. crashed' \in BOOLEAN
    BY <1>3, Zenon DEF Crash
  <2>. QED
    BY <1>3, <2>1 DEF Crash
<1>4. ASSUME NEW l \in PoolSet, NEW k \in 2..Len(queue[l]), RaiseTask(l, k) PROVE TypeOK'
  <2>1. queue[l] \in Seq(Tasks)
    OBVIOUS
  <2>2. queue' \in [Lanes -> Seq(Tasks)]
    BY <1>4, <2>1, RaisedFacts DEF RaiseTask
  <2>. QED
    BY <1>4, <2>2 DEF RaiseTask
<1>5. ASSUME NEW l \in Lanes, Takes(l) PROVE TypeOK'
  <2>1. queue[l] \in Seq(Tasks) /\ queue[l] # <<>>
    BY <1>5 DEF Takes
  <2>2. Tail(queue[l]) \in Seq(Tasks) /\ Head(queue[l]) \in Tasks
    BY <2>1, PopFacts
  <2>3. queue' \in [Lanes -> Seq(Tasks)] /\ active' \in [Lanes -> SUBSET Tasks]
    BY <1>5, <2>2 DEF Takes
  <2>. QED
    BY <1>5, <2>3 DEF Takes
<1>6. ASSUME NEW l \in Lanes, NEW t \in active[l], Finish(l, t) PROVE TypeOK'
  <2>0. t \in Tasks
    OBVIOUS
  <2>1. UNCHANGED <<queue, pc, control, crashed, late>>
    BY <1>6 DEF Finish
  <2>2. answers' \in [Tasks -> Nat]
    <3>1. [answers EXCEPT ![t] = @ + 1] \in [Tasks -> Nat]
      BY <2>0, CountFacts
    <3>2. CASE Follow(t) # NoTask /\ stop
      <4>1. answers' = [answers EXCEPT ![t] = @ + 1, ![Follow(t)] = @ + 1]
        BY <1>6, <3>2 DEF Finish
      <4>2. Follow(t) \in Tasks
        BY <2>0, <3>2
      <4>. QED
        BY <3>1, <4>1, <4>2, CountFacts
    <3>3. CASE ~(Follow(t) # NoTask /\ stop)
      BY <1>6, <3>1, <3>3 DEF Finish, Completed
    <3>. QED
      BY <3>2, <3>3
  <2>3. active' \in [Lanes -> SUBSET Tasks]
    BY <1>6, <2>0 DEF Finish
  <2>4. calling' \subseteq Tasks /\ asked' \subseteq Tasks
    BY <1>6, <2>0 DEF Finish
  <2>. QED
    BY <2>1, <2>2, <2>3, <2>4
<1>7. ASSUME NEW l \in Loops, DecideToWait(l) \/ Wait(l) \/ Leave(l) PROVE TypeOK'
  BY <1>7 DEF DecideToWait, Wait, Leave, LoopGoes
<1>8. ASSUME NEW l \in Lanes, SpuriousWakeup(l) PROVE TypeOK'
  BY <1>8 DEF SpuriousWakeup, LoopGoes
<1>9. CASE StoreStop
  <2>1. stop' \in BOOLEAN
    BY <1>9, Zenon DEF StoreStop
  <2>. QED
    BY <1>9, <2>1 DEF StoreStop, CoreGoes
<1>10. CASE ResetPool
  BY <1>10 DEF ResetPool, CoreGoes
<1>11. CASE PoolDestroyed
  <2>1. Len(Pools) \in Nat /\ DOMAIN Pools = 1..Len(Pools)
    BY PoolsAssumption
  <2>2. at' \in DOMAIN Pools
    BY <1>11, <2>1 DEF PoolDestroyed, CoreGoes
  <2>. QED
    BY <1>11, <2>2 DEF PoolDestroyed, CoreGoes
<1>12. CASE NotifyLoops
  BY <1>12 DEF NotifyLoops, CoreGoes
<1>13. CASE JoinLoops
  BY <1>13 DEF JoinLoops, CoreGoes
<1>14. CASE UNCHANGED vars
  BY <1>14 DEF vars
<1>. QED
  BY <1>1, <1>2, <1>3, <1>4, <1>5, <1>6, <1>7, <1>8, <1>9, <1>10, <1>11, <1>12, <1>13,
     <1>14 DEF Next, LoopStep, LoopTakes, PoolTakes, Cleanup

\* The variables of the handler keep their types.
THEOREM TypeCorrect == Spec => []TypeOK
  BY InitType, NextType, PTL DEF Spec

-----------------------------------------------------------------------------
(* Each request is in one place. *)

\* A request nobody performed is nowhere; who is followed by one that was
\* performed has been completed.
Fresh ==
    /\ calling \subseteq asked
    /\ \A l \in Lanes : Elements(queue[l]) \cup active[l] \subseteq asked
    /\ \A t \in Tasks : t \notin asked => answers[t] = 0
    /\ \A t \in Tasks : Follow(t) # NoTask /\ Follow(t) \in asked => answers[t] = 1

Placed == InOnePlace /\ Fresh

LEMMA InitPlaced == Init => Placed
<1> SUFFICES ASSUME Init PROVE Placed
  OBVIOUS
<1>1. \A l \in Lanes : Elements(queue[l]) = {} /\ Distinct(queue[l])
  BY DEF Init, Elements, Distinct
<1>. QED
  BY <1>1, LaneFacts DEF Init, Placed, InOnePlace, Fresh

LEMMA NextPlaced == TypeOK /\ Placed /\ [Next]_vars => Placed'
<1> SUFFICES ASSUME TypeOK, Placed, [Next]_vars PROVE Placed'
  OBVIOUS
<1> USE LaneFacts
<1>0. /\ answers \in [Tasks -> Nat] /\ active \in [Lanes -> SUBSET Tasks]
      /\ calling \subseteq Tasks /\ asked \subseteq Tasks
      /\ \A l \in Lanes : queue[l] \in Seq(Tasks) /\ Elements(queue[l]) \subseteq Tasks
  BY DEF TypeOK, Elements
<1>1. ASSUME NEW t \in Tasks, Perform(t) PROVE Placed'
  <2>1. UNCHANGED <<queue, active>> /\ asked' = asked \cup {t}
    BY <1>1 DEF Perform
  <2>2. \A u \in Tasks : Follow(u) # t
    BY <1>1, TasksAssumption DEF Perform, FollowUps
  <2>3. t \notin asked /\ answers[t] = 0
    BY <1>1 DEF Perform, Placed, Fresh
  <2>4. t \notin calling /\ \A l \in Lanes : t \notin Elements(queue[l]) \cup active[l]
    BY <2>3 DEF Placed, Fresh
  <2>5. CASE stop
    <3>1. answers' = [answers EXCEPT ![t] = 1] /\ calling' = calling
      BY <1>1, <1>0, <2>3, <2>5 DEF Perform, Completed
    <3>. QED
      BY <1>0, <2>1, <2>2, <2>3, <2>4, <3>1 DEF Placed, InOnePlace, Fresh
  <2>6. CASE ~stop
    <3>1. answers' = answers /\ calling' = calling \cup {t}
      BY <1>1, <2>6 DEF Perform
    <3>. QED
      BY <1>0, <2>1, <2>2, <2>3, <2>4, <3>1 DEF Placed, InOnePlace, Fresh
  <2>. QED
    BY <2>5, <2>6
<1>2. ASSUME NEW t \in Tasks, AddTask(t) PROVE Placed'
  <2> DEFINE m == Lane(t)
  <2>1. /\ t \in calling /\ calling' = calling \ {t}
        /\ queue' = [queue EXCEPT ![m] = Append(@, t)]
        /\ active' = [l \in Lanes |-> {u \in active[l] : Follow(u) # t}]
        /\ UNCHANGED <<asked, answers>>
    BY <1>2 DEF AddTask
  <2>2. m \in Lanes /\ Lane(t) = m
    OBVIOUS
  <2> HIDE DEF m
  <2>3. \A l \in Lanes : t \notin Elements(queue[l]) \cup active[l]
    BY <2>1 DEF Placed, InOnePlace
  <2>4. \A l \in Lanes : Elements(queue'[l]) =
                            IF l = m THEN Elements(queue[l]) \cup {t} ELSE Elements(queue[l])
    BY <1>0, <2>1, <2>2, AppendFacts DEF TypeOK
  <2>5. \A l \in Lanes : Distinct(queue'[l])
    BY <1>0, <2>1, <2>2, <2>3, AppendFacts DEF TypeOK, Placed, InOnePlace
  <2>6. answers[t] = 0 /\ t \in asked
    <3>1. t \in asked /\ answers[t] <= 1 /\ answers[t] # 1 /\ answers[t] \in Nat
      BY <1>0, <2>1 DEF Placed, InOnePlace, Fresh
    <3>. QED
      BY <3>1
  <2>7. \A u \in Tasks : Follow(u) = t => answers[u] = 1
    BY <2>6, <1>0, TasksAssumption DEF Placed, Fresh
  <2>8. \A l \in Lanes : active'[l] = {u \in active[l] : Follow(u) # t}
    BY <2>1
  <2>9. calling' = calling \ {t}
    BY <2>1
  <2>10. InOnePlace'
    <3>1. ASSUME NEW l \in Lanes
          PROVE  /\ \A u \in Elements(queue'[l]) \cup active'[l] : Lane(u) = l
                 /\ \A u \in calling' : u \notin Elements(queue'[l]) \cup active'[l]
                 /\ Elements(queue'[l]) \cap active'[l] = {}
      <4>1. /\ \A u \in Elements(queue[l]) \cup active[l] : Lane(u) = l
            /\ \A u \in calling : u \notin Elements(queue[l]) \cup active[l]
            /\ Elements(queue[l]) \cap active[l] = {}
        BY DEF Placed, InOnePlace
      <4>2. active'[l] \subseteq active[l] /\ t \notin active[l]
        BY <2>3, <2>8
      <4>3. CASE l = m
        BY <2>9, <2>2, <2>4, <4>1, <4>2, <4>3
      <4>4. CASE l # m
        BY <2>9, <2>4, <4>1, <4>2, <4>4
      <4>. QED
        BY <4>3, <4>4
    <3>2. ASSUME NEW u \in Tasks
          PROVE  /\ answers[u] <= 1
                 /\ u \in asked /\ answers[u] = 0 =>
                       \/ u \in calling' \/ u \in Elements(queue'[Lane(u)])
                       \/ u \in active'[Lane(u)]
                 /\ answers[u] = 1 =>
                       /\ u \notin calling' /\ u \notin Elements(queue'[Lane(u)])
                       /\ u \in active'[Lane(u)] => Follow(u) \in calling'
      <4>1. Lane(u) \in Lanes /\ answers[u] <= 1
        BY DEF Placed, InOnePlace
      <4>2. ASSUME u \in asked, answers[u] = 0
            PROVE  \/ u \in calling' \/ u \in Elements(queue'[Lane(u)])
                   \/ u \in active'[Lane(u)]
        <5>1. \/ u \in calling \/ u \in Elements(queue[Lane(u)])
              \/ u \in active[Lane(u)]
          BY <4>2 DEF Placed, InOnePlace
        <5>2. Follow(u) # t
          BY <2>7, <4>2
        <5>3. CASE u = t
          BY <2>2, <2>4, <5>3
        <5>4. CASE u # t
          BY <2>9, <2>4, <2>8, <4>1, <5>1, <5>2, <5>4
        <5>. QED
          BY <5>3, <5>4
      <4>3. ASSUME answers[u] = 1
            PROVE  /\ u \notin calling' /\ u \notin Elements(queue'[Lane(u)])
                   /\ u \in active'[Lane(u)] => Follow(u) \in calling'
        <5>1. /\ u \notin calling /\ u \notin Elements(queue[Lane(u)])
              /\ u \in active[Lane(u)] => Follow(u) \in calling
          BY <4>3 DEF Placed, InOnePlace
        <5>2. u # t
          BY <2>6, <4>3
        <5>3. u \in active'[Lane(u)] => u \in active[Lane(u)] /\ Follow(u) # t
          BY <2>8, <4>1
        <5>4. u \notin Elements(queue'[Lane(u)])
          BY <2>4, <4>1, <5>1, <5>2
        <5>. QED
          BY <2>9, <5>1, <5>3, <5>4
      <4>. QED
        BY <4>1, <4>2, <4>3
    <3>. QED
      BY <2>1, <2>5, <3>1, <3>2 DEF InOnePlace
  <2>12. Fresh'
    <3>1. \A l \in Lanes : Elements(queue'[l]) \cup active'[l] \subseteq asked
      <4> TAKE l \in Lanes
      <4>1. Elements(queue[l]) \cup active[l] \subseteq asked
        BY DEF Placed, Fresh
      <4>. QED
        BY <2>4, <2>6, <2>8, <4>1
    <3>. QED
      BY <2>1, <3>1 DEF Placed, Fresh
  <2>. QED
    BY <2>10, <2>12 DEF Placed
<1>3. ASSUME NEW l \in PoolSet, NEW k \in 2..Len(queue[l]), RaiseTask(l, k) PROVE Placed'
  <2>1. /\ queue' = [queue EXCEPT ![l] = Raised(@, k)]
        /\ UNCHANGED <<active, calling, asked, answers>>
    BY <1>3 DEF RaiseTask, client
  <2>2. \A m \in Lanes : /\ Elements(queue'[m]) = Elements(queue[m])
                         /\ Distinct(queue[m]) => Distinct(queue'[m])
    BY <1>0, <2>1, RaisedFacts DEF TypeOK
  <2>. QED
    BY <2>1, <2>2 DEF Placed, InOnePlace, Fresh
<1>4. ASSUME NEW l \in Lanes, Takes(l) PROVE Placed'
  <2> DEFINE h == Head(queue[l])
  <2>1. /\ queue[l] # <<>> /\ queue' = [queue EXCEPT ![l] = Tail(@)]
        /\ active' = [active EXCEPT ![l] = @ \cup {h}]
        /\ UNCHANGED <<calling, asked, answers>>
    BY <1>4 DEF Takes, client
  <2>2. /\ h \in Tasks /\ h \in Elements(queue[l]) /\ h \notin Elements(Tail(queue[l]))
        /\ Elements(queue[l]) = Elements(Tail(queue[l])) \cup {h}
        /\ Distinct(Tail(queue[l]))
    BY <1>0, <2>1, PopFacts DEF Placed, InOnePlace
  <2> HIDE DEF h
  <2>3. \A m \in Lanes : /\ Elements(queue'[m]) = IF m = l THEN Elements(queue[m]) \ {h}
                                                           ELSE Elements(queue[m])
                         /\ Distinct(queue'[m])
    <3> TAKE m \in Lanes
    <3>1. CASE m = l
      <4>1. queue'[m] = Tail(queue[l])
        BY <2>1, <3>1 DEF TypeOK
      <4>. QED
        BY <2>2, <3>1, <4>1
    <3>2. CASE m # l
      BY <2>1, <3>2 DEF TypeOK, Placed, InOnePlace
    <3>. QED
      BY <3>1, <3>2
  <2>4. \A m \in Lanes : active'[m] = IF m = l THEN active[m] \cup {h} ELSE active[m]
    BY <2>1, <1>0
  <2>5. Lane(h) = l /\ h \in asked /\ h \notin calling /\ h \notin active[l] /\ answers[h] # 1
    BY <2>2 DEF Placed, InOnePlace, Fresh
  <2>6. ASSUME NEW m \in Lanes
        PROVE  /\ \A u \in Elements(queue'[m]) \cup active'[m] : Lane(u) = m
               /\ \A u \in calling : u \notin Elements(queue'[m]) \cup active'[m]
               /\ Elements(queue'[m]) \cap active'[m] = {}
               /\ Elements(queue'[m]) \cup active'[m] = Elements(queue[m]) \cup active[m]
    <3>1. /\ \A u \in Elements(queue[m]) \cup active[m] : Lane(u) = m
          /\ \A u \in calling : u \notin Elements(queue[m]) \cup active[m]
          /\ Elements(queue[m]) \cap active[m] = {}
      BY DEF Placed, InOnePlace
    <3>2. CASE m = l
      BY <2>2, <2>3, <2>4, <2>5, <3>1, <3>2
    <3>3. CASE m # l
      BY <2>3, <2>4, <3>1, <3>3
    <3>. QED
      BY <3>2, <3>3
  <2>7. InOnePlace'
    <3>1. ASSUME NEW u \in Tasks
          PROVE  /\ answers[u] <= 1
                 /\ u \in asked /\ answers[u] = 0 =>
                       \/ u \in calling \/ u \in Elements(queue'[Lane(u)])
                       \/ u \in active'[Lane(u)]
                 /\ answers[u] = 1 =>
                       /\ u \notin calling /\ u \notin Elements(queue'[Lane(u)])
                       /\ u \in active'[Lane(u)] => Follow(u) \in calling
      <4>1. Lane(u) \in Lanes
        OBVIOUS
      <4>2. /\ answers[u] <= 1
            /\ u \in asked /\ answers[u] = 0 =>
                  \/ u \in calling \/ u \in Elements(queue[Lane(u)])
                  \/ u \in active[Lane(u)]
            /\ answers[u] = 1 =>
                  /\ u \notin calling /\ u \notin Elements(queue[Lane(u)])
                  /\ u \in active[Lane(u)] => Follow(u) \in calling
        BY DEF Placed, InOnePlace
      <4>3. answers[u] = 1 => u # h
        BY <2>5
      <4>4. /\ Elements(queue'[Lane(u)]) \subseteq Elements(queue[Lane(u)])
            /\ active[Lane(u)] \subseteq active'[Lane(u)]
            /\ Elements(queue[Lane(u)]) \subseteq
                  Elements(queue'[Lane(u)]) \cup active'[Lane(u)]
            /\ u # h => active'[Lane(u)] \subseteq active[Lane(u)] \cup {h}
        <5>1. CASE Lane(u) = l
          <6>1. /\ Elements(queue'[l]) = Elements(queue[l]) \ {h}
                /\ active'[l] = active[l] \cup {h}
            BY <2>3, <2>4, ZenonT(30)
          <6>. QED
            BY <5>1, <6>1, SMTT(30)
        <5>2. CASE Lane(u) # l
          <6>1. /\ Elements(queue'[Lane(u)]) = Elements(queue[Lane(u)])
                /\ active'[Lane(u)] = active[Lane(u)]
            BY <2>3, <2>4, <4>1, <5>2, ZenonT(30)
          <6>. QED
            BY <6>1, SMTT(30)
        <5>. QED
          BY <5>1, <5>2
      <4>. QED
        <5>1. u \in asked /\ answers[u] = 0 =>
                    \/ u \in calling \/ u \in Elements(queue'[Lane(u)])
                    \/ u \in active'[Lane(u)]
          BY <4>2, <4>4, SMTT(30)
        <5>2. answers[u] = 1 =>
                    /\ u \notin calling /\ u \notin Elements(queue'[Lane(u)])
                    /\ u \in active'[Lane(u)] => Follow(u) \in calling
          BY <4>2, <4>3, <4>4, SMTT(30)
        <5>. QED
          BY <4>2, <5>1, <5>2, Zenon
    <3>. QED
      BY <2>1, <2>3, <2>6, <3>1 DEF InOnePlace
  <2>. QED
    BY <2>1, <2>6, <2>7 DEF Placed, Fresh
<1>5. ASSUME NEW l \in Lanes, NEW t \in active[l], Finish(l, t) PROVE Placed'
  <2>1. /\ t \in Tasks /\ answers[t] = 0 /\ UNCHANGED queue
    BY <1>0, <1>5 DEF Finish
  <2>2. Lane(t) = l /\ t \in asked /\ t \notin calling /\ t \notin Elements(queue[l])
    BY <2>1 DEF Placed, InOnePlace, Fresh
  <2>3. CASE Follow(t) = NoTask
    <3>1. /\ answers' = [answers EXCEPT ![t] = 1] /\ active' = [active EXCEPT ![l] = @ \ {t}]
          /\ UNCHANGED <<calling, asked>>
      BY <1>0, <1>5, <2>1, <2>3 DEF Finish, Completed, client
    <3>. QED
      BY <1>0, <2>1, <2>2, <2>3, <3>1 DEF Placed, InOnePlace, Fresh
  <2>4. CASE Follow(t) # NoTask
    <3> DEFINE n == Follow(t)
    <3>1. n \in Tasks /\ n \notin asked
      BY <2>1, <2>4 DEF Placed, Fresh
    <3>2. n # t /\ answers[n] = 0
      BY <2>2, <3>1 DEF Placed, Fresh
    <3>3. n \notin calling /\ \A m \in Lanes : n \notin Elements(queue[m]) \cup active[m]
      BY <3>1 DEF Placed, Fresh
    <3>4. \A u \in Tasks : Follow(u) = n => u = t
      BY <2>1, <2>4, ChainAssumption
    <3>5. asked' = asked \cup {n}
      BY <1>5, <2>4 DEF Finish
    <3>8. Follow(t) = n
      OBVIOUS
    <3> HIDE DEF n
    <3>6. CASE stop
      <4>1. /\ answers' = [answers EXCEPT ![t] = 1, ![n] = 1]
            /\ active' = [active EXCEPT ![l] = @ \ {t}] /\ calling' = calling
        BY <1>0, <1>5, <2>1, <2>4, <3>1, <3>2, <3>6 DEF Finish, n
      <4>. QED
        BY <1>0, <2>1, <2>2, <3>1, <3>2, <3>3, <3>4, <3>5, <3>8, <4>1
           DEF Placed, InOnePlace, Fresh
    <3>7. CASE ~stop
      <4>1. /\ answers' = [answers EXCEPT ![t] = 1]
            /\ active' = active /\ calling' = calling \cup {n}
        BY <1>0, <1>5, <2>1, <2>4, <3>7 DEF Finish, Completed, n
      <4>. QED
        BY <1>0, <2>1, <2>2, <3>1, <3>2, <3>3, <3>4, <3>5, <3>8, <4>1
           DEF Placed, InOnePlace, Fresh
    <3>. QED
      BY <3>6, <3>7
  <2>. QED
    BY <2>3, <2>4
<1>6. ASSUME UNCHANGED <<queue, active, calling, asked, answers>> PROVE Placed'
  BY <1>6 DEF Placed, InOnePlace, Fresh
<1>7. ASSUME NEW t \in Tasks, Crash(t) PROVE Placed'
  BY <1>6, <1>7 DEF Crash, client
<1>8. ASSUME NEW l \in Loops, DecideToWait(l) \/ Wait(l) \/ Leave(l) PROVE Placed'
  BY <1>6, <1>8 DEF DecideToWait, Wait, Leave, LoopGoes, client
<1>9. ASSUME NEW l \in Lanes, SpuriousWakeup(l) PROVE Placed'
  BY <1>6, <1>9 DEF SpuriousWakeup, LoopGoes, client
<1>10. CASE Cleanup
  BY <1>6, <1>10 DEF Cleanup, StoreStop, ResetPool, PoolDestroyed, NotifyLoops, JoinLoops,
                     CoreGoes, client
<1>11. CASE UNCHANGED vars
  BY <1>6, <1>11 DEF vars, client
<1>. QED
  BY <1>1, <1>2, <1>3, <1>4, <1>5, <1>7, <1>8, <1>9, <1>10, <1>11
     DEF Next, LoopStep, LoopTakes, PoolTakes

\* A request is completed at most once, and until then it is in one place.
THEOREM CompletedOnce == Spec => []InOnePlace
<1>1. Init => TypeOK /\ Placed
  BY InitType, InitPlaced
<1>2. (TypeOK /\ Placed) /\ [Next]_vars => (TypeOK /\ Placed)'
  BY NextType, NextPlaced
<1>3. TypeOK /\ Placed => InOnePlace
  BY DEF Placed
<1>. QED
  BY <1>1, <1>2, <1>3, PTL DEF Spec

-----------------------------------------------------------------------------
(* What cleanup leaves. *)

\* A pool that was destroyed is empty and stays so; a loop that does not run
\* executes nothing, and one that left holds what was queued too late.
Emptied ==
    /\ \A l \in PoolSet : Gone(l) => queue[l] = <<>> /\ active[l] = {}
    /\ \A l \in Loops : pc[l] # "run" => active[l] = {}
    /\ \A l \in Loops : pc[l] = "left" => Elements(queue[l]) \subseteq late
    /\ core = "done" => \A l \in Loops : pc[l] = "left"

LEMMA InitEmptied == Init => Emptied
<1> SUFFICES ASSUME Init PROVE Emptied
  OBVIOUS
<1>1. \A l \in Lanes : queue[l] = <<>> /\ active[l] = {}
  BY DEF Init
<1>. QED
  BY <1>1, LaneFacts DEF Init, Emptied

\* The pools that are gone when cleanup goes on to another pool.
LEMMA GoneFacts ==
    ASSUME TypeOK, PoolDestroyed, NEW l \in PoolSet, Gone(l)', ~Gone(l)
    PROVE  l = Pools[at]
<1>1. at \in DOMAIN Pools /\ DOMAIN Pools = 1..Len(Pools) /\ Len(Pools) \in Nat
  BY PoolsAssumption DEF TypeOK
<1>2. PICK i \in DOMAIN Pools : Pools[i] = l /\ ~(i < at)
  BY DEF Gone
<1>3. CASE at < Len(Pools)
  BY <1>1, <1>2, <1>3 DEF Gone, PoolDestroyed, CoreGoes
<1>4. CASE ~(at < Len(Pools))
  BY <1>1, <1>2, <1>4
<1>. QED
  BY <1>3, <1>4

LEMMA NextEmptied == TypeOK /\ Emptied /\ [Next]_vars => Emptied'
<1> SUFFICES ASSUME TypeOK, Emptied, [Next]_vars PROVE Emptied'
  OBVIOUS
<1> USE LaneFacts
<1>0. /\ queue \in [Lanes -> Seq(Tasks)] /\ active \in [Lanes -> SUBSET Tasks]
      /\ pc \in [Loops -> {"run", "toWait", "waiting", "left"}]
      /\ PoolSet \cap Loops = {}
  BY PoolsAssumption DEF TypeOK
<1>1. ASSUME UNCHANGED <<core, at>>, NEW l \in PoolSet
      PROVE  Gone(l)' = Gone(l)
  BY <1>1 DEF Gone
<1>2. ASSUME NEW t \in Tasks, AddTask(t) PROVE Emptied'
  <2> DEFINE m == Lane(t)
  <2>1. /\ ~Gone(m) /\ m \in Lanes
        /\ queue' = [queue EXCEPT ![m] = Append(@, t)]
        /\ \A l \in Lanes : active'[l] \subseteq active[l]
        /\ \A l \in Loops : pc'[l] = IF l = m /\ pc[l] = "waiting" THEN "run" ELSE pc[l]
        /\ late' = IF m \in Loops /\ pc[m] = "left" THEN late \cup {t} ELSE late
        /\ UNCHANGED <<core, at>>
    BY <1>2 DEF AddTask, control
  <2> HIDE DEF m
  <2>2. \A l \in Lanes : l # m => queue'[l] = queue[l]
    BY <1>0, <2>1
  <2>3. m \in Loops => Elements(queue'[m]) = Elements(queue[m]) \cup {t}
    BY <1>0, <2>1, AppendFacts
  <2>4. \A l \in PoolSet : Gone(l)' => queue'[l] = <<>> /\ active'[l] = {}
    BY <1>1, <2>1, <2>2 DEF Emptied
  <2>5. \A l \in Loops : pc'[l] = "left" => Elements(queue'[l]) \subseteq late'
    <3> TAKE l \in Loops
    <3> HAVE pc'[l] = "left"
    <3>1. pc[l] = "left" /\ Elements(queue[l]) \subseteq late
      BY <2>1 DEF Emptied
    <3>. QED
      BY <2>1, <2>2, <2>3, <3>1
  <2>6. \A l \in Loops : pc'[l] # "run" => active'[l] = {}
    BY <2>1 DEF Emptied
  <2>7. core' = "done" => \A l \in Loops : pc'[l] = "left"
    BY <2>1 DEF Emptied
  <2>. QED
    BY <2>4, <2>5, <2>6, <2>7 DEF Emptied
<1>3. ASSUME NEW l \in PoolSet, NEW k \in 2..Len(queue[l]), RaiseTask(l, k) PROVE Emptied'
  <2>1. queue[l] # <<>> /\ ~Gone(l)
    BY <1>0 DEF Emptied
  <2>2. /\ \A m \in Lanes : m # l => queue'[m] = queue[m]
        /\ UNCHANGED <<active, pc, late, core, at>>
    BY <1>0, <1>3 DEF RaiseTask, client, control
  <2>. QED
    BY <1>0, <1>1, <2>1, <2>2 DEF Emptied
<1>4. ASSUME NEW l \in PoolSet, Takes(l) PROVE Emptied'
  <2>1. queue[l] # <<>> /\ ~Gone(l)
    BY <1>4 DEF Takes, Emptied
  <2>2. /\ \A m \in Lanes : m # l => queue'[m] = queue[m] /\ active'[m] = active[m]
        /\ UNCHANGED <<pc, late, core, at>>
    BY <1>0, <1>4 DEF Takes, client, control
  <2>. QED
    BY <1>0, <1>1, <2>1, <2>2 DEF Emptied
<1>5. ASSUME NEW l \in Loops, LoopTakes(l) PROVE Emptied'
  <2>1. /\ \A m \in Lanes : m # l => queue'[m] = queue[m] /\ active'[m] = active[m]
        /\ UNCHANGED <<pc, late, core, at>> /\ pc[l] = "run"
    BY <1>0, <1>5 DEF LoopTakes, Takes, client, control
  <2>. QED
    BY <1>0, <1>1, <2>1 DEF Emptied
<1>6. ASSUME \A m \in Lanes : active'[m] \subseteq active[m],
             UNCHANGED <<queue, pc, late, core, at>>
      PROVE  Emptied'
  BY <1>1, <1>6 DEF Emptied
<1>7. ASSUME NEW l \in Lanes, NEW t \in active[l], Finish(l, t) PROVE Emptied'
  <2>1. \/ active' = [active EXCEPT ![l] = @ \ {t}]
        \/ active' = active
    BY <1>7 DEF Finish
  <2>2. \A m \in Lanes : active'[m] \subseteq active[m]
    BY <1>0, <2>1
  <2>3. UNCHANGED <<queue, pc, late, core, at>>
    BY <1>7 DEF Finish, client, control
  <2>. QED
    BY <1>6, <2>2, <2>3
<1>8. ASSUME NEW t \in Tasks, Perform(t) \/ Crash(t) PROVE Emptied'
  BY <1>6, <1>8 DEF Perform, Crash, client, control
<1>9. ASSUME NEW l \in Loops, NEW from, NEW to, LoopGoes(l, from, to), from # "left",
             to = "left" => queue[l] = <<>>
      PROVE  Emptied'
  <2>1. /\ active[l] = {} /\ pc[l] = from /\ pc' = [pc EXCEPT ![l] = to]
        /\ UNCHANGED <<queue, active, late, core, at>>
    BY <1>9 DEF LoopGoes, client, control
  <2>2. to = "left" => Elements(queue[l]) = {}
    BY <1>9 DEF Elements
  <2>3. core # "done"
    BY <1>9, <2>1 DEF Emptied
  <2>4. \A m \in Loops : pc'[m] = IF m = l THEN to ELSE pc[m]
    BY <1>0, <2>1
  <2>. QED
    BY <1>1, <2>1, <2>2, <2>3, <2>4 DEF Emptied
<1>10. ASSUME NEW l \in Loops, DecideToWait(l) \/ Wait(l) \/ Leave(l) PROVE Emptied'
  <2>1. CASE DecideToWait(l)
    BY <1>9, <2>1 DEF DecideToWait
  <2>2. CASE Wait(l)
    BY <1>9, <2>2 DEF Wait
  <2>3. CASE Leave(l)
    BY <1>9, <2>3 DEF Leave
  <2>. QED
    BY <1>10, <2>1, <2>2, <2>3
<1>11. ASSUME NEW l \in Lanes, SpuriousWakeup(l) PROVE Emptied'
  <2>1. CASE l \in Loops /\ LoopGoes(l, "waiting", "run")
    BY <1>9, <2>1
  <2>2. CASE UNCHANGED <<queue, active, pc, client, stop, core, at, crashed, answers>>
    BY <1>6, <2>2 DEF client
  <2>. QED
    BY <1>11, <2>1, <2>2 DEF SpuriousWakeup
<1>12. CASE StoreStop \/ ResetPool
  <2>1. UNCHANGED <<queue, active, pc, late, at>>
    BY <1>12 DEF StoreStop, ResetPool, CoreGoes, client
  <2>2. core \in {"idle", "resetPool"} /\ core' \in {"resetPool", "joinPool"}
    BY <1>12 DEF StoreStop, ResetPool, CoreGoes
  <2>3. \A l \in PoolSet : Gone(l)' => Gone(l)
    BY <2>1, <2>2 DEF Gone
  <2>. QED
    BY <2>1, <2>2, <2>3 DEF Emptied
<1>13. CASE PoolDestroyed
  <2>1. /\ UNCHANGED <<queue, active, pc, late>> /\ core' # "done"
        /\ queue[Pools[at]] = <<>> /\ active[Pools[at]] = {}
    BY <1>13 DEF PoolDestroyed, CoreGoes, client
  <2>2. \A l \in PoolSet : Gone(l)' => Gone(l) \/ l = Pools[at]
    BY <1>13, GoneFacts
  <2>. QED
    BY <2>1, <2>2 DEF Emptied
<1>14. CASE NotifyLoops
  <2>1. /\ UNCHANGED <<queue, active, late, at>>
        /\ core = "notify" /\ core' = "joinLoops"
        /\ \A l \in Loops : pc'[l] = IF pc[l] = "waiting" THEN "run" ELSE pc[l]
    BY <1>14 DEF NotifyLoops, CoreGoes, client
  <2>2. \A l \in PoolSet : Gone(l)
    BY <2>1 DEF Gone
  <2>. QED
    BY <2>1, <2>2 DEF Emptied
<1>15. CASE JoinLoops
  <2>1. /\ UNCHANGED <<queue, active, late, at, pc>>
        /\ core = "joinLoops" /\ \A l \in Loops : pc[l] = "left"
    BY <1>15 DEF JoinLoops, CoreGoes, client
  <2>2. \A l \in PoolSet : Gone(l)
    BY <2>1 DEF Gone
  <2>. QED
    BY <2>1, <2>2 DEF Emptied
<1>16. CASE UNCHANGED vars
  BY <1>6, <1>16 DEF vars, client, control
<1>. QED
  BY <1>2, <1>3, <1>4, <1>5, <1>7, <1>8, <1>10, <1>11, <1>12, <1>13, <1>14, <1>15, <1>16
     DEF Next, LoopStep, PoolTakes, Cleanup

\* When cleanup has returned, what was performed was completed, but for requests on
\* their way into the handler and those queued for a loop that had ended.
THEOREM CleanupLeavesNothing == Spec => []NothingLeftBehind
<1>1. Init => TypeOK /\ Placed /\ Emptied
  BY InitType, InitPlaced, InitEmptied
<1>2. (TypeOK /\ Placed /\ Emptied) /\ [Next]_vars => (TypeOK /\ Placed /\ Emptied)'
  BY NextType, NextPlaced, NextEmptied
<1>3. TypeOK /\ Placed /\ Emptied => NothingLeftBehind
  <2> SUFFICES ASSUME TypeOK, Placed, Emptied, core = "done", NEW t \in asked
               PROVE  answers[t] > 0 \/ t \in calling \cup late
    BY DEF NothingLeftBehind
  <2>1. t \in Tasks /\ answers[t] \in Nat /\ Lane(t) \in Lanes
    BY TasksAssumption DEF TypeOK
  <2>2. CASE answers[t] # 0
    BY <2>1, <2>2
  <2>3. CASE answers[t] = 0 /\ t \notin calling
    <3>1. t \in Elements(queue[Lane(t)]) \cup active[Lane(t)]
      BY <2>1, <2>3 DEF Placed, InOnePlace
    <3>2. CASE Lane(t) \in PoolSet
      <4>1. queue[Lane(t)] = <<>> /\ active[Lane(t)] = {}
        BY <3>2 DEF Emptied, Gone
      <4>. QED
        BY <3>1, <4>1 DEF Elements
    <3>3. CASE Lane(t) \in Loops
      <4>1. active[Lane(t)] = {} /\ Elements(queue[Lane(t)]) \subseteq late
        BY <3>3 DEF Emptied
      <4>. QED
        BY <3>1, <4>1
    <3>. QED
      BY <2>1, <3>2, <3>3 DEF Lanes
  <2>. QED
    BY <2>2, <2>3
<1>. QED
  BY <1>1, <1>2, <1>3, PTL DEF Spec
=============================================================================
