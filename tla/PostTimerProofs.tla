-------------------------- MODULE PostTimerProofs ---------------------------
(***************************************************************************)
(* Theorems about the timer of the send loop, for every rate and every     *)
(* number of messages and timers, as long as the core thread handles the   *)
(* function of a timer before the next period is over.                     *)
(***************************************************************************)
EXTENDS PostTimer, Functions, FunctionTheorems, FiniteSetTheorems, TLAPS

\* A tick whose function would wait behind another one does not happen.
Punctual == MaxBacklog = 1

-----------------------------------------------------------------------------
(* Lemmas about queues of calls, and how many calls of some kinds they     *)
(* hold.                                                                   *)

Elements(s) == {s[i] : i \in DOMAIN s}
IsQueue(s) == s \in Seq(Elements(s))

Of(s, ops) == {i \in DOMAIN s : s[i].op \in ops}

LEMMA OfFinite ==
    ASSUME NEW q, IsQueue(q), NEW ops
    PROVE  IsFiniteSet(Of(q, ops)) /\ Cardinality(Of(q, ops)) \in Nat
<1>1. DOMAIN q = 1..Len(q) /\ Len(q) \in Nat
  BY DEF IsQueue
<1>2. IsFiniteSet(DOMAIN q)
  BY <1>1, FS_Interval
<1>3. Of(q, ops) \subseteq DOMAIN q
  BY DEF Of
<1>. QED
  BY <1>2, <1>3, FS_Subset, FS_CardinalityType

LEMMA AppendCounts ==
    ASSUME NEW q, IsQueue(q), NEW c, NEW ops
    PROVE  Cardinality(Of(Append(q, c), ops))
           = Cardinality(Of(q, ops)) + (IF c.op \in ops THEN 1 ELSE 0)
<1> DEFINE S == Elements(q) \cup {c}
           r == Append(q, c)
           n == Len(q) + 1
<1>1. q \in Seq(S) /\ Len(q) \in Nat
  BY DEF IsQueue
<1>2. /\ DOMAIN q = 1..Len(q) /\ DOMAIN r = 1..(Len(q) + 1)
      /\ \A i \in 1..Len(q) : r[i] = q[i]
      /\ r[Len(q) + 1] = c
  BY <1>1
<1>3. /\ DOMAIN r = DOMAIN q \cup {n} /\ n \notin DOMAIN q /\ r[n] = c
      /\ \A i \in DOMAIN q : r[i] = q[i]
  BY <1>1, <1>2
<1> HIDE DEF r, n
<1>4. Of(r, ops) = IF c.op \in ops THEN Of(q, ops) \cup {n} ELSE Of(q, ops)
  BY <1>3 DEF Of
<1>5. n \notin Of(q, ops)
  BY <1>3 DEF Of
<1>6. Cardinality(Of(q, ops) \cup {n}) = Cardinality(Of(q, ops)) + 1
  BY <1>5, OfFinite, FS_AddElement
<1>7. Cardinality(Of(q, ops)) + 0 = Cardinality(Of(q, ops))
  BY OfFinite
<1>. QED
  BY <1>4, <1>6, <1>7 DEF r

LEMMA QueueAppend ==
    ASSUME NEW q, IsQueue(q), NEW c
    PROVE  IsQueue(Append(q, c)) /\ Len(Append(q, c)) = Len(q) + 1
<1> DEFINE S == Elements(q) \cup {c}
           r == Append(q, c)
<1>1. q \in Seq(S) /\ Len(q) \in Nat
  BY DEF IsQueue
<1>2. /\ r \in Seq(S) /\ Len(r) = Len(q) + 1
      /\ r[Len(r)] = c /\ \A i \in 1..Len(q) : r[i] = q[i]
  BY <1>1
<1> HIDE DEF r
<1>3. Elements(r) = S
  BY <1>1, <1>2 DEF Elements
<1>. QED
  BY <1>2, <1>3 DEF IsQueue, r

LEMMA QueueTail ==
    ASSUME NEW q, IsQueue(q), q # <<>>
    PROVE  /\ IsQueue(Tail(q)) /\ Len(Tail(q)) = Len(q) - 1 /\ Len(q) \in Nat \ {0}
           /\ DOMAIN q = 1..Len(q) /\ DOMAIN Tail(q) = 1..(Len(q) - 1)
           /\ Head(q) = q[1] /\ \A i \in 1..(Len(q) - 1) : Tail(q)[i] = q[i + 1]
<1> DEFINE r == Tail(q)
<1>1. q \in Seq(Elements(q)) /\ Len(q) \in Nat /\ Len(q) # 0 /\ Head(q) = q[1]
  BY DEF IsQueue
<1>2. /\ r \in Seq(Elements(q)) /\ Len(r) = Len(q) - 1
      /\ DOMAIN r = 1..Len(r) /\ DOMAIN q = 1..Len(q)
      /\ \A i \in 1..Len(r) : r[i] = q[i + 1]
  BY <1>1
<1> HIDE DEF r
<1>3. r \in Seq(Elements(r))
  <2>1. r \in [1..Len(r) -> Elements(r)] /\ Len(r) \in Nat
    BY <1>1, <1>2 DEF Elements
  <2>. QED
    BY <2>1
<1>. QED
  BY <1>1, <1>2, <1>3 DEF IsQueue, r

LEMMA TailCounts ==
    ASSUME NEW q, IsQueue(q), q # <<>>, NEW ops
    PROVE  Cardinality(Of(Tail(q), ops))
           = Cardinality(Of(q, ops)) - (IF Head(q).op \in ops THEN 1 ELSE 0)
<1> DEFINE r == Tail(q)
           S == Of(q, ops) \ {1}
           T == Of(r, ops)
           F == [i \in S |-> i - 1]
<1>1. /\ IsQueue(r) /\ Len(q) \in Nat \ {0}
      /\ DOMAIN q = 1..Len(q) /\ DOMAIN r = 1..(Len(q) - 1)
      /\ Head(q) = q[1] /\ \A i \in 1..(Len(q) - 1) : r[i] = q[i + 1]
  BY QueueTail
<1> HIDE DEF r
<1>2. \A i \in S : i \in Nat /\ i - 1 \in T
  <2>1. ASSUME NEW i \in S PROVE i \in Nat /\ i - 1 \in T
    <3>1. i \in 1..Len(q) /\ i # 1 /\ q[i].op \in ops
      BY <1>1 DEF Of
    <3>2. i - 1 \in 1..(Len(q) - 1) /\ (i - 1) + 1 = i
      BY <1>1, <3>1
    <3>3. r[i - 1] = q[i]
      BY <1>1, <3>2
    <3>. QED
      BY <1>1, <3>1, <3>2, <3>3 DEF Of
  <2>. QED
    BY <2>1
<1>3. \A j \in T : \E i \in S : i - 1 = j
  <2>1. ASSUME NEW j \in T PROVE j + 1 \in S /\ (j + 1) - 1 = j
    <3>1. j \in 1..(Len(q) - 1) /\ r[j].op \in ops
      BY <1>1 DEF Of
    <3>2. j + 1 \in 1..Len(q) /\ j + 1 # 1 /\ q[j + 1] = r[j] /\ (j + 1) - 1 = j
      BY <1>1, <3>1
    <3>. QED
      BY <1>1, <3>1, <3>2 DEF Of
  <2>. QED
    BY <2>1
<1>4. IsFiniteSet(S) /\ Cardinality(S) = Cardinality(Of(q, ops))
                                        - (IF Head(q).op \in ops THEN 1 ELSE 0)
  <2>1. 1 \in Of(q, ops) <=> Head(q).op \in ops
    BY <1>1 DEF Of
  <2>2. /\ IsFiniteSet(S)
        /\ Cardinality(S) = IF 1 \in Of(q, ops) THEN Cardinality(Of(q, ops)) - 1
                                               ELSE Cardinality(Of(q, ops))
    BY OfFinite, FS_RemoveElement
  <2>. QED
    BY <2>1, <2>2, OfFinite
<1> HIDE DEF S, T
<1>5. F \in [S -> T] /\ \A a, b \in S : F[a] = F[b] => a = b
  BY <1>2
<1>6. \A t \in T : \E i \in S : F[i] = t
  BY <1>3
<1>7. F \in Bijection(S, T)
  BY <1>5, <1>6, Fun_IsBij
<1>8. ExistsBijection(S, T)
  BY <1>7, Fun_ExistsBij
<1>9. Cardinality(T) = Cardinality(S)
  BY <1>4, <1>8, FS_Bijection
<1>. QED
  BY <1>4, <1>9 DEF T, r

LEMMA EmptyCounts ==
    IsQueue(<<>>) /\ Len(<<>>) = 0 /\ \A ops : Cardinality(Of(<<>>, ops)) = 0
<1>1. IsQueue(<<>>) /\ Len(<<>>) = 0
  BY DEF IsQueue
<1>2. \A ops : Of(<<>>, ops) = {}
  BY DEF Of
<1>. QED
  BY <1>1, <1>2, FS_EmptySet

-----------------------------------------------------------------------------
(* The calls that belong to the loop, and the timer functions that were    *)
(* posted.                                                                 *)

Fired(s) == Cardinality(Of(s, {"timer"}))

IsLoop(c) == c.op \in {"first", "stamp", "remove"}

LEMMA CountsAreNat ==
    ASSUME NEW q, IsQueue(q)
    PROVE  InLoop(q) \in Nat /\ Fired(q) \in Nat
  BY OfFinite DEF InLoop, Fired, Of

LEMMA AppendFacts ==
    ASSUME NEW q, IsQueue(q), NEW c
    PROVE  /\ IsQueue(Append(q, c))
           /\ InLoop(Append(q, c)) = InLoop(q) + (IF IsLoop(c) THEN 1 ELSE 0)
           /\ Fired(Append(q, c)) = Fired(q) + (IF c.op = "timer" THEN 1 ELSE 0)
<1>1. Cardinality(Of(Append(q, c), {"first", "stamp", "remove"}))
      = Cardinality(Of(q, {"first", "stamp", "remove"})) + (IF IsLoop(c) THEN 1 ELSE 0)
  BY AppendCounts DEF IsLoop
<1>2. Cardinality(Of(Append(q, c), {"timer"}))
      = Cardinality(Of(q, {"timer"})) + (IF c.op = "timer" THEN 1 ELSE 0)
  BY AppendCounts
<1>. QED
  BY <1>1, <1>2, QueueAppend DEF InLoop, Fired, Of

LEMMA TailFacts ==
    ASSUME NEW q, IsQueue(q), q # <<>>
    PROVE  /\ IsQueue(Tail(q))
           /\ InLoop(Tail(q)) = InLoop(q) - (IF IsLoop(Head(q)) THEN 1 ELSE 0)
           /\ Fired(Tail(q)) = Fired(q) - (IF Head(q).op = "timer" THEN 1 ELSE 0)
<1>1. Cardinality(Of(Tail(q), {"first", "stamp", "remove"}))
      = Cardinality(Of(q, {"first", "stamp", "remove"})) - (IF IsLoop(Head(q)) THEN 1 ELSE 0)
  BY TailCounts DEF IsLoop
<1>2. Cardinality(Of(Tail(q), {"timer"}))
      = Cardinality(Of(q, {"timer"})) - (IF Head(q).op = "timer" THEN 1 ELSE 0)
  BY TailCounts
<1>. QED
  BY <1>1, <1>2, QueueTail DEF InLoop, Fired, Of

LEMMA EmptyFacts == IsQueue(<<>>) /\ InLoop(<<>>) = 0 /\ Fired(<<>>) = 0
  BY EmptyCounts DEF InLoop, Fired, Of

LEMMA CallFacts ==
    /\ \A m : ~IsLoop(Call("insert", m)) /\ Call("insert", m).op # "timer"
    /\ \A op \in {"first", "stamp", "remove"} : \A m :
          IsLoop(Call(op, m)) /\ Call(op, m).op # "timer"
    /\ ~IsLoop(WakeUp) /\ WakeUp.op = "timer"
  BY DEF IsLoop, Call, WakeUp

-----------------------------------------------------------------------------
(* The invariant: an active loop is in one place, a call of either thread, *)
(* a request under way or a timer; that timer is the only one, and its     *)
(* function is posted once at most.                                        *)

Typed ==
    /\ IsQueue(inbox) /\ IsQueue(jobs) /\ IsQueue(packets)
    /\ current \in Timers \cup {None}
    /\ active \in BOOLEAN

OneTimer == DOMAIN timed = {current} \ {None}

Waits(t) == IF t = None THEN 0 ELSE 1

OneLoop ==
    InLoop(inbox) + InLoop(jobs) + Len(packets) + Waits(current) = IF active THEN 1 ELSE 0

FiredOnce == Fired(inbox) <= Waits(current)

IInv == Typed /\ OneTimer /\ OneLoop /\ FiredOnce

\* All that the invariant says of numbers.
LEMMA NumberFacts ==
    ASSUME IInv
    PROVE  /\ InLoop(inbox) \in Nat /\ Fired(inbox) \in Nat
           /\ InLoop(jobs) \in Nat /\ Fired(jobs) \in Nat
           /\ Len(packets) \in Nat
           /\ Waits(current) \in {0, 1}
           /\ Waits(current) = 0 => current = None
           /\ InLoop(inbox) + InLoop(jobs) + Len(packets) + Waits(current)
              = IF active THEN 1 ELSE 0
           /\ Fired(inbox) <= Waits(current)
<1>1. IsQueue(inbox) /\ IsQueue(jobs) /\ Len(packets) \in Nat
  BY DEF IInv, Typed, IsQueue
<1>2. Waits(current) \in {0, 1} /\ (Waits(current) = 0 => current = None)
  BY DEF Waits
<1>. QED
  BY <1>1, <1>2, CountsAreNat DEF IInv, OneLoop, FiredOnce

\* A queue followed by a few calls that are not of the loop.
Quiet(js) == js = <<>> \/ \E m : js = <<Call("insert", m)>>

LEMMA QuietFacts ==
    ASSUME NEW q, IsQueue(q), NEW js, Quiet(js)
    PROVE  IsQueue(q \o js) /\ InLoop(q \o js) = InLoop(q)
<1>1. CASE js = <<>>
  <2>1. q \o js = q
    BY <1>1 DEF IsQueue
  <2>. QED
    BY <2>1
<1>2. ASSUME NEW m, js = <<Call("insert", m)>> PROVE IsQueue(q \o js) /\ InLoop(q \o js) = InLoop(q)
  <2> DEFINE c == Call("insert", m)
             S == Elements(q) \cup {c}
  <2>1. q \in Seq(S) /\ c \in S
    BY DEF IsQueue
  <2> HIDE DEF c, S
  <2>2. q \o <<c>> = Append(q, c)
    BY <2>1
  <2>3. IsQueue(Append(q, c)) /\ InLoop(Append(q, c)) = InLoop(q) + 0
    BY AppendFacts, CallFacts DEF c
  <2>4. InLoop(q) + 0 = InLoop(q)
    BY CountsAreNat
  <2>5. js = <<c>>
    BY <1>2 DEF c
  <2>. QED
    BY <2>2, <2>3, <2>4, <2>5
<1>. QED
  BY <1>1, <1>2 DEF Quiet

LEMMA ConcatUnit ==
    ASSUME NEW q, IsQueue(q), NEW c
    PROVE  q \o <<c>> = Append(q, c)
<1> DEFINE S == Elements(q) \cup {c}
<1>1. q \in Seq(S) /\ c \in S
  BY DEF IsQueue
<1> HIDE DEF S
<1>. QED
  BY <1>1

\* The loop starts again, when nothing of it is anywhere but its timer.
LEMMA PostStep ==
    ASSUME IInv, NEW js, Quiet(js), Post(js), IsQueue(inbox'), IsQueue(packets'),
           InLoop(inbox') = 0, Fired(inbox') = 0, InLoop(jobs) = 0, Len(packets') = 0
    PROVE  IInv'
<1>1. /\ active' = TRUE /\ current' = None /\ DOMAIN timed' = DOMAIN timed \ {current}
      /\ jobs' = jobs \o js \o <<Call("first", None)>>
  BY DEF Post, StopTimer
<1>2. IsQueue(jobs \o js) /\ InLoop(jobs \o js) = 0
  BY QuietFacts DEF IInv, Typed
<1>3. IsQueue(jobs') /\ InLoop(jobs') = 1
  <2>1. jobs' = Append(jobs \o js, Call("first", None))
    BY <1>1, <1>2, ConcatUnit
  <2>2. InLoop(jobs') = 0 + 1
    BY <1>2, <2>1, AppendFacts, CallFacts
  <2>. QED
    BY <1>2, <2>1, <2>2, AppendFacts
<1>4. Typed'
  BY <1>1, <1>3 DEF Typed
<1>5. OneTimer'
  BY <1>1 DEF IInv, OneTimer
<1>6. Waits(current') = 0
  BY <1>1 DEF Waits
<1>. QED
  BY <1>1, <1>3, <1>4, <1>5, <1>6 DEF IInv, OneLoop, FiredOnce

LEMMA PostUnlessActiveStep ==
    ASSUME IInv, NEW js, Quiet(js), PostUnlessActive(js), UNCHANGED <<inbox, packets>>
    PROVE  IInv'
<1>1. CASE active
  <2>1. jobs' = jobs \o js /\ UNCHANGED <<active, timed, current>>
    BY <1>1 DEF PostUnlessActive
  <2>2. IsQueue(jobs') /\ InLoop(jobs') = InLoop(jobs)
    BY <2>1, QuietFacts DEF IInv, Typed
  <2>. QED
    BY <2>1, <2>2 DEF IInv, Typed, OneTimer, OneLoop, FiredOnce
<1>2. CASE ~active
  <2>1. Post(js)
    BY <1>2 DEF PostUnlessActive
  <2>2. InLoop(inbox) = 0 /\ Fired(inbox) = 0 /\ InLoop(jobs) = 0 /\ Len(packets) = 0
    BY <1>2, NumberFacts
  <2>. QED
    BY <2>1, <2>2, PostStep DEF IInv, Typed
<1>. QED
  BY <1>1, <1>2

\* The function of a timer is posted only if the one before has run.
LEMMA TickKeeps ==
    ASSUME Punctual, IInv, Tick
    PROVE  IInv'
<1> DEFINE due == {t \in DOMAIN timed : Due(t)}
           posted == [i \in 1..Cardinality(due) |-> WakeUp]
<1>1. /\ DOMAIN timed' = DOMAIN timed /\ UNCHANGED <<current, active, jobs, packets>>
      /\ Fired(inbox) + Cardinality(due) <= 1
      /\ inbox' = inbox \o posted
  BY DEF Tick, Punctual, Backlog, Fired, Of
<1>2. due \subseteq {current} \ {None} /\ IsQueue(inbox)
  BY DEF IInv, OneTimer, Typed
<1> HIDE DEF due
<1>3. CASE due = {}
  <2>1. Cardinality(due) = 0
    BY <1>3, FS_EmptySet
  <2>2. posted = <<>>
    BY <2>1
  <2> HIDE DEF posted
  <2>3. inbox' = inbox
    <3>1. inbox \o <<>> = inbox
      BY <1>2 DEF IsQueue
    <3>. QED
      BY <1>1, <2>2, <3>1
  <2>. QED
    BY <1>1, <2>3 DEF IInv, Typed, OneTimer, OneLoop, FiredOnce
<1>4. CASE due # {}
  <2>1. due = {current} /\ current # None
    BY <1>2, <1>4
  <2>2. Cardinality(due) = 1
    BY <2>1, FS_Singleton
  <2>3. posted = <<WakeUp>>
    BY <2>2
  <2>4. inbox' = Append(inbox, WakeUp)
    BY <1>1, <1>2, <2>3, ConcatUnit
  <2>5. Fired(inbox) = 0 /\ Waits(current) = 1
    <3>1. Fired(inbox) + 1 <= 1 /\ Fired(inbox) \in Nat
      BY <1>1, <2>2, NumberFacts
    <3>2. Waits(current) = 1
      BY <2>1 DEF Waits
    <3>. QED
      BY <3>1, <3>2
  <2>6. /\ IsQueue(inbox')
        /\ InLoop(inbox') = InLoop(inbox) + 0
        /\ Fired(inbox') = 0 + 1
    BY <1>2, <2>4, <2>5, AppendFacts, CallFacts
  <2>7. InLoop(inbox') = InLoop(inbox) /\ Fired(inbox') = 1
    BY <2>6, NumberFacts
  <2>8. Waits(current') = 1 /\ 1 <= 1
    BY <1>1, <2>5
  <2>9. FiredOnce'
    BY <2>7, <2>8 DEF FiredOnce
  <2>10. OneLoop'
    BY <1>1, <2>7 DEF IInv, OneLoop
  <2>. QED
    BY <1>1, <2>6, <2>9, <2>10 DEF IInv, Typed, OneTimer
<1>. QED
  BY <1>3, <1>4

\* The core thread takes a call of the loop, which holds nothing else then.
LEMMA TakeFacts ==
    ASSUME IInv, NEW op, Next1(op)
    PROVE  /\ IsQueue(inbox')
           /\ op \in {"first", "stamp", "remove"} =>
                /\ InLoop(inbox) = 1 /\ InLoop(inbox') = 0 /\ Fired(inbox') = 0
                /\ InLoop(jobs) = 0 /\ Len(packets) = 0 /\ current = None /\ active
           /\ op = "timer" =>
                /\ InLoop(inbox') = 0 /\ Fired(inbox') = 0
                /\ InLoop(jobs) = 0 /\ Len(packets) = 0 /\ active
<1>1. inbox # <<>> /\ Head(inbox).op = op /\ inbox' = Tail(inbox) /\ IsQueue(inbox)
  BY DEF Next1, IInv, Typed
<1>2. /\ IsQueue(inbox')
      /\ InLoop(inbox') = InLoop(inbox) - (IF IsLoop(Head(inbox)) THEN 1 ELSE 0)
      /\ Fired(inbox') = Fired(inbox) - (IF Head(inbox).op = "timer" THEN 1 ELSE 0)
  BY <1>1, TailFacts
<1>3. InLoop(inbox') \in Nat /\ Fired(inbox') \in Nat
  BY <1>2, CountsAreNat
<1>4. CASE op \in {"first", "stamp", "remove"}
  <2>1. InLoop(inbox') = InLoop(inbox) - 1 /\ Fired(inbox') = Fired(inbox) - 0
    BY <1>1, <1>2, <1>4 DEF IsLoop
  <2>2. /\ InLoop(inbox) = 1 /\ InLoop(jobs) = 0 /\ Len(packets) = 0
        /\ Waits(current) = 0 /\ active
    BY <1>3, <2>1, NumberFacts
  <2>3. Fired(inbox) = 0 /\ current = None
    BY <2>2, NumberFacts
  <2>. QED
    BY <1>2, <1>4, <2>1, <2>2, <2>3
<1>5. CASE op = "timer"
  <2>1. InLoop(inbox') = InLoop(inbox) - 0 /\ Fired(inbox') = Fired(inbox) - 1
    BY <1>1, <1>2, <1>5 DEF IsLoop
  <2>2. Fired(inbox) = 1 /\ Waits(current) = 1
    BY <1>3, <2>1, NumberFacts
  <2>3. InLoop(inbox) = 0 /\ InLoop(jobs) = 0 /\ Len(packets) = 0 /\ active
    BY <2>2, NumberFacts
  <2>. QED
    BY <1>2, <1>5, <2>1, <2>2, <2>3
<1>. QED
  BY <1>2, <1>4, <1>5

\* A request of the loop is answered, which is nowhere else then.
LEMMA AnsweredFacts ==
    ASSUME IInv, Answered
    PROVE  /\ IsQueue(packets') /\ Len(packets') = 0 /\ inbox' = inbox
           /\ InLoop(inbox) = 0 /\ Fired(inbox) = 0 /\ InLoop(jobs) = 0
           /\ current = None /\ active
<1>1. packets # <<>> /\ packets' = Tail(packets) /\ inbox' = inbox /\ IsQueue(packets)
  BY DEF Answered, IInv, Typed
<1>2. IsQueue(packets') /\ Len(packets') = Len(packets) - 1 /\ Len(packets) \in Nat \ {0}
  BY <1>1, QueueTail
<1>3. /\ Len(packets) = 1 /\ InLoop(inbox) = 0 /\ InLoop(jobs) = 0
      /\ Waits(current) = 0 /\ active
  BY <1>2, NumberFacts
<1>4. Fired(inbox) = 0 /\ current = None
  BY <1>3, NumberFacts
<1>. QED
  BY <1>1, <1>2, <1>3, <1>4

\* The archive's thread runs a job, and answers with the same call, if at all.
LEMMA RunJobFacts ==
    ASSUME IInv, NEW op, RunJob(op)
    PROVE  /\ UNCHANGED <<timed, current, active, packets>>
           /\ IsQueue(jobs')
           /\ op = "insert" => InLoop(jobs') = InLoop(jobs)
           /\ op \in {"first", "stamp", "remove"} =>
                 /\ InLoop(jobs) = 1 /\ InLoop(jobs') = 0
                 /\ InLoop(inbox) = 0 /\ Len(packets) = 0 /\ current = None /\ active
                 /\ Fired(inbox) = 0
<1>1. /\ jobs # <<>> /\ Head(jobs).op = op /\ jobs' = Tail(jobs) /\ IsQueue(jobs)
      /\ UNCHANGED <<timed, current, active, packets>>
  BY DEF RunJob, IInv, Typed
<1>2. /\ IsQueue(jobs')
      /\ InLoop(jobs') = InLoop(jobs) - (IF IsLoop(Head(jobs)) THEN 1 ELSE 0)
  BY <1>1, TailFacts
<1>3. InLoop(jobs') \in Nat
  BY <1>2, CountsAreNat
<1>4. CASE op = "insert"
  <2>1. InLoop(jobs') = InLoop(jobs) - 0
    BY <1>1, <1>2, <1>4 DEF IsLoop
  <2>2. InLoop(jobs') = InLoop(jobs)
    BY <2>1, NumberFacts
  <2>. QED
    BY <1>1, <1>2, <1>4, <2>2
<1>5. CASE op \in {"first", "stamp", "remove"}
  <2>1. InLoop(jobs') = InLoop(jobs) - 1
    BY <1>1, <1>2, <1>5 DEF IsLoop
  <2>2. /\ InLoop(jobs) = 1 /\ InLoop(inbox) = 0 /\ Len(packets) = 0
        /\ Waits(current) = 0 /\ active
    BY <1>3, <2>1, NumberFacts
  <2>3. Fired(inbox) = 0 /\ current = None
    BY <2>2, NumberFacts
  <2>. QED
    BY <1>1, <1>2, <1>5, <2>1, <2>2, <2>3
<1>6. CASE op # "insert" /\ op \notin {"first", "stamp", "remove"}
  BY <1>1, <1>2, <1>6
<1>. QED
  BY <1>4, <1>5, <1>6

\* The loop is handed on: one call of it, or request, is in the place of another.
LEMMA HandOver ==
    ASSUME IInv, active, IsQueue(inbox'), IsQueue(jobs'), IsQueue(packets'),
           UNCHANGED <<timed, current, active>>, current = None, Fired(inbox') = 0,
           InLoop(inbox') + InLoop(jobs') + Len(packets') = 1
    PROVE  IInv'
<1>1. Waits(current') = 0
  BY DEF Waits
<1>2. OneLoop'
  <2>1. InLoop(inbox') \in Nat /\ InLoop(jobs') \in Nat /\ Len(packets') \in Nat
    BY CountsAreNat DEF IsQueue
  <2>. QED
    BY <1>1, <2>1 DEF OneLoop
<1>3. FiredOnce'
  BY <1>1 DEF FiredOnce
<1>. QED
  BY <1>2, <1>3 DEF IInv, Typed, OneTimer

\* The loop ends.
LEMMA EndStep ==
    ASSUME IInv, IsQueue(inbox'), IsQueue(packets'), active' = FALSE,
           UNCHANGED <<timed, current, jobs>>, current = None, Fired(inbox') = 0,
           InLoop(inbox') = 0, InLoop(jobs) = 0, Len(packets') = 0
    PROVE  IInv'
<1>1. Waits(current') = 0
  BY DEF Waits
<1>2. OneLoop'
  BY <1>1 DEF OneLoop
<1>3. FiredOnce'
  BY <1>1 DEF FiredOnce
<1>. QED
  BY <1>2, <1>3 DEF IInv, Typed, OneTimer

LEMMA StartTimerKeeps ==
    ASSUME IInv, StartTimer
    PROVE  IInv'
<1>1. Next1("first") /\ UNCHANGED <<active, jobs, packets>>
  BY DEF StartTimer
<1>2. /\ IsQueue(inbox') /\ InLoop(inbox') = 0 /\ Fired(inbox') = 0
      /\ InLoop(jobs) = 0 /\ Len(packets) = 0 /\ current = None /\ active
  BY <1>1, TakeFacts
<1>3. PICK t \in Timers \ DOMAIN timed : PushTimer(t) /\ current' = t
  BY DEF StartTimer
<1>4. t # None
  BY DEF Timers, None
<1>5. DOMAIN timed' = {t}
  BY <1>2, <1>3 DEF PushTimer, IInv, OneTimer
<1>6. Waits(current') = 1
  BY <1>3, <1>4 DEF Waits
<1>7. OneTimer'
  BY <1>3, <1>4, <1>5 DEF OneTimer
<1>8. OneLoop'
  BY <1>1, <1>2, <1>6 DEF OneLoop
<1>9. FiredOnce'
  BY <1>2, <1>6 DEF FiredOnce
<1>. QED
  BY <1>1, <1>2, <1>3, <1>7, <1>8, <1>9 DEF IInv, Typed

LEMMA CoreStepKeeps ==
    ASSUME IInv, CoreStep
    PROVE  IInv'
<1>1. CASE OnTimer
  <2>1. Next1("timer") /\ Post(<<>>) /\ packets' = packets
    BY <1>1 DEF OnTimer
  <2>. QED
    BY <2>1, TakeFacts, PostStep DEF Quiet, IInv, Typed
<1>2. CASE LoopEnds
  <2>1. Next1("first") /\ active' = FALSE /\ UNCHANGED <<timed, current, jobs, packets>>
    BY <1>2 DEF LoopEnds
  <2>. QED
    BY <2>1, TakeFacts, EndStep DEF IInv, Typed
<1>3. CASE StartTimer
  BY <1>3, StartTimerKeeps
<1>4. CASE StampPostTime
  <2>1. /\ Next1("first") /\ UNCHANGED <<timed, current, active, packets>>
        /\ jobs' = Append(jobs, Call("stamp", Head(inbox).msg))
    BY <1>4 DEF StampPostTime
  <2>2. /\ IsQueue(inbox') /\ InLoop(inbox') = 0 /\ Fired(inbox') = 0
        /\ InLoop(jobs) = 0 /\ Len(packets) = 0 /\ current = None /\ active
        /\ IsQueue(jobs) /\ IsQueue(packets)
    BY <2>1, TakeFacts DEF IInv, Typed
  <2>3. IsQueue(jobs') /\ InLoop(jobs') = 0 + 1
    BY <2>1, <2>2, AppendFacts, CallFacts
  <2>4. InLoop(inbox') + InLoop(jobs') + Len(packets') = 1
    BY <2>1, <2>2, <2>3
  <2>. QED
    BY <2>1, <2>2, <2>3, <2>4, HandOver
<1>5. CASE SendMessage
  <2>1. /\ Next1("stamp") /\ UNCHANGED <<timed, current, active, jobs>>
        /\ packets' = Append(packets, Head(inbox).msg)
    BY <1>5 DEF SendMessage
  <2>2. /\ IsQueue(inbox') /\ InLoop(inbox') = 0 /\ Fired(inbox') = 0
        /\ InLoop(jobs) = 0 /\ Len(packets) = 0 /\ current = None /\ active
        /\ IsQueue(jobs) /\ IsQueue(packets)
    BY <2>1, TakeFacts DEF IInv, Typed
  <2>3. IsQueue(packets') /\ Len(packets') = 0 + 1
    BY <2>1, <2>2, QueueAppend
  <2>4. InLoop(inbox') + InLoop(jobs') + Len(packets') = 1
    BY <2>1, <2>2, <2>3
  <2>. QED
    BY <2>1, <2>2, <2>3, <2>4, HandOver
<1>6. CASE OnRemoved
  <2>1. Next1("remove") /\ Post(<<>>) /\ packets' = packets
    BY <1>6 DEF OnRemoved
  <2>. QED
    BY <2>1, TakeFacts, PostStep DEF Quiet, IInv, Typed
<1>. QED
  BY <1>1, <1>2, <1>3, <1>4, <1>5, <1>6 DEF CoreStep

LEMMA AnswerKeeps ==
    ASSUME IInv, OnSent \/ OnAccepted \/ OnSendFailed
    PROVE  IInv'
<1>1. Answered
  BY DEF OnSent, OnAccepted, OnSendFailed
<1>2. /\ IsQueue(packets') /\ Len(packets') = 0 /\ inbox' = inbox
      /\ InLoop(inbox) = 0 /\ Fired(inbox) = 0 /\ InLoop(jobs) = 0
      /\ current = None /\ active /\ IsQueue(inbox) /\ IsQueue(jobs)
  BY <1>1, AnsweredFacts DEF IInv, Typed
<1>3. CASE OnSent
  <2>1. /\ jobs' = Append(jobs, Call("remove", Head(packets)))
        /\ UNCHANGED <<active, timed, current>>
    BY <1>3 DEF OnSent
  <2>2. IsQueue(jobs') /\ InLoop(jobs') = 0 + 1
    BY <1>2, <2>1, AppendFacts, CallFacts
  <2>3. InLoop(inbox') + InLoop(jobs') + Len(packets') = 1 /\ Fired(inbox') = 0
    BY <1>2, <2>2
  <2>. QED
    BY <1>2, <2>1, <2>2, <2>3, HandOver
<1>4. CASE OnAccepted
  <2>1. Post(<<>>) /\ Quiet(<<>>)
    BY <1>4 DEF OnAccepted, Quiet
  <2>. QED
    BY <1>2, <2>1, PostStep
<1>5. CASE OnSendFailed
  BY <1>2, <1>5, EndStep DEF OnSendFailed
<1>. QED
  BY <1>3, <1>4, <1>5

LEMMA ArchiveStepKeeps ==
    ASSUME IInv, ArchiveStep
    PROVE  IInv'
<1>1. CASE RunInsert
  <2>1. RunJob("insert") /\ inbox' = inbox
    BY <1>1 DEF RunInsert
  <2>2. /\ UNCHANGED <<timed, current, active, packets, inbox>>
        /\ IsQueue(jobs') /\ InLoop(jobs') = InLoop(jobs)
    BY <2>1, RunJobFacts
  <2>. QED
    BY <2>2 DEF IInv, Typed, OneTimer, OneLoop, FiredOnce
<1>2. ASSUME NEW op \in {"first", "stamp", "remove"}, RunJob(op), NEW c,
             inbox' = Append(inbox, c), IsLoop(c), c.op # "timer"
      PROVE  IInv'
  <2>1. /\ UNCHANGED <<timed, current, active, packets>> /\ IsQueue(jobs')
        /\ InLoop(jobs') = 0 /\ InLoop(inbox) = 0 /\ Len(packets) = 0
        /\ current = None /\ active /\ Fired(inbox) = 0
        /\ IsQueue(inbox) /\ IsQueue(packets)
    BY <1>2, RunJobFacts DEF IInv, Typed
  <2>2. IsQueue(inbox') /\ InLoop(inbox') = 0 + 1 /\ Fired(inbox') = 0 + 0
    BY <1>2, <2>1, AppendFacts
  <2>3. InLoop(inbox') + InLoop(jobs') + Len(packets') = 1 /\ Fired(inbox') = 0
    BY <2>1, <2>2
  <2>. QED
    BY <2>1, <2>2, <2>3, HandOver
<1>3. CASE RunFirst
  <2>1. /\ RunJob("first")
        /\ \E m : inbox' = Append(inbox, Call("first", m))
    BY <1>3 DEF RunFirst
  <2>. QED
    BY <1>2, <2>1, CallFacts
<1>4. ASSUME NEW op \in {"stamp", "remove"}, RunJob(op), inbox' = Append(inbox, Head(jobs))
      PROVE  IInv'
  <2>1. Head(jobs).op = op
    BY <1>4 DEF RunJob
  <2>2. IsLoop(Head(jobs)) /\ Head(jobs).op # "timer"
    BY <2>1 DEF IsLoop
  <2>. QED
    BY <1>2, <1>4, <2>2
<1>5. CASE RunStamp
  BY <1>4, <1>5 DEF RunStamp
<1>6. CASE RunRemove
  BY <1>4, <1>6 DEF RunRemove
<1>. QED
  BY <1>1, <1>3, <1>5, <1>6 DEF ArchiveStep

LEMMA InitHolds == Init => IInv
<1> SUFFICES ASSUME Init PROVE IInv
  OBVIOUS
<1>1. /\ timed = <<>> /\ current = None /\ active = FALSE
      /\ inbox = <<>> /\ jobs = <<>> /\ packets = <<>>
  BY DEF Init
<1>2. DOMAIN timed = {}
  BY <1>1
<1>3. Waits(current) = 0
  BY <1>1 DEF Waits
<1>4. Typed /\ OneTimer
  BY <1>1, <1>2, EmptyFacts DEF Typed, OneTimer
<1>5. OneLoop /\ FiredOnce
  BY <1>1, <1>3, EmptyFacts, EmptyCounts DEF OneLoop, FiredOnce
<1>. QED
  BY <1>4, <1>5 DEF IInv

LEMMA StepKeeps == Punctual /\ IInv /\ [Next]_vars => IInv'
<1> SUFFICES ASSUME Punctual, IInv, [Next]_vars PROVE IInv'
  OBVIOUS
<1>1. CASE Tick
  BY <1>1, TickKeeps
<1>2. CASE SendMessageToContact
  <2>1. /\ PostUnlessActive(<<Call("insert", typed + 1)>>) /\ UNCHANGED <<inbox, packets>>
        /\ Quiet(<<Call("insert", typed + 1)>>)
    BY <1>2 DEF SendMessageToContact, Quiet
  <2>. QED
    BY <2>1, PostUnlessActiveStep
<1>3. CASE Resume
  <2>1. PostUnlessActive(<<>>) /\ Quiet(<<>>) /\ UNCHANGED <<inbox, packets>>
    BY <1>3 DEF Resume, Quiet
  <2>. QED
    BY <2>1, PostUnlessActiveStep
<1>4. CASE CoreStep
  BY <1>4, CoreStepKeeps
<1>5. CASE OnSent \/ OnAccepted \/ OnSendFailed
  BY <1>5, AnswerKeeps
<1>6. CASE ArchiveStep
  BY <1>6, ArchiveStepKeeps
<1>7. CASE UNCHANGED vars
  BY <1>7 DEF vars, IInv, Typed, OneTimer, OneLoop, FiredOnce
<1>. QED
  BY <1>1, <1>2, <1>3, <1>4, <1>5, <1>6, <1>7 DEF Next

LEMMA InvariantImplies == IInv => NoTimerLeaks /\ PostedOnceAtATime
<1> SUFFICES ASSUME IInv PROVE NoTimerLeaks /\ PostedOnceAtATime
  OBVIOUS
<1>1. NoTimerLeaks
  BY DEF IInv, OneTimer, NoTimerLeaks
<1>2. Len(packets) <= 1
  BY NumberFacts
<1>3. packets # <<>> => Len(packets) # 0
  BY DEF IInv, Typed, IsQueue
<1>4. current # None => Waits(current) = 1
  BY DEF Waits
<1>5. ASSUME current # None \/ packets # <<>>
      PROVE  InLoop(inbox) + InLoop(jobs) = 0
  BY <1>3, <1>4, <1>5, NumberFacts
<1>. QED
  BY <1>1, <1>2, <1>5 DEF PostedOnceAtATime

LEMMA Invariance == Punctual => (Spec => []IInv)
<1> SUFFICES ASSUME Punctual PROVE Spec => []IInv
  OBVIOUS
<1>1. Init => IInv
  BY InitHolds
<1>2. IInv /\ [Next]_vars => IInv'
  BY StepKeeps
<1>. QED
  BY <1>1, <1>2, PTL DEF Spec

\* While the core thread handles a timer's function before the next period is over,
\* the scheduler's list never holds a timer but the one in post_messages_timer_, so
\* that stop_timer reaches it (scheduler.cpp, im::post_pending_messages).
THEOREM TimersAreStopped == Punctual => (Spec => []NoTimerLeaks)
<1> SUFFICES ASSUME Punctual PROVE Spec => []NoTimerLeaks
  OBVIOUS
<1>. QED
  BY Invariance, InvariantImplies, PTL

\* Under the same condition the send loop is never at work in two places, whatever
\* is typed, answered or fails (im::post_pending_messages and its flag
\* sent_pending_messages_active_).
THEOREM OneLoopPosts == Punctual => (Spec => []PostedOnceAtATime)
<1> SUFFICES ASSUME Punctual PROVE Spec => []PostedOnceAtATime
  OBVIOUS
<1>. QED
  BY Invariance, InvariantImplies, PTL
=============================================================================
