--------------------------- MODULE SendThreadProofs --------------------------
(***************************************************************************)
(* Proofs about core::wim::wim_send_thread for any packets and any number  *)
(* of repetitions: its type invariant, that a packet is answered at most   *)
(* once (it implements OneAnswer), that a cancelled packet was never sent, *)
(* that the queue is never left with nobody to take packets out of it, and *)
(* that packets reach the server one at a time, in the order of the posts. *)
(***************************************************************************)
EXTENDS SendThread, FiniteSetTheorems, TLAPS

-----------------------------------------------------------------------------
(* The inductive invariant. *)

Statements == {"release", "next", "clear", "session"}
Job == [packet : Packets, send : BOOLEAN]
Result == [kind : {"executed", "refused", "async"}, packet : Packets,
           error : Errors \ {"task_canceled"}]
Sender == [executing : BOOLEAN, queue : Seq(Packets), limited : BOOLEAN,
           jobs : Seq(Job), air : SUBSET Packets]

\* No packet is twice in the queue (q), the jobs (js), the requests in the air
\* or the results (box), or in two of them.
Apart(q, js, air, box) ==
    /\ \A i, j \in 1..Len(q) : q[i] = q[j] => i = j
    /\ \A i, j \in 1..Len(js) : js[i].packet = js[j].packet => i = j
    /\ \A i, j \in 1..Len(box) : box[i].packet = box[j].packet => i = j
    /\ \A i \in 1..Len(q) : \A j \in 1..Len(js) : js[j].packet # q[i]
    /\ \A i \in 1..Len(q) : \A j \in 1..Len(box) : box[j].packet # q[i]
    /\ \A i \in 1..Len(js) : \A j \in 1..Len(box) : box[j].packet # js[i].packet
    /\ \A i \in 1..Len(q) : q[i] \notin air
    /\ \A i \in 1..Len(js) : js[i].packet \notin air
    /\ \A i \in 1..Len(box) : box[i].packet \notin air

\* A packet is in a place it can be in: it is pending, and rep of it leaves
\* room for the execution it waits for.
Fit(q, js, air, box, pending, rep) ==
    /\ \A i \in 1..Len(q) : q[i] \in pending \ Async /\ rep[q[i]] = 0
    /\ \A i \in 1..Len(js) :
          /\ js[i].packet \in pending
          /\ js[i].send => js[i].packet \notin Async /\ rep[js[i].packet] < RepeatCount
    /\ \A i \in 1..Len(box) :
          /\ box[i].packet \in pending
          /\ box[i].kind = "executed" => box[i].packet \notin Async
    /\ air \subseteq pending \cap Async

Places(q, js, air, box, pending, rep) ==
    /\ q \in Seq(Packets) /\ js \in Seq(Job) /\ box \in Seq(Result)
    /\ Apart(q, js, air, box)
    /\ Fit(q, js, air, box, pending, rep)

Placed(s, box, pending, rep) == Places(s.queue, s.jobs, s.air, box, pending, rep)

Pending == {p \in Packets : p \in Elements(posted) /\ answers[p] = 0}

\* What is remembered of the packets.
History ==
    /\ \A p \in Packets \ Elements(posted) : answers[p] = 0 /\ repeats[p] = 0
    /\ \A p \in Packets : repeats[p] = 0 => p \notin Elements(started)
    /\ \A p \in canceled : answers[p] > 0 /\ p \notin Elements(started)

Says(what, list) == \E k \in 1..Len(list) : list[k] = what

Expected(box) == \E i \in 1..Len(box) : box[i].kind # "async"

\* Who takes the packets out of the queue of s: the packet in flight while
\* is_packet_execute_ is set, and what is left of the closure otherwise.
Served(s, list, box) ==
    /\ s.queue # <<>> => s.executing \/ Says("next", list)
    /\ s.executing /\ ~Says("release", list) => s.jobs # <<>> \/ Expected(box)
    /\ Says("release", list) => list[Len(list)] = "next"

Typed ==
    /\ sender \in Sender /\ agenda \in Seq(Statements) /\ inbox \in Seq(Result)
    /\ repeats \in [Packets -> 0..RepeatCount]
    /\ stopped \in SUBSET Packets /\ posted \in Seq(Packets)
    /\ started \in Seq(Packets) /\ answers \in [Packets -> Nat]
    /\ canceled \in SUBSET Packets /\ refusals \in SUBSET Packets

SendInv ==
    /\ Typed
    /\ Placed(sender, inbox, Pending, repeats)
    /\ History
    /\ Served(sender, agenda, inbox)

-----------------------------------------------------------------------------
(* The queues. *)

\* What Append and Tail do to a queue.
LEMMA AppendFacts ==
    ASSUME NEW S, NEW q \in Seq(S), NEW x \in S
    PROVE  /\ Append(q, x) \in Seq(S) /\ Len(Append(q, x)) = Len(q) + 1
           /\ Len(q) \in Nat /\ Append(q, x)[Len(q) + 1] = x
           /\ \A i \in 1..Len(q) : Append(q, x)[i] = q[i] /\ q[i] \in S
           /\ Append(q, x) # <<>>
  OBVIOUS

LEMMA TailFacts ==
    ASSUME NEW S, NEW q \in Seq(S), q # <<>>
    PROVE  /\ Tail(q) \in Seq(S) /\ Len(q) \in Nat /\ Len(q) >= 1
           /\ Len(Tail(q)) = Len(q) - 1
           /\ Head(q) \in S /\ Head(q) = q[1]
           /\ \A i \in 1..(Len(q) - 1) : Tail(q)[i] = q[i + 1]
  OBVIOUS

LEMMA SeqGrows ==
    ASSUME NEW S, NEW T, S \subseteq T, NEW q \in Seq(S)
    PROVE  q \in Seq(T)
<1>1. q \in [1..Len(q) -> S] /\ Len(q) \in Nat
  OBVIOUS
<1>2. q \in [1..Len(q) -> T]
  BY <1>1
<1>. QED
  BY <1>1, <1>2

LEMMA EmptyFacts ==
    ASSUME NEW S, NEW q \in Seq(S)
    PROVE  q # <<>> <=> Len(q) >= 1
  OBVIOUS

LEMMA ConcatFacts ==
    ASSUME NEW S, NEW a \in Seq(S), NEW b \in Seq(S)
    PROVE  /\ a \o b \in Seq(S) /\ Len(a \o b) = Len(a) + Len(b)
           /\ Len(a) \in Nat /\ Len(b) \in Nat
           /\ \A k \in 1..Len(a) : (a \o b)[k] = a[k]
           /\ \A k \in (Len(a) + 1)..(Len(a) + Len(b)) : (a \o b)[k] = b[k - Len(a)]
  OBVIOUS

\* Appending adds one element to a history.
LEMMA AppendElements ==
    ASSUME NEW S, NEW q \in Seq(S), NEW x \in S
    PROVE  Elements(Append(q, x)) = Elements(q) \cup {x}
<1>1. /\ DOMAIN q = 1..Len(q) /\ DOMAIN Append(q, x) = 1..(Len(q) + 1)
      /\ Len(q) \in Nat
  OBVIOUS
<1>2. /\ \A i \in 1..Len(q) : Append(q, x)[i] = q[i]
      /\ Append(q, x)[Len(q) + 1] = x
  BY AppendFacts
<1>3. \A y \in Elements(q) : y \in Elements(Append(q, x))
  BY <1>1, <1>2 DEF Elements
<1>4. x \in Elements(Append(q, x))
  BY <1>1, <1>2 DEF Elements
<1>5. \A y \in Elements(Append(q, x)) : y \in Elements(q) \/ y = x
  BY <1>1, <1>2 DEF Elements
<1>. QED
  BY <1>3, <1>4, <1>5

-----------------------------------------------------------------------------
(* What the parts of the handlers do to the packets' places. *)

\* p is in none of the places.
Nowhere(p, q, js, air, box) ==
    /\ \A i \in 1..Len(q) : q[i] # p
    /\ \A i \in 1..Len(js) : js[i].packet # p
    /\ \A i \in 1..Len(box) : box[i].packet # p
    /\ p \notin air

\* A longer list of jobs, or of results, is still apart from the rest.
LEMMA MoreJobs ==
    ASSUME NEW q, NEW js, NEW air, NEW box, NEW p, NEW r,
           Apart(q, js, air, box), Nowhere(p, q, js, air, box),
           Len(js) \in Nat, Len(r) = Len(js) + 1, r[Len(js) + 1].packet = p,
           \A i \in 1..Len(js) : r[i].packet = js[i].packet
    PROVE  Apart(q, r, air, box)
<1>1. \A i \in 1..Len(r) :
        \/ i \in 1..Len(js) /\ r[i].packet = js[i].packet /\ r[i].packet # p
        \/ i = Len(js) + 1 /\ r[i].packet = p
  BY DEF Nowhere
<1>2. \A i, j \in 1..Len(r) : r[i].packet = r[j].packet => i = j
  BY <1>1 DEF Apart
<1>3. \A i \in 1..Len(q) : \A j \in 1..Len(r) : r[j].packet # q[i]
  BY <1>1 DEF Apart, Nowhere
<1>4. \A i \in 1..Len(r) : \A j \in 1..Len(box) : box[j].packet # r[i].packet
  BY <1>1 DEF Apart, Nowhere
<1>5. \A i \in 1..Len(r) : r[i].packet \notin air
  BY <1>1 DEF Apart, Nowhere
<1>. QED
  BY <1>2, <1>3, <1>4, <1>5 DEF Apart

LEMMA MoreResults ==
    ASSUME NEW q, NEW js, NEW air, NEW box, NEW p, NEW r,
           Apart(q, js, air, box), Nowhere(p, q, js, air, box),
           Len(box) \in Nat, Len(r) = Len(box) + 1, r[Len(box) + 1].packet = p,
           \A i \in 1..Len(box) : r[i].packet = box[i].packet
    PROVE  Apart(q, js, air, r)
<1>1. \A i \in 1..Len(r) :
        \/ i \in 1..Len(box) /\ r[i].packet = box[i].packet /\ r[i].packet # p
        \/ i = Len(box) + 1 /\ r[i].packet = p
  BY DEF Nowhere
<1>2. \A i, j \in 1..Len(r) : r[i].packet = r[j].packet => i = j
  BY <1>1 DEF Apart
<1>3. \A i \in 1..Len(q) : \A j \in 1..Len(r) : r[j].packet # q[i]
  BY <1>1 DEF Apart, Nowhere
<1>4. \A i \in 1..Len(js) : \A j \in 1..Len(r) : r[j].packet # js[i].packet
  BY <1>1 DEF Apart, Nowhere
<1>5. \A i \in 1..Len(r) : r[i].packet \notin air
  BY <1>1 DEF Apart, Nowhere
<1>. QED
  BY <1>2, <1>3, <1>4, <1>5 DEF Apart

\* Adding a packet that is nowhere to the queue, the jobs or the requests in
\* the air.
LEMMA AddQueued ==
    ASSUME NEW q, NEW js, NEW air, NEW box, NEW pending, NEW rep,
           Places(q, js, air, box, pending, rep),
           NEW p \in (pending \cap Packets) \ Async, Nowhere(p, q, js, air, box),
           rep[p] = 0
    PROVE  Places(Append(q, p), js, air, box, pending, rep)
<1> DEFINE r == Append(q, p)
<1>0. Apart(q, js, air, box) /\ Fit(q, js, air, box, pending, rep)
  BY DEF Places
<1>1. q \in Seq(Packets)
  BY DEF Places
<1>types. r \in Seq(Packets)
  BY <1>1
<1>2. /\ Len(r) = Len(q) + 1 /\ r[Len(q) + 1] = p
      /\ \A i \in 1..Len(q) : r[i] = q[i]
      /\ Len(q) \in Nat
  BY <1>1
<1> HIDE DEF r
<1>3. Apart(r, js, air, box)
  BY <1>0, <1>2, SMTT(30) DEF Apart, Nowhere
<1>4. Fit(r, js, air, box, pending, rep)
  BY <1>0, <1>2 DEF Fit
<1>. QED
  BY <1>types, <1>3, <1>4 DEF Places, r

LEMMA AddJob ==
    ASSUME NEW q, NEW js, NEW air, NEW box, NEW pending, NEW rep,
           Places(q, js, air, box, pending, rep),
           NEW job \in Job, job.packet \in pending,
           Nowhere(job.packet, q, js, air, box),
           job.send => job.packet \notin Async /\ rep[job.packet] < RepeatCount
    PROVE  Places(q, Append(js, job), air, box, pending, rep)
<1> DEFINE r == Append(js, job)
<1>0. Apart(q, js, air, box) /\ Fit(q, js, air, box, pending, rep)
  BY DEF Places
<1>1. js \in Seq(Job)
  BY DEF Places
<1>types. r \in Seq(Job)
  BY <1>1
<1>2. /\ Len(r) = Len(js) + 1 /\ r[Len(js) + 1] = job
      /\ \A i \in 1..Len(js) : r[i] = js[i]
      /\ Len(js) \in Nat
  BY <1>1
<1> HIDE DEF r
<1>3. Apart(q, r, air, box)
  BY <1>0, <1>2, MoreJobs
<1>4. Fit(q, r, air, box, pending, rep)
  BY <1>0, <1>2 DEF Fit
<1>. QED
  BY <1>types, <1>3, <1>4 DEF Places, r

LEMMA AddAir ==
    ASSUME NEW q, NEW js, NEW air, NEW box, NEW pending, NEW rep,
           Places(q, js, air, box, pending, rep),
           NEW p \in pending \cap Async, Nowhere(p, q, js, air, box)
    PROVE  Places(q, js, air \cup {p}, box, pending, rep)
  BY DEF Places, Apart, Fit, Nowhere

\* A result of a packet that is nowhere else.
LEMMA AddResult ==
    ASSUME NEW q, NEW js, NEW air, NEW box, NEW pending, NEW rep,
           Places(q, js, air, box, pending, rep),
           NEW result \in Result, result.packet \in pending,
           Nowhere(result.packet, q, js, air, box),
           result.kind = "executed" => result.packet \notin Async
    PROVE  Places(q, js, air, Append(box, result), pending, rep)
<1> DEFINE r == Append(box, result)
<1>0. Apart(q, js, air, box) /\ Fit(q, js, air, box, pending, rep)
  BY DEF Places
<1>1. box \in Seq(Result)
  BY DEF Places
<1>types. r \in Seq(Result)
  BY <1>1
<1>2. /\ Len(r) = Len(box) + 1 /\ r[Len(box) + 1] = result
      /\ \A i \in 1..Len(box) : r[i] = box[i]
      /\ Len(box) \in Nat
  BY <1>1
<1> HIDE DEF r
<1>3. Apart(q, js, air, r)
  BY <1>0, <1>2, MoreResults
<1>4. Fit(q, js, air, r, pending, rep)
  BY <1>0, <1>2 DEF Fit
<1>. QED
  BY <1>types, <1>3, <1>4 DEF Places, r

\* Taking the first packet out of the queue, the jobs or the results, or one
\* out of the air: it is nowhere then.
LEMMA TakeQueued ==
    ASSUME NEW q, NEW js, NEW air, NEW box, NEW pending, NEW rep,
           Places(q, js, air, box, pending, rep), q # <<>>
    PROVE  /\ Places(Tail(q), js, air, box, pending \ {Head(q)}, rep)
           /\ Nowhere(Head(q), Tail(q), js, air, box)
           /\ Head(q) \in (pending \cap Packets) \ Async
           /\ rep[Head(q)] = 0
<1> DEFINE r == Tail(q)
           p == Head(q)
<1>0. Apart(q, js, air, box) /\ Fit(q, js, air, box, pending, rep)
  BY DEF Places
<1>1. q \in Seq(Packets)
  BY DEF Places
<1>types. r \in Seq(Packets) /\ p \in Packets
  BY <1>1
<1>2. /\ p = q[1] /\ 1 \in 1..Len(q)
      /\ \A i \in 1..Len(r) : i + 1 \in 1..Len(q) /\ i + 1 # 1 /\ r[i] = q[i + 1]
      /\ Len(q) \in Nat
  BY <1>1
<1> HIDE DEF r, p
<1>3. Nowhere(p, r, js, air, box)
  BY <1>0, <1>2 DEF Apart, Nowhere
<1>4. Apart(r, js, air, box)
  BY <1>0, <1>2 DEF Apart
<1>5. Fit(r, js, air, box, pending \ {p}, rep) /\ p \in pending \ Async /\ rep[p] = 0
  BY <1>0, <1>2, <1>3 DEF Fit, Nowhere
<1>. QED
  BY <1>types, <1>3, <1>4, <1>5 DEF Places, r, p

LEMMA TakeJob ==
    ASSUME NEW q, NEW js, NEW air, NEW box, NEW pending, NEW rep,
           Places(q, js, air, box, pending, rep), js # <<>>
    PROVE  /\ Places(q, Tail(js), air, box, pending \ {Head(js).packet}, rep)
           /\ Nowhere(Head(js).packet, q, Tail(js), air, box)
           /\ Head(js) \in Job /\ Head(js).packet \in pending \cap Packets
           /\ Head(js).send => /\ Head(js).packet \notin Async
                               /\ rep[Head(js).packet] < RepeatCount
<1> DEFINE r == Tail(js)
           j == Head(js)
<1>0. Apart(q, js, air, box) /\ Fit(q, js, air, box, pending, rep)
  BY DEF Places
<1>1. js \in Seq(Job)
  BY DEF Places
<1>types. r \in Seq(Job) /\ j \in Job
  BY <1>1
<1>2. /\ j = js[1] /\ 1 \in 1..Len(js)
      /\ \A i \in 1..Len(r) : i + 1 \in 1..Len(js) /\ i + 1 # 1 /\ r[i] = js[i + 1]
      /\ Len(js) \in Nat
  BY <1>1
<1>3. j.packet \in Packets
  BY <1>types DEF Job
<1> HIDE DEF r, j
<1>4. Nowhere(j.packet, q, r, air, box)
  BY <1>0, <1>2 DEF Apart, Nowhere
<1>5. Apart(q, r, air, box)
  <2>1. \A i \in 1..Len(r) : r[i].packet = js[i + 1].packet
    BY <1>2
  <2>. QED
    BY <1>0, <1>2, <2>1 DEF Apart
<1>6. /\ j.packet \in pending
      /\ j.send => j.packet \notin Async /\ rep[j.packet] < RepeatCount
  BY <1>0, <1>2 DEF Fit
<1>7. Fit(q, r, air, box, pending \ {j.packet}, rep)
  BY <1>0, <1>2, <1>4 DEF Fit, Nowhere
<1>. QED
  BY <1>types, <1>3, <1>4, <1>5, <1>6, <1>7 DEF Places, r, j

LEMMA TakeResult ==
    ASSUME NEW q, NEW js, NEW air, NEW box, NEW pending, NEW rep,
           Places(q, js, air, box, pending, rep), box # <<>>
    PROVE  /\ Places(q, js, air, Tail(box), pending \ {Head(box).packet}, rep)
           /\ Nowhere(Head(box).packet, q, js, air, Tail(box))
           /\ Head(box) \in Result /\ Head(box).packet \in pending \cap Packets
           /\ Head(box).kind = "executed" => Head(box).packet \notin Async
<1> DEFINE r == Tail(box)
           b == Head(box)
<1>0. Apart(q, js, air, box) /\ Fit(q, js, air, box, pending, rep)
  BY DEF Places
<1>1. box \in Seq(Result)
  BY DEF Places
<1>types. r \in Seq(Result) /\ b \in Result
  BY <1>1
<1>2. /\ b = box[1] /\ 1 \in 1..Len(box)
      /\ \A i \in 1..Len(r) : i + 1 \in 1..Len(box) /\ i + 1 # 1 /\ r[i] = box[i + 1]
      /\ Len(box) \in Nat
  BY <1>1
<1>3. b.packet \in Packets
  BY <1>types DEF Result
<1> HIDE DEF r, b
<1>4. Nowhere(b.packet, q, js, air, r)
  BY <1>0, <1>2 DEF Apart, Nowhere
<1>5. Apart(q, js, air, r)
  <2>1. \A i \in 1..Len(r) : r[i].packet = box[i + 1].packet
    BY <1>2
  <2>. QED
    BY <1>0, <1>2, <2>1 DEF Apart
<1>6. b.packet \in pending /\ (b.kind = "executed" => b.packet \notin Async)
  BY <1>0, <1>2 DEF Fit
<1>7. Fit(q, js, air, r, pending \ {b.packet}, rep)
  BY <1>0, <1>2, <1>4 DEF Fit, Nowhere
<1>. QED
  BY <1>types, <1>3, <1>4, <1>5, <1>6, <1>7 DEF Places, r, b

LEMMA TakeAir ==
    ASSUME NEW q, NEW js, NEW air, NEW box, NEW pending, NEW rep,
           Places(q, js, air, box, pending, rep), NEW p \in air
    PROVE  /\ Places(q, js, air \ {p}, box, pending \ {p}, rep)
           /\ Nowhere(p, q, js, air \ {p}, box)
           /\ p \in pending \cap Async
  BY DEF Places, Apart, Fit, Nowhere

\* The pending packets may grow, and repetitions of packets that are nowhere
\* may be counted.
LEMMA StillPlaced ==
    ASSUME NEW q, NEW js, NEW air, NEW box, NEW pending, NEW rep,
           Places(q, js, air, box, pending, rep),
           NEW more, pending \subseteq more,
           NEW rep2, \A p \in pending : rep2[p] = rep[p]
    PROVE  Places(q, js, air, box, more, rep2)
  BY DEF Places, Fit

-----------------------------------------------------------------------------
(* post_packet and the callbacks. *)

\* A packet that is not pending is nowhere.
LEMMA NotPending ==
    ASSUME NEW q, NEW js, NEW air, NEW box, NEW pending, NEW rep,
           Places(q, js, air, box, pending, rep), NEW p, p \notin pending
    PROVE  Nowhere(p, q, js, air, box)
<1>1. Fit(q, js, air, box, pending, rep)
  BY DEF Places
<1>. QED
  BY <1>1 DEF Fit, Nowhere

\* post_packet puts a packet that is nowhere into one of the places, and
\* somebody will take the packets out of the queue.
LEMMA PostKeeps ==
    ASSUME NEW s \in Sender, NEW box, NEW pending, NEW rep,
           Placed(s, box, pending, rep),
           NEW p \in pending \cap Packets,
           Nowhere(p, s.queue, s.jobs, s.air, box),
           rep[p] < RepeatCount, s.executing => rep[p] = 0,
           NEW r, r = PostPacket(s, p)
    PROVE  /\ r \in Sender /\ Placed(r, box, pending, rep)
           /\ p \notin Async \/ s.executing => r.executing
           /\ (r.executing /\ ~s.executing) \/ s.jobs # <<>> => r.jobs # <<>>
           /\ r.queue # <<>> => s.queue # <<>> \/ r.executing
<1>0. /\ s.queue \in Seq(Packets) /\ s.jobs \in Seq(Job) /\ s.air \in SUBSET Packets
  BY DEF Sender
<1>1. CASE s.executing /\ p \notin Async
  <2>1. r = [s EXCEPT !.queue = Append(s.queue, p)]
    BY <1>1 DEF PostPacket
  <2>2. Append(s.queue, p) \in Seq(Packets)
    BY <1>0
  <2>3. /\ r \in Sender /\ r.queue = Append(s.queue, p) /\ r.jobs = s.jobs
        /\ r.air = s.air /\ r.executing = s.executing
    BY <1>0, <2>1, <2>2 DEF Sender
  <2>4. Placed(r, box, pending, rep)
    BY <1>1, <2>3, AddQueued, ZenonT(40) DEF Placed
  <2>. QED
    BY <1>1, <2>3, <2>4
<1>2. CASE ~(s.executing /\ p \notin Async)
  <2> PICK u : u = [s EXCEPT !.executing = s.executing \/ p \notin Async]
    OBVIOUS
  <2>1. r = Launch(u, p)
    BY <1>2, Zenon DEF PostPacket
  <2>2. (s.executing \/ p \notin Async) \in BOOLEAN
    BY Zenon
  <2>3. /\ u \in Sender /\ u.queue = s.queue /\ u.jobs = s.jobs /\ u.air = s.air
        /\ u.limited = s.limited /\ u.executing = (s.executing \/ p \notin Async)
    BY <1>0, <2>2, Zenon DEF Sender
  <2>4. ASSUME NEW j \in Job, r = [u EXCEPT !.jobs = Append(u.jobs, j)],
               j.packet = p, j.send => p \notin Async
        PROVE  /\ r \in Sender /\ Placed(r, box, pending, rep)
               /\ r.executing = u.executing /\ r.queue = s.queue /\ r.jobs # <<>>
    <3>1. Append(s.jobs, j) \in Seq(Job) /\ Append(s.jobs, j) # <<>>
      BY <1>0
    <3>2. /\ r \in Sender /\ r.queue = s.queue /\ r.jobs = Append(s.jobs, j)
          /\ r.air = s.air /\ r.executing = u.executing
      BY <2>3, <2>4, <3>1 DEF Sender
    <3>3. Placed(r, box, pending, rep)
      BY <2>4, <3>2, AddJob DEF Placed
    <3>. QED
      BY <3>1, <3>2, <3>3
  <2>5. CASE u.limited
    <3>1. [packet |-> p, send |-> FALSE] \in Job
      BY DEF Job
    <3>2. r = [u EXCEPT !.jobs = Append(u.jobs, [packet |-> p, send |-> FALSE])]
      BY <2>1, <2>5, Zenon DEF Launch
    <3>3. /\ r \in Sender /\ Placed(r, box, pending, rep)
          /\ r.executing = u.executing /\ r.queue = s.queue /\ r.jobs # <<>>
      BY <2>4, <3>1, <3>2
    <3>. QED
      BY <2>3, <3>3
  <2>6. CASE ~u.limited /\ p \in Async
    <3>1. r = [u EXCEPT !.air = u.air \cup {p}]
      BY <2>1, <2>6, Zenon DEF Launch
    <3>2. u.air \cup {p} \in SUBSET Packets
      BY <1>0, <2>3
    <3>3. /\ r \in Sender /\ r.queue = s.queue /\ r.jobs = s.jobs
          /\ r.air = s.air \cup {p} /\ r.executing = u.executing
      BY <2>3, <3>1, <3>2 DEF Sender
    <3>4. Placed(r, box, pending, rep)
      BY <2>6, <3>3, AddAir DEF Placed
    <3>. QED
      BY <2>3, <2>6, <3>3, <3>4
  <2>7. CASE ~u.limited /\ p \notin Async
    <3>1. [packet |-> p, send |-> TRUE] \in Job
      BY DEF Job
    <3>2. r = [u EXCEPT !.jobs = Append(u.jobs, [packet |-> p, send |-> TRUE])]
      BY <2>1, <2>7, Zenon DEF Launch
    <3>3. /\ r \in Sender /\ Placed(r, box, pending, rep)
          /\ r.executing = u.executing /\ r.queue = s.queue /\ r.jobs # <<>>
      BY <2>4, <2>7, <3>1, <3>2
    <3>. QED
      BY <2>3, <3>3
  <2>. QED
    BY <2>5, <2>6, <2>7
<1>. QED
  BY <1>1, <1>2

\* Posting a packet leaves nobody unserved.
LEMMA PostServes ==
    ASSUME NEW s, NEW r, NEW list, NEW box, Served(s, list, box),
           s.executing => r.executing,
           (r.executing /\ ~s.executing) \/ s.jobs # <<>> => r.jobs # <<>>,
           r.queue # <<>> => s.queue # <<>> \/ r.executing
    PROVE  Served(r, list, box)
  BY Zenon DEF Served

\* What starting the session again adds to the closure.
LEMMA RestartFacts ==
    ASSUME NEW rest \in Seq(Statements)
    PROVE  LET list == RestartSession \o rest
           IN  /\ list \in Seq(Statements)
               /\ \A what : Says(what, rest) => Says(what, list)
               /\ \A what \in {"release", "next"} :
                      Says(what, list) => Says(what, rest)
               /\ rest # <<>> => list[Len(list)] = rest[Len(rest)]
<1> DEFINE list == RestartSession \o rest
<1>1. /\ RestartSession \in Seq(Statements) /\ Len(RestartSession) = 2
      /\ RestartSession[1] = "clear" /\ RestartSession[2] = "session"
  BY DEF RestartSession, Statements
<1>2. /\ list \in Seq(Statements) /\ Len(list) = Len(rest) + 2 /\ Len(rest) \in Nat
      /\ list[1] = "clear" /\ list[2] = "session"
      /\ \A k \in 3..(Len(rest) + 2) : list[k] = rest[k - 2]
  <2>1. /\ list \in Seq(Statements) /\ Len(list) = Len(RestartSession) + Len(rest)
        /\ Len(rest) \in Nat
        /\ \A k \in 1..Len(RestartSession) : list[k] = RestartSession[k]
        /\ \A k \in (Len(RestartSession) + 1)..(Len(RestartSession) + Len(rest)) :
              list[k] = rest[k - Len(RestartSession)]
    BY <1>1, ConcatFacts, Zenon
  <2> HIDE DEF list
  <2>. QED
    BY <1>1, <2>1
<1> HIDE DEF list
<1>3. \A k \in 1..Len(rest) : list[k + 2] = rest[k] /\ k + 2 \in 1..Len(list)
  BY <1>2
<1>4. \A what : Says(what, rest) => Says(what, list)
  BY <1>3 DEF Says
<1>5. \A what \in {"release", "next"} : Says(what, list) => Says(what, rest)
  <2> TAKE what \in {"release", "next"}
  <2> HAVE Says(what, list)
  <2> PICK k \in 1..Len(list) : list[k] = what
    BY DEF Says
  <2>1. k \in 3..(Len(rest) + 2)
    BY <1>2
  <2>. QED
    BY <1>2, <2>1, k - 2 \in 1..Len(rest) DEF Says
<1>6. rest # <<>> => list[Len(list)] = rest[Len(rest)]
  BY <1>2
<1>. QED
  BY <1>2, <1>4, <1>5, <1>6 DEF list

-----------------------------------------------------------------------------
(* Every step keeps the invariant. *)

\* Posting packet q in the middle of a closure, with the object s.
LEMMA PostStep ==
    ASSUME Typed, History,
           NEW s \in Sender, NEW list \in Seq(Statements), NEW box,
           NEW pending, pending \subseteq Pending,
           Placed(s, box, pending, repeats), Served(s, list, box),
           NEW q \in Unposted, NEW r, r = PostPacket(s, q)
    PROVE  /\ r \in Sender /\ Placed(r, box, pending \cup {q}, repeats)
           /\ Served(r, list, box)
           /\ Append(posted, q) \in Seq(Packets)
           /\ Elements(Append(posted, q)) = Elements(posted) \cup {q}
           /\ answers[q] = 0
<1>1. q \in Packets /\ q \notin Elements(posted) /\ posted \in Seq(Packets)
  BY DEF Unposted, Typed
<1>2. answers[q] = 0 /\ repeats[q] = 0 /\ repeats[q] < RepeatCount
  BY <1>1, RepeatCountAssumption DEF History
<1>3. q \notin pending
  BY <1>1 DEF Pending
<1>4. Nowhere(q, s.queue, s.jobs, s.air, box)
  BY <1>3, NotPending DEF Placed
<1>5. Placed(s, box, pending \cup {q}, repeats)
  BY StillPlaced DEF Placed
<1>6. /\ r \in Sender /\ Placed(r, box, pending \cup {q}, repeats)
      /\ q \notin Async \/ s.executing => r.executing
      /\ (r.executing /\ ~s.executing) \/ s.jobs # <<>> => r.jobs # <<>>
      /\ r.queue # <<>> => s.queue # <<>> \/ r.executing
  <2>1. q \in (pending \cup {q}) \cap Packets
    BY <1>1
  <2>. QED
    BY <1>2, <1>4, <1>5, <2>1, PostKeeps
<1>7. Served(r, list, box)
  BY <1>6, PostServes
<1>. QED
  BY <1>1, <1>2, <1>6, <1>7, AppendElements

\* A callback is called, by a closure whose other effects are on s, rest and
\* box: it keeps what the invariant says of the new state.
LEMMA ReplyKeeps ==
    ASSUME Typed, History,
           NEW p \in Pending, NEW e,
           NEW s \in Sender, NEW rest \in Seq(Statements), NEW box,
           Placed(s, box, Pending \ {p}, repeats), Served(s, rest, box),
           e = "task_canceled" => repeats[p] = 0,
           UNCHANGED <<repeats, started>>,
           Reply(p, e, s, rest)
    PROVE  /\ sender' \in Sender /\ agenda' \in Seq(Statements)
           /\ posted' \in Seq(Packets) /\ answers' \in [Packets -> Nat]
           /\ canceled' \in SUBSET Packets
           /\ Placed(sender', box, Pending', repeats')
           /\ History'
           /\ Served(sender', agenda', box)
<1>1. /\ p \in Packets /\ p \in Elements(posted) /\ answers[p] = 0
  BY DEF Pending
<1>2. /\ answers' = [answers EXCEPT ![p] = 1]
      /\ answers' \in [Packets -> Nat] /\ answers'[p] = 1
      /\ \A x \in Packets \ {p} : answers'[x] = answers[x]
  BY <1>1 DEF Reply, Typed
<1>3. canceled' \in SUBSET Packets
  BY <1>1 DEF Reply, Typed
<1>4. \A x \in canceled' : answers'[x] > 0 /\ x \notin Elements(started')
  BY <1>1, <1>2 DEF Reply, History, Typed
<1>5. CASE sender' = s /\ agenda' = rest /\ UNCHANGED posted
  <2>1. Pending \ {p} \subseteq Pending'
    BY <1>2, <1>5 DEF Pending
  <2>2. Placed(sender', box, Pending', repeats')
    BY <1>5, <2>1, StillPlaced DEF Placed
  <2>3. History'
    BY <1>1, <1>2, <1>4, <1>5 DEF History
  <2>. QED
    BY <1>2, <1>3, <1>5, <2>2, <2>3 DEF Typed
<1>6. ASSUME NEW q \in Unposted, sender' = PostPacket(s, q),
             posted' = Append(posted, q), agenda' = rest
      PROVE  /\ sender' \in Sender /\ agenda' \in Seq(Statements)
             /\ posted' \in Seq(Packets)
             /\ Placed(sender', box, Pending', repeats')
             /\ History'
             /\ Served(sender', agenda', box)
  <2>1. /\ sender' \in Sender
        /\ Placed(sender', box, (Pending \ {p}) \cup {q}, repeats)
        /\ Served(sender', rest, box)
        /\ Append(posted, q) \in Seq(Packets)
        /\ Elements(Append(posted, q)) = Elements(posted) \cup {q}
        /\ answers[q] = 0
    <3>1. q \in Unposted /\ Pending \ {p} \subseteq Pending
      BY <1>6
    <3>2. sender' = PostPacket(s, q)
      BY <1>6
    <3>. QED
      BY <3>1, <3>2, PostStep
  <2>2. q \in Packets /\ q # p
    BY <1>1 DEF Unposted
  <2>3. (Pending \ {p}) \cup {q} \subseteq Pending'
    BY <1>2, <1>6, <2>1, <2>2 DEF Pending
  <2>4. Placed(sender', box, Pending', repeats')
    BY <2>1, <2>3, StillPlaced DEF Placed
  <2>5. History'
    BY <1>1, <1>2, <1>4, <1>6, <2>1 DEF History
  <2>. QED
    BY <1>6, <2>1, <2>4, <2>5
<1>7. CASE sender' = s /\ agenda' = RestartSession \o rest /\ UNCHANGED posted
  <2>1. Pending \ {p} \subseteq Pending'
    BY <1>2, <1>7 DEF Pending
  <2>2. Placed(sender', box, Pending', repeats')
    BY <1>7, <2>1, StillPlaced DEF Placed
  <2>3. History'
    BY <1>1, <1>2, <1>4, <1>7 DEF History
  <2>4. /\ agenda' \in Seq(Statements)
        /\ Says("next", rest) => Says("next", agenda')
        /\ Says("release", agenda') <=> Says("release", rest)
        /\ rest # <<>> => agenda'[Len(agenda')] = rest[Len(rest)]
    BY <1>7, RestartFacts
  <2>5. Says("release", rest) => rest # <<>>
    BY DEF Says
  <2>6. Served(sender', agenda', box)
    BY <1>7, <2>4, <2>5, Zenon DEF Served
  <2>. QED
    BY <1>2, <1>3, <1>7, <2>2, <2>3, <2>4, <2>6 DEF Typed
<1>. QED
  <2>1. \/ sender' = s /\ agenda' = rest /\ UNCHANGED posted
        \/ \E q \in Unposted :
              sender' = PostPacket(s, q) /\ posted' = Append(posted, q) /\ agenda' = rest
        \/ sender' = s /\ agenda' = RestartSession \o rest /\ UNCHANGED posted
    BY Zenon DEF Reply
  <2>. QED
    BY <1>2, <1>3, <1>5, <1>6, <1>7, <2>1

LEMMA InitInv == Init => SendInv
<1> SUFFICES ASSUME Init PROVE SendInv
  OBVIOUS
<1>1. sender \in Sender
  BY DEF Init, Sender
<1>2. Typed
  BY <1>1, RepeatCountAssumption DEF Init, Typed
<1>3. Placed(sender, inbox, Pending, repeats)
  BY <1>2 DEF Init, Placed, Places, Apart, Fit, Typed
<1>4. History
  BY DEF Init, History, Elements
<1>5. Served(sender, agenda, inbox)
  BY DEF Init, Served, Says
<1>. QED
  BY <1>2, <1>3, <1>4, <1>5 DEF SendInv

\* A packet is posted, and list is what is left of the closure.
LEMMA PostedInv ==
    ASSUME SendInv, NEW list \in Seq(Statements), Served(sender, list, inbox),
           NEW p \in Unposted, sender' = PostPacket(sender, p),
           posted' = Append(posted, p), agenda' = list,
           UNCHANGED <<inbox, repeats, stopped, started, answers, canceled, refusals>>
    PROVE  SendInv'
<1>1. Typed /\ History /\ Placed(sender, inbox, Pending, repeats)
  BY DEF SendInv
<1>3. sender \in Sender
  BY <1>1 DEF Typed
<1>4. /\ sender' \in Sender /\ Placed(sender', inbox, Pending \cup {p}, repeats)
      /\ Served(sender', list, inbox)
      /\ posted' \in Seq(Packets) /\ Elements(posted') = Elements(posted) \cup {p}
      /\ answers[p] = 0
  BY <1>1, <1>3, PostStep
<1>5. Typed'
  BY <1>1, <1>4 DEF Typed
<1>6. Pending \cup {p} \subseteq Pending'
  BY <1>4 DEF Pending, Unposted
<1>7. Placed(sender', inbox', Pending', repeats')
  BY <1>4, <1>6, StillPlaced DEF Placed
<1>8. History'
  BY <1>1, <1>4 DEF History
<1>9. Served(sender', agenda', inbox')
  BY <1>4
<1>. QED
  BY <1>5, <1>7, <1>8, <1>9 DEF SendInv

\* A handler that changes only the agenda.
LEMMA AgendaInv ==
    ASSUME SendInv, agenda' \in Seq(Statements), Served(sender, agenda', inbox),
           stopped' \in SUBSET Packets,
           UNCHANGED <<sender, inbox, repeats, posted, started, answers, canceled,
                       refusals>>
    PROVE  SendInv'
<1>1. Typed'
  BY DEF SendInv, Typed
<1>2. Pending' = Pending
  BY DEF Pending
<1>3. Placed(sender', inbox', Pending', repeats')
  BY <1>2 DEF SendInv
<1>4. History'
  BY DEF SendInv, History
<1>. QED
  BY <1>1, <1>3, <1>4 DEF SendInv

\* A handler that calls a callback.
LEMMA CallInv ==
    ASSUME SendInv,
           NEW p \in Pending, NEW e,
           NEW s \in Sender, NEW rest \in Seq(Statements),
           inbox' \in Seq(Result), refusals' \in SUBSET Packets,
           Placed(s, inbox', Pending \ {p}, repeats), Served(s, rest, inbox'),
           e = "task_canceled" => repeats[p] = 0,
           UNCHANGED <<repeats, started, stopped>>,
           Reply(p, e, s, rest)
    PROVE  SendInv'
<1>1. Typed /\ History
  BY DEF SendInv
<1>2. /\ sender' \in Sender /\ agenda' \in Seq(Statements)
      /\ posted' \in Seq(Packets) /\ answers' \in [Packets -> Nat]
      /\ canceled' \in SUBSET Packets
      /\ Placed(sender', inbox', Pending', repeats')
      /\ History'
      /\ Served(sender', agenda', inbox')
  BY <1>1, ReplyKeeps
<1>3. Typed'
  BY <1>1, <1>2 DEF Typed
<1>. QED
  BY <1>2, <1>3 DEF SendInv

\* What taking the first result leaves, in every handler of a result.
LEMMA ResultTaken ==
    ASSUME SendInv, inbox # <<>>
    PROVE  LET r == Head(inbox) IN
           /\ r \in Result /\ r.packet \in Pending \cap Packets
           /\ r.kind = "executed" => r.packet \notin Async
           /\ Tail(inbox) \in Seq(Result)
           /\ Placed(sender, Tail(inbox), Pending \ {r.packet}, repeats)
           /\ Nowhere(r.packet, sender.queue, sender.jobs, sender.air, Tail(inbox))
<1>1. Places(sender.queue, sender.jobs, sender.air, inbox, Pending, repeats)
  BY DEF SendInv, Placed
<1>2. inbox \in Seq(Result)
  BY <1>1 DEF Places
<1>3. Tail(inbox) \in Seq(Result)
  BY <1>2
<1>. QED
  BY <1>1, <1>3, TakeResult DEF Placed

LEMMA TakeRefusedInv == ASSUME SendInv, TakeRefused PROVE SendInv'
<1> DEFINE r == Head(inbox)
<1>1. /\ inbox # <<>> /\ inbox' = Tail(inbox)
      /\ refusals' = refusals \cup ({r.packet} \cap Async)
      /\ Reply(r.packet, "refused", sender, <<"release", "next">>)
      /\ UNCHANGED <<repeats, stopped, started>>
  BY DEF TakeRefused
<1>2. Typed /\ sender \in Sender
  BY DEF SendInv, Typed
<1>3. /\ r.packet \in Pending \cap Packets /\ inbox' \in Seq(Result)
      /\ Placed(sender, inbox', Pending \ {r.packet}, repeats)
  BY <1>1, ResultTaken
<1>4. refusals' \in SUBSET Packets
  BY <1>1, <1>2, <1>3 DEF Typed
<1>5. <<"release", "next">> \in Seq(Statements)
  BY DEF Statements
<1>6. Served(sender, <<"release", "next">>, inbox')
  <2> DEFINE list == <<"release", "next">>
  <2>1. Len(list) = 2 /\ list[1] = "release" /\ list[2] = "next"
    OBVIOUS
  <2> HIDE DEF list
  <2>2. Says("release", list) /\ Says("next", list)
    BY <2>1 DEF Says
  <2>3. Served(sender, list, inbox')
    BY <2>1, <2>2 DEF Served
  <2>. QED
    BY <2>3 DEF list
<1>. QED
  BY <1>1, <1>2, <1>3, <1>4, <1>5, <1>6, CallInv

LEMMA TakeAsyncInv == ASSUME SendInv, TakeAsync PROVE SendInv'
<1> DEFINE r == Head(inbox)
<1>1. /\ inbox # <<>> /\ inbox' = Tail(inbox) /\ agenda = <<>>
      /\ r.kind = "async"
      /\ Reply(r.packet, r.error, sender, <<>>)
      /\ UNCHANGED <<repeats, stopped, started, refusals>>
  BY DEF TakeAsync, Idle
<1>2. Typed /\ sender \in Sender /\ inbox \in Seq(Result) /\ refusals \in SUBSET Packets
  BY DEF SendInv, Typed
<1>3. /\ r.packet \in Pending \cap Packets /\ inbox' \in Seq(Result)
      /\ Placed(sender, inbox', Pending \ {r.packet}, repeats)
  BY <1>1, ResultTaken
<1>4. Expected(inbox) => Expected(inbox')
  <2> HAVE Expected(inbox)
  <2> PICK i \in 1..Len(inbox) : inbox[i].kind # "async"
    BY DEF Expected
  <2>1. i # 1 /\ i - 1 \in 1..Len(inbox') /\ inbox'[i - 1] = inbox[i]
    BY <1>1, <1>2
  <2>. QED
    BY <2>1 DEF Expected
<1>5. Served(sender, <<>>, inbox')
  BY <1>1, <1>4 DEF SendInv, Served
<1>6. r.error # "task_canceled"
  BY <1>1, ResultTaken DEF Result
<1>7. <<>> \in Seq(Statements) /\ refusals' \in SUBSET Packets
  BY <1>1, <1>2
<1>. QED
  BY <1>1, <1>2, <1>3, <1>5, <1>6, <1>7, CallInv

LEMMA TakeRepeatInv == ASSUME SendInv, TakeRepeat PROVE SendInv'
<1> DEFINE r == Head(inbox)
<1>1. /\ inbox # <<>> /\ inbox' = Tail(inbox) /\ agenda = <<>>
      /\ r.kind = "executed" /\ repeats[r.packet] < RepeatCount
      /\ sender' = PostPacket([sender EXCEPT !.executing = FALSE], r.packet)
      /\ UNCHANGED <<agenda, repeats, stopped, posted, started, answers, canceled,
                     refusals>>
  BY DEF TakeRepeat, MustRepeat, Idle
<1>2. Typed /\ History /\ sender \in Sender
  BY DEF SendInv, Typed
<1> PICK s : s = [sender EXCEPT !.executing = FALSE]
  OBVIOUS
<1>3. /\ s \in Sender /\ s.queue = sender.queue /\ s.jobs = sender.jobs
      /\ s.air = sender.air /\ ~s.executing
  BY <1>2 DEF Sender
<1>4. /\ r.packet \in Pending \cap Packets /\ inbox' \in Seq(Result)
      /\ Placed(sender, inbox', Pending \ {r.packet}, repeats)
      /\ Nowhere(r.packet, sender.queue, sender.jobs, sender.air, inbox')
      /\ r.packet \notin Async
  BY <1>1, ResultTaken
<1>5. Placed(s, inbox', Pending, repeats)
  <2>1. Places(s.queue, s.jobs, s.air, inbox', Pending \ {r.packet}, repeats)
    BY <1>3, <1>4 DEF Placed
  <2>2. Pending \ {r.packet} \subseteq Pending
    OBVIOUS
  <2>. QED
    BY <2>1, <2>2, StillPlaced DEF Placed
<1>6. /\ sender' \in Sender /\ Placed(sender', inbox', Pending, repeats)
      /\ sender'.executing /\ sender'.jobs # <<>>
  <2>1. sender' = PostPacket(s, r.packet)
    BY <1>1
  <2>. QED
    <3>1. Nowhere(r.packet, s.queue, s.jobs, s.air, inbox')
      BY <1>3, <1>4
    <3>2. /\ r.packet \in Pending \cap Packets /\ repeats[r.packet] < RepeatCount
          /\ s.executing => repeats[r.packet] = 0
      BY <1>1, <1>3, <1>4
    <3>3. ~s.executing /\ r.packet \notin Async /\ s \in Sender
      BY <1>3, <1>4
    <3> HIDE DEF r
    <3>4. /\ sender' \in Sender /\ Placed(sender', inbox', Pending, repeats)
          /\ r.packet \notin Async \/ s.executing => sender'.executing
          /\ (sender'.executing /\ ~s.executing) \/ s.jobs # <<>> => sender'.jobs # <<>>
      BY <1>5, <2>1, <3>1, <3>2, <3>3, PostKeeps
    <3>. QED
      BY <3>3, <3>4
<1>7. Typed'
  BY <1>1, <1>2, <1>4, <1>6 DEF Typed
<1>8. Placed(sender', inbox', Pending', repeats')
  <2>1. Pending' = Pending
    BY <1>1 DEF Pending
  <2>. QED
    BY <1>1, <1>6, <2>1
<1>9. History'
  BY <1>1, <1>2 DEF History
<1>10. Served(sender', agenda', inbox')
  BY <1>1, <1>6 DEF Served, Says
<1>. QED
  BY <1>7, <1>8, <1>9, <1>10 DEF SendInv

LEMMA TakeAnswerInv == ASSUME SendInv, TakeAnswer PROVE SendInv'
<1> DEFINE r == Head(inbox)
           limited == sender.limited \/ r.error = "too_fast"
           handle == IF r.error = "relogin" THEN RestartSession ELSE <<>>
<1>1. /\ inbox # <<>> /\ inbox' = Tail(inbox)
      /\ UNCHANGED <<repeats, stopped, started, refusals>>
  BY DEF TakeAnswer
<1>2. Typed /\ sender \in Sender
  BY DEF SendInv, Typed
<1> PICK s : s = [sender EXCEPT !.limited = limited]
  OBVIOUS
<1> PICK rest : rest = <<"release">> \o handle \o <<"next">>
  OBVIOUS
<1>3. Reply(r.packet, r.error, s, rest)
  BY DEF TakeAnswer
<1>4. limited \in BOOLEAN
  BY Zenon
<1>5. /\ s \in Sender /\ s.queue = sender.queue /\ s.jobs = sender.jobs
      /\ s.air = sender.air
  BY <1>2, <1>4, Zenon DEF Sender
<1>6. /\ r \in Result
      /\ r.packet \in Pending \cap Packets /\ inbox' \in Seq(Result)
      /\ Placed(sender, inbox', Pending \ {r.packet}, repeats)
  BY <1>1, ResultTaken
<1>7. /\ rest \in Seq(Statements) /\ Len(rest) \in Nat /\ Len(rest) >= 2
      /\ rest[1] = "release" /\ rest[Len(rest)] = "next"
  <2>1. /\ handle \in Seq(Statements)
        /\ <<"release">> \in Seq(Statements) /\ <<"next">> \in Seq(Statements)
    <3>1. RestartSession \in Seq(Statements)
      BY DEF RestartSession, Statements
    <3>2. handle \in Seq(Statements)
      BY <3>1
    <3>3. <<"release">> \in Seq(Statements) /\ <<"next">> \in Seq(Statements)
      BY DEF Statements
    <3>. QED
      BY <3>2, <3>3
  <2>2. /\ Len(<<"release">>) = 1 /\ <<"release">>[1] = "release"
        /\ Len(<<"next">>) = 1 /\ <<"next">>[1] = "next"
    OBVIOUS
  <2> HIDE DEF handle
  <2> PICK a : a = <<"release">> \o handle
    OBVIOUS
  <2>3. /\ a \in Seq(Statements) /\ Len(a) \in Nat /\ Len(a) >= 1
        /\ a[1] = "release"
    BY <2>1, <2>2, ConcatFacts
  <2>4. rest = a \o <<"next">>
    OBVIOUS
  <2>5. /\ rest \in Seq(Statements) /\ Len(rest) = Len(a) + Len(<<"next">>)
        /\ \A k \in 1..Len(a) : rest[k] = a[k]
        /\ \A k \in (Len(a) + 1)..(Len(a) + Len(<<"next">>)) :
              rest[k] = <<"next">>[k - Len(a)]
    BY <2>1, <2>3, <2>4, ConcatFacts
  <2>. QED
    BY <2>2, <2>3, <2>5
<1>8. Served(s, rest, inbox')
  <2>1. 1 \in 1..Len(rest) /\ Len(rest) \in 1..Len(rest)
    BY <1>7
  <2>2. Says("release", rest) /\ Says("next", rest)
    BY <1>7, <2>1 DEF Says
  <2>. QED
    BY <1>7, <2>2 DEF Served
<1>9. Placed(s, inbox', Pending \ {r.packet}, repeats)
  BY <1>5, <1>6 DEF Placed
<1>10. r.error # "task_canceled"
  BY <1>6 DEF Result
<1>11. refusals' \in SUBSET Packets
  BY <1>1, <1>2 DEF Typed
<1>. QED
  BY <1>1, <1>3, <1>5, <1>6, <1>7, <1>8, <1>9, <1>10, <1>11, CallInv

\* What is left of a closure after its first statement.
LEMMA AgendaTail ==
    ASSUME NEW list \in Seq(Statements), list # <<>>
    PROVE  /\ Tail(list) \in Seq(Statements)
           /\ \A what : Says(what, Tail(list)) => Says(what, list)
           /\ \A what : Says(what, list) => what = Head(list) \/ Says(what, Tail(list))
           /\ Tail(list) # <<>> => Tail(list)[Len(Tail(list))] = list[Len(list)]
           /\ list[Len(list)] # Head(list) => Tail(list) # <<>>
<1> DEFINE rest == Tail(list)
<1>1. /\ rest \in Seq(Statements) /\ Len(list) \in Nat /\ Len(list) >= 1
      /\ Len(rest) = Len(list) - 1 /\ Head(list) = list[1]
      /\ \A i \in 1..(Len(list) - 1) : rest[i] = list[i + 1]
  BY TailFacts
<1>2. rest # <<>> <=> Len(rest) >= 1
  BY <1>1, EmptyFacts
<1> HIDE DEF rest
<1>3. \A what : Says(what, rest) => Says(what, list)
  BY <1>1 DEF Says
<1>4. \A what : Says(what, list) => what = Head(list) \/ Says(what, rest)
  <2> TAKE what
  <2> HAVE Says(what, list)
  <2> PICK k \in 1..Len(list) : list[k] = what
    BY DEF Says
  <2>1. CASE k = 1
    BY <1>1, <2>1
  <2>2. CASE k # 1
    <3>1. k - 1 \in 1..Len(rest) /\ rest[k - 1] = list[k]
      BY <1>1, <2>2
    <3>. QED
      BY <3>1 DEF Says
  <2>. QED
    BY <2>1, <2>2
<1>5. rest # <<>> => rest[Len(rest)] = list[Len(list)]
  BY <1>1, <1>2
<1>6. list[Len(list)] # Head(list) => rest # <<>>
  BY <1>1, <1>2
<1>. QED
  BY <1>1, <1>3, <1>4, <1>5, <1>6 DEF rest

LEMMA SaysSomething ==
    ASSUME NEW list, NEW what, Says(what, list)
    PROVE  list # <<>>
  BY DEF Says

\* A statement that is neither "release" nor "next" is done.
LEMMA SkipServes ==
    ASSUME NEW s, NEW list \in Seq(Statements), list # <<>>, NEW box,
           Served(s, list, box), Head(list) \notin {"release", "next"}
    PROVE  Tail(list) \in Seq(Statements) /\ Served(s, Tail(list), box)
<1>1. /\ Says("release", list) <=> Says("release", Tail(list))
      /\ Says("next", list) => Says("next", Tail(list))
  BY AgendaTail
<1>2. Says("release", Tail(list)) => Tail(list) # <<>>
  BY SaysSomething
<1>3. Says("release", Tail(list)) => Tail(list)[Len(Tail(list))] = "next"
  BY <1>1, <1>2, AgendaTail DEF Served
<1>4. Tail(list) \in Seq(Statements)
  BY AgendaTail
<1>. QED
  BY <1>1, <1>3, <1>4, Zenon DEF Served

LEMMA ReleaseInv == ASSUME SendInv, Release PROVE SendInv'
<1>1. /\ agenda # <<>> /\ Head(agenda) = "release" /\ agenda' = Tail(agenda)
      /\ sender' = [sender EXCEPT !.executing = FALSE]
      /\ UNCHANGED <<inbox, repeats, stopped, posted, started, answers, canceled,
                     refusals>>
  BY DEF Release, Idle
<1>2. Typed /\ History /\ sender \in Sender /\ agenda \in Seq(Statements)
  BY DEF SendInv, Typed
<1>3. /\ sender' \in Sender /\ sender'.queue = sender.queue
      /\ sender'.jobs = sender.jobs /\ sender'.air = sender.air
      /\ ~sender'.executing
  BY <1>1, <1>2 DEF Sender
<1>4. Says("release", agenda) /\ agenda[Len(agenda)] = "next"
  <2>1. 1 \in 1..Len(agenda) /\ agenda[1] = "release"
    BY <1>1, <1>2
  <2>. QED
    BY <2>1 DEF SendInv, Served, Says
<1>5. /\ agenda' \in Seq(Statements) /\ agenda' # <<>>
      /\ agenda'[Len(agenda')] = "next"
  BY <1>1, <1>2, <1>4, AgendaTail
<1>6. Says("next", agenda')
  <2>1. Len(agenda') \in 1..Len(agenda')
    BY <1>5
  <2>. QED
    BY <1>5, <2>1 DEF Says
<1>7. Typed' /\ History'
  BY <1>1, <1>2, <1>3, <1>5 DEF Typed, History
<1>8. Placed(sender', inbox', Pending', repeats')
  BY <1>1, <1>3 DEF SendInv, Placed, Pending
<1>9. Served(sender', agenda', inbox')
  BY <1>3, <1>5, <1>6 DEF Served
<1>. QED
  BY <1>7, <1>8, <1>9 DEF SendInv

LEMMA TakeNextInv == ASSUME SendInv, TakeNext PROVE SendInv'
<1>1. /\ agenda # <<>> /\ Head(agenda) = "next" /\ agenda' = Tail(agenda)
      /\ sender' = ExecuteFromQueue(sender)
      /\ UNCHANGED <<inbox, repeats, stopped, posted, started, answers, canceled,
                     refusals>>
  BY DEF TakeNext, Idle
<1>2. /\ Typed /\ History /\ sender \in Sender /\ agenda \in Seq(Statements)
      /\ Placed(sender, inbox, Pending, repeats) /\ Served(sender, agenda, inbox)
  BY DEF SendInv, Typed
<1>3. /\ agenda' \in Seq(Statements)
      /\ Says("release", agenda) <=> Says("release", agenda')
  BY <1>1, <1>2, AgendaTail
<1>4. Says("release", agenda') => agenda'[Len(agenda')] = "next"
  <2>1. Says("release", agenda') => agenda' # <<>>
    BY DEF Says
  <2>. QED
    BY <1>1, <1>2, <1>3, <2>1, AgendaTail DEF Served
<1>5. CASE sender.queue = <<>>
  <2>1. sender' = sender
    BY <1>1, <1>5 DEF ExecuteFromQueue
  <2>2. Served(sender, agenda', inbox)
    BY <1>2, <1>3, <1>4, <1>5, Zenon DEF Served
  <2>3. stopped' \in SUBSET Packets
    BY <1>1, <1>2 DEF Typed
  <2>. QED
    BY <1>1, <1>3, <2>1, <2>2, <2>3, AgendaInv
<1>6. CASE sender.queue # <<>>
  <2> PICK s : s = [sender EXCEPT !.queue = Tail(sender.queue)]
    OBVIOUS
  <2> PICK p : p = Head(sender.queue)
    OBVIOUS
  <2>1. sender.queue \in Seq(Packets) /\ Tail(sender.queue) \in Seq(Packets)
    BY <1>2, <1>6 DEF Sender
  <2>2. /\ s \in Sender /\ s.queue = Tail(sender.queue) /\ s.jobs = sender.jobs
        /\ s.air = sender.air /\ s.executing = sender.executing
    BY <1>2, <2>1 DEF Sender
  <2>3. /\ Places(s.queue, s.jobs, s.air, inbox, Pending \ {p}, repeats)
        /\ Nowhere(p, s.queue, s.jobs, s.air, inbox)
        /\ p \in (Pending \cap Packets) \ Async
        /\ repeats[p] = 0
    <3>1. Places(sender.queue, sender.jobs, sender.air, inbox, Pending, repeats)
      BY <1>2 DEF Placed
    <3>2. /\ Places(Tail(sender.queue), sender.jobs, sender.air, inbox,
                    Pending \ {Head(sender.queue)}, repeats)
          /\ Nowhere(Head(sender.queue), Tail(sender.queue), sender.jobs,
                     sender.air, inbox)
          /\ Head(sender.queue) \in (Pending \cap Packets) \ Async
          /\ repeats[Head(sender.queue)] = 0
      BY <1>6, <3>1, TakeQueued, Zenon
    <3>. QED
      BY <2>2, <3>2, Zenon
  <2>4. Placed(s, inbox, Pending, repeats)
    BY <2>3, StillPlaced DEF Placed
  <2>5. sender' = PostPacket(s, p)
    BY <1>1, <1>6 DEF ExecuteFromQueue
  <2>6. repeats[p] < RepeatCount
    BY <2>3, RepeatCountAssumption
  <2>7. /\ sender' \in Sender /\ Placed(sender', inbox, Pending, repeats)
        /\ sender'.executing
        /\ ~sender.executing \/ sender.jobs # <<>> => sender'.jobs # <<>>
    <3>1. /\ p \in Pending \cap Packets /\ p \notin Async
          /\ Nowhere(p, s.queue, s.jobs, s.air, inbox)
          /\ s.executing => repeats[p] = 0
      BY <2>3
    <3>2. /\ sender' \in Sender /\ Placed(sender', inbox, Pending, repeats)
          /\ p \notin Async \/ s.executing => sender'.executing
          /\ (sender'.executing /\ ~s.executing) \/ s.jobs # <<>>
                => sender'.jobs # <<>>
      <4>1. s \in Sender
        BY <2>2, Zenon
      <4>2. ASSUME NEW r, r = PostPacket(s, p)
            PROVE  /\ r \in Sender /\ Placed(r, inbox, Pending, repeats)
                   /\ p \notin Async \/ s.executing => r.executing
                   /\ (r.executing /\ ~s.executing) \/ s.jobs # <<>> => r.jobs # <<>>
        BY <2>4, <2>6, <3>1, <4>1, <4>2, PostKeeps, ZenonT(40)
      <4>. QED
        BY <2>5, <4>2, ZenonT(40)
    <3>. QED
      BY <2>2, <3>1, <3>2
  <2>8. Typed' /\ History'
    BY <1>1, <1>2, <1>3, <2>7 DEF Typed, History
  <2>9. Placed(sender', inbox', Pending', repeats')
    BY <1>1, <2>7 DEF Pending
  <2>10. Served(sender', agenda', inbox')
    BY <1>1, <1>2, <1>3, <1>4, <2>7, Zenon DEF Served
  <2>. QED
    BY <2>8, <2>9, <2>10 DEF SendInv
<1>. QED
  BY <1>5, <1>6

LEMMA ClearOneInv == ASSUME SendInv, ClearOne PROVE SendInv'
<1> PICK s : s = [sender EXCEPT !.queue = Tail(sender.queue)]
  OBVIOUS
<1> PICK p : p = Head(sender.queue)
  OBVIOUS
<1>1. /\ sender.queue # <<>> /\ Reply(p, "task_canceled", s, agenda)
      /\ UNCHANGED <<inbox, repeats, stopped, started, refusals>>
  BY DEF ClearOne
<1>2. /\ Typed /\ sender \in Sender /\ agenda \in Seq(Statements)
      /\ inbox' \in Seq(Result) /\ refusals' \in SUBSET Packets
      /\ Placed(sender, inbox, Pending, repeats) /\ Served(sender, agenda, inbox)
  BY <1>1 DEF SendInv, Typed
<1>3. sender.queue \in Seq(Packets) /\ Tail(sender.queue) \in Seq(Packets)
  BY <1>1, <1>2 DEF Sender
<1>4. /\ s \in Sender /\ s.queue = Tail(sender.queue) /\ s.jobs = sender.jobs
      /\ s.air = sender.air /\ s.executing = sender.executing
  BY <1>2, <1>3 DEF Sender
<1>5. /\ Placed(s, inbox', Pending \ {p}, repeats)
      /\ p \in Pending /\ repeats[p] = 0
  <2>1. Places(sender.queue, sender.jobs, sender.air, inbox, Pending, repeats)
    BY <1>2 DEF Placed
  <2>2. /\ Places(s.queue, s.jobs, s.air, inbox, Pending \ {p}, repeats)
        /\ p \in Pending /\ repeats[p] = 0
    <3>1. /\ Places(Tail(sender.queue), sender.jobs, sender.air, inbox,
                    Pending \ {Head(sender.queue)}, repeats)
          /\ Head(sender.queue) \in (Pending \cap Packets) \ Async
          /\ repeats[Head(sender.queue)] = 0
      BY <1>1, <2>1, TakeQueued, Zenon
    <3>2. Head(sender.queue) \in Pending
      BY <3>1
    <3>. QED
      BY <1>4, <3>1, <3>2, Zenon
  <2>. QED
    BY <1>1, <2>2 DEF Placed
<1>6. Served(s, agenda, inbox')
  BY <1>1, <1>2, <1>4, Zenon DEF Served
<1>. QED
  BY <1>1, <1>2, <1>4, <1>5, <1>6, CallInv

LEMMA CancelRequestsInv == ASSUME SendInv, CancelRequests PROVE SendInv'
<1>1. /\ agenda # <<>> /\ Head(agenda) = "clear" /\ agenda' = Tail(agenda)
      /\ stopped' = Elements(posted)
      /\ UNCHANGED <<sender, inbox, repeats, posted, started, answers, canceled,
                     refusals>>
  BY DEF CancelRequests, Idle
<1>2. /\ agenda \in Seq(Statements) /\ posted \in Seq(Packets)
      /\ Served(sender, agenda, inbox)
  BY DEF SendInv, Typed
<1>3. agenda' \in Seq(Statements) /\ Served(sender, agenda', inbox)
  BY <1>1, <1>2, SkipServes
<1>4. stopped' \in SUBSET Packets
  BY <1>1, <1>2 DEF Elements
<1>. QED
  BY <1>1, <1>3, <1>4, AgendaInv

LEMMA PostSessionInv == ASSUME SendInv, PostSession PROVE SendInv'
<1>1. /\ agenda # <<>> /\ Head(agenda) = "session" /\ agenda' = Tail(agenda)
      /\ UNCHANGED <<inbox, repeats, stopped, started, answers, canceled, refusals>>
  BY DEF PostSession, Idle
<1>2. agenda \in Seq(Statements) /\ Served(sender, agenda, inbox) /\ stopped \in SUBSET Packets
  BY DEF SendInv, Typed
<1>3. agenda' \in Seq(Statements) /\ Served(sender, agenda', inbox)
  BY <1>1, <1>2, SkipServes
<1>4. ASSUME NEW p \in Unposted \cap Sessions, sender' = PostPacket(sender, p),
             posted' = Append(posted, p)
      PROVE  SendInv'
  BY <1>1, <1>3, <1>4, PostedInv
<1>5. CASE UNCHANGED <<sender, posted>>
  BY <1>1, <1>2, <1>3, <1>5, AgendaInv
<1>. QED
  BY <1>4, <1>5 DEF PostSession

LEMMA SessionLostInv == ASSUME SendInv, SessionLost PROVE SendInv'
<1>1. /\ agenda = <<>> /\ agenda' = RestartSession
      /\ UNCHANGED <<sender, inbox, repeats, stopped, posted, started, answers,
                     canceled, refusals>>
  BY DEF SessionLost, Idle
<1>2. agenda' \in Seq(Statements)
  BY <1>1 DEF RestartSession, Statements
<1>3. ~Says("release", agenda') /\ ~Says("next", agenda') /\ ~Says("release", agenda) /\ ~Says("next", agenda)
  BY <1>1 DEF RestartSession, Says
<1>4. Served(sender, agenda', inbox)
  BY <1>3 DEF SendInv, Served
<1>5. stopped' \in SUBSET Packets
  BY <1>1 DEF SendInv, Typed
<1>. QED
  BY <1>1, <1>2, <1>4, <1>5, AgendaInv

-----------------------------------------------------------------------------
(* The worker and the network. *)

\* A new result is expected by the queue unless it is an asynchronous one.
LEMMA ExpectedMore ==
    ASSUME NEW box \in Seq(Result), NEW result \in Result
    PROVE  /\ Append(box, result) \in Seq(Result)
           /\ Expected(box) => Expected(Append(box, result))
           /\ result.kind # "async" => Expected(Append(box, result))
<1> DEFINE r == Append(box, result)
<1>1. /\ r \in Seq(Result) /\ Len(r) = Len(box) + 1 /\ r[Len(box) + 1] = result
      /\ \A i \in 1..Len(box) : r[i] = box[i]
      /\ Len(box) \in Nat
  OBVIOUS
<1> HIDE DEF r
<1>2. Expected(box) => Expected(r)
  BY <1>1 DEF Expected
<1>3. result.kind # "async" => Expected(r)
  BY <1>1, Len(box) + 1 \in 1..Len(r) DEF Expected
<1>. QED
  BY <1>1, <1>2, <1>3 DEF r

\* The worker is done with its first job: the result goes to the core thread,
\* and only repeats of the job's packet may have changed.
LEMMA JobDone ==
    ASSUME SendInv, sender.jobs # <<>>,
           sender' = [sender EXCEPT !.jobs = Tail(@)],
           NEW result \in Result, inbox' = Append(inbox, result),
           result.packet = Head(sender.jobs).packet, result.kind # "async",
           result.kind = "executed" => Head(sender.jobs).send,
           UNCHANGED <<agenda, posted, answers>>,
           \A p \in Packets \ {result.packet} : repeats'[p] = repeats[p]
    PROVE  /\ sender' \in Sender /\ inbox' \in Seq(Result)
           /\ Placed(sender', inbox', Pending', repeats')
           /\ Served(sender', agenda', inbox')
<1> DEFINE p == result.packet
<1>1. /\ Typed /\ sender \in Sender /\ inbox \in Seq(Result)
      /\ Served(sender, agenda, inbox)
  BY DEF SendInv, Typed
<1>2. Places(sender.queue, sender.jobs, sender.air, inbox, Pending, repeats)
  BY DEF SendInv, Placed
<1>3. sender.jobs \in Seq(Job) /\ Tail(sender.jobs) \in Seq(Job)
  BY <1>1 DEF Sender
<1>4. /\ sender' \in Sender /\ sender'.queue = sender.queue
      /\ sender'.jobs = Tail(sender.jobs) /\ sender'.air = sender.air
      /\ sender'.executing = sender.executing
  BY <1>1, <1>3 DEF Sender
<1>5. /\ Places(sender.queue, Tail(sender.jobs), sender.air, inbox, Pending \ {p},
                repeats)
      /\ Nowhere(p, sender.queue, Tail(sender.jobs), sender.air, inbox)
      /\ p \in Pending \cap Packets
      /\ Head(sender.jobs).send => p \notin Async
  BY <1>2, TakeJob
<1>6. Places(sender.queue, Tail(sender.jobs), sender.air, inbox, Pending, repeats')
  <2>1. \A x \in Pending \ {p} : repeats'[x] = repeats[x]
    BY DEF Pending
  <2>2. Pending \ {p} \subseteq Pending
    OBVIOUS
  <2> HIDE DEF p
  <2>. QED
    BY <1>5, <2>1, <2>2, StillPlaced
<1>7. Places(sender.queue, Tail(sender.jobs), sender.air, inbox', Pending, repeats')
  <2>1. p \in Pending /\ (result.kind = "executed" => p \notin Async)
    BY <1>5
  <2>. QED
    BY <1>5, <1>6, <2>1, AddResult
<1>8. Placed(sender', inbox', Pending', repeats')
  <2>1. Pending' = Pending
    BY DEF Pending
  <2>. QED
    BY <1>4, <1>7, <2>1, Zenon DEF Placed
<1>9. inbox' \in Seq(Result) /\ Expected(inbox')
  BY <1>1, ExpectedMore
<1>10. Served(sender', agenda', inbox')
  BY <1>1, <1>4, <1>9, Zenon DEF Served
<1>. QED
  BY <1>4, <1>8, <1>9, <1>10

LEMMA SendJobInv == ASSUME SendInv, SendJob PROVE SendInv'
<1> PICK p : p = Head(sender.jobs).packet
  OBVIOUS
<1>1. /\ sender.jobs # <<>> /\ Head(sender.jobs).send
      /\ sender' = [sender EXCEPT !.jobs = Tail(@)]
      /\ repeats' = [repeats EXCEPT ![p] = @ + 1]
      /\ started' = IF repeats[p] = 0 THEN Append(started, p) ELSE started
      /\ UNCHANGED <<agenda, stopped, posted, answers, canceled, refusals>>
  BY DEF SendJob
<1>2. PICK e \in Outcomes(p) :
          inbox' = Append(inbox, [kind |-> "executed", packet |-> p, error |-> e])
  BY DEF SendJob
<1>3. Typed /\ History
  BY DEF SendInv
<1>4. p \in Packets /\ p \in Pending /\ repeats[p] < RepeatCount
  <2>1. Places(sender.queue, sender.jobs, sender.air, inbox, Pending, repeats)
    BY DEF SendInv, Placed
  <2>. QED
    BY <1>1, <2>1, TakeJob
<1> PICK result : result = [kind |-> "executed", packet |-> p, error |-> e]
  OBVIOUS
<1>5. result \in Result /\ result.packet = p /\ result.kind = "executed"
  BY <1>4 DEF Result, Outcomes, Errors
<1>6. /\ repeats' \in [Packets -> 0..RepeatCount] /\ repeats'[p] > 0
      /\ \A x \in Packets \ {p} : repeats'[x] = repeats[x]
  BY <1>1, <1>3, <1>4, RepeatCountAssumption, SMTT(30) DEF Typed
<1>7. /\ sender' \in Sender /\ inbox' \in Seq(Result)
      /\ Placed(sender', inbox', Pending', repeats')
      /\ Served(sender', agenda', inbox')
  <2>1. inbox' = Append(inbox, result)
    BY <1>2
  <2>2. result.kind # "async" /\ UNCHANGED <<agenda, posted, answers>>
    BY <1>1, <1>5
  <2>. QED
    BY <1>1, <1>5, <1>6, <2>1, <2>2, JobDone
<1>8. /\ started' \in Seq(Packets)
      /\ \A x \in Packets : x \in Elements(started') => x \in Elements(started) \/ x = p
  BY <1>1, <1>3, <1>4, AppendElements DEF Typed
<1>9. History'
  <2>1. \A x \in Packets \ Elements(posted') : answers'[x] = 0 /\ repeats'[x] = 0
    BY <1>1, <1>3, <1>4, <1>6 DEF History, Pending
  <2>2. \A x \in Packets : repeats'[x] = 0 => x \notin Elements(started')
    BY <1>3, <1>6, <1>8 DEF History
  <2>3. \A x \in canceled' : answers'[x] > 0 /\ x \notin Elements(started')
    BY <1>1, <1>3, <1>4, <1>8, SMTT(30) DEF History, Pending, Typed
  <2>. QED
    BY <2>1, <2>2, <2>3 DEF History
<1>10. Typed'
  BY <1>1, <1>3, <1>6, <1>7, <1>8 DEF Typed
<1>. QED
  BY <1>7, <1>9, <1>10 DEF SendInv

LEMMA RefuseJobInv == ASSUME SendInv, RefuseJob PROVE SendInv'
<1> PICK p : p = Head(sender.jobs).packet
  OBVIOUS
<1> PICK result : result = [kind |-> "refused", packet |-> p, error |-> "refused"]
  OBVIOUS
<1>1. /\ sender.jobs # <<>> /\ inbox' = Append(inbox, result)
      /\ sender' = [sender EXCEPT !.jobs = Tail(@)]
      /\ UNCHANGED <<agenda, repeats, stopped, posted, started, answers, canceled,
                     refusals>>
  BY DEF RefuseJob
<1>2. Typed /\ History
  BY DEF SendInv
<1>3. p \in Packets
  <2>1. Places(sender.queue, sender.jobs, sender.air, inbox, Pending, repeats)
    BY DEF SendInv, Placed
  <2>. QED
    BY <1>1, <2>1, TakeJob
<1>4. /\ result \in Result /\ result.packet = p /\ result.kind # "async"
      /\ result.kind # "executed"
  BY <1>3 DEF Result, Errors
<1>5. /\ sender' \in Sender /\ inbox' \in Seq(Result)
      /\ Placed(sender', inbox', Pending', repeats')
      /\ Served(sender', agenda', inbox')
  BY <1>1, <1>4, JobDone
<1>6. Typed' /\ History'
  BY <1>1, <1>2, <1>5 DEF Typed, History
<1>. QED
  BY <1>5, <1>6 DEF SendInv

LEMMA CompleteAsyncInv ==
    ASSUME SendInv, NEW p \in Packets, CompleteAsync(p) PROVE SendInv'
<1>1. /\ p \in sender.air /\ sender' = [sender EXCEPT !.air = @ \ {p}]
      /\ UNCHANGED <<agenda, repeats, stopped, posted, started, answers, canceled,
                     refusals>>
  BY DEF CompleteAsync
<1>2. PICK e \in Outcomes(p) :
          inbox' = Append(inbox, [kind |-> "async", packet |-> p, error |-> e])
  BY DEF CompleteAsync
<1>3. Typed /\ History /\ Served(sender, agenda, inbox)
  BY DEF SendInv
<1> PICK result : result = [kind |-> "async", packet |-> p, error |-> e]
  OBVIOUS
<1>4. result \in Result /\ result.packet = p /\ result.kind # "executed"
  BY DEF Result, Outcomes, Errors
<1>5. sender \in Sender /\ inbox \in Seq(Result) /\ sender.air \ {p} \in SUBSET Packets
  BY <1>3 DEF Typed, Sender
<1>6. /\ sender' \in Sender /\ sender'.queue = sender.queue
      /\ sender'.jobs = sender.jobs /\ sender'.air = sender.air \ {p}
      /\ sender'.executing = sender.executing
  BY <1>1, <1>5 DEF Sender
<1>7. /\ Places(sender.queue, sender.jobs, sender.air \ {p}, inbox, Pending \ {p},
                repeats)
      /\ Nowhere(p, sender.queue, sender.jobs, sender.air \ {p}, inbox)
      /\ p \in Pending
  <2>1. Places(sender.queue, sender.jobs, sender.air, inbox, Pending, repeats)
    BY DEF SendInv, Placed
  <2>. QED
    BY <1>1, <2>1, TakeAir
<1>8. Places(sender.queue, sender.jobs, sender.air \ {p}, inbox, Pending, repeats)
  BY <1>7, StillPlaced
<1>9. Places(sender.queue, sender.jobs, sender.air \ {p}, Append(inbox, result),
             Pending, repeats)
  BY <1>4, <1>7, <1>8, AddResult
<1>10. Placed(sender', inbox', Pending', repeats')
  <2>1. Pending' = Pending /\ repeats' = repeats /\ inbox' = Append(inbox, result)
    BY <1>1, <1>2 DEF Pending
  <2>. QED
    BY <1>6, <1>9, <2>1, Zenon DEF Placed
<1>11. inbox' \in Seq(Result) /\ (Expected(inbox) => Expected(inbox'))
  BY <1>2, <1>4, <1>5, ExpectedMore
<1>12. Served(sender', agenda', inbox')
  BY <1>1, <1>3, <1>6, <1>11, Zenon DEF Served
<1>13. Typed' /\ History'
  BY <1>1, <1>3, <1>6, <1>11 DEF Typed, History
<1>. QED
  BY <1>10, <1>12, <1>13 DEF SendInv

LEMMA LimitEndsInv == ASSUME SendInv, LimitEnds PROVE SendInv'
<1>1. /\ sender' = [sender EXCEPT !.limited = FALSE]
      /\ UNCHANGED <<agenda, inbox, repeats, stopped, posted, started, answers,
                     canceled, refusals>>
  BY DEF LimitEnds
<1>2. Typed /\ History /\ sender \in Sender
  BY DEF SendInv, Typed
<1>3. /\ sender' \in Sender /\ sender'.queue = sender.queue
      /\ sender'.jobs = sender.jobs /\ sender'.air = sender.air
      /\ sender'.executing = sender.executing
  BY <1>1, <1>2 DEF Sender
<1>4. Placed(sender', inbox', Pending', repeats') /\ Served(sender', agenda', inbox')
  BY <1>1, <1>3 DEF SendInv, Placed, Served, Pending
<1>5. Typed' /\ History'
  BY <1>1, <1>2, <1>3 DEF Typed, History
<1>. QED
  BY <1>4, <1>5 DEF SendInv

LEMMA NextInv == SendInv /\ [Next]_vars => SendInv'
<1> SUFFICES ASSUME SendInv, [Next]_vars PROVE SendInv'
  OBVIOUS
<1>1. ASSUME NEW p \in Packets, Post(p) PROVE SendInv'
  <2>1. /\ p \in Unposted /\ sender' = PostPacket(sender, p)
        /\ posted' = Append(posted, p)
        /\ UNCHANGED <<agenda, inbox, repeats, stopped, started, answers, canceled,
                       refusals>>
    BY <1>1 DEF Post
  <2>2. agenda \in Seq(Statements) /\ Served(sender, agenda, inbox)
    BY DEF SendInv, Typed
  <2>. QED
    BY <2>1, <2>2, PostedInv
<1>2. CASE UNCHANGED vars
  BY <1>2 DEF vars, SendInv, Typed, Placed, History, Served, Pending
<1>. QED
  BY <1>1, <1>2, SessionLostInv, TakeRefusedInv, TakeAsyncInv, TakeRepeatInv,
     TakeAnswerInv, ReleaseInv, TakeNextInv, ClearOneInv, CancelRequestsInv,
     PostSessionInv, SendJobInv, RefuseJobInv, CompleteAsyncInv, LimitEndsInv
  DEF Next, CoreStep

\* The inductive invariant holds in every reachable state of the sender.
THEOREM SendInvariant == Spec => []SendInv
  BY InitInv, NextInv, PTL DEF Spec

-----------------------------------------------------------------------------
(* The theorems. *)

\* wim_send_thread and its actors keep their types; in particular a packet is
\* never executed more often than sent_repeat_count.
THEOREM TypeCorrect == Spec => []TypeOK
<1>1. SendInv => TypeOK
  <2> SUFFICES ASSUME Typed PROVE TypeOK
    BY DEF SendInv
  <2>1. Result \subseteq [kind : {"executed", "refused", "async"}, packet : Packets,
                          error : Errors]
    BY DEF Result
  <2>2. inbox \in Seq([kind : {"executed", "refused", "async"}, packet : Packets,
                       error : Errors])
    BY <2>1, SeqGrows DEF Typed
  <2>. QED
    BY <2>2 DEF TypeOK, Typed, Sender, Job, Statements
<1>. QED
  BY <1>1, SendInvariant, PTL

\* Packets never wait in the queue with nobody left to take them out of it
\* (post_packet, execute_packet_from_queue).
THEOREM QueueServed == Spec => []NeverStranded
<1>1. SendInv => NeverStranded
  <2> SUFFICES ASSUME SendInv, agenda = <<>>, sender.queue # <<>>
               PROVE  sender.jobs # <<>> \/ \E i \in DOMAIN inbox : inbox[i].kind # "async"
    BY DEF NeverStranded, Idle
  <2>1. ~Says("next", agenda) /\ ~Says("release", agenda)
    BY SaysSomething
  <2>2. sender.jobs # <<>> \/ Expected(inbox)
    BY <2>1 DEF SendInv, Served
  <2>3. DOMAIN inbox = 1..Len(inbox)
    BY DEF SendInv, Typed
  <2>. QED
    BY <2>2, <2>3 DEF Expected
<1>. QED
  BY <1>1, SendInvariant, PTL

\* A packet answered wpie_error_task_canceled (clear) was never executed.
THEOREM CanceledNeverSent == Spec => []CanceledWasNeverSent
<1>1. SendInv => CanceledWasNeverSent
  BY DEF SendInv, History, CanceledWasNeverSent
<1>. QED
  BY <1>1, SendInvariant, PTL

\* To its callers the queue is OneAnswer: every step asks for packets or
\* answers one of those asked for and not yet answered, or does neither.
THEOREM AnswersOnce == Spec => Implements
<1> DEFINE asked == Elements(posted)
<1>1. Init => Abstract!Init
  BY DEF Init, Abstract!Init, Elements
<1>2. ASSUME SendInv, NEW p \in Pending, NEW e, NEW s, NEW rest, Reply(p, e, s, rest)
      PROVE  Abstract!Next
  <2>1. Typed /\ p \in Packets /\ p \in asked /\ answers[p] = 0
    BY <1>2 DEF SendInv, Pending
  <2>2. answers' = [answers EXCEPT ![p] = 1]
    BY <1>2, <2>1 DEF Reply, Typed
  <2>3. CASE UNCHANGED posted
    <3>1. Elements(posted)' = Elements(posted)
      BY <2>3 DEF Elements
    <3>2. Abstract!Answer(p)
      BY <2>1, <2>2, <3>1 DEF Abstract!Answer, Abstract!MayAnswer
    <3>. QED
      BY <2>1, <3>2 DEF Abstract!Next
  <2>4. ASSUME NEW q \in Unposted, posted' = Append(posted, q)
        PROVE  Abstract!Next
    <3>1. q \in Packets /\ q \notin asked
      BY DEF Unposted
    <3>2. Elements(posted)' = asked \cup {q}
      BY <2>1, <2>4, <3>1, AppendElements DEF Typed
    <3>3. Abstract!AnswerAndAsk(p, q)
      BY <2>1, <2>2, <3>1, <3>2 DEF Abstract!AnswerAndAsk, Abstract!MayAnswer
    <3>. QED
      BY <2>1, <3>1, <3>3 DEF Abstract!Next
  <2>. QED
    BY <1>2, <2>3, <2>4, Zenon DEF Reply
<1>3. ASSUME SendInv, NEW p \in Unposted, posted' = Append(posted, p),
             UNCHANGED answers
      PROVE  Abstract!Next
  <2>1. p \in Packets /\ p \notin asked
    BY <1>3 DEF Unposted
  <2>2. Elements(posted)' = asked \cup {p}
    BY <1>3, <2>1, AppendElements DEF SendInv, Typed
  <2>3. Abstract!Ask(p)
    BY <1>3, <2>1, <2>2 DEF Abstract!Ask
  <2>. QED
    BY <2>1, <2>3 DEF Abstract!Next
<1>4. ASSUME UNCHANGED <<posted, answers>>
      PROVE  UNCHANGED Abstract!vars
  BY <1>4 DEF Abstract!vars, Elements
<1>5. SendInv /\ [Next]_vars => [Abstract!Next]_(Abstract!vars)
  <2> SUFFICES ASSUME SendInv, [Next]_vars PROVE Abstract!Next \/ UNCHANGED Abstract!vars
    BY Zenon
  <2>1. ASSUME inbox # <<>> PROVE Head(inbox).packet \in Pending
    BY <2>1, ResultTaken
  <2>2. ASSUME NEW p \in Packets, Post(p) PROVE Abstract!Next
    BY <1>3, <2>2 DEF Post
  <2>3. CASE TakeRefused
    BY <1>2, <2>1, <2>3, Zenon DEF TakeRefused
  <2>4. CASE TakeAsync
    BY <1>2, <2>1, <2>4, Zenon DEF TakeAsync
  <2>5. CASE TakeAnswer
    BY <1>2, <2>1, <2>5, Zenon DEF TakeAnswer
  <2>6. CASE ClearOne
    <3>1. Head(sender.queue) \in Pending
      <4>1. Places(sender.queue, sender.jobs, sender.air, inbox, Pending, repeats)
        BY DEF SendInv, Placed
      <4>2. Head(sender.queue) \in (Pending \cap Packets) \ Async
        BY <2>6, <4>1, TakeQueued DEF ClearOne
      <4>. QED
        BY <4>2
    <3>. QED
      BY <1>2, <2>6, <3>1, Zenon DEF ClearOne
  <2>7. CASE PostSession
    <3>1. UNCHANGED answers
      BY <2>7 DEF PostSession
    <3>2. CASE UNCHANGED <<sender, posted>>
      BY <1>4, <3>1, <3>2
    <3>3. ASSUME NEW p \in Unposted \cap Sessions, posted' = Append(posted, p)
          PROVE  Abstract!Next
      BY <1>3, <3>1, <3>3
    <3>. QED
      BY <2>7, <3>2, <3>3, Zenon DEF PostSession
  <2>8. CASE SessionLost \/ TakeRepeat \/ Release \/ TakeNext \/ CancelRequests
               \/ SendJob \/ RefuseJob \/ LimitEnds
    <3>1. UNCHANGED <<posted, answers>>
      BY <2>8 DEF SessionLost, TakeRepeat, Release, TakeNext, CancelRequests,
                  SendJob, RefuseJob, LimitEnds
    <3>. QED
      BY <1>4, <3>1
  <2>9. ASSUME NEW p \in Packets, CompleteAsync(p) PROVE UNCHANGED Abstract!vars
    BY <1>4, <2>9 DEF CompleteAsync
  <2>10. CASE UNCHANGED vars
    BY <1>4, <2>10 DEF vars
  <2>. QED
    BY <2>2, <2>3, <2>4, <2>5, <2>6, <2>7, <2>8, <2>9, <2>10 DEF Next, CoreStep
<1>. QED
  BY <1>1, <1>5, SendInvariant, PTL DEF Spec, Implements, Abstract!Spec

-----------------------------------------------------------------------------
(* The invariant: one packet at a time. *)

\* Ordinary packets that are with the worker, or whose result is on its way.
Flying(js, box) ==
    {p \in Packets \ Async :
        \/ \E i \in 1..Len(js) : js[i].packet = p
        \/ \E i \in 1..Len(box) : box[i].packet = p /\ box[i].kind # "async"}

Flag(s) == IF s.executing THEN 1 ELSE 0
Releasing(list) == IF Says("release", list) THEN 1 ELSE 0

\* Every packet in flight is covered by the flag or by a refusal; one whose
\* callback runs is still covered, until the closure clears the flag.
Counted(fly, releasing, flag, refused) ==
    /\ IsFiniteSet(fly) /\ IsFiniteSet(refused)
    /\ Cardinality(fly) + releasing <= Cardinality(refused) + flag

\* A closure clears the flag once.
ReleasedOnce(list) ==
    \A i, j \in 1..Len(list) : list[i] = "release" /\ list[j] = "release" => i = j

CountInv ==
    /\ Counted(Flying(sender.jobs, inbox), Releasing(agenda), Flag(sender), refusals)
    /\ \A p \in refusals : answers[p] > 0
    /\ ReleasedOnce(agenda)

-----------------------------------------------------------------------------
(* What changes the count. *)

\* Fewer packets in flight.
LEMMA CountFewer ==
    ASSUME NEW fly, NEW fewer, fewer \subseteq fly,
           NEW n \in {0, 1}, NEW f \in {0, 1}, NEW refused, Counted(fly, n, f, refused)
    PROVE  Counted(fewer, n, f, refused)
<1>1. /\ IsFiniteSet(fewer) /\ Cardinality(fewer) <= Cardinality(fly)
      /\ IsFiniteSet(refused) /\ IsFiniteSet(fly)
      /\ Cardinality(fly) + n <= Cardinality(refused) + f
  BY FS_Subset DEF Counted
<1>2. Cardinality(fewer) \in Nat /\ Cardinality(fly) \in Nat /\ Cardinality(refused) \in Nat
  BY <1>1, FS_CardinalityType
<1>3. Cardinality(fewer) + n <= Cardinality(refused) + f
  BY <1>1, <1>2
<1>. QED
  BY <1>1, <1>3 DEF Counted

\* One packet more, for which the flag is set.
LEMMA CountMore ==
    ASSUME NEW fly, NEW p, NEW n \in {0, 1}, NEW refused, Counted(fly, n, 0, refused)
    PROVE  Counted(fly \cup {p}, n, 1, refused)
<1>1. /\ IsFiniteSet(refused) /\ IsFiniteSet(fly)
      /\ Cardinality(fly) + n <= Cardinality(refused) + 0
  BY DEF Counted
<1>2. IsFiniteSet(fly \cup {p}) /\ Cardinality(fly \cup {p}) <= Cardinality(fly) + 1
  <2>1. Cardinality(fly) \in Nat
    BY <1>1, FS_CardinalityType
  <2>2. IsFiniteSet(fly \cup {p})
    BY <1>1, FS_AddElement
  <2>3. \/ Cardinality(fly \cup {p}) = Cardinality(fly)
        \/ Cardinality(fly \cup {p}) = Cardinality(fly) + 1
    BY <1>1, FS_AddElement, Zenon
  <2>. QED
    BY <2>1, <2>2, <2>3
<1>3. /\ Cardinality(fly \cup {p}) \in Nat /\ Cardinality(fly) \in Nat
      /\ Cardinality(refused) \in Nat
  BY <1>1, <1>2, FS_CardinalityType
<1>4. Cardinality(fly \cup {p}) + n <= Cardinality(refused) + 1
  BY <1>1, <1>2, <1>3
<1>. QED
  BY <1>1, <1>2, <1>4 DEF Counted

\* The result of a packet is taken: its callback runs while the flag is set.
LEMMA CountTaken ==
    ASSUME NEW fly, NEW p, p \in fly, NEW left, left \subseteq fly \ {p},
           NEW f \in {0, 1}, NEW refused, Counted(fly, 0, f, refused)
    PROVE  Counted(left, 1, f, refused)
<1>1. /\ IsFiniteSet(refused) /\ IsFiniteSet(fly)
      /\ Cardinality(fly) + 0 <= Cardinality(refused) + f
  BY DEF Counted
<1>2. IsFiniteSet(fly \ {p}) /\ Cardinality(fly \ {p}) = Cardinality(fly) - 1
  BY <1>1, FS_RemoveElement
<1>3. Cardinality(fly) \in Nat /\ Cardinality(refused) \in Nat
  BY <1>1, FS_CardinalityType
<1>4. Cardinality(fly \ {p}) + 1 <= Cardinality(refused) + f
  BY <1>1, <1>2, <1>3
<1>5. Counted(fly \ {p}, 1, f, refused)
  BY <1>1, <1>2, <1>4 DEF Counted
<1>. QED
  BY <1>5, CountFewer

\* The flag is cleared.
LEMMA CountReleased ==
    ASSUME NEW fly, NEW f \in {0, 1}, NEW refused, Counted(fly, 1, f, refused)
    PROVE  Counted(fly, 0, 0, refused)
<1>1. /\ IsFiniteSet(refused) /\ IsFiniteSet(fly)
      /\ Cardinality(fly) + 1 <= Cardinality(refused) + f
  BY DEF Counted
<1>2. Cardinality(fly) \in Nat /\ Cardinality(refused) \in Nat
  BY <1>1, FS_CardinalityType
<1>3. Cardinality(fly) + 0 <= Cardinality(refused) + 0
  BY <1>1, <1>2
<1>. QED
  BY <1>1, <1>3 DEF Counted

\* The rate limit refuses an asynchronous packet, for the first time.
LEMMA CountRefused ==
    ASSUME NEW fly, NEW f \in {0, 1}, NEW refused, NEW p, p \notin refused,
           Counted(fly, 0, f, refused)
    PROVE  Counted(fly, 1, f, refused \cup {p})
<1>1. /\ IsFiniteSet(refused) /\ IsFiniteSet(fly)
      /\ Cardinality(fly) + 0 <= Cardinality(refused) + f
  BY DEF Counted
<1>2. /\ IsFiniteSet(refused \cup {p})
      /\ Cardinality(refused \cup {p}) = Cardinality(refused) + 1
  BY <1>1, FS_AddElement
<1>3. Cardinality(fly) \in Nat /\ Cardinality(refused) \in Nat
  BY <1>1, FS_CardinalityType
<1>4. Cardinality(fly) + 1 <= Cardinality(refused \cup {p}) + f
  BY <1>1, <1>2, <1>3
<1>. QED
  BY <1>1, <1>2, <1>4 DEF Counted

-----------------------------------------------------------------------------
(* post_packet and the closures. *)

\* The two ways of posting a packet: behind the queue, or to the worker or the
\* network.
Queued(s, p, r) ==
    /\ s.executing /\ p \notin Async
    /\ r.queue = Append(s.queue, p) /\ r.jobs = s.jobs /\ r.executing = s.executing

Launched(s, p, r) ==
    /\ ~s.executing \/ p \in Async
    /\ r.queue = s.queue /\ r.executing = (s.executing \/ p \notin Async)
    /\ \/ p \in Async /\ r.jobs = s.jobs
       \/ \E j \in Job : j.packet = p /\ (j.send => p \notin Async) /\ r.jobs = Append(s.jobs, j)

LEMMA PostCases ==
    ASSUME NEW s \in Sender, NEW p \in Packets, NEW r, r = PostPacket(s, p)
    PROVE  Queued(s, p, r) \/ Launched(s, p, r)
<1>0. /\ s.queue \in Seq(Packets) /\ s.jobs \in Seq(Job) /\ s.air \in SUBSET Packets
  BY DEF Sender
<1>1. CASE s.executing /\ p \notin Async
  <2>1. r = [s EXCEPT !.queue = Append(s.queue, p)]
    BY <1>1 DEF PostPacket
  <2>2. r.queue = Append(s.queue, p) /\ r.jobs = s.jobs /\ r.executing = s.executing
    BY <2>1 DEF Sender
  <2>. QED
    BY <1>1, <2>2 DEF Queued
<1>2. CASE ~(s.executing /\ p \notin Async)
  <2> PICK u : u = [s EXCEPT !.executing = s.executing \/ p \notin Async]
    OBVIOUS
  <2>1. r = Launch(u, p)
    BY <1>2, Zenon DEF PostPacket
  <2>2. (s.executing \/ p \notin Async) \in BOOLEAN
    BY Zenon
  <2>3. /\ u \in Sender /\ u.queue = s.queue /\ u.jobs = s.jobs /\ u.air = s.air
        /\ u.limited = s.limited /\ u.executing = (s.executing \/ p \notin Async)
    BY <1>0, <2>2, Zenon DEF Sender
  <2>4. ASSUME NEW j \in Job, r = [u EXCEPT !.jobs = Append(u.jobs, j)],
               j.packet = p, j.send => p \notin Async
        PROVE  Launched(s, p, r)
    <3>1. r.queue = s.queue /\ r.jobs = Append(s.jobs, j) /\ r.executing = u.executing
      BY <2>3, <2>4 DEF Sender
    <3>2. r.executing = (s.executing \/ p \notin Async)
      BY <2>3, <3>1, Zenon
    <3>. QED
      BY <1>2, <2>4, <3>1, <3>2, Zenon DEF Launched
  <2>5. CASE u.limited
    <3>1. [packet |-> p, send |-> FALSE] \in Job
      BY DEF Job
    <3>2. r = [u EXCEPT !.jobs = Append(u.jobs, [packet |-> p, send |-> FALSE])]
      BY <2>1, <2>5, Zenon DEF Launch
    <3>. QED
      BY <2>4, <3>1, <3>2
  <2>6. CASE ~u.limited /\ p \in Async
    <3>1. r = [u EXCEPT !.air = u.air \cup {p}]
      BY <2>1, <2>6, Zenon DEF Launch
    <3>2. r.queue = s.queue /\ r.jobs = s.jobs /\ r.executing = u.executing
      BY <2>3, <3>1 DEF Sender
    <3>3. r.executing = (s.executing \/ p \notin Async)
      BY <2>3, <3>2, Zenon
    <3>. QED
      BY <1>2, <2>6, <3>2, <3>3, Zenon DEF Launched
  <2>7. CASE ~u.limited /\ p \notin Async
    <3>1. [packet |-> p, send |-> TRUE] \in Job
      BY DEF Job
    <3>2. r = [u EXCEPT !.jobs = Append(u.jobs, [packet |-> p, send |-> TRUE])]
      BY <2>1, <2>7, Zenon DEF Launch
    <3>. QED
      BY <2>4, <2>7, <3>1, <3>2
  <2>. QED
    BY <2>5, <2>6, <2>7
<1>. QED
  BY <1>1, <1>2

LEMMA SmallNumbers ==
    /\ \A s : Flag(s) \in {0, 1}
    /\ \A list : Releasing(list) \in {0, 1}
  BY DEF Flag, Releasing

\* Posting a packet sets the flag for each one it puts in flight.
LEMMA PostCounts ==
    ASSUME NEW s \in Sender, NEW p \in Packets, NEW r, r = PostPacket(s, p),
           NEW box, NEW n \in {0, 1}, NEW refused,
           Counted(Flying(s.jobs, box), n, Flag(s), refused)
    PROVE  Counted(Flying(r.jobs, box), n, Flag(r), refused)
<1>0. s.jobs \in Seq(Job)
  BY DEF Sender
<1>1. CASE Queued(s, p, r)
  BY <1>1 DEF Queued, Flag
<1>2. ASSUME Launched(s, p, r), r.jobs = s.jobs, p \in Async
      PROVE  Counted(Flying(r.jobs, box), n, Flag(r), refused)
  <2>1. Flag(r) = Flag(s)
    BY <1>2, Zenon DEF Launched, Flag
  <2>. QED
    BY <1>2, <2>1
<1>3. ASSUME Launched(s, p, r), NEW j \in Job, j.packet = p, r.jobs = Append(s.jobs, j)
      PROVE  Counted(Flying(r.jobs, box), n, Flag(r), refused)
  <2>1. /\ Len(r.jobs) = Len(s.jobs) + 1 /\ Len(s.jobs) \in Nat
        /\ r.jobs[Len(s.jobs) + 1] = j
        /\ \A i \in 1..Len(s.jobs) : r.jobs[i] = s.jobs[i]
    BY <1>0, <1>3, AppendFacts
  <2>2. \A i \in 1..Len(r.jobs) : i = Len(s.jobs) + 1 \/ i \in 1..Len(s.jobs)
    BY <2>1
  <2>3. CASE p \in Async
    <3>1. Flag(r) = Flag(s)
      BY <1>3, <2>3, Zenon DEF Launched, Flag
    <3>2. Flying(r.jobs, box) \subseteq Flying(s.jobs, box)
      BY <1>3, <2>1, <2>2, <2>3 DEF Flying
    <3>. QED
      BY <3>1, <3>2, SmallNumbers, CountFewer
  <2>4. CASE p \notin Async
    <3>1. ~s.executing /\ r.executing
      BY <1>3, <2>4, Zenon DEF Launched
    <3>2. Flag(s) = 0 /\ Flag(r) = 1
      BY <3>1 DEF Flag
    <3>3. Flying(r.jobs, box) \subseteq Flying(s.jobs, box) \cup {p}
      BY <1>3, <2>1, <2>2 DEF Flying
    <3>4. Counted(Flying(s.jobs, box) \cup {p}, n, 1, refused)
      BY <3>2, CountMore
    <3>. QED
      BY <3>2, <3>3, <3>4, CountFewer
  <2>. QED
    BY <2>3, <2>4
<1>4. CASE Launched(s, p, r)
  <2>1. \/ p \in Async /\ r.jobs = s.jobs
        \/ \E j \in Job : j.packet = p /\ r.jobs = Append(s.jobs, j)
    BY <1>4, Zenon DEF Launched
  <2>. QED
    BY <1>2, <1>3, <1>4, <2>1
<1>. QED
  BY <1>1, <1>4, PostCases

\* What starting the session again does to the closure does not clear the flag.
LEMMA RestartReleases ==
    ASSUME NEW rest \in Seq(Statements)
    PROVE  LET list == RestartSession \o rest
           IN  /\ Releasing(list) = Releasing(rest)
               /\ ReleasedOnce(rest) => ReleasedOnce(list)
<1> DEFINE list == RestartSession \o rest
<1>1. /\ RestartSession \in Seq(Statements) /\ Len(RestartSession) = 2
      /\ RestartSession[1] = "clear" /\ RestartSession[2] = "session"
  BY DEF RestartSession, Statements
<1>2. /\ Len(list) = Len(rest) + 2 /\ Len(rest) \in Nat
      /\ list[1] = "clear" /\ list[2] = "session"
      /\ \A k \in 3..(Len(rest) + 2) : list[k] = rest[k - 2]
  <2>1. /\ Len(list) = Len(RestartSession) + Len(rest)
        /\ Len(rest) \in Nat
        /\ \A k \in 1..Len(RestartSession) : list[k] = RestartSession[k]
        /\ \A k \in (Len(RestartSession) + 1)..(Len(RestartSession) + Len(rest)) :
              list[k] = rest[k - Len(RestartSession)]
    BY <1>1, ConcatFacts, Zenon
  <2> HIDE DEF list
  <2>. QED
    BY <1>1, <2>1
<1>3. Says("release", list) <=> Says("release", rest)
  BY RestartFacts
<1> HIDE DEF list
<1>4. Releasing(list) = Releasing(rest)
  BY <1>3 DEF Releasing
<1>5. ASSUME ReleasedOnce(rest) PROVE ReleasedOnce(list)
  <2> SUFFICES ASSUME NEW i \in 1..Len(list), NEW j \in 1..Len(list),
                      list[i] = "release", list[j] = "release"
               PROVE  i = j
    BY DEF ReleasedOnce
  <2>1. i \in 3..(Len(rest) + 2) /\ j \in 3..(Len(rest) + 2)
    BY <1>2
  <2>2. /\ i - 2 \in 1..Len(rest) /\ j - 2 \in 1..Len(rest)
        /\ rest[i - 2] = "release" /\ rest[j - 2] = "release"
    BY <1>2, <2>1
  <2>3. i - 2 = j - 2
    BY <1>5, <2>2 DEF ReleasedOnce
  <2>. QED
    BY <2>1, <2>3
<1>. QED
  BY <1>4, <1>5 DEF list

\* A callback keeps the count.
LEMMA ReplyCounts ==
    ASSUME NEW p, NEW e, NEW s \in Sender, NEW rest \in Seq(Statements), NEW box,
           NEW refused, Counted(Flying(s.jobs, box), Releasing(rest), Flag(s), refused),
           ReleasedOnce(rest), Reply(p, e, s, rest)
    PROVE  /\ Counted(Flying(sender'.jobs, box), Releasing(agenda'), Flag(sender'), refused)
           /\ ReleasedOnce(agenda')
<1>1. CASE sender' = s /\ agenda' = rest
  BY <1>1
<1>2. ASSUME NEW q \in Unposted, sender' = PostPacket(s, q), agenda' = rest
      PROVE  /\ Counted(Flying(sender'.jobs, box), Releasing(agenda'), Flag(sender'),
                         refused)
             /\ ReleasedOnce(agenda')
  <2>1. q \in Packets
    BY DEF Unposted
  <2>2. Releasing(rest) \in {0, 1}
    BY SmallNumbers
  <2>3. Counted(Flying(sender'.jobs, box), Releasing(rest), Flag(sender'), refused)
    BY <1>2, <2>1, <2>2, PostCounts
  <2>. QED
    BY <1>2, <2>3
<1>3. CASE sender' = s /\ agenda' = RestartSession \o rest
  <2>1. Releasing(agenda') = Releasing(rest) /\ ReleasedOnce(agenda')
    BY <1>3, RestartReleases
  <2>. QED
    BY <1>3, <2>1
<1>. QED
  <2>1. \/ sender' = s /\ agenda' = rest
        \/ \E q \in Unposted : sender' = PostPacket(s, q) /\ agenda' = rest
        \/ sender' = s /\ agenda' = RestartSession \o rest
    BY Zenon DEF Reply
  <2>. QED
    BY <1>1, <1>2, <1>3, <2>1

\* A callback answers its packet and takes no answer back.
LEMMA ReplyAnswers ==
    ASSUME Typed, NEW p \in Packets, NEW e, NEW s, NEW rest, Reply(p, e, s, rest)
    PROVE  /\ answers'[p] > 0
           /\ \A x \in Packets : answers[x] > 0 => answers'[x] > 0
<1>1. answers' = [answers EXCEPT ![p] = @ + 1] /\ answers \in [Packets -> Nat]
  BY DEF Reply, Typed
<1>. QED
  BY <1>1

\* What is left of a closure after its first statement clears the flag unless
\* the first statement did.
LEMMA TailReleases ==
    ASSUME NEW list \in Seq(Statements), list # <<>>, ReleasedOnce(list)
    PROVE  /\ ReleasedOnce(Tail(list))
           /\ Head(list) = "release" => Releasing(list) = 1 /\ Releasing(Tail(list)) = 0
           /\ Head(list) # "release" => Releasing(Tail(list)) = Releasing(list)
<1> PICK rest : rest = Tail(list)
  OBVIOUS
<1>1. /\ Len(list) \in Nat /\ Len(list) >= 1
      /\ Len(rest) = Len(list) - 1 /\ Head(list) = list[1]
      /\ \A i \in 1..(Len(list) - 1) : rest[i] = list[i + 1]
  BY TailFacts
<1>2. \A i \in 1..Len(rest) : i + 1 \in 1..Len(list) /\ i + 1 # 1 /\ rest[i] = list[i + 1]
  BY <1>1
<1>3. ReleasedOnce(rest)
  <2> SUFFICES ASSUME NEW i \in 1..Len(rest), NEW j \in 1..Len(rest),
                      rest[i] = "release", rest[j] = "release"
               PROVE  i = j
    BY DEF ReleasedOnce
  <2>1. i + 1 = j + 1
    BY <1>2 DEF ReleasedOnce
  <2>. QED
    BY <2>1
<1>4. ASSUME Head(list) = "release"
      PROVE  Releasing(list) = 1 /\ Releasing(rest) = 0
  <2>1. 1 \in 1..Len(list) /\ list[1] = "release"
    BY <1>1, <1>4
  <2>2. Says("release", list)
    BY <2>1 DEF Says
  <2>3. ~Says("release", rest)
    BY <1>2, <2>1 DEF Says, ReleasedOnce
  <2>. QED
    BY <2>2, <2>3 DEF Releasing
<1>5. ASSUME Head(list) # "release" PROVE Releasing(rest) = Releasing(list)
  <2>1. Says("release", list) <=> Says("release", rest)
    BY <1>5, AgendaTail
  <2>. QED
    BY <2>1 DEF Releasing
<1>. QED
  BY <1>3, <1>4, <1>5

\* Taking a result takes its packet out of those in flight.
LEMMA TakenFlies ==
    ASSUME SendInv, inbox # <<>>
    PROVE  LET r == Head(inbox)
               fly == Flying(sender.jobs, inbox)
               left == Flying(sender.jobs, Tail(inbox))
           IN  /\ left \subseteq fly
               /\ r.kind # "async" /\ r.packet \notin Async
                    => r.packet \in fly /\ left \subseteq fly \ {r.packet}
<1> DEFINE r == Head(inbox)
           fly == Flying(sender.jobs, inbox)
           left == Flying(sender.jobs, Tail(inbox))
<1>1. inbox \in Seq(Result)
  BY DEF SendInv, Typed
<1>2. /\ Len(inbox) \in Nat /\ Len(inbox) >= 1 /\ Len(Tail(inbox)) = Len(inbox) - 1
      /\ r = inbox[1]
      /\ \A i \in 1..(Len(inbox) - 1) : Tail(inbox)[i] = inbox[i + 1]
  BY <1>1, TailFacts
<1>3. /\ r.packet \in Packets
      /\ Nowhere(r.packet, sender.queue, sender.jobs, sender.air, Tail(inbox))
  BY ResultTaken
<1> PICK box : box = Tail(inbox)
  OBVIOUS
<1>4. \A i \in 1..Len(box) : i + 1 \in 1..Len(inbox) /\ box[i] = inbox[i + 1]
  BY <1>2
<1>5. left \subseteq fly
  BY <1>4 DEF Flying
<1>6. r.packet \notin left
  BY <1>3 DEF Flying, Nowhere
<1>7. r.kind # "async" /\ r.packet \notin Async => r.packet \in fly
  BY <1>2, <1>3, 1 \in 1..Len(inbox) DEF Flying
<1>. QED
  BY <1>5, <1>6, <1>7

-----------------------------------------------------------------------------
(* Every step keeps the count. *)

\* A handler that calls the callback of packet p.
LEMMA CallCounts ==
    ASSUME Typed, CountInv, NEW p \in Packets, NEW e,
           NEW s \in Sender, NEW rest \in Seq(Statements),
           refusals' \subseteq refusals \cup {p},
           Counted(Flying(s.jobs, inbox'), Releasing(rest), Flag(s), refusals'),
           ReleasedOnce(rest), Reply(p, e, s, rest)
    PROVE  CountInv'
<1>1. /\ Counted(Flying(sender'.jobs, inbox'), Releasing(agenda'), Flag(sender'), refusals')
      /\ ReleasedOnce(agenda')
  BY ReplyCounts
<1>2. /\ answers'[p] > 0
      /\ \A x \in Packets : answers[x] > 0 => answers'[x] > 0
  BY ReplyAnswers
<1>3. \A x \in refusals' : answers'[x] > 0
  BY <1>2 DEF CountInv, Typed
<1>. QED
  BY <1>1, <1>3 DEF CountInv

\* The closures that no error handler is part of.
LEMMA ShortClosures ==
    /\ <<"release", "next">> \in Seq(Statements) /\ <<>> \in Seq(Statements)
    /\ Releasing(<<"release", "next">>) = 1 /\ ReleasedOnce(<<"release", "next">>)
    /\ Releasing(<<>>) = 0 /\ ReleasedOnce(<<>>)
<1> PICK list : list = <<"release", "next">>
  OBVIOUS
<1>1. /\ list \in Seq(Statements) /\ Len(list) = 2 /\ list[1] = "release"
      /\ list[2] = "next"
  BY DEF Statements
<1>2. Says("release", list)
  BY <1>1 DEF Says
<1>3. ReleasedOnce(list)
  BY <1>1 DEF ReleasedOnce
<1>4. ~Says("release", <<>>) /\ ReleasedOnce(<<>>) /\ <<>> \in Seq(Statements)
  BY DEF Says, ReleasedOnce
<1>. QED
  BY <1>1, <1>2, <1>3, <1>4 DEF Releasing

\* The result of an ordinary packet is taken, and its callback will run.
LEMMA TakenCounts ==
    ASSUME SendInv, CountInv, agenda = <<>>, inbox # <<>>,
           Head(inbox).kind # "async", Head(inbox).packet \notin Async
    PROVE  Counted(Flying(sender.jobs, Tail(inbox)), 1, Flag(sender), refusals)
<1>1. Releasing(agenda) = 0 /\ Flag(sender) \in {0, 1}
  BY ShortClosures, SmallNumbers
<1>2. Counted(Flying(sender.jobs, inbox), 0, Flag(sender), refusals)
  BY <1>1 DEF CountInv
<1>3. /\ Head(inbox).packet \in Flying(sender.jobs, inbox)
      /\ Flying(sender.jobs, Tail(inbox))
            \subseteq Flying(sender.jobs, inbox) \ {Head(inbox).packet}
  BY TakenFlies
<1>. QED
  BY <1>1, <1>2, <1>3, CountTaken

\* A handler that answers nobody.
LEMMA QuietCounts ==
    ASSUME CountInv, UNCHANGED <<answers, refusals>>,
           Counted(Flying(sender'.jobs, inbox'), Releasing(agenda'), Flag(sender'), refusals),
           ReleasedOnce(agenda')
    PROVE  CountInv'
  BY DEF CountInv

LEMMA TakeRefusedCounts == ASSUME SendInv, CountInv, TakeRefused PROVE CountInv'
<1> PICK r : r = Head(inbox)
  OBVIOUS
<1>1. /\ inbox # <<>> /\ inbox' = Tail(inbox) /\ agenda = <<>> /\ r.kind = "refused"
      /\ refusals' = refusals \cup ({r.packet} \cap Async)
      /\ Reply(r.packet, "refused", sender, <<"release", "next">>)
  BY DEF TakeRefused, Idle
<1>2. Typed /\ sender \in Sender /\ r.packet \in Pending /\ r.packet \in Packets
  BY <1>1, ResultTaken DEF SendInv, Typed
<1>3. Counted(Flying(sender.jobs, inbox), 0, Flag(sender), refusals)
  BY <1>1, ShortClosures DEF CountInv
<1>4. Flying(sender.jobs, inbox') \subseteq Flying(sender.jobs, inbox)
  BY <1>1, TakenFlies
<1>5. Counted(Flying(sender.jobs, inbox'), 1, Flag(sender), refusals')
  <2>1. CASE r.packet \in Async
    <3>1. r.packet \notin refusals
      BY <1>2 DEF CountInv, Pending
    <3>2. Counted(Flying(sender.jobs, inbox'), 0, Flag(sender), refusals)
      BY <1>3, <1>4, SmallNumbers, CountFewer
    <3>3. refusals' = refusals \cup {r.packet}
      BY <1>1, <2>1
    <3>4. Flag(sender) \in {0, 1}
      BY SmallNumbers
    <3>5. Counted(Flying(sender.jobs, inbox'), 1, Flag(sender), refusals \cup {r.packet})
      BY <3>1, <3>2, <3>4, CountRefused
    <3>. QED
      BY <3>3, <3>5
  <2>2. CASE r.packet \notin Async
    <3>3. Counted(Flying(sender.jobs, inbox'), 1, Flag(sender), refusals)
      BY <1>1, <2>2, TakenCounts
    <3>4. refusals' = refusals
      BY <1>1, <2>2
    <3>. QED
      BY <3>3, <3>4
  <2>. QED
    BY <2>1, <2>2
<1>6. refusals' \subseteq refusals \cup {r.packet}
  BY <1>1
<1>. QED
  BY <1>1, <1>2, <1>5, <1>6, ShortClosures, CallCounts

LEMMA TakeAsyncCounts == ASSUME SendInv, CountInv, TakeAsync PROVE CountInv'
<1> PICK r : r = Head(inbox)
  OBVIOUS
<1>1. /\ inbox # <<>> /\ inbox' = Tail(inbox) /\ agenda = <<>>
      /\ refusals' = refusals
      /\ Reply(r.packet, r.error, sender, <<>>)
  BY DEF TakeAsync, Idle
<1>2. Typed /\ sender \in Sender /\ r.packet \in Packets
  BY <1>1, ResultTaken DEF SendInv, Typed
<1>3. Counted(Flying(sender.jobs, inbox'), Releasing(<<>>), Flag(sender), refusals')
  <2>1. Counted(Flying(sender.jobs, inbox), 0, Flag(sender), refusals)
    BY <1>1, ShortClosures DEF CountInv
  <2>2. Flying(sender.jobs, inbox') \subseteq Flying(sender.jobs, inbox)
    BY <1>1, TakenFlies
  <2>3. Flag(sender) \in {0, 1}
    BY SmallNumbers
  <2>4. Counted(Flying(sender.jobs, inbox'), 0, Flag(sender), refusals)
    BY <2>1, <2>2, <2>3, CountFewer
  <2>. QED
    BY <1>1, <2>4, ShortClosures
<1>4. refusals' \subseteq refusals \cup {r.packet}
  BY <1>1
<1>. QED
  BY <1>1, <1>2, <1>3, <1>4, ShortClosures, CallCounts

LEMMA TakeRepeatCounts == ASSUME SendInv, CountInv, TakeRepeat PROVE CountInv'
<1> PICK r : r = Head(inbox)
  OBVIOUS
<1> PICK s : s = [sender EXCEPT !.executing = FALSE]
  OBVIOUS
<1>1. /\ inbox # <<>> /\ inbox' = Tail(inbox) /\ agenda = <<>> /\ r.kind = "executed"
      /\ sender' = PostPacket(s, r.packet)
      /\ UNCHANGED <<agenda, answers, refusals>>
  BY DEF TakeRepeat, Idle
<1>2. sender \in Sender /\ r.packet \in Packets /\ r.packet \notin Async
  BY <1>1, ResultTaken DEF SendInv, Typed
<1>3. s \in Sender /\ s.jobs = sender.jobs /\ ~s.executing
  BY <1>2 DEF Sender
<1>4. Counted(Flying(s.jobs, inbox'), 0, Flag(s), refusals)
  <2>1. Counted(Flying(sender.jobs, inbox'), 1, Flag(sender), refusals)
    BY <1>1, <1>2, TakenCounts
  <2>2. Flag(sender) \in {0, 1}
    BY SmallNumbers
  <2>3. Counted(Flying(sender.jobs, inbox'), 0, 0, refusals)
    BY <2>1, <2>2, CountReleased
  <2>. QED
    BY <1>3, <2>3 DEF Flag
<1>5. Counted(Flying(sender'.jobs, inbox'), 0, Flag(sender'), refusals)
  BY <1>1, <1>2, <1>3, <1>4, PostCounts
<1>6. Releasing(agenda') = 0 /\ ReleasedOnce(agenda')
  BY <1>1, ShortClosures
<1>. QED
  BY <1>1, <1>5, <1>6, QuietCounts

\* The closure of a packet that was answered, without and with a new session.
LongClosure(list) ==
    /\ list \in Seq(Statements) /\ list[1] = "release"
    /\ \/ Len(list) = 2 /\ list[2] = "next"
       \/ Len(list) = 4 /\ list[2] = "clear" /\ list[3] = "session" /\ list[4] = "next"

LEMMA WrappedClosure ==
    ASSUME NEW a \in Seq(Statements), Len(a) = 1, a[1] = "release",
           NEW c \in Seq(Statements), Len(c) = 1, c[1] = "next",
           NEW handle \in Seq(Statements),
           \/ Len(handle) = 0
           \/ Len(handle) = 2 /\ handle[1] = "clear" /\ handle[2] = "session",
           NEW u, u = a \o handle, NEW list, list = u \o c
    PROVE  LongClosure(list)
<1>1. /\ u \in Seq(Statements) /\ Len(u) = Len(a) + Len(handle)
      /\ \A k \in 1..Len(a) : u[k] = a[k]
      /\ \A k \in (Len(a) + 1)..(Len(a) + Len(handle)) : u[k] = handle[k - Len(a)]
  BY ConcatFacts
<1>2. /\ list \in Seq(Statements) /\ Len(list) = Len(u) + Len(c)
      /\ \A k \in 1..Len(u) : list[k] = u[k]
      /\ \A k \in (Len(u) + 1)..(Len(u) + Len(c)) : list[k] = c[k - Len(u)]
  BY <1>1, ConcatFacts
<1>3. Len(u) \in Nat /\ u[1] = "release"
  BY <1>1
<1>4. CASE Len(handle) = 0
  <2>1. Len(u) = 1
    BY <1>1, <1>4
  <2>2. Len(list) = 2 /\ list[1] = u[1] /\ list[2] = c[1]
    BY <1>2, <2>1
  <2>. QED
    BY <1>2, <1>3, <2>2 DEF LongClosure
<1>5. CASE Len(handle) = 2 /\ handle[1] = "clear" /\ handle[2] = "session"
  <2>1. Len(u) = 3
    BY <1>1, <1>5
  <2>2. u[2] = handle[1] /\ u[3] = handle[2]
    <3>1. 2 \in (Len(a) + 1)..(Len(a) + Len(handle)) /\ 2 - Len(a) = 1
      BY <1>5
    <3>2. 3 \in (Len(a) + 1)..(Len(a) + Len(handle)) /\ 3 - Len(a) = 2
      BY <1>5
    <3>. QED
      BY <1>1, <3>1, <3>2, Zenon
  <2>3. Len(list) = 4 /\ list[1] = u[1] /\ list[2] = u[2] /\ list[3] = u[3] /\ list[4] = c[1]
    BY <1>2, <2>1
  <2>. QED
    BY <1>2, <1>3, <1>5, <2>2, <2>3 DEF LongClosure
<1>. QED
  BY <1>4, <1>5

LEMMA AnswerClosure ==
    ASSUME NEW e
    PROVE  LET handle == IF e = "relogin" THEN RestartSession ELSE <<>>
           IN  LongClosure(<<"release">> \o handle \o <<"next">>)
<1> DEFINE handle == IF e = "relogin" THEN RestartSession ELSE <<>>
<1>1. /\ <<"release">> \in Seq(Statements) /\ Len(<<"release">>) = 1
      /\ <<"release">>[1] = "release"
      /\ <<"next">> \in Seq(Statements) /\ Len(<<"next">>) = 1 /\ <<"next">>[1] = "next"
  BY DEF Statements
<1>2. /\ RestartSession \in Seq(Statements) /\ Len(RestartSession) = 2
      /\ RestartSession[1] = "clear" /\ RestartSession[2] = "session"
  BY DEF RestartSession, Statements
<1>3. /\ handle \in Seq(Statements)
      /\ \/ Len(handle) = 0
         \/ Len(handle) = 2 /\ handle[1] = "clear" /\ handle[2] = "session"
  <2>1. handle = RestartSession \/ handle = <<>>
    BY Zenon
  <2>2. <<>> \in Seq(Statements) /\ Len(<<>>) = 0
    OBVIOUS
  <2> HIDE DEF handle
  <2>. QED
    BY <1>2, <2>1, <2>2
<1> HIDE DEF handle
<1>4. LongClosure(<<"release">> \o handle \o <<"next">>)
  BY <1>1, <1>3, WrappedClosure, Zenon
<1>. QED
  BY <1>4 DEF handle

LEMMA AnswerReleases ==
    ASSUME NEW rest, LongClosure(rest)
    PROVE  Releasing(rest) = 1 /\ ReleasedOnce(rest)
<1>1. \A i \in 1..Len(rest) : rest[i] = "release" => i = 1
  BY DEF LongClosure
<1>2. 1 \in 1..Len(rest) /\ rest[1] = "release"
  BY DEF LongClosure
<1>3. Says("release", rest) /\ ReleasedOnce(rest)
  BY <1>1, <1>2 DEF Says, ReleasedOnce
<1>. QED
  BY <1>3 DEF Releasing

LEMMA TakeAnswerCounts == ASSUME SendInv, CountInv, TakeAnswer PROVE CountInv'
<1> PICK r : r = Head(inbox)
  OBVIOUS
<1> DEFINE limited == sender.limited \/ r.error = "too_fast"
           handle == IF r.error = "relogin" THEN RestartSession ELSE <<>>
<1> PICK s : s = [sender EXCEPT !.limited = limited]
  OBVIOUS
<1> PICK rest : rest = <<"release">> \o handle \o <<"next">>
  OBVIOUS
<1>1. /\ inbox # <<>> /\ inbox' = Tail(inbox) /\ agenda = <<>> /\ r.kind = "executed"
      /\ refusals' = refusals
      /\ Reply(r.packet, r.error, s, rest)
  BY DEF TakeAnswer, Idle
<1>2. Typed /\ sender \in Sender /\ r.packet \in Packets /\ r.packet \notin Async
  BY <1>1, ResultTaken DEF SendInv, Typed
<1>3. limited \in BOOLEAN
  BY Zenon
<1>4. s \in Sender /\ s.jobs = sender.jobs /\ s.executing = sender.executing
  BY <1>2, <1>3, Zenon DEF Sender
<1>5. rest \in Seq(Statements) /\ Releasing(rest) = 1 /\ ReleasedOnce(rest)
  <2>1. LongClosure(rest)
    BY AnswerClosure
  <2>. QED
    BY <2>1, AnswerReleases DEF LongClosure
<1>6. Counted(Flying(s.jobs, inbox'), 1, Flag(s), refusals')
  <2>1. Counted(Flying(sender.jobs, inbox'), 1, Flag(sender), refusals)
    BY <1>1, <1>2, TakenCounts
  <2>2. Flag(s) = Flag(sender)
    BY <1>4 DEF Flag
  <2>. QED
    BY <1>1, <1>4, <2>1, <2>2
<1>7. refusals' \subseteq refusals \cup {r.packet}
  BY <1>1
<1>. QED
  BY <1>1, <1>2, <1>4, <1>5, <1>6, <1>7, CallCounts

LEMMA ReleaseCounts == ASSUME SendInv, CountInv, Release PROVE CountInv'
<1>1. /\ agenda # <<>> /\ Head(agenda) = "release" /\ agenda' = Tail(agenda)
      /\ sender' = [sender EXCEPT !.executing = FALSE]
      /\ UNCHANGED <<inbox, answers, refusals>>
  BY DEF Release, Idle
<1>2. sender \in Sender /\ agenda \in Seq(Statements)
  BY DEF SendInv, Typed
<1>3. sender'.jobs = sender.jobs /\ Flag(sender') = 0
  BY <1>1, <1>2 DEF Sender, Flag
<1>4. Releasing(agenda) = 1 /\ Releasing(agenda') = 0 /\ ReleasedOnce(agenda')
  BY <1>1, <1>2, TailReleases DEF CountInv
<1>5. Counted(Flying(sender.jobs, inbox), 0, 0, refusals)
  BY <1>4, SmallNumbers, CountReleased DEF CountInv
<1>. QED
  BY <1>1, <1>3, <1>4, <1>5, QuietCounts

\* A statement that does not clear the flag is done, and the object is s.
LEMMA StatementCounts ==
    ASSUME SendInv, CountInv, agenda # <<>>, Head(agenda) # "release",
           agenda' = Tail(agenda), UNCHANGED <<inbox, answers, refusals>>,
           Counted(Flying(sender'.jobs, inbox), Releasing(agenda), Flag(sender'), refusals)
    PROVE  CountInv'
<1>1. agenda \in Seq(Statements)
  BY DEF SendInv, Typed
<1>2. Releasing(agenda') = Releasing(agenda) /\ ReleasedOnce(agenda')
  BY <1>1, TailReleases DEF CountInv
<1>. QED
  BY <1>2, QuietCounts

LEMMA TakeNextCounts == ASSUME SendInv, CountInv, TakeNext PROVE CountInv'
<1>1. /\ agenda # <<>> /\ Head(agenda) = "next" /\ agenda' = Tail(agenda)
      /\ sender' = ExecuteFromQueue(sender)
      /\ UNCHANGED <<inbox, answers, refusals>>
  BY DEF TakeNext, Idle
<1>2. sender \in Sender /\ sender.queue \in Seq(Packets)
  BY DEF SendInv, Typed, Sender
<1>3. Counted(Flying(sender'.jobs, inbox), Releasing(agenda), Flag(sender'), refusals)
  <2>1. CASE sender.queue = <<>>
    BY <1>1, <2>1 DEF ExecuteFromQueue, CountInv
  <2>2. CASE sender.queue # <<>>
    <3> PICK s : s = [sender EXCEPT !.queue = Tail(sender.queue)]
      OBVIOUS
    <3>1. Tail(sender.queue) \in Seq(Packets) /\ Head(sender.queue) \in Packets
      BY <1>2, <2>2
    <3>2. s \in Sender /\ s.jobs = sender.jobs /\ s.executing = sender.executing
      BY <1>2, <3>1 DEF Sender
    <3>3. sender' = PostPacket(s, Head(sender.queue))
      BY <1>1, <2>2 DEF ExecuteFromQueue
    <3>4. Counted(Flying(s.jobs, inbox), Releasing(agenda), Flag(s), refusals)
      BY <3>2 DEF CountInv, Flag
    <3>. QED
      BY <3>1, <3>2, <3>3, <3>4, SmallNumbers, PostCounts
  <2>. QED
    BY <2>1, <2>2
<1>. QED
  BY <1>1, <1>3, StatementCounts

LEMMA ClearOneCounts == ASSUME SendInv, CountInv, ClearOne PROVE CountInv'
<1> PICK s : s = [sender EXCEPT !.queue = Tail(sender.queue)]
  OBVIOUS
<1> PICK p : p = Head(sender.queue)
  OBVIOUS
<1>1. /\ sender.queue # <<>> /\ Reply(p, "task_canceled", s, agenda)
      /\ UNCHANGED <<inbox, refusals>>
  BY DEF ClearOne
<1>2. /\ Typed /\ sender \in Sender /\ agenda \in Seq(Statements)
      /\ sender.queue \in Seq(Packets)
  BY DEF SendInv, Typed, Sender
<1>3. Tail(sender.queue) \in Seq(Packets) /\ p \in Packets
  BY <1>1, <1>2
<1>4. s \in Sender /\ s.jobs = sender.jobs /\ s.executing = sender.executing
  BY <1>2, <1>3 DEF Sender
<1>5. /\ Counted(Flying(s.jobs, inbox'), Releasing(agenda), Flag(s), refusals')
      /\ ReleasedOnce(agenda)
  BY <1>1, <1>4 DEF CountInv, Flag
<1>6. refusals' \subseteq refusals \cup {p}
  BY <1>1
<1>. QED
  BY <1>1, <1>2, <1>3, <1>4, <1>5, <1>6, CallCounts

LEMMA PostSessionCounts == ASSUME SendInv, CountInv, PostSession PROVE CountInv'
<1>1. /\ agenda # <<>> /\ Head(agenda) = "session" /\ agenda' = Tail(agenda)
      /\ UNCHANGED <<inbox, answers, refusals>>
  BY DEF PostSession, Idle
<1>2. sender \in Sender
  BY DEF SendInv, Typed
<1>3. Counted(Flying(sender'.jobs, inbox), Releasing(agenda), Flag(sender'), refusals)
  <2>1. CASE UNCHANGED sender
    BY <2>1 DEF CountInv
  <2>2. ASSUME NEW p \in Unposted, sender' = PostPacket(sender, p)
        PROVE  Counted(Flying(sender'.jobs, inbox), Releasing(agenda), Flag(sender'),
                       refusals)
    <3>1. p \in Packets
      BY DEF Unposted
    <3>. QED
      BY <1>2, <2>2, <3>1, SmallNumbers, PostCounts DEF CountInv
  <2>. QED
    BY <2>1, <2>2 DEF PostSession
<1>. QED
  BY <1>1, <1>3, StatementCounts

\* The worker is done with its first job, or the network with a request.
LEMMA DoneCounts ==
    ASSUME SendInv, CountInv, UNCHANGED <<agenda, answers, refusals>>,
           sender'.executing = sender.executing,
           NEW result, inbox' = Append(inbox, result),
           \/ /\ sender.jobs # <<>> /\ sender'.jobs = Tail(sender.jobs)
              /\ result.packet = Head(sender.jobs).packet
           \/ /\ sender'.jobs = sender.jobs /\ result.kind = "async"
    PROVE  CountInv'
<1> PICK js : js = sender.jobs
  OBVIOUS
<1> PICK left : left = sender'.jobs
  OBVIOUS
<1>1. js \in Seq(Job) /\ inbox \in Seq(Result)
  BY DEF SendInv, Typed, Sender
<1>2. /\ Len(inbox) \in Nat /\ Len(inbox') = Len(inbox) + 1
      /\ inbox'[Len(inbox) + 1] = result
      /\ \A i \in 1..Len(inbox) : inbox'[i] = inbox[i]
  BY <1>1
<1>3. \A i \in 1..Len(inbox') : i \in 1..Len(inbox) \/ i = Len(inbox) + 1
  BY <1>2
<1>4. /\ \A i \in 1..Len(left) : \E k \in 1..Len(js) : left[i] = js[k]
      /\ result.kind # "async" => \E k \in 1..Len(js) : js[k].packet = result.packet
  <2>1. CASE left = js /\ result.kind = "async"
    BY <2>1
  <2>2. CASE js # <<>> /\ left = Tail(js) /\ result.packet = Head(js).packet
    <3>1. /\ Len(js) \in Nat /\ Len(js) >= 1 /\ Len(left) = Len(js) - 1
          /\ Head(js) = js[1]
          /\ \A i \in 1..(Len(js) - 1) : left[i] = js[i + 1]
      BY <1>1, <2>2, TailFacts
    <3>2. \A i \in 1..Len(left) : i + 1 \in 1..Len(js) /\ left[i] = js[i + 1]
      BY <3>1
    <3>3. 1 \in 1..Len(js) /\ js[1].packet = result.packet
      BY <2>2, <3>1
    <3>. QED
      BY <3>2, <3>3
  <2>. QED
    BY <2>1, <2>2
<1>5. Flying(left, inbox') \subseteq Flying(js, inbox)
  <2> SUFFICES ASSUME NEW p \in Flying(left, inbox') PROVE p \in Flying(js, inbox)
    OBVIOUS
  <2>1. p \in Packets \ Async
    BY DEF Flying
  <2>2. ASSUME NEW i \in 1..Len(left), left[i].packet = p
        PROVE  \E k \in 1..Len(js) : js[k].packet = p
    BY <1>4, <2>2
  <2>3. ASSUME NEW i \in 1..Len(inbox'), inbox'[i].packet = p, inbox'[i].kind # "async"
        PROVE  \/ \E k \in 1..Len(js) : js[k].packet = p
               \/ \E k \in 1..Len(inbox) : inbox[k].packet = p /\ inbox[k].kind # "async"
    BY <1>2, <1>3, <1>4, <2>3
  <2>. QED
    BY <2>1, <2>2, <2>3 DEF Flying
<1>6. Counted(Flying(left, inbox'), Releasing(agenda), Flag(sender), refusals)
  <2>1. Counted(Flying(js, inbox), Releasing(agenda), Flag(sender), refusals)
    BY DEF CountInv
  <2>2. Releasing(agenda) \in {0, 1} /\ Flag(sender) \in {0, 1}
    BY SmallNumbers
  <2>. QED
    BY <1>5, <2>1, <2>2, CountFewer
<1>7. Flag(sender') = Flag(sender) /\ Releasing(agenda') = Releasing(agenda)
  BY DEF Flag
<1>8. ReleasedOnce(agenda')
  BY DEF CountInv
<1>. QED
  BY <1>6, <1>7, <1>8, QuietCounts

LEMMA SendJobCounts == ASSUME SendInv, CountInv, SendJob PROVE CountInv'
<1> PICK p : p = Head(sender.jobs).packet
  OBVIOUS
<1>1. /\ sender.jobs # <<>> /\ sender' = [sender EXCEPT !.jobs = Tail(@)]
      /\ UNCHANGED <<agenda, answers, refusals>>
  BY DEF SendJob
<1>2. PICK e \in Outcomes(p) :
          inbox' = Append(inbox, [kind |-> "executed", packet |-> p, error |-> e])
  BY DEF SendJob
<1>3. sender'.jobs = Tail(sender.jobs) /\ sender'.executing = sender.executing
  BY <1>1 DEF SendInv, Typed, Sender
<1>. QED
  BY <1>1, <1>2, <1>3, DoneCounts

LEMMA RefuseJobCounts == ASSUME SendInv, CountInv, RefuseJob PROVE CountInv'
<1> PICK p : p = Head(sender.jobs).packet
  OBVIOUS
<1>1. /\ sender.jobs # <<>> /\ sender' = [sender EXCEPT !.jobs = Tail(@)]
      /\ inbox' = Append(inbox, [kind |-> "refused", packet |-> p, error |-> "refused"])
      /\ UNCHANGED <<agenda, answers, refusals>>
  BY DEF RefuseJob
<1>2. sender'.jobs = Tail(sender.jobs) /\ sender'.executing = sender.executing
  BY <1>1 DEF SendInv, Typed, Sender
<1>. QED
  BY <1>1, <1>2, DoneCounts

LEMMA CompleteAsyncCounts ==
    ASSUME SendInv, CountInv, NEW p \in Packets, CompleteAsync(p) PROVE CountInv'
<1>1. /\ sender' = [sender EXCEPT !.air = @ \ {p}]
      /\ UNCHANGED <<agenda, answers, refusals>>
  BY DEF CompleteAsync
<1>2. PICK e \in Outcomes(p) :
          inbox' = Append(inbox, [kind |-> "async", packet |-> p, error |-> e])
  BY DEF CompleteAsync
<1>3. sender'.jobs = sender.jobs /\ sender'.executing = sender.executing
  BY <1>1 DEF SendInv, Typed, Sender
<1>. QED
  BY <1>1, <1>2, <1>3, DoneCounts

\* Steps that move no packet.
LEMMA StillCounts ==
    ASSUME CountInv, UNCHANGED <<inbox, answers, refusals>>,
           sender'.jobs = sender.jobs, sender'.executing = sender.executing,
           ReleasedOnce(agenda'), Releasing(agenda') = Releasing(agenda)
    PROVE  CountInv'
<1>1. Flag(sender') = Flag(sender)
  BY DEF Flag
<1>2. Counted(Flying(sender'.jobs, inbox'), Releasing(agenda'), Flag(sender'), refusals)
  BY <1>1 DEF CountInv
<1>. QED
  BY <1>2, QuietCounts

LEMMA CountStep == SendInv /\ CountInv /\ [Next]_vars => CountInv'
<1> SUFFICES ASSUME SendInv, CountInv, [Next]_vars PROVE CountInv'
  OBVIOUS
<1>1. ASSUME NEW p \in Packets, Post(p) PROVE CountInv'
  <2>1. /\ sender' = PostPacket(sender, p) /\ UNCHANGED <<agenda, inbox, answers, refusals>>
    BY <1>1 DEF Post
  <2>2. sender \in Sender
    BY DEF SendInv, Typed
  <2>3. Counted(Flying(sender'.jobs, inbox), Releasing(agenda), Flag(sender'), refusals)
    BY <2>1, <2>2, SmallNumbers, PostCounts DEF CountInv
  <2>4. Releasing(agenda') = Releasing(agenda) /\ ReleasedOnce(agenda')
    BY <2>1 DEF CountInv
  <2>. QED
    BY <2>1, <2>3, <2>4, QuietCounts
<1>2. CASE SessionLost
  <2>1. agenda = <<>> /\ agenda' = RestartSession \o <<>>
    BY <1>2 DEF SessionLost, Idle, RestartSession
  <2>2. Releasing(agenda') = Releasing(agenda) /\ ReleasedOnce(agenda')
    BY <2>1, ShortClosures, RestartReleases
  <2>. QED
    BY <1>2, <2>2, StillCounts DEF SessionLost
<1>3. CASE CancelRequests
  <2>1. agenda # <<>> /\ Head(agenda) # "release" /\ agenda' = Tail(agenda)
    BY <1>3 DEF CancelRequests, Idle
  <2>2. agenda \in Seq(Statements)
    BY DEF SendInv, Typed
  <2>3. Releasing(agenda') = Releasing(agenda) /\ ReleasedOnce(agenda')
    BY <2>1, <2>2, TailReleases DEF CountInv
  <2>. QED
    BY <1>3, <2>3, StillCounts DEF CancelRequests
<1>4. CASE LimitEnds
  <2>1. sender'.jobs = sender.jobs /\ sender'.executing = sender.executing
    BY <1>4 DEF LimitEnds, SendInv, Typed, Sender
  <2>2. Releasing(agenda') = Releasing(agenda) /\ ReleasedOnce(agenda')
    BY <1>4 DEF LimitEnds, CountInv
  <2>. QED
    BY <1>4, <2>1, <2>2, StillCounts DEF LimitEnds
<1>5. CASE UNCHANGED vars
  <2>1. Releasing(agenda') = Releasing(agenda) /\ ReleasedOnce(agenda')
    BY <1>5 DEF vars, CountInv
  <2>. QED
    BY <1>5, <2>1, StillCounts DEF vars
<1>. QED
  BY <1>1, <1>2, <1>3, <1>4, <1>5, TakeRefusedCounts, TakeAsyncCounts, TakeRepeatCounts,
     TakeAnswerCounts, ReleaseCounts, TakeNextCounts, ClearOneCounts, PostSessionCounts,
     SendJobCounts, RefuseJobCounts, CompleteAsyncCounts
  DEF Next, CoreStep

-----------------------------------------------------------------------------
(* The invariant: in the order of the posts. *)

\* The order of the posts.
Before(seq) ==
    {o \in Packets \X Packets :
        \E i, j \in 1..Len(seq) : i < j /\ seq[i] = o[1] /\ seq[j] = o[2]}

\* A job that will send its packet for the first time.
Fresh(job, rep) == job.send /\ rep[job.packet] = 0

\* What was started, what the worker will start and the queue are in order; a
\* queue that is being cleared will not be started.
InLine(st, js, q, rep, before, clearing) ==
    /\ \A i, j \in 1..Len(st) : i < j => <<st[i], st[j]>> \in before
    /\ \A i \in 1..Len(st) : \A j \in 1..Len(js) :
          Fresh(js[j], rep) => <<st[i], js[j].packet>> \in before
    /\ \A i, j \in 1..Len(js) :
          i < j /\ Fresh(js[i], rep) /\ Fresh(js[j], rep)
            => <<js[i].packet, js[j].packet>> \in before
    /\ \A i, j \in 1..Len(q) : i < j => <<q[i], q[j]>> \in before
    /\ clearing \/ \A i \in 1..Len(q) :
          /\ \A j \in 1..Len(st) : <<st[j], q[i]>> \in before
          /\ \A j \in 1..Len(js) : Fresh(js[j], rep) => <<js[j].packet, q[i]>> \in before

Clearing(list) == list # <<>> /\ list[1] = "clear"

\* In a closure, "session" follows "clear", and "next" follows "session" or what
\* clears the flag.
Grammar(list) ==
    \A k \in 2..Len(list) :
       /\ list[k] = "session" => list[k - 1] = "clear"
       /\ list[k] = "next" => list[k - 1] \in {"release", "session"}

\* What the closure can rely on at its next statement.
Ready(list, s) ==
    /\ list # <<>> /\ list[1] = "session" => s.queue = <<>>
    /\ list # <<>> /\ list[1] = "next" => ~s.executing \/ Len(s.queue) <= 1

PostedOnce(seq) == \A i, j \in 1..Len(seq) : seq[i] = seq[j] => i = j

\* A packet was sent before its result arrives.
SentBefore(box, rep) ==
    \A i \in 1..Len(box) : box[i].kind = "executed" => rep[box[i].packet] > 0

OrderInv ==
    /\ InLine(started, sender.jobs, sender.queue, repeats, Before(posted), Clearing(agenda))
    /\ Grammar(agenda) /\ Ready(agenda, sender)
    /\ PostedOnce(posted) /\ Elements(started) \subseteq Elements(posted)
    /\ SentBefore(inbox, repeats)

-----------------------------------------------------------------------------
(* What keeps the packets in order. *)

\* The order may grow, and the queue may be cleared.
LEMMA LineWeaker ==
    ASSUME NEW st, NEW js, NEW q, NEW rep, NEW before, NEW clearing,
           InLine(st, js, q, rep, before, clearing),
           NEW more, before \subseteq more, NEW c, clearing => c
    PROVE  InLine(st, js, q, rep, more, c)
  BY DEF InLine

\* A job is added whose packet, if it is sent for the first time, is the last of
\* those that left the queue.
LEMMA LineJob ==
    ASSUME NEW st, NEW js \in Seq(Job), NEW q, NEW rep, NEW before, NEW clearing,
           InLine(st, js, q, rep, before, clearing), NEW job \in Job,
           Fresh(job, rep) =>
              /\ \A i \in 1..Len(st) : <<st[i], job.packet>> \in before
              /\ \A i \in 1..Len(js) :
                    Fresh(js[i], rep) => <<js[i].packet, job.packet>> \in before
              /\ clearing \/ \A i \in 1..Len(q) : <<job.packet, q[i]>> \in before
    PROVE  InLine(st, Append(js, job), q, rep, before, clearing)
<1> PICK r : r = Append(js, job)
  OBVIOUS
<1>1. /\ Len(r) = Len(js) + 1 /\ Len(js) \in Nat /\ r[Len(js) + 1] = job
      /\ \A i \in 1..Len(js) : r[i] = js[i]
  BY AppendFacts
<1>2. \A i \in 1..Len(r) : (i = Len(js) + 1 /\ r[i] = job) \/ (i \in 1..Len(js) /\ r[i] = js[i])
  BY <1>1
<1>3. \A i, j \in 1..Len(r) : i < j => i \in 1..Len(js) /\ r[i] = js[i]
  BY <1>1
<1>4. \A i \in 1..Len(st) : \A j \in 1..Len(r) :
          Fresh(r[j], rep) => <<st[i], r[j].packet>> \in before
  BY <1>2 DEF InLine
<1>5. \A i, j \in 1..Len(r) :
          i < j /\ Fresh(r[i], rep) /\ Fresh(r[j], rep)
            => <<r[i].packet, r[j].packet>> \in before
  BY <1>2, <1>3 DEF InLine
<1>6. clearing \/ \A i \in 1..Len(q) :
          \A j \in 1..Len(r) : Fresh(r[j], rep) => <<r[j].packet, q[i]>> \in before
  BY <1>2 DEF InLine
<1>7. InLine(st, r, q, rep, before, clearing)
  BY <1>4, <1>5, <1>6 DEF InLine
<1>. QED
  BY <1>7

\* A packet is queued that is the last of all.
LEMMA LineQueued ==
    ASSUME NEW st, NEW js, NEW q \in Seq(Packets), NEW rep, NEW before, NEW clearing,
           InLine(st, js, q, rep, before, clearing), NEW p \in Packets,
           \A i \in 1..Len(st) : <<st[i], p>> \in before,
           \A i \in 1..Len(js) : <<js[i].packet, p>> \in before,
           \A i \in 1..Len(q) : <<q[i], p>> \in before
    PROVE  InLine(st, js, Append(q, p), rep, before, clearing)
<1> PICK r : r = Append(q, p)
  OBVIOUS
<1>1. /\ Len(r) = Len(q) + 1 /\ Len(q) \in Nat /\ r[Len(q) + 1] = p
      /\ \A i \in 1..Len(q) : r[i] = q[i]
  BY AppendFacts
<1>2. \A i \in 1..Len(r) : (i = Len(q) + 1 /\ r[i] = p) \/ (i \in 1..Len(q) /\ r[i] = q[i])
  BY <1>1
<1>3. \A i, j \in 1..Len(r) : i < j => i \in 1..Len(q) /\ r[i] = q[i]
  BY <1>1
<1>4. \A i, j \in 1..Len(r) : i < j => <<r[i], r[j]>> \in before
  BY <1>2, <1>3 DEF InLine
<1>5. clearing \/ \A i \in 1..Len(r) :
          /\ \A j \in 1..Len(st) : <<st[j], r[i]>> \in before
          /\ \A j \in 1..Len(js) : Fresh(js[j], rep) => <<js[j].packet, r[i]>> \in before
  BY <1>2 DEF InLine
<1>6. InLine(st, js, r, rep, before, clearing)
  BY <1>4, <1>5 DEF InLine
<1>. QED
  BY <1>6

\* The first job is taken, which the worker will not start.
LEMMA LineJobTaken ==
    ASSUME NEW st, NEW js \in Seq(Job), js # <<>>, NEW q, NEW rep, NEW before, NEW clearing,
           InLine(st, js, q, rep, before, clearing)
    PROVE  InLine(st, Tail(js), q, rep, before, clearing)
<1> PICK r : r = Tail(js)
  OBVIOUS
<1>1. /\ Len(js) \in Nat /\ Len(js) >= 1 /\ Len(r) = Len(js) - 1
      /\ \A i \in 1..(Len(js) - 1) : r[i] = js[i + 1]
  BY TailFacts
<1>2. \A i \in 1..Len(r) : i + 1 \in 1..Len(js) /\ r[i] = js[i + 1]
  BY <1>1
<1>3. \A i, j \in 1..Len(r) : i < j => i + 1 < j + 1
  BY <1>1
<1>4. \A i, j \in 1..Len(r) :
          i < j /\ Fresh(r[i], rep) /\ Fresh(r[j], rep)
            => <<r[i].packet, r[j].packet>> \in before
  BY <1>2, <1>3 DEF InLine
<1>5. InLine(st, r, q, rep, before, clearing)
  BY <1>2, <1>4 DEF InLine
<1>. QED
  BY <1>5

\* The first packet is taken out of the queue.
LEMMA LineQueueTaken ==
    ASSUME NEW st, NEW js, NEW q \in Seq(Packets), q # <<>>, NEW rep, NEW before,
           NEW clearing, InLine(st, js, q, rep, before, clearing)
    PROVE  /\ InLine(st, js, Tail(q), rep, before, clearing)
           /\ \A i \in 1..Len(Tail(q)) : <<Head(q), Tail(q)[i]>> \in before
           /\ clearing \/ /\ \A i \in 1..Len(st) : <<st[i], Head(q)>> \in before
                          /\ \A i \in 1..Len(js) :
                                Fresh(js[i], rep) => <<js[i].packet, Head(q)>> \in before
<1> PICK r : r = Tail(q)
  OBVIOUS
<1>1. /\ Len(q) \in Nat /\ Len(q) >= 1 /\ Len(r) = Len(q) - 1 /\ Head(q) = q[1]
      /\ \A i \in 1..(Len(q) - 1) : r[i] = q[i + 1]
  BY TailFacts
<1>2. \A i \in 1..Len(r) : i + 1 \in 1..Len(q) /\ 1 < i + 1 /\ r[i] = q[i + 1]
  BY <1>1
<1>3. \A i, j \in 1..Len(r) : i < j => i + 1 < j + 1
  BY <1>1
<1>4. \A i, j \in 1..Len(r) : i < j => <<r[i], r[j]>> \in before
  BY <1>2, <1>3 DEF InLine
<1>5. 1 \in 1..Len(q)
  BY <1>1
<1>6. InLine(st, js, r, rep, before, clearing)
  BY <1>2, <1>4 DEF InLine
<1>7. \A i \in 1..Len(r) : <<Head(q), r[i]>> \in before
  BY <1>1, <1>2, <1>5 DEF InLine
<1>8. clearing \/ /\ \A i \in 1..Len(st) : <<st[i], Head(q)>> \in before
                  /\ \A i \in 1..Len(js) :
                        Fresh(js[i], rep) => <<js[i].packet, Head(q)>> \in before
  BY <1>1, <1>5 DEF InLine
<1>. QED
  BY <1>6, <1>7, <1>8

\* The worker starts its first job: the packet is the last one started.
LEMMA LineStarted ==
    ASSUME NEW st \in Seq(Packets), NEW js \in Seq(Job), js # <<>>, NEW q, NEW rep,
           NEW before, NEW clearing, InLine(st, js, q, rep, before, clearing),
           Fresh(Head(js), rep)
    PROVE  InLine(Append(st, Head(js).packet), Tail(js), q, rep, before, clearing)
<1> PICK p : p = Head(js).packet
  OBVIOUS
<1> PICK r : r = Tail(js)
  OBVIOUS
<1> PICK s : s = Append(st, p)
  OBVIOUS
<1>1. /\ Len(js) \in Nat /\ Len(js) >= 1 /\ Len(r) = Len(js) - 1
      /\ Head(js) = js[1] /\ js[1] \in Job
      /\ \A i \in 1..(Len(js) - 1) : r[i] = js[i + 1]
  BY TailFacts
<1>2. p \in Packets /\ p = js[1].packet
  BY <1>1 DEF Job
<1>3. /\ Len(s) = Len(st) + 1 /\ Len(st) \in Nat /\ s[Len(st) + 1] = p
      /\ \A i \in 1..Len(st) : s[i] = st[i]
  BY <1>2, AppendFacts
<1>4. \A i \in 1..Len(r) : i + 1 \in 1..Len(js) /\ 1 < i + 1 /\ r[i] = js[i + 1]
  BY <1>1
<1>5. 1 \in 1..Len(js) /\ Fresh(js[1], rep)
  BY <1>1
<1>6. InLine(st, r, q, rep, before, clearing)
  BY LineJobTaken
<1>7. \A i \in 1..Len(s) : (i = Len(st) + 1 /\ s[i] = p) \/ (i \in 1..Len(st) /\ s[i] = st[i])
  BY <1>3
<1>8. \A i, j \in 1..Len(s) : i < j => i \in 1..Len(st) /\ s[i] = st[i]
  BY <1>3
<1>9. \A i \in 1..Len(st) : <<st[i], p>> \in before
  BY <1>2, <1>5 DEF InLine
<1>10. \A i \in 1..Len(r) : Fresh(r[i], rep) => <<p, r[i].packet>> \in before
  BY <1>2, <1>4, <1>5 DEF InLine
<1>11. clearing \/ \A i \in 1..Len(q) : <<p, q[i]>> \in before
  BY <1>2, <1>5 DEF InLine
<1>12. \A i, j \in 1..Len(s) : i < j => <<s[i], s[j]>> \in before
  BY <1>7, <1>8, <1>9 DEF InLine
<1>13. \A i \in 1..Len(s) : \A j \in 1..Len(r) :
          Fresh(r[j], rep) => <<s[i], r[j].packet>> \in before
  BY <1>6, <1>7, <1>10 DEF InLine
<1>14. clearing \/ \A i \in 1..Len(q) : \A j \in 1..Len(s) : <<s[j], q[i]>> \in before
  BY <1>7, <1>11 DEF InLine
<1>15. InLine(s, r, q, rep, before, clearing)
  BY <1>6, <1>12, <1>13, <1>14 DEF InLine
<1>. QED
  BY <1>15

\* Counting an execution of a packet that no job is for changes nothing.
LEMMA LineCounted ==
    ASSUME NEW st, NEW js, NEW q, NEW rep, NEW before, NEW clearing,
           InLine(st, js, q, rep, before, clearing),
           NEW rep2, \A i \in 1..Len(js) : rep2[js[i].packet] = rep[js[i].packet]
    PROVE  InLine(st, js, q, rep2, before, clearing)
<1>1. \A i \in 1..Len(js) : Fresh(js[i], rep2) <=> Fresh(js[i], rep)
  BY DEF Fresh
<1>. QED
  BY <1>1 DEF InLine

-----------------------------------------------------------------------------
(* The order of the posts. *)

\* A packet that is posted is the last one.
LEMMA PostedLast ==
    ASSUME NEW seq \in Seq(Packets), PostedOnce(seq), NEW q \in Packets,
           q \notin Elements(seq)
    PROVE  /\ Before(seq) \subseteq Before(Append(seq, q))
           /\ \A x \in Elements(seq) : <<x, q>> \in Before(Append(seq, q))
           /\ PostedOnce(Append(seq, q))
           /\ Elements(Append(seq, q)) = Elements(seq) \cup {q}
<1> PICK r : r = Append(seq, q)
  OBVIOUS
<1>1. /\ Len(r) = Len(seq) + 1 /\ Len(seq) \in Nat /\ r[Len(seq) + 1] = q
      /\ \A i \in 1..Len(seq) : r[i] = seq[i] /\ seq[i] \in Packets
      /\ DOMAIN seq = 1..Len(seq)
  BY AppendFacts
<1>2. \A i \in 1..Len(seq) : i \in 1..Len(r) /\ i < Len(r) /\ Len(r) \in 1..Len(r)
  BY <1>1
<1>3. Before(seq) \subseteq Before(r)
  <2> SUFFICES ASSUME NEW o \in Before(seq) PROVE o \in Before(r)
    OBVIOUS
  <2> PICK i \in 1..Len(seq), j \in 1..Len(seq) : i < j /\ seq[i] = o[1] /\ seq[j] = o[2]
    BY DEF Before
  <2>1. i \in 1..Len(r) /\ j \in 1..Len(r) /\ r[i] = o[1] /\ r[j] = o[2]
    BY <1>1, <1>2
  <2>2. o \in Packets \X Packets
    BY DEF Before
  <2>. QED
    BY <2>1, <2>2 DEF Before
<1>4. \A x \in Elements(seq) : <<x, q>> \in Before(r)
  <2> TAKE x \in Elements(seq)
  <2> PICK i \in 1..Len(seq) : seq[i] = x
    BY <1>1 DEF Elements
  <2>1. /\ i \in 1..Len(r) /\ Len(r) \in 1..Len(r) /\ i < Len(r) /\ r[i] = x
        /\ r[Len(r)] = q /\ x \in Packets
    BY <1>1, <1>2
  <2>2. \E k, j \in 1..Len(r) : k < j /\ r[k] = x /\ r[j] = q
    BY <2>1
  <2>3. <<x, q>> \in Packets \X Packets /\ <<x, q>>[1] = x /\ <<x, q>>[2] = q
    BY <2>1
  <2>. QED
    BY <2>2, <2>3 DEF Before
<1>5. \A i \in 1..Len(seq) : r[i] = seq[i] /\ seq[i] # q
  BY <1>1 DEF Elements
<1>6. \A i \in 1..Len(r) : i \in 1..Len(seq) \/ (i = Len(seq) + 1 /\ r[i] = q)
  BY <1>1
<1>7. PostedOnce(r)
  BY <1>5, <1>6 DEF PostedOnce
<1>8. Elements(r) = Elements(seq) \cup {q}
  BY AppendElements
<1>. QED
  BY <1>3, <1>4, <1>7, <1>8

\* The packets of the queue and of the jobs were posted.
Known(s) ==
    /\ \A i \in 1..Len(s.queue) : s.queue[i] \in Elements(posted)
    /\ \A i \in 1..Len(s.jobs) : s.jobs[i].packet \in Elements(posted)

LEMMA AllKnown == ASSUME SendInv PROVE Known(sender)
  BY DEF SendInv, Placed, Places, Fit, Pending, Known

\* post_packet keeps the order: packets go to the worker past the queue only when
\* it is empty.
LEMMA PostOrder ==
    ASSUME NEW s \in Sender, NEW rep, NEW clearing,
           posted \in Seq(Packets), PostedOnce(posted), started \in Seq(Packets),
           Elements(started) \subseteq Elements(posted), Known(s),
           InLine(started, s.jobs, s.queue, rep, Before(posted), clearing),
           clearing \/ s.executing \/ s.queue = <<>>,
           NEW q \in Unposted, NEW r, r = PostPacket(s, q), posted' = Append(posted, q)
    PROVE  /\ InLine(started, r.jobs, r.queue, rep, Before(posted'), clearing)
           /\ PostedOnce(posted') /\ Elements(started) \subseteq Elements(posted')
<1> PICK before : before = Before(posted')
  OBVIOUS
<1>0. s.queue \in Seq(Packets) /\ s.jobs \in Seq(Job)
  BY DEF Sender
<1>1. q \in Packets /\ q \notin Elements(posted)
  BY DEF Unposted
<1>2. /\ Before(posted) \subseteq before
      /\ \A x \in Elements(posted) : <<x, q>> \in before
      /\ PostedOnce(posted') /\ Elements(posted') = Elements(posted) \cup {q}
  BY <1>1, PostedLast
<1>3. InLine(started, s.jobs, s.queue, rep, before, clearing)
  BY <1>2, LineWeaker
<1>4. /\ \A i \in 1..Len(started) : <<started[i], q>> \in before
      /\ \A i \in 1..Len(s.jobs) : <<s.jobs[i].packet, q>> \in before
      /\ \A i \in 1..Len(s.queue) : <<s.queue[i], q>> \in before
  <2>1. \A i \in 1..Len(started) : started[i] \in Elements(started)
    BY DEF Elements
  <2>. QED
    BY <1>2, <2>1 DEF Known
<1>5. CASE Queued(s, q, r)
  <2>1. r.queue = Append(s.queue, q) /\ r.jobs = s.jobs
    BY <1>5 DEF Queued
  <2>2. InLine(started, s.jobs, Append(s.queue, q), rep, before, clearing)
    BY <1>0, <1>1, <1>3, <1>4, LineQueued
  <2>. QED
    BY <1>2, <2>1, <2>2
<1>6. CASE Launched(s, q, r)
  <2>1. r.queue = s.queue
    BY <1>6 DEF Launched
  <2>2. CASE r.jobs = s.jobs
    BY <1>2, <1>3, <2>1, <2>2
  <2>3. ASSUME NEW j \in Job, j.packet = q, j.send => q \notin Async,
               r.jobs = Append(s.jobs, j)
        PROVE  InLine(started, r.jobs, r.queue, rep, before, clearing)
    <3>1. Fresh(j, rep) => clearing \/ s.queue = <<>>
      BY <1>6, <2>3 DEF Fresh, Launched
    <3>2. s.queue = <<>> => \A i \in 1..Len(s.queue) : <<q, s.queue[i]>> \in before
      OBVIOUS
    <3>3. InLine(started, Append(s.jobs, j), s.queue, rep, before, clearing)
      BY <1>0, <1>3, <1>4, <2>3, <3>1, <3>2, LineJob
    <3>. QED
      BY <2>1, <2>3, <3>3
  <2>4. \/ r.jobs = s.jobs
        \/ \E j \in Job : j.packet = q /\ (j.send => q \notin Async) /\ r.jobs = Append(s.jobs, j)
    BY <1>6, Zenon DEF Launched
  <2>. QED
    BY <1>2, <2>2, <2>3, <2>4
<1>. QED
  BY <1>1, <1>5, <1>6, PostCases

\* What a callback does to the closure it is called from.
ClosureAfter(e, rest) ==
    \/ agenda' = rest
    \/ e # "task_canceled" /\ agenda' = RestartSession \o rest

\* A callback keeps the order.
LEMMA ReplyOrder ==
    ASSUME NEW s \in Sender, NEW clearing,
           posted \in Seq(Packets), PostedOnce(posted), started \in Seq(Packets),
           Elements(started) \subseteq Elements(posted), Known(s),
           InLine(started, s.jobs, s.queue, repeats, Before(posted), clearing),
           clearing \/ s.executing \/ s.queue = <<>>,
           UNCHANGED <<started, repeats>>,
           NEW p, NEW e, NEW rest, Reply(p, e, s, rest)
    PROVE  /\ InLine(started', sender'.jobs, sender'.queue, repeats', Before(posted'),
                     clearing)
           /\ PostedOnce(posted') /\ Elements(started') \subseteq Elements(posted')
           /\ ClosureAfter(e, rest)
<1>1. CASE sender' = s /\ UNCHANGED posted
  <2>1. /\ InLine(started', sender'.jobs, sender'.queue, repeats', Before(posted'), clearing)
        /\ PostedOnce(posted') /\ Elements(started') \subseteq Elements(posted')
    BY <1>1
  <2>2. ClosureAfter(e, rest)
    BY Zenon DEF Reply, ClosureAfter
  <2>. QED
    BY <2>1, <2>2
<1>2. ASSUME NEW q \in Unposted, sender' = PostPacket(s, q), posted' = Append(posted, q)
      PROVE  /\ InLine(started', sender'.jobs, sender'.queue, repeats', Before(posted'),
                       clearing)
             /\ PostedOnce(posted') /\ Elements(started') \subseteq Elements(posted')
             /\ ClosureAfter(e, rest)
  <2>1. /\ InLine(started, sender'.jobs, sender'.queue, repeats, Before(posted'), clearing)
        /\ PostedOnce(posted') /\ Elements(started) \subseteq Elements(posted')
    BY <1>2, PostOrder
  <2>2. ClosureAfter(e, rest)
    BY Zenon DEF Reply, ClosureAfter
  <2>. QED
    BY <2>1, <2>2
<1>. QED
  <2>1. \/ sender' = s /\ UNCHANGED posted
        \/ \E q \in Unposted : sender' = PostPacket(s, q) /\ posted' = Append(posted, q)
    BY Zenon DEF Reply
  <2>. QED
    BY <1>1, <1>2, <2>1

-----------------------------------------------------------------------------
(* The closures. *)

\* A closure that relies on nothing at its first statement.
Opens(list) == list = <<>> \/ list[1] \in {"release", "clear"}

LEMMA OpenReady == ASSUME NEW list, Opens(list), NEW s PROVE Ready(list, s)
  BY DEF Opens, Ready

\* Starting the session again in front of such a closure.
LEMMA RestartGrammar ==
    ASSUME NEW rest \in Seq(Statements), Grammar(rest), Opens(rest)
    PROVE  Grammar(RestartSession \o rest) /\ Opens(RestartSession \o rest)
<1> DEFINE list == RestartSession \o rest
<1>1. /\ RestartSession \in Seq(Statements) /\ Len(RestartSession) = 2
      /\ RestartSession[1] = "clear" /\ RestartSession[2] = "session"
  BY DEF RestartSession, Statements
<1>2. /\ Len(list) = Len(rest) + 2 /\ Len(rest) \in Nat
      /\ list[1] = "clear" /\ list[2] = "session"
      /\ \A k \in 3..(Len(rest) + 2) : list[k] = rest[k - 2]
  <2>1. /\ Len(list) = Len(RestartSession) + Len(rest)
        /\ Len(rest) \in Nat
        /\ \A k \in 1..Len(RestartSession) : list[k] = RestartSession[k]
        /\ \A k \in (Len(RestartSession) + 1)..(Len(RestartSession) + Len(rest)) :
              list[k] = rest[k - Len(RestartSession)]
    BY <1>1, ConcatFacts, Zenon
  <2> HIDE DEF list
  <2>. QED
    BY <1>1, <2>1
<1> HIDE DEF list
<1>3. ASSUME NEW k \in 2..Len(list)
      PROVE  /\ list[k] = "session" => list[k - 1] = "clear"
             /\ list[k] = "next" => list[k - 1] \in {"release", "session"}
  <2>1. CASE k = 2
    BY <1>2, <2>1
  <2>2. CASE k = 3
    <3>1. rest # <<>> /\ list[k] = rest[1]
      BY <1>2, <2>2, EmptyFacts
    <3>. QED
      BY <3>1 DEF Opens
  <2>3. CASE k > 3
    <3>1. /\ k - 2 \in 2..Len(rest) /\ list[k] = rest[k - 2]
          /\ k - 1 \in 3..(Len(rest) + 2)
      BY <1>2, <2>3
    <3>2. list[k - 1] = rest[(k - 1) - 2] /\ (k - 1) - 2 = (k - 2) - 1
      BY <1>2, <3>1
    <3>. QED
      BY <3>1, <3>2 DEF Grammar
  <2>. QED
    BY <1>2, <2>1, <2>2, <2>3
<1>4. Grammar(list) /\ Opens(list)
  BY <1>2, <1>3 DEF Grammar, Opens
<1>. QED
  BY <1>4 DEF list

LEMMA OpenClosures ==
    /\ Grammar(<<>>) /\ Opens(<<>>) /\ ~Clearing(<<>>)
    /\ \A list : LongClosure(list) => Grammar(list) /\ Opens(list)
    /\ LongClosure(<<"release", "next">>)
<1>1. Grammar(<<>>) /\ Opens(<<>>) /\ ~Clearing(<<>>)
  BY DEF Grammar, Opens, Clearing
<1>2. ASSUME NEW list, LongClosure(list) PROVE Grammar(list) /\ Opens(list)
  <2>1. Opens(list)
    BY <1>2 DEF LongClosure, Opens
  <2>2. CASE Len(list) = 2
    <3>1. list[1] = "release" /\ list[2] = "next"
      BY <1>2, <2>2 DEF LongClosure
    <3>2. \A k \in 2..Len(list) : k = 2
      BY <2>2
    <3>. QED
      BY <2>1, <3>1, <3>2 DEF Grammar
  <2>3. CASE Len(list) = 4
    <3>1. /\ list[1] = "release" /\ list[2] = "clear" /\ list[3] = "session"
          /\ list[4] = "next"
      BY <1>2, <2>3 DEF LongClosure
    <3>2. \A k \in 2..Len(list) : k = 2 \/ k = 3 \/ k = 4
      BY <2>3
    <3>. QED
      BY <2>1, <3>1, <3>2 DEF Grammar
  <2>. QED
    BY <1>2, <2>1, <2>2, <2>3 DEF LongClosure
<1>3. LongClosure(<<"release", "next">>)
  BY DEF LongClosure, Statements
<1>. QED
  BY <1>1, <1>2, <1>3

\* What follows the first statement of a closure.
LEMMA GrammarTail ==
    ASSUME NEW list \in Seq(Statements), list # <<>>, Grammar(list)
    PROVE  /\ Grammar(Tail(list))
           /\ Tail(list) # <<>> /\ Tail(list)[1] = "session" => Head(list) = "clear"
           /\ Tail(list) # <<>> /\ Tail(list)[1] = "next"
                => Head(list) \in {"release", "session"}
<1> PICK rest : rest = Tail(list)
  OBVIOUS
<1>1. /\ Len(list) \in Nat /\ Len(list) >= 1 /\ Head(list) = list[1]
      /\ rest \in Seq(Statements) /\ Len(rest) = Len(list) - 1
      /\ \A i \in 1..(Len(list) - 1) : rest[i] = list[i + 1]
  BY TailFacts
<1>2. ASSUME NEW k \in 2..Len(rest)
      PROVE  k + 1 \in 2..Len(list) /\ rest[k] = list[k + 1] /\ rest[k - 1] = list[(k + 1) - 1]
  <2>1. k - 1 \in 1..(Len(list) - 1) /\ (k - 1) + 1 = (k + 1) - 1
    BY <1>1
  <2>. QED
    BY <1>1, <2>1
<1>3. Grammar(rest)
  BY <1>2 DEF Grammar
<1>4. rest # <<>> => 2 \in 2..Len(list) /\ rest[1] = list[2] /\ list[2 - 1] = Head(list)
  BY <1>1, EmptyFacts
<1>5. /\ rest # <<>> /\ rest[1] = "session" => Head(list) = "clear"
      /\ rest # <<>> /\ rest[1] = "next" => Head(list) \in {"release", "session"}
  BY <1>4 DEF Grammar
<1>. QED
  BY <1>3, <1>5

-----------------------------------------------------------------------------
(* Every step keeps the order. *)

\* What every step relies on.
LEMMA OrderFacts ==
    ASSUME SendInv, OrderInv
    PROVE  /\ sender \in Sender /\ sender.queue \in Seq(Packets) /\ sender.jobs \in Seq(Job)
           /\ agenda \in Seq(Statements) /\ inbox \in Seq(Result)
           /\ posted \in Seq(Packets) /\ started \in Seq(Packets)
           /\ Known(sender)
           /\ agenda = <<>> => sender.executing \/ sender.queue = <<>>
           /\ agenda = <<>> =>
                InLine(started, sender.jobs, sender.queue, repeats, Before(posted), FALSE)
<1>1. ~Says("next", <<>>)
  BY SaysSomething
<1>2. agenda = <<>> => sender.executing \/ sender.queue = <<>>
  BY <1>1 DEF SendInv, Served
<1>3. agenda = <<>> =>
         InLine(started, sender.jobs, sender.queue, repeats, Before(posted), FALSE)
  BY LineWeaker DEF OrderInv, Clearing
<1>. QED
  BY <1>2, <1>3, AllKnown DEF SendInv, Typed, Sender

\* Taking a result keeps what is said of the others.
LEMMA SentTail ==
    ASSUME NEW box \in Seq(Result), box # <<>>, NEW rep, SentBefore(box, rep)
    PROVE  SentBefore(Tail(box), rep)
<1> PICK rest : rest = Tail(box)
  OBVIOUS
<1>1. /\ Len(box) \in Nat /\ Len(box) >= 1 /\ Len(rest) = Len(box) - 1
      /\ \A i \in 1..(Len(box) - 1) : rest[i] = box[i + 1]
  BY TailFacts
<1>2. \A i \in 1..Len(rest) : i + 1 \in 1..Len(box) /\ rest[i] = box[i + 1]
  BY <1>1
<1>. QED
  BY <1>2 DEF SentBefore

\* A result is taken and its packet answered, by a closure that leaves the queue
\* and the jobs to the callback.
LEMMA AnswerOrder ==
    ASSUME SendInv, OrderInv, agenda = <<>>, inbox # <<>>, inbox' = Tail(inbox),
           UNCHANGED <<started, repeats>>,
           NEW s \in Sender, s.queue = sender.queue, s.jobs = sender.jobs,
           s.executing = sender.executing,
           NEW rest \in Seq(Statements), Grammar(rest), Opens(rest),
           NEW p, NEW e, Reply(p, e, s, rest)
    PROVE  OrderInv'
<1>1. /\ posted \in Seq(Packets) /\ started \in Seq(Packets) /\ inbox \in Seq(Result)
      /\ Known(s) /\ (s.executing \/ s.queue = <<>>)
      /\ InLine(started, s.jobs, s.queue, repeats, Before(posted), FALSE)
  BY OrderFacts DEF Known
<1>2. /\ InLine(started', sender'.jobs, sender'.queue, repeats', Before(posted'), FALSE)
      /\ PostedOnce(posted') /\ Elements(started') \subseteq Elements(posted')
      /\ ClosureAfter(e, rest)
  BY <1>1, ReplyOrder DEF OrderInv
<1>3. Grammar(agenda') /\ Opens(agenda')
  BY <1>2, RestartGrammar DEF ClosureAfter
<1>4. Ready(agenda', sender')
  BY <1>3, OpenReady
<1>5. SentBefore(inbox', repeats')
  BY <1>1, SentTail DEF OrderInv
<1>6. InLine(started', sender'.jobs, sender'.queue, repeats', Before(posted'),
             Clearing(agenda'))
  BY <1>2, LineWeaker
<1>. QED
  BY <1>2, <1>3, <1>4, <1>5, <1>6 DEF OrderInv

LEMMA TakeRefusedOrder == ASSUME SendInv, OrderInv, TakeRefused PROVE OrderInv'
<1>1. /\ inbox # <<>> /\ inbox' = Tail(inbox) /\ agenda = <<>>
      /\ UNCHANGED <<started, repeats>>
      /\ Reply(Head(inbox).packet, "refused", sender, <<"release", "next">>)
  BY DEF TakeRefused, Idle
<1>2. sender \in Sender
  BY OrderFacts
<1>. QED
  BY <1>1, <1>2, OpenClosures, ShortClosures, AnswerOrder

LEMMA TakeAsyncOrder == ASSUME SendInv, OrderInv, TakeAsync PROVE OrderInv'
<1>1. /\ inbox # <<>> /\ inbox' = Tail(inbox) /\ agenda = <<>>
      /\ UNCHANGED <<started, repeats>>
      /\ Reply(Head(inbox).packet, Head(inbox).error, sender, <<>>)
  BY DEF TakeAsync, Idle
<1>2. sender \in Sender
  BY OrderFacts
<1>. QED
  BY <1>1, <1>2, OpenClosures, ShortClosures, AnswerOrder

LEMMA TakeAnswerOrder == ASSUME SendInv, OrderInv, TakeAnswer PROVE OrderInv'
<1> PICK r : r = Head(inbox)
  OBVIOUS
<1> DEFINE limited == sender.limited \/ r.error = "too_fast"
           handle == IF r.error = "relogin" THEN RestartSession ELSE <<>>
<1> PICK s : s = [sender EXCEPT !.limited = limited]
  OBVIOUS
<1> PICK rest : rest = <<"release">> \o handle \o <<"next">>
  OBVIOUS
<1>1. /\ inbox # <<>> /\ inbox' = Tail(inbox) /\ agenda = <<>>
      /\ UNCHANGED <<started, repeats>>
      /\ Reply(r.packet, r.error, s, rest)
  BY DEF TakeAnswer, Idle
<1>2. sender \in Sender
  BY OrderFacts
<1>3. limited \in BOOLEAN
  BY Zenon
<1>4. /\ s \in Sender /\ s.queue = sender.queue /\ s.jobs = sender.jobs
      /\ s.executing = sender.executing
  BY <1>2, <1>3, Zenon DEF Sender
<1>5. LongClosure(rest)
  BY AnswerClosure
<1>6. rest \in Seq(Statements) /\ Grammar(rest) /\ Opens(rest)
  BY <1>5, OpenClosures DEF LongClosure
<1>. QED
  BY <1>1, <1>4, <1>6, AnswerOrder

LEMMA TakeRepeatOrder == ASSUME SendInv, OrderInv, TakeRepeat PROVE OrderInv'
<1> PICK p : p = Head(inbox).packet
  OBVIOUS
<1> PICK s : s = [sender EXCEPT !.executing = FALSE]
  OBVIOUS
<1>1. /\ inbox # <<>> /\ inbox' = Tail(inbox) /\ Head(inbox).kind = "executed"
      /\ sender' = PostPacket(s, p)
      /\ UNCHANGED <<agenda, repeats, posted, started>>
      /\ agenda = <<>>
  BY DEF TakeRepeat, Idle
<1>2. sender \in Sender /\ sender.jobs \in Seq(Job) /\ inbox \in Seq(Result)
  BY OrderFacts
<1>3. /\ s \in Sender /\ s.queue = sender.queue /\ s.jobs = sender.jobs /\ ~s.executing
  BY <1>2 DEF Sender
<1>4. p \in Packets /\ p \notin Async
  BY <1>1, ResultTaken
<1>5. repeats[p] > 0
  <2>1. 1 \in 1..Len(inbox) /\ Head(inbox) = inbox[1]
    BY <1>1, <1>2, TailFacts
  <2>. QED
    BY <1>1, <2>1 DEF OrderInv, SentBefore
<1>6. /\ sender'.queue = sender.queue
      /\ \E j \in Job : j.packet = p /\ sender'.jobs = Append(sender.jobs, j)
  <2>1. Launched(s, p, sender')
    <3>1. Queued(s, p, sender') \/ Launched(s, p, sender')
      BY <1>1, <1>3, <1>4, PostCases
    <3>. QED
      BY <1>3, <3>1 DEF Queued
  <2>. QED
    BY <1>3, <1>4, <2>1 DEF Launched
<1> PICK j \in Job : j.packet = p /\ sender'.jobs = Append(sender.jobs, j)
  BY <1>6
<1>7. ~Fresh(j, repeats)
  BY <1>5 DEF Fresh
<1>8. InLine(started, sender.jobs, sender.queue, repeats, Before(posted), Clearing(agenda))
  BY DEF OrderInv
<1>9. InLine(started, sender'.jobs, sender.queue, repeats, Before(posted), Clearing(agenda))
  BY <1>2, <1>7, <1>8, LineJob
<1>10. Ready(agenda', sender')
  BY <1>1 DEF Ready
<1>11. SentBefore(inbox', repeats')
  BY <1>1, <1>2, SentTail DEF OrderInv
<1>. QED
  BY <1>1, <1>6, <1>9, <1>10, <1>11 DEF OrderInv

LEMMA ReleaseOrder == ASSUME SendInv, OrderInv, Release PROVE OrderInv'
<1>1. /\ agenda # <<>> /\ Head(agenda) = "release" /\ agenda' = Tail(agenda)
      /\ sender' = [sender EXCEPT !.executing = FALSE]
      /\ UNCHANGED <<inbox, repeats, posted, started>>
  BY DEF Release, Idle
<1>2. sender \in Sender /\ agenda \in Seq(Statements)
  BY OrderFacts
<1>3. /\ sender'.queue = sender.queue /\ sender'.jobs = sender.jobs /\ ~sender'.executing
  BY <1>1, <1>2 DEF Sender
<1>4. /\ Grammar(agenda')
      /\ agenda' # <<>> => agenda'[1] # "session"
  BY <1>1, <1>2, GrammarTail DEF OrderInv
<1>5. Ready(agenda', sender')
  BY <1>3, <1>4 DEF Ready
<1>6. ~Clearing(agenda)
  BY <1>1, <1>2, TailFacts DEF Clearing
<1>7. InLine(started, sender.jobs, sender.queue, repeats, Before(posted), Clearing(agenda'))
  BY <1>6, LineWeaker DEF OrderInv
<1>. QED
  BY <1>1, <1>3, <1>4, <1>5, <1>7 DEF OrderInv

LEMMA TakeNextOrder == ASSUME SendInv, OrderInv, TakeNext PROVE OrderInv'
<1> PICK q : q = sender.queue
  OBVIOUS
<1>1. /\ agenda # <<>> /\ Head(agenda) = "next" /\ agenda' = Tail(agenda)
      /\ sender' = ExecuteFromQueue(sender)
      /\ UNCHANGED <<inbox, repeats, posted, started>>
  BY DEF TakeNext, Idle
<1>2. /\ sender \in Sender /\ q \in Seq(Packets) /\ sender.jobs \in Seq(Job)
      /\ agenda \in Seq(Statements)
  BY OrderFacts
<1>3. agenda[1] = "next"
  BY <1>1, <1>2, TailFacts
<1>4. InLine(started, sender.jobs, q, repeats, Before(posted), FALSE)
  <2>1. ~Clearing(agenda)
    BY <1>3 DEF Clearing
  <2>2. InLine(started, sender.jobs, q, repeats, Before(posted), Clearing(agenda))
    BY DEF OrderInv
  <2>. QED
    BY <2>1, <2>2 DEF InLine
<1>5. InLine(started, sender'.jobs, sender'.queue, repeats, Before(posted), FALSE)
  <2>1. CASE q = <<>>
    BY <1>1, <1>4, <2>1 DEF ExecuteFromQueue
  <2>2. CASE q # <<>>
    <3> PICK s : s = [sender EXCEPT !.queue = Tail(q)]
      OBVIOUS
    <3> PICK p : p = Head(q)
      OBVIOUS
    <3>1. Tail(q) \in Seq(Packets) /\ p \in Packets
      BY <1>2, <2>2
    <3>2. /\ s \in Sender /\ s.queue = Tail(q) /\ s.jobs = sender.jobs
          /\ s.executing = sender.executing
      BY <1>2, <3>1 DEF Sender
    <3>3. Queued(s, p, sender') \/ Launched(s, p, sender')
      BY <1>1, <2>2, <3>1, <3>2, PostCases DEF ExecuteFromQueue
    <3>4. /\ InLine(started, sender.jobs, Tail(q), repeats, Before(posted), FALSE)
          /\ \A i \in 1..Len(Tail(q)) : <<p, Tail(q)[i]>> \in Before(posted)
          /\ \A i \in 1..Len(started) : <<started[i], p>> \in Before(posted)
          /\ \A i \in 1..Len(sender.jobs) :
                Fresh(sender.jobs[i], repeats) => <<sender.jobs[i].packet, p>> \in Before(posted)
      BY <1>2, <1>4, <2>2, LineQueueTaken
    <3>5. CASE Queued(s, p, sender')
      <4>1. sender'.queue = Append(Tail(q), p) /\ sender'.jobs = sender.jobs
        BY <3>2, <3>5 DEF Queued
      <4>2. sender.executing
        BY <3>2, <3>5 DEF Queued
      <4>3. Len(q) <= 1
        BY <1>1, <1>3, <4>2 DEF OrderInv, Ready
      <4>4. Len(Tail(q)) = 0
        <5>1. Len(q) \in Nat /\ Len(q) >= 1 /\ Len(Tail(q)) = Len(q) - 1
          BY <1>2, <2>2, TailFacts
        <5>2. \A n, m : n \in Nat /\ n >= 1 /\ m = n - 1 /\ n <= 1 => m = 0
          OBVIOUS
        <5>. QED
          BY <4>3, <5>1, <5>2, Zenon
      <4>5. Len(Append(Tail(q), p)) = 1 /\ Append(Tail(q), p)[1] = p
        <5>1. /\ Len(Append(Tail(q), p)) = Len(Tail(q)) + 1
              /\ Append(Tail(q), p)[Len(Tail(q)) + 1] = p
          BY <3>1, AppendFacts
        <5>. QED
          BY <4>4, <5>1
      <4>6. InLine(started, sender.jobs, Append(Tail(q), p), repeats, Before(posted), FALSE)
        <5> PICK u : u = Append(Tail(q), p)
          OBVIOUS
        <5>1. \A i \in 1..Len(u) : i = 1 /\ u[i] = p
          BY <4>5
        <5>2. \A i, j \in 1..Len(u) : i < j => <<u[i], u[j]>> \in Before(posted)
          BY <5>1
        <5>3. InLine(started, sender.jobs, u, repeats, Before(posted), FALSE)
          BY <3>4, <5>1, <5>2 DEF InLine
        <5>. QED
          BY <5>3
      <4>. QED
        BY <4>1, <4>6
    <3>6. ASSUME Launched(s, p, sender'), NEW j \in Job, j.packet = p,
                 sender'.jobs = Append(s.jobs, j)
          PROVE  InLine(started, sender'.jobs, sender'.queue, repeats, Before(posted), FALSE)
      <4>1. sender'.queue = Tail(q)
        BY <3>2, <3>6 DEF Launched
      <4>2. InLine(started, Append(sender.jobs, j), Tail(q), repeats, Before(posted), FALSE)
        BY <1>2, <3>4, <3>6, LineJob
      <4>. QED
        BY <3>2, <3>6, <4>1, <4>2
    <3>7. ASSUME Launched(s, p, sender'), sender'.jobs = s.jobs
          PROVE  InLine(started, sender'.jobs, sender'.queue, repeats, Before(posted), FALSE)
      BY <3>2, <3>4, <3>7 DEF Launched
    <3>. QED
      BY <3>3, <3>5, <3>6, <3>7 DEF Launched
  <2>. QED
    BY <2>1, <2>2
<1>6. /\ Grammar(agenda')
      /\ agenda' # <<>> => agenda'[1] # "session" /\ agenda'[1] # "next"
  BY <1>1, <1>2, GrammarTail DEF OrderInv
<1>7. Ready(agenda', sender')
  BY <1>6 DEF Ready
<1>8. InLine(started, sender'.jobs, sender'.queue, repeats, Before(posted), Clearing(agenda'))
  BY <1>5, LineWeaker
<1>. QED
  BY <1>1, <1>6, <1>7, <1>8 DEF OrderInv

LEMMA ClearOneOrder == ASSUME SendInv, OrderInv, ClearOne PROVE OrderInv'
<1> PICK s : s = [sender EXCEPT !.queue = Tail(sender.queue)]
  OBVIOUS
<1> PICK p : p = Head(sender.queue)
  OBVIOUS
<1>1. /\ sender.queue # <<>> /\ Reply(p, "task_canceled", s, agenda)
      /\ agenda # <<>> /\ Head(agenda) = "clear"
      /\ UNCHANGED <<inbox, repeats, started>>
  BY DEF ClearOne, Idle
<1>2. /\ sender \in Sender /\ sender.queue \in Seq(Packets) /\ agenda \in Seq(Statements)
      /\ posted \in Seq(Packets) /\ started \in Seq(Packets) /\ Known(sender)
  BY OrderFacts
<1>3. agenda[1] = "clear" /\ Clearing(agenda)
  BY <1>1, <1>2, TailFacts DEF Clearing
<1>4. /\ Tail(sender.queue) \in Seq(Packets)
      /\ \A i \in 1..Len(Tail(sender.queue)) :
            i + 1 \in 1..Len(sender.queue) /\ Tail(sender.queue)[i] = sender.queue[i + 1]
  BY <1>1, <1>2
<1>5. /\ s \in Sender /\ s.queue = Tail(sender.queue) /\ s.jobs = sender.jobs
  BY <1>2, <1>4 DEF Sender
<1>6. Known(s)
  BY <1>2, <1>4, <1>5 DEF Known
<1>7. InLine(started, s.jobs, s.queue, repeats, Before(posted), TRUE)
  <2>1. InLine(started, sender.jobs, sender.queue, repeats, Before(posted), TRUE)
    BY <1>3, LineWeaker DEF OrderInv
  <2>2. InLine(started, sender.jobs, Tail(sender.queue), repeats, Before(posted), TRUE)
    BY <1>1, <1>2, <2>1, LineQueueTaken
  <2>. QED
    BY <1>5, <2>2
<1>8. /\ InLine(started', sender'.jobs, sender'.queue, repeats', Before(posted'), TRUE)
      /\ PostedOnce(posted') /\ Elements(started') \subseteq Elements(posted')
      /\ ClosureAfter("task_canceled", agenda)
  BY <1>1, <1>2, <1>5, <1>6, <1>7, ReplyOrder DEF OrderInv
<1>9. agenda' = agenda
  BY <1>8 DEF ClosureAfter
<1>10. Grammar(agenda') /\ Ready(agenda', sender') /\ Clearing(agenda')
  BY <1>3, <1>9 DEF OrderInv, Ready
<1>11. InLine(started', sender'.jobs, sender'.queue, repeats', Before(posted'),
              Clearing(agenda'))
  BY <1>8, <1>10, LineWeaker
<1>12. SentBefore(inbox', repeats')
  BY <1>1 DEF OrderInv
<1>. QED
  BY <1>8, <1>10, <1>11, <1>12 DEF OrderInv

LEMMA CancelRequestsOrder == ASSUME SendInv, OrderInv, CancelRequests PROVE OrderInv'
<1>1. /\ agenda # <<>> /\ Head(agenda) = "clear" /\ agenda' = Tail(agenda)
      /\ sender.queue = <<>>
      /\ UNCHANGED <<sender, inbox, repeats, posted, started>>
  BY DEF CancelRequests, Idle
<1>2. agenda \in Seq(Statements)
  BY OrderFacts
<1>3. /\ Grammar(agenda')
      /\ agenda' # <<>> => agenda'[1] # "next"
  BY <1>1, <1>2, GrammarTail DEF OrderInv
<1>4. Ready(agenda', sender')
  BY <1>1, <1>3 DEF Ready
<1>5. InLine(started, sender.jobs, sender.queue, repeats, Before(posted), Clearing(agenda'))
  BY <1>1 DEF OrderInv, InLine
<1>. QED
  BY <1>1, <1>3, <1>4, <1>5 DEF OrderInv

LEMMA PostSessionOrder == ASSUME SendInv, OrderInv, PostSession PROVE OrderInv'
<1>1. /\ agenda # <<>> /\ Head(agenda) = "session" /\ agenda' = Tail(agenda)
      /\ UNCHANGED <<inbox, repeats, started>>
  BY DEF PostSession, Idle
<1>2. /\ sender \in Sender /\ agenda \in Seq(Statements)
      /\ posted \in Seq(Packets) /\ started \in Seq(Packets) /\ Known(sender)
  BY OrderFacts
<1>3. agenda[1] = "session"
  BY <1>1, <1>2, TailFacts
<1>4. sender.queue = <<>>
  BY <1>1, <1>3 DEF OrderInv, Ready
<1>5. InLine(started, sender.jobs, sender.queue, repeats, Before(posted), FALSE)
  <2>1. ~Clearing(agenda)
    BY <1>3 DEF Clearing
  <2>2. InLine(started, sender.jobs, sender.queue, repeats, Before(posted), Clearing(agenda))
    BY DEF OrderInv
  <2>. QED
    BY <2>1, <2>2 DEF InLine
<1>6. /\ InLine(started', sender'.jobs, sender'.queue, repeats', Before(posted'), FALSE)
      /\ PostedOnce(posted') /\ Elements(started') \subseteq Elements(posted')
      /\ Len(sender'.queue) <= 1
  <2>1. CASE UNCHANGED <<sender, posted>>
    <3>1. Len(sender'.queue) = 0
      BY <1>4, <2>1
    <3>2. InLine(started', sender'.jobs, sender'.queue, repeats', Before(posted'), FALSE)
      BY <1>1, <1>5, <2>1
    <3>3. PostedOnce(posted') /\ Elements(started') \subseteq Elements(posted')
      BY <1>1, <2>1 DEF OrderInv
    <3>4. Len(sender'.queue) <= 1
      BY <3>1
    <3>. QED
      BY <3>2, <3>3, <3>4
  <2>2. ASSUME NEW p \in Unposted, sender' = PostPacket(sender, p),
               posted' = Append(posted, p)
        PROVE  /\ InLine(started', sender'.jobs, sender'.queue, repeats', Before(posted'), FALSE)
               /\ PostedOnce(posted') /\ Elements(started') \subseteq Elements(posted')
               /\ Len(sender'.queue) <= 1
    <3>1. /\ InLine(started, sender'.jobs, sender'.queue, repeats, Before(posted'), FALSE)
          /\ PostedOnce(posted') /\ Elements(started) \subseteq Elements(posted')
      BY <1>2, <1>4, <1>5, <2>2, PostOrder DEF OrderInv
    <3>2. p \in Packets
      BY DEF Unposted
    <3>3. Queued(sender, p, sender') \/ Launched(sender, p, sender')
      BY <1>2, <2>2, <3>2, PostCases
    <3>4. Len(sender'.queue) <= 1
      <4>1. Len(<<>>) = 0 /\ Len(Append(<<>>, p)) = 1
        OBVIOUS
      <4>2. sender'.queue = <<>> \/ sender'.queue = Append(<<>>, p)
        BY <1>4, <3>3 DEF Queued, Launched
      <4>3. Len(sender'.queue) \in {0, 1}
        BY <4>1, <4>2, Zenon
      <4>4. \A n \in {0, 1} : n <= 1
        OBVIOUS
      <4>. QED
        BY <4>3, <4>4, Zenon
    <3>. QED
      BY <1>1, <3>1, <3>4
  <2>. QED
    BY <2>1, <2>2 DEF PostSession
<1>7. /\ Grammar(agenda')
      /\ agenda' # <<>> => agenda'[1] # "session"
  BY <1>1, <1>2, GrammarTail DEF OrderInv
<1>8. Ready(agenda', sender')
  BY <1>6, <1>7 DEF Ready
<1>9. InLine(started', sender'.jobs, sender'.queue, repeats', Before(posted'),
             Clearing(agenda'))
  BY <1>6, LineWeaker
<1>10. SentBefore(inbox', repeats')
  BY <1>1 DEF OrderInv
<1>. QED
  BY <1>6, <1>7, <1>8, <1>9, <1>10 DEF OrderInv

\* A new result keeps what is said of the others, and executions only grow.
LEMMA SentMore ==
    ASSUME NEW box \in Seq(Result), NEW rep, SentBefore(box, rep),
           NEW result \in Result, NEW rep2,
           \A p \in Packets : rep[p] > 0 => rep2[p] > 0,
           result.kind = "executed" => rep2[result.packet] > 0
    PROVE  SentBefore(Append(box, result), rep2)
<1> PICK r : r = Append(box, result)
  OBVIOUS
<1>1. /\ Len(r) = Len(box) + 1 /\ Len(box) \in Nat /\ r[Len(box) + 1] = result
      /\ \A i \in 1..Len(box) : r[i] = box[i] /\ box[i] \in Result
  BY AppendFacts
<1>2. \A i \in 1..Len(r) : i \in 1..Len(box) \/ (i = Len(box) + 1 /\ r[i] = result)
  BY <1>1
<1>3. \A i \in 1..Len(box) : box[i].packet \in Packets
  BY <1>1 DEF Result
<1>4. SentBefore(r, rep2)
  BY <1>1, <1>2, <1>3 DEF SentBefore
<1>. QED
  BY <1>4

LEMMA SendJobOrder == ASSUME SendInv, OrderInv, SendJob PROVE OrderInv'
<1> PICK js : js = sender.jobs
  OBVIOUS
<1> PICK p : p = Head(js).packet
  OBVIOUS
<1>1. /\ js # <<>> /\ Head(js).send
      /\ sender' = [sender EXCEPT !.jobs = Tail(@)]
      /\ repeats' = [repeats EXCEPT ![p] = @ + 1]
      /\ started' = IF repeats[p] = 0 THEN Append(started, p) ELSE started
      /\ UNCHANGED <<agenda, posted>>
  BY DEF SendJob
<1>2. PICK e \in Outcomes(p) :
          inbox' = Append(inbox, [kind |-> "executed", packet |-> p, error |-> e])
  BY DEF SendJob
<1>3. /\ sender \in Sender /\ js \in Seq(Job) /\ inbox \in Seq(Result)
      /\ started \in Seq(Packets) /\ posted \in Seq(Packets) /\ Known(sender)
  BY OrderFacts
<1>4. /\ sender'.queue = sender.queue /\ sender'.jobs = Tail(js)
      /\ sender'.executing = sender.executing
  BY <1>1, <1>3 DEF Sender
<1>5. /\ p \in Packets /\ p \in Elements(posted)
      /\ \A i \in 1..Len(Tail(js)) : Tail(js)[i] \in Job /\ Tail(js)[i].packet # p
  <2>1. Places(sender.queue, js, sender.air, inbox, Pending, repeats)
    BY DEF SendInv, Placed
  <2>2. /\ p \in Pending \cap Packets
        /\ Nowhere(p, sender.queue, Tail(js), sender.air, inbox)
    BY <1>1, <2>1, TakeJob
  <2>3. \A i \in 1..Len(Tail(js)) : Tail(js)[i] \in Job
    BY <1>1, <1>3
  <2>. QED
    BY <2>2, <2>3 DEF Pending, Nowhere
<1>6. /\ repeats \in [Packets -> 0..RepeatCount]
      /\ repeats'[p] > 0 /\ \A x \in Packets \ {p} : repeats'[x] = repeats[x]
  <2>1. repeats \in [Packets -> 0..RepeatCount]
    BY DEF SendInv, Typed
  <2>. QED
    BY <1>1, <1>5, <2>1, RepeatCountAssumption
<1>7. InLine(started, Tail(js), sender.queue, repeats, Before(posted), Clearing(agenda))
  BY <1>1, <1>3, LineJobTaken DEF OrderInv
<1>8. InLine(started', Tail(js), sender.queue, repeats, Before(posted), Clearing(agenda))
  <2>1. CASE repeats[p] = 0
    <3>1. Fresh(Head(js), repeats)
      BY <1>1, <2>1 DEF Fresh
    <3>2. InLine(Append(started, p), Tail(js), sender.queue, repeats, Before(posted),
                 Clearing(agenda))
      BY <1>1, <1>3, <3>1, LineStarted DEF OrderInv
    <3>. QED
      BY <1>1, <2>1, <3>2
  <2>2. CASE repeats[p] # 0
    BY <1>1, <1>7, <2>2
  <2>. QED
    BY <2>1, <2>2
<1>9. InLine(started', Tail(js), sender.queue, repeats', Before(posted), Clearing(agenda))
  <2>1. \A i \in 1..Len(Tail(js)) :
          repeats'[Tail(js)[i].packet] = repeats[Tail(js)[i].packet]
    BY <1>5, <1>6 DEF Job
  <2>. QED
    BY <1>8, <2>1, LineCounted
<1>10. Elements(started') \subseteq Elements(posted)
  BY <1>1, <1>3, <1>5, AppendElements DEF OrderInv
<1>11. SentBefore(inbox', repeats')
  <2> PICK result : result = [kind |-> "executed", packet |-> p, error |-> e]
    OBVIOUS
  <2>1. result \in Result /\ result.packet = p
    BY <1>5 DEF Result, Outcomes, Errors
  <2>2. \A x \in Packets : repeats[x] > 0 => repeats'[x] > 0
    BY <1>6
  <2>3. SentBefore(Append(inbox, result), repeats')
    BY <1>3, <1>6, <2>1, <2>2, SentMore DEF OrderInv
  <2>. QED
    BY <1>2, <2>3
<1>12. Ready(agenda', sender')
  BY <1>1, <1>4 DEF OrderInv, Ready
<1>. QED
  BY <1>1, <1>4, <1>9, <1>10, <1>11, <1>12 DEF OrderInv

\* A result arrives that starts nothing.
LEMMA ResultOrder ==
    ASSUME SendInv, OrderInv, UNCHANGED <<agenda, posted, started, repeats>>,
           NEW result \in Result, result.kind # "executed",
           inbox' = Append(inbox, result),
           sender'.queue = sender.queue, sender'.executing = sender.executing,
           \/ sender'.jobs = sender.jobs
           \/ sender.jobs # <<>> /\ sender'.jobs = Tail(sender.jobs)
    PROVE  OrderInv'
<1>1. sender.jobs \in Seq(Job) /\ inbox \in Seq(Result)
  BY OrderFacts
<1>2. InLine(started, sender'.jobs, sender.queue, repeats, Before(posted), Clearing(agenda))
  BY <1>1, LineJobTaken DEF OrderInv
<1>3. SentBefore(Append(inbox, result), repeats)
  BY <1>1, SentMore DEF OrderInv
<1>4. Ready(agenda', sender')
  BY DEF OrderInv, Ready
<1>. QED
  BY <1>2, <1>3, <1>4 DEF OrderInv

LEMMA RefuseJobOrder == ASSUME SendInv, OrderInv, RefuseJob PROVE OrderInv'
<1> PICK p : p = Head(sender.jobs).packet
  OBVIOUS
<1> PICK result : result = [kind |-> "refused", packet |-> p, error |-> "refused"]
  OBVIOUS
<1>1. /\ sender.jobs # <<>> /\ inbox' = Append(inbox, result)
      /\ sender' = [sender EXCEPT !.jobs = Tail(@)]
      /\ UNCHANGED <<agenda, posted, started, repeats>>
  BY DEF RefuseJob
<1>2. p \in Packets
  <2>1. Places(sender.queue, sender.jobs, sender.air, inbox, Pending, repeats)
    BY DEF SendInv, Placed
  <2>. QED
    BY <1>1, <2>1, TakeJob
<1>3. result \in Result /\ result.kind # "executed"
  BY <1>2 DEF Result, Errors
<1>4. /\ sender'.queue = sender.queue /\ sender'.jobs = Tail(sender.jobs)
      /\ sender'.executing = sender.executing
  BY <1>1 DEF SendInv, Typed, Sender
<1>. QED
  BY <1>1, <1>3, <1>4, ResultOrder

LEMMA CompleteAsyncOrder ==
    ASSUME SendInv, OrderInv, NEW p \in Packets, CompleteAsync(p) PROVE OrderInv'
<1>1. /\ sender' = [sender EXCEPT !.air = @ \ {p}]
      /\ UNCHANGED <<agenda, posted, started, repeats>>
  BY DEF CompleteAsync
<1>2. PICK e \in Outcomes(p) :
          inbox' = Append(inbox, [kind |-> "async", packet |-> p, error |-> e])
  BY DEF CompleteAsync
<1> PICK result : result = [kind |-> "async", packet |-> p, error |-> e]
  OBVIOUS
<1>3. result \in Result /\ result.kind # "executed"
  BY DEF Result, Outcomes, Errors
<1>4. /\ sender'.queue = sender.queue /\ sender'.jobs = sender.jobs
      /\ sender'.executing = sender.executing
  BY <1>1 DEF SendInv, Typed, Sender
<1>. QED
  BY <1>1, <1>2, <1>3, <1>4, ResultOrder

LEMMA PostStepOrder ==
    ASSUME SendInv, OrderInv, NEW p \in Packets, Post(p) PROVE OrderInv'
<1>1. /\ agenda = <<>> /\ p \in Unposted /\ sender' = PostPacket(sender, p)
      /\ posted' = Append(posted, p)
      /\ UNCHANGED <<agenda, inbox, repeats, started>>
  BY DEF Post, Idle
<1>2. /\ sender \in Sender /\ posted \in Seq(Packets) /\ started \in Seq(Packets)
      /\ Known(sender) /\ (sender.executing \/ sender.queue = <<>>)
      /\ InLine(started, sender.jobs, sender.queue, repeats, Before(posted), FALSE)
  BY <1>1, OrderFacts
<1>3. /\ InLine(started, sender'.jobs, sender'.queue, repeats, Before(posted'), FALSE)
      /\ PostedOnce(posted') /\ Elements(started) \subseteq Elements(posted')
  BY <1>1, <1>2, PostOrder DEF OrderInv
<1>4. Ready(agenda', sender') /\ Grammar(agenda') /\ SentBefore(inbox', repeats')
  BY <1>1 DEF OrderInv, Ready
<1>5. InLine(started', sender'.jobs, sender'.queue, repeats', Before(posted'), Clearing(agenda'))
  BY <1>1, <1>3, LineWeaker
<1>. QED
  BY <1>1, <1>3, <1>4, <1>5 DEF OrderInv

LEMMA OrderStep == SendInv /\ OrderInv /\ [Next]_vars => OrderInv'
<1> SUFFICES ASSUME SendInv, OrderInv, [Next]_vars PROVE OrderInv'
  OBVIOUS
<1>1. CASE SessionLost
  <2>1. /\ agenda = <<>> /\ agenda' = RestartSession
        /\ UNCHANGED <<sender, inbox, repeats, posted, started>>
    BY <1>1 DEF SessionLost, Idle
  <2>2. Len(agenda') = 2 /\ agenda'[1] = "clear" /\ agenda'[2] = "session"
    BY <2>1 DEF RestartSession
  <2>3. \A k \in 2..Len(agenda') : k = 2
    BY <2>2
  <2>4. Grammar(agenda')
    BY <2>2, <2>3 DEF Grammar
  <2>5. Ready(agenda', sender')
    BY <2>2, OpenReady DEF Opens
  <2>6. InLine(started, sender.jobs, sender.queue, repeats, Before(posted), Clearing(agenda'))
    BY <2>1, OrderFacts, LineWeaker
  <2>. QED
    BY <2>1, <2>4, <2>5, <2>6 DEF OrderInv
<1>2. CASE LimitEnds
  <2>1. /\ sender'.queue = sender.queue /\ sender'.jobs = sender.jobs
        /\ sender'.executing = sender.executing
        /\ UNCHANGED <<agenda, inbox, repeats, posted, started>>
    BY <1>2 DEF LimitEnds, SendInv, Typed, Sender
  <2>. QED
    BY <2>1 DEF OrderInv, Ready
<1>3. CASE UNCHANGED vars
  BY <1>3 DEF vars, OrderInv, Ready
<1>. QED
  BY <1>1, <1>2, <1>3, TakeRefusedOrder, TakeAsyncOrder, TakeRepeatOrder, TakeAnswerOrder,
     ReleaseOrder, TakeNextOrder, ClearOneOrder, CancelRequestsOrder, PostSessionOrder,
     SendJobOrder, RefuseJobOrder, CompleteAsyncOrder, PostStepOrder
  DEF Next, CoreStep

-----------------------------------------------------------------------------
(* The theorem. *)

LEMMA FirstOrder == Init => CountInv /\ OrderInv
<1> SUFFICES ASSUME Init PROVE CountInv /\ OrderInv
  OBVIOUS
<1>1. Flying(sender.jobs, inbox) = {}
  BY DEF Init, Flying
<1>2. /\ agenda = <<>> /\ refusals = {} /\ Flag(sender) = 0 /\ Releasing(agenda) = 0
      /\ ReleasedOnce(agenda)
  BY ShortClosures DEF Init, Flag
<1>3. IsFiniteSet({}) /\ Cardinality({}) = 0
  BY FS_EmptySet
<1>4. Counted({}, 0, 0, {})
  BY <1>3 DEF Counted
<1>5. CountInv
  BY <1>1, <1>2, <1>4 DEF CountInv
<1>6. OrderInv
  <2>1. Len(started) = 0 /\ Len(sender.jobs) = 0 /\ Len(sender.queue) = 0
    BY DEF Init
  <2>2. InLine(started, sender.jobs, sender.queue, repeats, Before(posted), Clearing(agenda))
    BY <2>1 DEF InLine
  <2>3. Grammar(agenda) /\ Ready(agenda, sender)
    BY <1>2, OpenClosures, OpenReady
  <2>4. /\ PostedOnce(posted) /\ Elements(started) \subseteq Elements(posted)
        /\ SentBefore(inbox, repeats)
    BY DEF Init, PostedOnce, Elements, SentBefore
  <2>. QED
    BY <2>2, <2>3, <2>4 DEF OrderInv
<1>. QED
  BY <1>5, <1>6

\* Packets reach the server one at a time, but for one more for each asynchronous
\* packet the rate limit refused, and in the order of the posts (post_packet,
\* execute_packet_from_queue, clear).
THEOREM SentOneByOne == Spec => []OneByOneInOrder
<1>1. ASSUME SendInv, CountInv
      PROVE  Cardinality(InFlight \ Async) <= 1 + Cardinality(refusals)
  <2>1. sender.jobs \in Seq(Job) /\ inbox \in Seq(Result)
    BY <1>1 DEF SendInv, Typed, Sender
  <2>2. /\ DOMAIN sender.jobs = 1..Len(sender.jobs) /\ DOMAIN inbox = 1..Len(inbox)
        /\ \A i \in 1..Len(sender.jobs) : sender.jobs[i].packet \in Packets
        /\ \A i \in 1..Len(inbox) : inbox[i].packet \in Packets
    <3>1. DOMAIN sender.jobs = 1..Len(sender.jobs) /\ DOMAIN inbox = 1..Len(inbox)
      BY <2>1
    <3>2. /\ \A i \in 1..Len(sender.jobs) : sender.jobs[i] \in Job
          /\ \A i \in 1..Len(inbox) : inbox[i] \in Result
      BY <2>1
    <3>3. (\A x \in Job : x.packet \in Packets) /\ (\A x \in Result : x.packet \in Packets)
      BY DEF Job, Result
    <3>. QED
      BY <3>1, <3>2, <3>3
  <2>3. InFlight \ Async = Flying(sender.jobs, inbox)
    BY <2>2 DEF InFlight, Flying, Elements
  <2>4. /\ IsFiniteSet(Flying(sender.jobs, inbox)) /\ IsFiniteSet(refusals)
        /\ Cardinality(Flying(sender.jobs, inbox)) + Releasing(agenda)
             <= Cardinality(refusals) + Flag(sender)
    BY <1>1 DEF CountInv, Counted
  <2>5. /\ Cardinality(Flying(sender.jobs, inbox)) \in Nat /\ Cardinality(refusals) \in Nat
        /\ Releasing(agenda) \in {0, 1} /\ Flag(sender) \in {0, 1}
    BY <2>4, FS_CardinalityType, SmallNumbers
  <2>6. Cardinality(Flying(sender.jobs, inbox)) <= 1 + Cardinality(refusals)
    BY <2>4, <2>5
  <2>. QED
    BY <2>3, <2>6
<1>2. ASSUME SendInv, OrderInv
      PROVE  \A i, j \in DOMAIN started :
                i < j => IndexIn(posted, started[i]) < IndexIn(posted, started[j])
  <2>1. /\ DOMAIN started = 1..Len(started) /\ DOMAIN posted = 1..Len(posted)
        /\ Len(posted) \in Nat
    BY <1>2 DEF SendInv, Typed
  <2>2. \A k \in 1..Len(posted) : IndexIn(posted, posted[k]) = k
    BY <1>2, <2>1 DEF OrderInv, PostedOnce, IndexIn
  <2> SUFFICES ASSUME NEW i \in 1..Len(started), NEW j \in 1..Len(started), i < j
               PROVE  IndexIn(posted, started[i]) < IndexIn(posted, started[j])
    BY <2>1
  <2>3. <<started[i], started[j]>> \in Before(posted)
    BY <1>2 DEF OrderInv, InLine
  <2>4. PICK k \in 1..Len(posted), l \in 1..Len(posted) :
            k < l /\ posted[k] = started[i] /\ posted[l] = started[j]
    BY <2>3 DEF Before
  <2>5. IndexIn(posted, started[i]) = k /\ IndexIn(posted, started[j]) = l
    BY <2>2, <2>4
  <2>. QED
    BY <2>4, <2>5
<1>3. SendInv /\ CountInv /\ OrderInv => OneByOneInOrder
  BY <1>1, <1>2 DEF OneByOneInOrder
<1>4. Spec => [](CountInv /\ OrderInv)
  BY FirstOrder, CountStep, OrderStep, SendInvariant, PTL DEF Spec
<1>. QED
  BY <1>3, <1>4, SendInvariant, PTL

=============================================================================
