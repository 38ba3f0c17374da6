-------------------------- MODULE DownloadsProofs ---------------------------
(***************************************************************************)
(* Theorems about the downloads of shared files, for every number of       *)
(* requests, urls and places, and for any number of failures, of           *)
(* cancellations and of deaths of the process.                             *)
(***************************************************************************)
EXTENDS Downloads, FiniteSetTheorems, WellFoundedInduction, TLAPS

Tasks == Requests \cup Urls

Elements(s) == {s[i] : i \in DOMAIN s}
Distinct(s) == \A i, j \in DOMAIN s : s[i] = s[j] => i = j

-----------------------------------------------------------------------------
(* Lemmas about queues. *)

LEMMA AppendFacts ==
    ASSUME NEW q \in Seq(Tasks), NEW t \in Tasks
    PROVE  /\ Append(q, t) \in Seq(Tasks)
           /\ Elements(Append(q, t)) = Elements(q) \cup {t}
           /\ Distinct(q) /\ t \notin Elements(q) => Distinct(Append(q, t))
<1> DEFINE r == Append(q, t)
<1>1. /\ r \in Seq(Tasks) /\ Len(r) = Len(q) + 1 /\ Len(q) \in Nat
      /\ DOMAIN q = 1..Len(q) /\ DOMAIN r = 1..(Len(q) + 1)
      /\ \A i \in 1..Len(q) : r[i] = q[i]
      /\ r[Len(q) + 1] = t
  OBVIOUS
<1> HIDE DEF r
<1>2. \A i \in DOMAIN r : i \in DOMAIN q \/ i = Len(q) + 1
  BY <1>1
<1>3. ASSUME NEW x PROVE x \in Elements(r) <=> x \in Elements(q) \cup {t}
  BY <1>1, <1>2 DEF Elements
<1>4. ASSUME Distinct(q), t \notin Elements(q) PROVE Distinct(r)
  <2>1. ASSUME NEW i \in DOMAIN r, NEW j \in DOMAIN r, r[i] = r[j]
        PROVE  i = j
    <3>1. CASE i \in DOMAIN q /\ j \in DOMAIN q
      BY <1>1, <1>4, <2>1, <3>1 DEF Distinct
    <3>2. CASE i \in DOMAIN q /\ j = Len(q) + 1
      BY <1>1, <1>4, <2>1, <3>2 DEF Elements
    <3>3. CASE i = Len(q) + 1 /\ j \in DOMAIN q
      BY <1>1, <1>4, <2>1, <3>3 DEF Elements
    <3>. QED
      BY <1>2, <2>1, <3>1, <3>2, <3>3
  <2>. QED
    BY <2>1 DEF Distinct
<1>. QED
  BY <1>1, <1>3, <1>4 DEF r

LEMMA PopFacts ==
    ASSUME NEW q \in Seq(Tasks), q # <<>>, Distinct(q)
    PROVE  /\ Head(q) \in Elements(q) /\ Tail(q) \in Seq(Tasks)
           /\ Elements(Tail(q)) = Elements(q) \ {Head(q)}
           /\ Distinct(Tail(q))
<1> DEFINE r == Tail(q)
<1>1. /\ r \in Seq(Tasks) /\ Len(q) \in Nat /\ Len(q) > 0 /\ Len(r) = Len(q) - 1
      /\ DOMAIN q = 1..Len(q) /\ DOMAIN r = 1..(Len(q) - 1)
      /\ \A i \in 1..(Len(q) - 1) : r[i] = q[i + 1]
      /\ Head(q) = q[1]
  OBVIOUS
<1> HIDE DEF r
<1>2. ASSUME NEW i \in DOMAIN r
      PROVE  i + 1 \in DOMAIN q /\ r[i] = q[i + 1] /\ i + 1 # 1
  BY <1>1
<1>3. ASSUME NEW i \in DOMAIN q, i # 1
      PROVE  i - 1 \in DOMAIN r /\ r[i - 1] = q[i]
  BY <1>1, <1>3
<1>4. 1 \in DOMAIN q
  BY <1>1
<1>5. \A i \in DOMAIN r : r[i] # q[1]
  BY <1>2, <1>4 DEF Distinct
<1>6. Elements(r) \subseteq Elements(q) \ {q[1]}
  BY <1>2, <1>5 DEF Elements
<1>7. Elements(q) \ {q[1]} \subseteq Elements(r)
  BY <1>3 DEF Elements
<1>8. Distinct(r)
  <2>1. ASSUME NEW i \in DOMAIN r, NEW j \in DOMAIN r, r[i] = r[j]
        PROVE  i = j
    <3>1. i + 1 = j + 1
      BY <1>2, <2>1 DEF Distinct
    <3>. QED
      BY <1>1, <3>1
  <2>. QED
    BY <2>1 DEF Distinct
<1>9. Head(q) \in Elements(q)
  BY <1>1, <1>4 DEF Elements
<1>. QED
  BY <1>1, <1>6, <1>7, <1>8, <1>9 DEF r

LEMMA EmptyFacts ==
    <<>> \in Seq(Tasks) /\ Elements(<<>>) = {} /\ Distinct(<<>>)
<1>1. <<>> \in Seq(Tasks)
  OBVIOUS
<1>. QED
  BY <1>1 DEF Elements, Distinct

LEMMA UnitFacts ==
    ASSUME NEW t \in Tasks
    PROVE  <<t>> \in Seq(Tasks) /\ Elements(<<t>>) = {t} /\ Distinct(<<t>>)
<1>1. <<t>> \in Seq(Tasks) /\ DOMAIN <<t>> = {1} /\ <<t>>[1] = t
  OBVIOUS
<1>. QED
  BY <1>1 DEF Elements, Distinct

\* How often an element is in a queue without repetition.
LEMMA CountFacts ==
    ASSUME NEW q, Distinct(q), NEW x
    PROVE  Cardinality({i \in DOMAIN q : q[i] = x}) = IF x \in Elements(q) THEN 1 ELSE 0
<1>1. CASE x \in Elements(q)
  <2>1. PICK i \in DOMAIN q : q[i] = x
    BY <1>1 DEF Elements
  <2>2. {j \in DOMAIN q : q[j] = x} = {i}
    BY <2>1 DEF Distinct
  <2>. QED
    BY <1>1, <2>2, FS_Singleton
<1>2. CASE x \notin Elements(q)
  <2>1. {j \in DOMAIN q : q[j] = x} = {}
    BY <1>2 DEF Elements
  <2>. QED
    BY <1>2, <2>1, FS_EmptySet
<1>. QED
  BY <1>1, <1>2

-----------------------------------------------------------------------------
(* Where the requests are, and the loops of the downloads.  A download has *)
(* handlers h[u], and its loop is asking curl, pushed to the queue or in   *)
(* it; a request waits for meta data, is in the queue or is a handler.     *)

LoopsPlaced(urls, asking, pushed, queued, race) ==
    /\ urls \subseteq Urls
    /\ asking \cup pushed \cup (queued \cap Urls) \subseteq urls
    /\ asking \cap pushed = {} /\ (asking \cup pushed) \cap queued = {}
    /\ ~race => urls \subseteq asking \cup pushed \cup queued

HandlersPlaced(h, queued, meta, asked, answered) ==
    /\ asked \subseteq Requests
    /\ meta \cup (queued \cap Requests) \subseteq asked \ answered
    /\ meta \cap queued = {}
    /\ \A u \in DOMAIN h : \A r \in h[u] :
          r \in asked \ answered /\ r \notin meta \cup queued /\ UrlOf(r) = u

AskedPlaced(h, queued, meta, asked, answered, race) ==
    ~race => \A r \in asked \ answered :
                \/ r \in meta \cup queued
                \/ UrlOf(r) \in DOMAIN h /\ r \in h[UrlOf(r)]

Placement(h, asking, pushed, queued, meta, asked, answered, race) ==
    /\ LoopsPlaced(DOMAIN h, asking, pushed, queued, race)
    /\ HandlersPlaced(h, queued, meta, asked, answered)
    /\ AskedPlaced(h, queued, meta, asked, answered, race)

LEMMA MapFacts ==
    ASSUME NEW map, NEW u, NEW x
    PROVE  /\ DOMAIN With(map, u, x) = DOMAIN map \cup {u}
           /\ With(map, u, x)[u] = x
           /\ \A v \in DOMAIN map \ {u} : With(map, u, x)[v] = map[v]
           /\ DOMAIN Without(map, u) = DOMAIN map \ {u}
           /\ \A v \in DOMAIN map \ {u} : Without(map, u)[v] = map[v]
  BY DEF With, Without

LEMMA UrlFacts == \A r \in Requests : UrlOf(r) \in Urls /\ r \notin Urls
  BY UrlsAssumption DEF Urls

\* A download ends, and its handlers are called.
LEMMA EndPlaced ==
    ASSUME NEW h, NEW asking, NEW pushed, NEW queued, NEW meta, NEW asked, NEW answered,
           NEW race, Placement(h, asking, pushed, queued, meta, asked, answered, race),
           NEW u \in DOMAIN h, NEW pushed2, pushed2 = pushed \ {u},
           NEW queued2, queued2 = queued \ {u}
    PROVE  Placement(Without(h, u), asking \ {u}, pushed2, queued2, meta,
                     asked, answered \cup h[u], race)
<1> DEFINE h2 == Without(h, u)
<1>1. DOMAIN h2 = DOMAIN h \ {u} /\ \A v \in DOMAIN h2 : h2[v] = h[v]
  BY DEF With, Without
<1> HIDE DEF h2
<1>2. h[u] \subseteq Requests /\ \A r \in h[u] : UrlOf(r) = u /\ r \notin meta \cup queued
  BY DEF Placement, HandlersPlaced
<1>3. LoopsPlaced(DOMAIN h2, asking \ {u}, pushed2, queued2, race)
  BY <1>1, <1>2, UrlFacts DEF Placement, LoopsPlaced, HandlersPlaced
<1>4. HandlersPlaced(h2, queued2, meta, asked, answered \cup h[u])
  BY <1>1, <1>2, UrlFacts DEF Placement, LoopsPlaced, HandlersPlaced
<1>5. AskedPlaced(h2, queued2, meta, asked, answered \cup h[u], race)
  BY <1>1, <1>2, UrlFacts DEF Placement, LoopsPlaced, HandlersPlaced, AskedPlaced
<1>. QED
  BY <1>3, <1>4, <1>5 DEF Placement, h2

\* A request joins a download.
LEMMA JoinPlaced ==
    ASSUME NEW h, NEW asking, NEW pushed, NEW queued, NEW meta, NEW asked, NEW answered,
           NEW race, Placement(h, asking, pushed, queued, meta, asked, answered, race),
           NEW r \in Requests, UrlOf(r) \in DOMAIN h, r \notin queued, r \notin answered
    PROVE  Placement(With(h, UrlOf(r), h[UrlOf(r)] \cup {r}), asking, pushed, queued,
                     meta \ {r}, asked \cup {r}, answered, race)
<1> DEFINE u == UrlOf(r)
           h2 == With(h, u, h[u] \cup {r})
<1>1. /\ DOMAIN h2 = DOMAIN h /\ h2[u] = h[u] \cup {r}
      /\ \A v \in DOMAIN h \ {u} : h2[v] = h[v]
  BY DEF With, Without
<1> HIDE DEF h2
<1>3. LoopsPlaced(DOMAIN h2, asking, pushed, queued, race)
  BY <1>1, UrlFacts DEF Placement, LoopsPlaced, HandlersPlaced
<1>4. HandlersPlaced(h2, queued, meta \ {r}, asked \cup {r}, answered)
  BY <1>1, UrlFacts DEF Placement, LoopsPlaced, HandlersPlaced
<1>5. AskedPlaced(h2, queued, meta \ {r}, asked \cup {r}, answered, race)
  BY <1>1, UrlFacts DEF Placement, LoopsPlaced, HandlersPlaced, AskedPlaced
<1>. QED
  BY <1>3, <1>4, <1>5 DEF Placement, h2

\* A request starts a download.
LEMMA StartPlaced ==
    ASSUME NEW h, NEW asking, NEW pushed, NEW queued, NEW meta, NEW asked, NEW answered,
           NEW race, Placement(h, asking, pushed, queued, meta, asked, answered, race),
           NEW r \in meta, UrlOf(r) \notin DOMAIN h
    PROVE  Placement(With(h, UrlOf(r), {r}), asking \cup {UrlOf(r)}, pushed, queued,
                     meta \ {r}, asked, answered, race)
<1> DEFINE u == UrlOf(r)
           h2 == With(h, u, {r})
<1>1. /\ DOMAIN h2 = DOMAIN h \cup {u} /\ h2[u] = {r}
      /\ \A v \in DOMAIN h \ {u} : h2[v] = h[v]
  BY DEF With, Without
<1> HIDE DEF h2
<1>2. r \in Requests /\ u \in Urls /\ u \notin asking \cup pushed \cup queued
  BY UrlFacts DEF Placement, LoopsPlaced, HandlersPlaced
<1>3. LoopsPlaced(DOMAIN h2, asking \cup {u}, pushed, queued, race)
  BY <1>1, <1>2, UrlFacts DEF Placement, LoopsPlaced, HandlersPlaced
<1>4. HandlersPlaced(h2, queued, meta \ {r}, asked, answered)
  BY <1>1, <1>2, UrlFacts DEF Placement, LoopsPlaced, HandlersPlaced
<1>5. AskedPlaced(h2, queued, meta \ {r}, asked, answered, race)
  BY <1>1, <1>2, UrlFacts DEF Placement, LoopsPlaced, HandlersPlaced, AskedPlaced
<1>. QED
  BY <1>3, <1>4, <1>5 DEF Placement, h2

\* A request is answered without a download.
LEMMA AnswerPlaced ==
    ASSUME NEW h, NEW asking, NEW pushed, NEW queued, NEW meta, NEW asked, NEW answered,
           NEW race, Placement(h, asking, pushed, queued, meta, asked, answered, race),
           NEW r \in meta
    PROVE  Placement(h, asking, pushed, queued, meta \ {r}, asked, answered \cup {r}, race)
  BY UrlFacts DEF Placement, LoopsPlaced, HandlersPlaced, AskedPlaced

\* A new request asks for the meta data.
LEMMA AskPlaced ==
    ASSUME NEW h, NEW asking, NEW pushed, NEW queued, NEW meta, NEW asked, NEW answered,
           NEW race, Placement(h, asking, pushed, queued, meta, asked, answered, race),
           NEW r \in Requests, r \notin asked, r \notin answered
    PROVE  Placement(h, asking, pushed, queued, meta \cup {r}, asked \cup {r}, answered, race)
  BY UrlFacts DEF Placement, LoopsPlaced, HandlersPlaced, AskedPlaced

\* A request or a loop goes from one place to another.
LEMMA MovePlaced ==
    ASSUME NEW h, NEW asking, NEW pushed, NEW queued, NEW meta, NEW asked, NEW answered,
           NEW race, Placement(h, asking, pushed, queued, meta, asked, answered, race)
    PROVE  /\ \A r \in meta :
                 Placement(h, asking, pushed, queued \cup {r}, meta \ {r}, asked, answered, race)
           /\ \A r \in queued \cap Requests :
                 Placement(h, asking, pushed, queued \ {r}, meta \cup {r}, asked, answered, race)
           /\ \A u \in asking :
                 Placement(h, asking \ {u}, pushed \cup {u}, queued, meta, asked, answered, race)
           /\ \A u \in pushed :
                 Placement(h, asking, pushed \ {u}, queued \cup {u}, meta, asked, answered, race)
           /\ \A u \in queued \cap Urls :
                 Placement(h, asking \cup {u}, pushed, queued \ {u}, meta, asked, answered, race)
  BY UrlFacts DEF Placement, LoopsPlaced, HandlersPlaced, AskedPlaced

\* Tasks get lost in the race.
LEMMA LossPlaced ==
    ASSUME NEW h, NEW asking, NEW pushed, NEW queued, NEW meta, NEW asked, NEW answered,
           Placement(h, asking, pushed, queued, meta, asked, answered, TRUE),
           NEW u \in pushed, NEW queued2, queued2 \subseteq queued \cup {u}
    PROVE  Placement(h, asking, pushed \ {u}, queued2, meta, asked, answered, TRUE)
  BY UrlFacts DEF Placement, LoopsPlaced, HandlersPlaced, AskedPlaced

LEMMA RacePlaced ==
    ASSUME NEW h, NEW asking, NEW pushed, NEW queued, NEW meta, NEW asked, NEW answered,
           NEW race, Placement(h, asking, pushed, queued, meta, asked, answered, race),
           NEW race2, race => race2
    PROVE  Placement(h, asking, pushed, queued, meta, asked, answered, race2)
  BY DEF Placement, LoopsPlaced, HandlersPlaced, AskedPlaced

-----------------------------------------------------------------------------
(* The invariant. *)

Handlers == [u \in DOMAIN progress |-> progress[u].handlers]

Answered == {r \in Requests : told[r] # <<>>}

Typed ==
    /\ suspended \in Seq(Tasks)
    /\ \A u \in DOMAIN progress : "handlers" \in DOMAIN progress[u]
    /\ \A r \in Requests : told[r] = <<>> \/ Len(told[r]) = 1

Placed ==
    Placement(Handlers, DOMAIN curl, pushing, Elements(suspended), metas, requested,
              Answered, raced)

IInv == Typed /\ Distinct(suspended) /\ Placed

\* Handlers that were not called yet are called.
LEMMA TellFacts ==
    ASSUME NEW rs, rs \subseteq Requests \ Answered, NEW what, Tell(rs, what), Typed
    PROVE  /\ \A r \in Requests : told'[r] = <<>> \/ Len(told'[r]) = 1
           /\ Answered' = Answered \cup rs
<1>1. \A r \in Requests :
         told'[r] = IF r \in rs THEN Append(told[r], what) ELSE told[r]
  BY DEF Tell
<1>2. \A r \in rs : told[r] = <<>>
  BY DEF Answered
<1>3. Append(<<>>, what) # <<>> /\ Len(Append(<<>>, what)) = 1
  OBVIOUS
<1>4. \A r \in rs : told'[r] # <<>> /\ Len(told'[r]) = 1
  BY <1>1, <1>2, <1>3
<1>5. \A r \in Requests \ rs : told'[r] = told[r]
  BY <1>1
<1>. QED
  BY <1>4, <1>5 DEF Answered, Typed

\* What is common to the ways a download can end, and to go on.
Ends(u, rs) ==
    /\ \E what : Tell(rs, what)
    /\ progress' = Without(progress, u)
    /\ curl' = Without(curl, u)

GoesOn(u, chunks) ==
    /\ told' = told
    /\ progress' = With(progress, u, chunks)
    /\ \E x : curl' = With(curl, u, x)

LEMMA AskChunkFacts ==
    ASSUME NEW u, NEW chunks, AskChunk(u, chunks)
    PROVE  Ends(u, chunks.handlers) \/ GoesOn(u, chunks)
  BY DEF AskChunk, Opens, OpenFails, Ends, GoesOn

LEMMA OpensFacts ==
    ASSUME NEW u, NEW chunks, Opens(u, chunks) \/ OpenFails(u, chunks)
    PROVE  Ends(u, chunks.handlers) \/ GoesOn(u, chunks)
  BY DEF Opens, OpenFails, Ends, GoesOn

LEMMA HandlersFacts ==
    /\ DOMAIN Handlers = DOMAIN progress
    /\ \A u \in DOMAIN progress : Handlers[u] = progress[u].handlers
  BY DEF Handlers

LEMMA EndsFacts ==
    ASSUME NEW u, progress' = Without(progress, u), Typed
    PROVE  /\ Handlers' = Without(Handlers, u)
           /\ \A v \in DOMAIN progress' : "handlers" \in DOMAIN progress'[v]
<1>1. /\ DOMAIN progress' = DOMAIN progress \ {u}
      /\ \A v \in DOMAIN progress \ {u} : progress'[v] = progress[v]
  BY DEF Without
<1>. QED
  BY <1>1 DEF Typed, Handlers, Without

LEMMA GoesOnFacts ==
    ASSUME NEW u, NEW chunks, "handlers" \in DOMAIN chunks,
           progress' = With(progress, u, chunks), Typed
    PROVE  /\ Handlers' = With(Handlers, u, chunks.handlers)
           /\ \A v \in DOMAIN progress' : "handlers" \in DOMAIN progress'[v]
<1>1. /\ DOMAIN progress' = DOMAIN progress \cup {u}
      /\ progress'[u] = chunks
      /\ \A v \in DOMAIN progress \ {u} : progress'[v] = progress[v]
  BY DEF With
<1>. QED
  BY <1>1 DEF Typed, Handlers, With

\* A step that ends a download.
LEMMA EndStep ==
    ASSUME IInv, NEW u \in DOMAIN progress, Ends(u, progress[u].handlers),
           suspended' \in Seq(Tasks), Distinct(suspended'),
           Elements(suspended') = Elements(suspended) \ {u}, pushing' = pushing \ {u},
           UNCHANGED <<metas, requested, raced>>
    PROVE  IInv'
<1>1. /\ Typed /\ u \in DOMAIN Handlers /\ Handlers[u] = progress[u].handlers
      /\ Placement(Handlers, DOMAIN curl, pushing, Elements(suspended), metas, requested,
                   Answered, raced)
  BY HandlersFacts DEF IInv, Placed
<1>2. Handlers[u] \subseteq Requests \ Answered
  BY <1>1 DEF Placement, HandlersPlaced
<1>3. PICK what : Tell(Handlers[u], what)
  BY <1>1 DEF Ends
<1>4. /\ \A r \in Requests : told'[r] = <<>> \/ Len(told'[r]) = 1
      /\ Answered' = Answered \cup Handlers[u]
  BY <1>1, <1>2, <1>3, TellFacts
<1>5. progress' = Without(progress, u) /\ DOMAIN curl' = DOMAIN curl \ {u}
  BY DEF Ends, Without
<1>6. /\ Handlers' = Without(Handlers, u)
      /\ \A v \in DOMAIN progress' : "handlers" \in DOMAIN progress'[v]
  BY <1>1, <1>5, EndsFacts
<1>7. Placement(Without(Handlers, u), DOMAIN curl \ {u}, pushing', Elements(suspended'), metas,
                requested, Answered \cup Handlers[u], raced)
  BY <1>1, EndPlaced
<1>8. Typed'
  BY <1>4, <1>6 DEF Typed
<1>9. Placed'
  BY <1>4, <1>5, <1>6, <1>7 DEF Placed
<1>. QED
  BY <1>8, <1>9 DEF IInv, Distinct

\* A download goes on with the same handlers.
LEMMA SameHandlers ==
    ASSUME Typed, NEW u \in DOMAIN progress, NEW chunks, "handlers" \in DOMAIN chunks,
           chunks.handlers = progress[u].handlers, GoesOn(u, chunks)
    PROVE  /\ \A v \in DOMAIN progress' : "handlers" \in DOMAIN progress'[v]
           /\ told' = told
           /\ Handlers' = Handlers /\ Answered' = Answered
           /\ DOMAIN curl' = DOMAIN curl \cup {u}
<1>1. progress' = With(progress, u, chunks) /\ told' = told
  BY DEF GoesOn
<1>2. /\ Handlers' = With(Handlers, u, progress[u].handlers)
      /\ \A v \in DOMAIN progress' : "handlers" \in DOMAIN progress'[v]
  BY <1>1, GoesOnFacts
<1>3. With(Handlers, u, progress[u].handlers) = Handlers
  BY DEF With, Handlers
<1>4. DOMAIN curl' = DOMAIN curl \cup {u}
  BY DEF GoesOn, With
<1>. QED
  BY <1>1, <1>2, <1>3, <1>4 DEF Answered

LEMMA ReceiveKeeps ==
    ASSUME IInv, NEW u \in Urls, Receive(u)
    PROVE  IInv'
<1>1. UNCHANGED <<progress, told, suspended, pushing, metas, requested, raced>>
  BY DEF Receive
<1>2. u \in DOMAIN curl /\ \E x : curl' = With(curl, u, x)
  BY DEF Receive, Received
<1>3. DOMAIN curl' = DOMAIN curl
  BY <1>2 DEF With
<1>4. Handlers' = Handlers /\ Answered' = Answered /\ Elements(suspended)' = Elements(suspended)
  BY <1>1 DEF Handlers, Answered, Elements
<1>. QED
  BY <1>1, <1>3, <1>4 DEF IInv, Typed, Distinct, Placed

LEMMA ChunkDoneKeeps ==
    ASSUME IInv, NEW u \in Urls, ChunkDone(u)
    PROVE  IInv'
<1> DEFINE chunks == [progress[u] EXCEPT !.downloaded = @ + curl[u].words]
<1>1. UNCHANGED <<suspended, pushing, metas, requested, raced>> /\ u \in DOMAIN curl
  BY DEF ChunkDone
<1>2. u \in DOMAIN progress /\ u \notin pushing /\ u \notin Elements(suspended)
  BY <1>1, HandlersFacts DEF IInv, Placed, Placement, LoopsPlaced
<1>3. "handlers" \in DOMAIN chunks /\ chunks.handlers = progress[u].handlers
  BY <1>2 DEF IInv, Typed
<1>4. \/ curl' = Without(curl, u) /\ \E what : Fire(u, what)
      \/ AskChunk(u, chunks)
  BY DEF ChunkDone
<1> HIDE DEF chunks
<1>5. CASE Ends(u, progress[u].handlers)
  <2>1. /\ suspended' \in Seq(Tasks) /\ Distinct(suspended')
        /\ Elements(suspended') = Elements(suspended) \ {u} /\ pushing' = pushing \ {u}
    BY <1>1, <1>2 DEF IInv, Typed
  <2>. QED
    BY <1>1, <1>2, <1>5, <2>1, EndStep
<1>6. CASE GoesOn(u, chunks)
  <2>1. /\ \A v \in DOMAIN progress' : "handlers" \in DOMAIN progress'[v]
        /\ told' = told
        /\ Handlers' = Handlers /\ Answered' = Answered
        /\ DOMAIN curl' = DOMAIN curl \cup {u}
    BY <1>2, <1>3, <1>6, SameHandlers DEF IInv
  <2>2. suspended' = suspended /\ DOMAIN curl' = DOMAIN curl
    BY <1>1, <2>1
  <2>3. Typed'
    BY <2>1, <2>2 DEF IInv, Typed
  <2>. QED
    BY <1>1, <2>1, <2>2, <2>3 DEF IInv, Distinct, Placed
<1>7. ASSUME NEW what, Fire(u, what), curl' = Without(curl, u)
      PROVE  Ends(u, progress[u].handlers)
  BY <1>7 DEF Fire, Ends
<1>. QED
  BY <1>3, <1>4, <1>5, <1>6, <1>7, AskChunkFacts

LEMMA ChunkFailedKeeps ==
    ASSUME IInv, NEW u \in Urls, ChunkFailed(u)
    PROVE  IInv'
<1>1. UNCHANGED <<suspended, metas, requested>> /\ u \in DOMAIN curl /\ curl' = Without(curl, u)
  BY DEF ChunkFailed
<1>2. u \in DOMAIN progress /\ u \notin pushing /\ u \notin Elements(suspended)
  BY <1>1, HandlersFacts DEF IInv, Placed, Placement, LoopsPlaced
<1>3. CASE Fire(u, "cancelled") /\ UNCHANGED <<pushing, raced>>
  <2>1. /\ suspended' \in Seq(Tasks) /\ Distinct(suspended')
        /\ Elements(suspended') = Elements(suspended) \ {u} /\ pushing' = pushing \ {u}
    BY <1>1, <1>2, <1>3 DEF IInv, Typed
  <2>2. Ends(u, progress[u].handlers)
    BY <1>1, <1>3 DEF Fire, Ends
  <2>. QED
    BY <1>1, <1>2, <1>3, <2>1, <2>2, EndStep
<1>4. CASE /\ pushing' = pushing \cup {u} /\ UNCHANGED <<progress, told>>
           /\ raced' = (raced \/ pushing # {} \/ core = "resuming")
  <2>1. Handlers' = Handlers /\ Answered' = Answered /\ Elements(suspended)' = Elements(suspended)
    BY <1>1, <1>4 DEF Handlers, Answered, Elements
  <2>2. DOMAIN curl' = DOMAIN curl \ {u}
    BY <1>1 DEF Without
  <2>3. Placement(Handlers, DOMAIN curl, pushing, Elements(suspended), metas, requested,
                  Answered, raced')
    <3>1. raced => raced'
      BY <1>4
    <3>. QED
      BY <3>1, RacePlaced DEF IInv, Placed
  <2>4. Placement(Handlers, DOMAIN curl \ {u}, pushing \cup {u}, Elements(suspended), metas,
                  requested, Answered, raced')
    BY <1>1, <2>3, MovePlaced
  <2>. QED
    BY <1>1, <1>4, <2>1, <2>2, <2>4 DEF IInv, Typed, Distinct, Placed
<1>. QED
  BY <1>3, <1>4 DEF ChunkFailed

LEMMA SuspendKeeps ==
    ASSUME IInv, NEW u \in Urls, Suspend(u)
    PROVE  IInv'
<1>1. /\ UNCHANGED <<progress, told, curl, metas, requested, raced>>
      /\ u \in pushing /\ pushing' = pushing \ {u}
  BY DEF Suspend
<1>2. Handlers' = Handlers /\ Answered' = Answered
  BY <1>1 DEF Handlers, Answered
<1>3. /\ u \in Tasks /\ u \notin Elements(suspended) /\ suspended \in Seq(Tasks)
      /\ Distinct(suspended)
      /\ Placement(Handlers, DOMAIN curl, pushing, Elements(suspended), metas, requested,
                   Answered, raced)
  BY <1>1 DEF IInv, Typed, Tasks, Placed, Placement, LoopsPlaced
<1>4. CASE suspended' = Append(suspended, u)
  <2>1. /\ suspended' \in Seq(Tasks) /\ Distinct(suspended')
        /\ Elements(suspended') = Elements(suspended) \cup {u}
    BY <1>3, <1>4, AppendFacts
  <2>2. Placement(Handlers, DOMAIN curl, pushing \ {u}, Elements(suspended) \cup {u}, metas,
                  requested, Answered, raced)
    BY <1>1, <1>3, MovePlaced
  <2>. QED
    BY <1>1, <1>2, <2>1, <2>2 DEF IInv, Typed, Placed, Distinct, Elements
<1>5. CASE raced /\ suspended' \in {suspended, <<u>>}
  <2>1. /\ suspended' \in Seq(Tasks) /\ Distinct(suspended')
        /\ Elements(suspended') \subseteq Elements(suspended) \cup {u}
    BY <1>3, <1>5, UnitFacts
  <2>2. Placement(Handlers, DOMAIN curl, pushing \ {u}, Elements(suspended'), metas,
                  requested, Answered, TRUE)
    <3>1. Placement(Handlers, DOMAIN curl, pushing, Elements(suspended), metas, requested,
                    Answered, TRUE)
      BY <1>3, RacePlaced
    <3>. QED
      BY <1>1, <2>1, <3>1, LossPlaced
  <2>3. Placement(Handlers, DOMAIN curl, pushing \ {u}, Elements(suspended'), metas,
                  requested, Answered, raced')
    BY <1>1, <1>5, <2>2, RacePlaced
  <2>. QED
    BY <1>1, <1>2, <2>1, <2>3 DEF IInv, Typed, Placed, Distinct, Elements
<1>. QED
  BY <1>4, <1>5 DEF Suspend

LEMMA DownloadKeeps ==
    ASSUME IInv, NEW r \in Requests, Download(r)
    PROVE  IInv'
<1> DEFINE u == UrlOf(r)
<1>1. /\ UNCHANGED <<curl, pushing, suspended, told, raced>>
      /\ r \notin requested /\ told[r] = <<>> /\ requested' = requested \cup {r}
  BY DEF Download
<1>2. /\ Typed
      /\ Placement(Handlers, DOMAIN curl, pushing, Elements(suspended), metas, requested,
                   Answered, raced)
  BY DEF IInv, Placed
<1>3. r \notin metas /\ r \notin Elements(suspended) /\ r \notin Answered
  BY <1>1, <1>2 DEF Placement, HandlersPlaced, Answered
<1>4. Answered' = Answered /\ Elements(suspended)' = Elements(suspended)
  BY <1>1 DEF Answered, Elements
<1>5. CASE u \in DOMAIN progress
  <2> DEFINE joined == [progress[u] EXCEPT !.handlers = @ \cup {r}, !.high = @ \/ Raised(r)]
  <2>1. progress' = [progress EXCEPT ![u] = joined] /\ metas' = metas
    BY <1>5 DEF Download, Accept
  <2>2. "handlers" \in DOMAIN joined /\ joined.handlers = progress[u].handlers \cup {r}
    BY <1>2, <1>5 DEF Typed
  <2> HIDE DEF joined
  <2>3. /\ DOMAIN progress' = DOMAIN progress /\ progress'[u] = joined
        /\ \A v \in DOMAIN progress \ {u} : progress'[v] = progress[v]
    BY <1>5, <2>1
  <2>4. Handlers' = With(Handlers, u, Handlers[u] \cup {r})
    BY <1>5, <2>2, <2>3 DEF Handlers, With
  <2>5. Placement(With(Handlers, u, Handlers[u] \cup {r}), DOMAIN curl, pushing,
                  Elements(suspended), metas \ {r}, requested \cup {r}, Answered, raced)
    BY <1>2, <1>3, <1>5, HandlersFacts, JoinPlaced
  <2>6. metas \ {r} = metas
    BY <1>3
  <2>7. Typed'
    BY <1>1, <1>2, <2>2, <2>3 DEF Typed
  <2>. QED
    BY <1>1, <1>4, <2>1, <2>4, <2>5, <2>6, <2>7 DEF IInv, Distinct, Placed
<1>6. CASE u \notin DOMAIN progress
  <2>1. progress' = progress /\ metas' = metas \cup {r}
    BY <1>6 DEF Download, Accept
  <2>2. Handlers' = Handlers
    BY <2>1 DEF Handlers
  <2>3. Placement(Handlers, DOMAIN curl, pushing, Elements(suspended), metas \cup {r},
                  requested \cup {r}, Answered, raced)
    BY <1>1, <1>2, <1>3, AskPlaced
  <2>. QED
    BY <1>1, <1>2, <1>4, <2>1, <2>2, <2>3 DEF IInv, Typed, Distinct, Placed
<1>. QED
  BY <1>5, <1>6

LEMMA CancelKeeps ==
    ASSUME IInv, NEW u \in Urls, Cancel(u)
    PROVE  IInv'
<1> DEFINE cancelled == [progress[u] EXCEPT !.cancel = TRUE]
<1>1. /\ UNCHANGED <<metas, curl, pushing, suspended, requested, told, raced>>
      /\ u \in DOMAIN progress /\ progress' = [progress EXCEPT ![u] = cancelled]
  BY DEF Cancel
<1>2. "handlers" \in DOMAIN cancelled /\ cancelled.handlers = progress[u].handlers
  BY <1>1 DEF IInv, Typed
<1> HIDE DEF cancelled
<1>3. /\ DOMAIN progress' = DOMAIN progress /\ progress'[u] = cancelled
      /\ \A v \in DOMAIN progress \ {u} : progress'[v] = progress[v]
  BY <1>1
<1>4. Handlers' = Handlers /\ Answered' = Answered /\ Elements(suspended)' = Elements(suspended)
  BY <1>1, <1>2, <1>3 DEF Handlers, Answered, Elements
<1>. QED
  BY <1>1, <1>2, <1>3, <1>4 DEF IInv, Typed, Distinct, Placed

\* A request for meta data is answered without a download.
LEMMA AnswerStep ==
    ASSUME IInv, NEW r \in metas, metas' = metas \ {r}, NEW what, Tell({r}, what),
           UNCHANGED <<progress, pushing, suspended, requested, raced>>,
           DOMAIN curl' = DOMAIN curl
    PROVE  IInv'
<1>1. /\ Typed
      /\ Placement(Handlers, DOMAIN curl, pushing, Elements(suspended), metas, requested,
                   Answered, raced)
  BY DEF IInv, Placed
<1>2. {r} \subseteq Requests \ Answered
  BY <1>1 DEF Placement, HandlersPlaced
<1>3. /\ \A q \in Requests : told'[q] = <<>> \/ Len(told'[q]) = 1
      /\ Answered' = Answered \cup {r}
  BY <1>1, <1>2, TellFacts
<1>4. Placement(Handlers, DOMAIN curl, pushing, Elements(suspended), metas \ {r}, requested,
                Answered \cup {r}, raced)
  BY <1>1, AnswerPlaced
<1>5. Handlers' = Handlers /\ Elements(suspended)' = Elements(suspended)
  BY DEF Handlers, Elements
<1>6. Typed'
  BY <1>1, <1>3 DEF Typed
<1>. QED
  BY <1>3, <1>4, <1>5, <1>6 DEF IInv, Distinct, Placed

LEMMA MetaFailsKeeps ==
    ASSUME IInv, NEW r \in Requests, MetaFails(r)
    PROVE  IInv'
<1>1. /\ UNCHANGED <<progress, curl, pushing, requested>>
      /\ r \in metas /\ metas' = metas \ {r}
  BY DEF MetaFails
<1>2. CASE /\ suspended' = Append(suspended, r) /\ told' = told
           /\ raced' = (raced \/ pushing # {})
  <2>1. /\ r \in Tasks /\ r \notin Elements(suspended) /\ suspended \in Seq(Tasks)
        /\ Distinct(suspended)
        /\ Placement(Handlers, DOMAIN curl, pushing, Elements(suspended), metas, requested,
                     Answered, raced)
    BY <1>1 DEF IInv, Typed, Tasks, Placed, Placement, HandlersPlaced
  <2>2. /\ suspended' \in Seq(Tasks) /\ Distinct(suspended')
        /\ Elements(suspended') = Elements(suspended) \cup {r}
    BY <1>2, <2>1, AppendFacts
  <2>3. Placement(Handlers, DOMAIN curl, pushing, Elements(suspended) \cup {r}, metas \ {r},
                  requested, Answered, raced)
    BY <1>1, <2>1, MovePlaced
  <2>4. raced => raced'
    BY <1>2
  <2>5. Placement(Handlers, DOMAIN curl, pushing, Elements(suspended) \cup {r}, metas \ {r},
                  requested, Answered, raced')
    BY <2>3, <2>4, RacePlaced
  <2>6. Handlers' = Handlers /\ Answered' = Answered
    BY <1>1, <1>2 DEF Handlers, Answered
  <2>. QED
    BY <1>1, <1>2, <2>2, <2>5, <2>6 DEF IInv, Typed, Placed, Distinct, Elements
<1>3. CASE Tell({r}, "error") /\ UNCHANGED <<suspended, raced>>
  BY <1>1, <1>3, AnswerStep
<1>. QED
  BY <1>2, <1>3 DEF MetaFails

LEMMA MetaFoundKeeps ==
    ASSUME IInv, NEW r \in Requests, MetaFound(r)
    PROVE  IInv'
  BY AnswerStep DEF MetaFound

LEMMA MetaArrivesKeeps ==
    ASSUME IInv, NEW r \in Requests, MetaArrives(r)
    PROVE  IInv'
<1> DEFINE u == UrlOf(r)
<1>1. /\ UNCHANGED <<pushing, suspended, requested, raced>>
      /\ r \in metas /\ metas' = metas \ {r}
  BY DEF MetaArrives
<1>2. /\ Typed
      /\ Placement(Handlers, DOMAIN curl, pushing, Elements(suspended), metas, requested,
                   Answered, raced)
  BY DEF IInv, Placed
<1>3. r \in requested /\ r \notin Elements(suspended) /\ r \notin Answered
  BY <1>1, <1>2 DEF Placement, HandlersPlaced
<1> DEFINE p == Place(r)
           chunks == [path |-> p,
                      downloaded |-> IF Len(tmp[p]) > Size(u) THEN 0 ELSE Len(tmp[p]),
                      handlers |-> {r}, cancel |-> FALSE, high |-> Raised(r)]
<1>4. "handlers" \in DOMAIN chunks /\ chunks.handlers = {r}
  OBVIOUS
<1>5. \/ \E what : Tell({r}, what) /\ UNCHANGED <<progress, curl>>
      \/ /\ u \in DOMAIN progress
         /\ progress' = [progress EXCEPT ![u].handlers = @ \cup {r}, ![u].high = @ \/ Raised(r)]
         /\ UNCHANGED <<curl, told>>
      \/ /\ u \notin DOMAIN progress
         /\ AskChunk(u, chunks) \/ Opens(u, chunks) \/ OpenFails(u, chunks)
  BY DEF MetaArrives
<1> HIDE DEF chunks, p
<1>6. CASE \E what : Tell({r}, what) /\ UNCHANGED <<progress, curl>>
  BY <1>1, <1>6, AnswerStep
<1>7. CASE /\ u \in DOMAIN progress
           /\ progress' = [progress EXCEPT ![u].handlers = @ \cup {r}, ![u].high = @ \/ Raised(r)]
           /\ UNCHANGED <<curl, told>>
  <2> DEFINE joined == [progress[u] EXCEPT !.handlers = @ \cup {r}, !.high = @ \/ Raised(r)]
  <2>1. progress' = [progress EXCEPT ![u] = joined]
    BY <1>7
  <2>2. "handlers" \in DOMAIN joined /\ joined.handlers = progress[u].handlers \cup {r}
    BY <1>2, <1>7 DEF Typed
  <2> HIDE DEF joined
  <2>3. /\ DOMAIN progress' = DOMAIN progress /\ progress'[u] = joined
        /\ \A v \in DOMAIN progress \ {u} : progress'[v] = progress[v]
    BY <1>7, <2>1
  <2>4. Handlers' = With(Handlers, u, Handlers[u] \cup {r})
    BY <1>7, <2>2, <2>3, SMTT(30) DEF Handlers, With
  <2>5. Placement(With(Handlers, u, Handlers[u] \cup {r}), DOMAIN curl, pushing,
                  Elements(suspended), metas \ {r}, requested \cup {r}, Answered, raced)
    BY <1>2, <1>3, <1>7, HandlersFacts, JoinPlaced
  <2>6. requested \cup {r} = requested
    BY <1>3
  <2>7. Answered' = Answered /\ Elements(suspended)' = Elements(suspended)
    BY <1>1, <1>7 DEF Answered, Elements
  <2>8. Typed'
    BY <1>1, <1>2, <1>7, <2>2, <2>3 DEF Typed
  <2>. QED
    BY <1>1, <1>7, <2>4, <2>5, <2>6, <2>7, <2>8 DEF IInv, Distinct, Placed
<1>8. CASE /\ u \notin DOMAIN progress
           /\ AskChunk(u, chunks) \/ Opens(u, chunks) \/ OpenFails(u, chunks)
  <2>1. u \notin DOMAIN curl
    BY <1>2, <1>8, HandlersFacts DEF Placement, LoopsPlaced
  <2>2. CASE Ends(u, {r})
    <3>1. PICK what : Tell({r}, what)
      BY <2>2 DEF Ends
    <3>2. DOMAIN curl' = DOMAIN curl
      BY <2>1, <2>2 DEF Ends, Without
    <3>3. /\ Handlers' = Without(Handlers, u)
          /\ \A v \in DOMAIN progress' : "handlers" \in DOMAIN progress'[v]
      BY <1>2, <2>2, EndsFacts DEF Ends
    <3>4. Without(Handlers, u) = Handlers
      BY <1>8 DEF Without, Handlers
    <3>5. /\ \A q \in Requests : told'[q] = <<>> \/ Len(told'[q]) = 1
          /\ Answered' = Answered \cup {r}
      BY <1>2, <1>3, <3>1, TellFacts
    <3>6. Placement(Handlers, DOMAIN curl, pushing, Elements(suspended), metas \ {r}, requested,
                    Answered \cup {r}, raced)
      BY <1>1, <1>2, AnswerPlaced
    <3>7. Typed' /\ Elements(suspended)' = Elements(suspended)
      BY <1>1, <1>2, <3>3, <3>5 DEF Typed, Elements
    <3>. QED
      BY <1>1, <3>2, <3>3, <3>4, <3>5, <3>6, <3>7 DEF IInv, Distinct, Placed
  <2>3. CASE GoesOn(u, chunks)
    <3>1. told' = told /\ progress' = With(progress, u, chunks)
          /\ DOMAIN curl' = DOMAIN curl \cup {u}
      BY <2>3 DEF GoesOn, With
    <3>2. /\ Handlers' = With(Handlers, u, {r})
          /\ \A v \in DOMAIN progress' : "handlers" \in DOMAIN progress'[v]
      BY <1>2, <1>4, <3>1, GoesOnFacts
    <3>3. Placement(With(Handlers, u, {r}), DOMAIN curl \cup {u}, pushing, Elements(suspended),
                    metas \ {r}, requested, Answered, raced)
      BY <1>1, <1>2, <1>8, HandlersFacts, StartPlaced
    <3>4. Typed' /\ Elements(suspended)' = Elements(suspended) /\ Answered' = Answered
      BY <1>1, <1>2, <3>1, <3>2 DEF Typed, Elements, Answered
    <3>. QED
      BY <1>1, <3>1, <3>2, <3>3, <3>4 DEF IInv, Distinct, Placed
  <2>. QED
    BY <1>8, <1>4, <2>2, <2>3, AskChunkFacts, OpensFacts
<1>. QED
  BY <1>5, <1>6, <1>7, <1>8

LEMMA ResumeKeeps ==
    ASSUME IInv, Resume
    PROVE  IInv'
<1> DEFINE t == Head(suspended)
<1>1. /\ UNCHANGED <<pushing, requested, raced>>
      /\ suspended # <<>> /\ suspended' = Tail(suspended)
  BY DEF Resume
<1>2. /\ Typed /\ Distinct(suspended) /\ suspended \in Seq(Tasks)
      /\ Placement(Handlers, DOMAIN curl, pushing, Elements(suspended), metas, requested,
                   Answered, raced)
  BY DEF IInv, Typed, Placed
<1>3. /\ t \in Elements(suspended) /\ suspended' \in Seq(Tasks) /\ Distinct(suspended')
      /\ Elements(suspended') = Elements(suspended) \ {t}
  BY <1>1, <1>2, PopFacts
<1>4. CASE t \in Requests
  <2> DEFINE u == UrlOf(t)
             queued == Elements(suspended) \ {t}
             joined == [progress[u] EXCEPT !.handlers = @ \cup {t}, !.high = @ \/ Raised(t)]
  <2>1. /\ UNCHANGED <<curl, told>> /\ Answered' = Answered
        /\ \/ metas' = metas \cup {t} /\ progress' = progress
           \/ /\ u \in DOMAIN progress /\ metas' = metas
              /\ progress' = [progress EXCEPT ![u] = joined]
    BY <1>4 DEF Resume, Accept, Answered
  <2>2. Placement(Handlers, DOMAIN curl, pushing, queued, metas \cup {t}, requested, Answered,
                  raced)
    BY <1>2, <1>3, <1>4, MovePlaced
  <2>3. Elements(suspended)' = queued
    BY <1>3 DEF Elements
  <2>4. CASE metas' = metas \cup {t} /\ progress' = progress
    <3>1. Handlers' = Handlers
      BY <2>4 DEF Handlers
    <3>. QED
      BY <1>1, <1>2, <1>3, <2>1, <2>2, <2>3, <2>4, <3>1 DEF IInv, Typed, Placed, Distinct
  <2>5. CASE /\ u \in DOMAIN progress /\ metas' = metas
             /\ progress' = [progress EXCEPT ![u] = joined]
    <3>1. "handlers" \in DOMAIN joined /\ joined.handlers = progress[u].handlers \cup {t}
      BY <1>2, <2>5 DEF Typed
    <3> HIDE DEF joined, queued
    <3>2. /\ DOMAIN progress' = DOMAIN progress /\ progress'[u] = joined
          /\ \A v \in DOMAIN progress \ {u} : progress'[v] = progress[v]
      BY <2>5
    <3>3. Handlers' = With(Handlers, u, Handlers[u] \cup {t})
      BY <2>5, <3>1, <3>2 DEF Handlers, With
    <3>4. t \notin queued /\ t \notin Answered /\ t \notin metas /\ t \in requested
      BY <1>2, <1>3, <1>4 DEF queued, Placement, HandlersPlaced
    <3>5. Placement(With(Handlers, u, Handlers[u] \cup {t}), DOMAIN curl, pushing, queued,
                    (metas \cup {t}) \ {t}, requested \cup {t}, Answered, raced)
      BY <1>4, <2>2, <2>5, <3>4, HandlersFacts, JoinPlaced
    <3>6. (metas \cup {t}) \ {t} = metas' /\ requested \cup {t} = requested'
      BY <1>1, <2>5, <3>4
    <3>7. Typed'
      BY <1>2, <1>3, <2>1, <3>1, <3>2 DEF Typed
    <3>8. Placed'
      BY <1>1, <2>1, <2>3, <3>3, <3>5, <3>6 DEF Placed
    <3>. QED
      BY <1>3, <3>7, <3>8 DEF IInv, Distinct
  <2>. QED
    BY <2>1, <2>4, <2>5
<1>5. CASE t \notin Requests
  <2>1. AskChunk(t, progress[t]) /\ metas' = metas
    BY <1>5 DEF Resume
  <2>2. t \in Urls
    BY <1>2, <1>3, <1>5 DEF Elements, Tasks
  <2>3. t \in DOMAIN progress /\ t \notin pushing
    BY <1>2, <1>3, <2>2, HandlersFacts DEF Placement, LoopsPlaced
  <2>4. CASE Ends(t, progress[t].handlers)
    BY <1>1, <1>3, <2>1, <2>3, <2>4, EndStep
  <2>5. CASE GoesOn(t, progress[t])
    <3>1. "handlers" \in DOMAIN progress[t]
      BY <1>2, <2>3 DEF Typed
    <3>2. /\ \A v \in DOMAIN progress' : "handlers" \in DOMAIN progress'[v]
          /\ told' = told
          /\ Handlers' = Handlers /\ Answered' = Answered
          /\ DOMAIN curl' = DOMAIN curl \cup {t}
      BY <1>2, <2>3, <2>5, <3>1, SameHandlers
    <3>3. Placement(Handlers, DOMAIN curl \cup {t}, pushing, Elements(suspended) \ {t}, metas,
                    requested, Answered, raced)
      BY <1>2, <1>3, <2>2, MovePlaced
    <3>. QED
      BY <1>1, <1>2, <1>3, <2>1, <3>2, <3>3 DEF IInv, Typed, Placed, Distinct, Elements
  <2>. QED
    BY <2>1, <2>4, <2>5, AskChunkFacts
<1>. QED
  BY <1>4, <1>5

\* Steps that touch none of this, but for what the race says.
LEMMA OtherStep ==
    ASSUME IInv, raced => raced',
           UNCHANGED <<metas, progress, curl, pushing, suspended, requested, told>>
    PROVE  IInv'
<1>1. Placement(Handlers, DOMAIN curl, pushing, Elements(suspended), metas, requested,
                Answered, raced')
  BY RacePlaced DEF IInv, Placed
<1>. QED
  BY <1>1 DEF IInv, Typed, Placed, Distinct, Elements, Handlers, Answered

LEMMA CrashKeeps ==
    ASSUME IInv, Crash
    PROVE  IInv'
<1>1. /\ metas' = {} /\ progress' = Nobody /\ curl' = Nobody /\ pushing' = {}
      /\ suspended' = <<>> /\ requested' = {r \in requested : told[r] # <<>>}
      /\ told' = told
  BY DEF Crash
<1>2. DOMAIN progress' = {} /\ DOMAIN curl' = {} /\ DOMAIN Handlers' = {}
  BY <1>1 DEF Nobody, Handlers
<1>3. /\ suspended' \in Seq(Tasks) /\ Distinct(suspended') /\ Elements(suspended)' = {}
  BY <1>1, EmptyFacts DEF Elements
<1>4. requested' \subseteq Requests /\ requested' \subseteq Answered'
  BY <1>1 DEF IInv, Placed, Placement, HandlersPlaced, Answered
<1>5. Placed'
  BY <1>1, <1>2, <1>3, <1>4 DEF Placed, Placement, LoopsPlaced, HandlersPlaced, AskedPlaced
<1>6. Typed'
  BY <1>1, <1>2, <1>3 DEF IInv, Typed
<1>. QED
  BY <1>3, <1>5, <1>6 DEF IInv, Distinct

LEMMA InitHolds == Init => IInv
<1> SUFFICES ASSUME Init PROVE IInv
  OBVIOUS
<1>1. /\ metas = {} /\ progress = Nobody /\ curl = Nobody /\ pushing = {}
      /\ suspended = <<>> /\ requested = {} /\ told = [r \in Requests |-> <<>>]
  BY DEF Init
<1>2. DOMAIN progress = {} /\ DOMAIN curl = {} /\ DOMAIN Handlers = {}
  BY <1>1 DEF Nobody, Handlers
<1>3. suspended \in Seq(Tasks) /\ Distinct(suspended) /\ Elements(suspended) = {}
  BY <1>1, EmptyFacts
<1>4. Placed
  BY <1>1, <1>2, <1>3 DEF Placed, Placement, LoopsPlaced, HandlersPlaced, AskedPlaced
<1>. QED
  BY <1>1, <1>2, <1>3, <1>4 DEF IInv, Typed

LEMMA StepKeeps == IInv /\ [Next]_vars => IInv'
<1> SUFFICES ASSUME IInv, [Next]_vars PROVE IInv'
  OBVIOUS
<1>1. ASSUME NEW r \in Requests, Download(r) PROVE IInv'
  BY <1>1, DownloadKeeps
<1>2. ASSUME NEW r \in Requests, Meta(r) PROVE IInv'
  BY <1>2, MetaFailsKeeps, MetaFoundKeeps, MetaArrivesKeeps DEF Meta
<1>3. ASSUME NEW u \in Urls, Cancel(u) PROVE IInv'
  BY <1>3, CancelKeeps
<1>4. ASSUME NEW u \in Urls, Chunk(u) PROVE IInv'
  BY <1>4, ReceiveKeeps, ChunkDoneKeeps, ChunkFailedKeeps, SuspendKeeps DEF Chunk
<1>5. CASE SaveLocalPath
  BY <1>5, OtherStep DEF SaveLocalPath
<1>6. CASE Resuming
  <2>1. CASE BeginResume
    BY <2>1, OtherStep DEF BeginResume
  <2>2. CASE Resume
    BY <2>2, ResumeKeeps
  <2>3. CASE EndResume
    BY <2>3, OtherStep DEF EndResume
  <2>. QED
    BY <1>6, <2>1, <2>2, <2>3 DEF Resuming
<1>7. CASE Crash
  BY <1>7, CrashKeeps
<1>8. CASE UNCHANGED vars
  BY <1>8, OtherStep DEF vars, memory
<1>. QED
  BY <1>1, <1>2, <1>3, <1>4, <1>5, <1>6, <1>7, <1>8 DEF Next

LEMMA InvariantImplies == IInv => OneLoopOneAnswer
<1> SUFFICES ASSUME IInv PROVE OneLoopOneAnswer
  OBVIOUS
<1>1. /\ Typed /\ Distinct(suspended)
      /\ Placement(Handlers, DOMAIN curl, pushing, Elements(suspended), metas, requested,
                   Answered, raced)
      /\ DOMAIN Handlers = DOMAIN progress
      /\ \A u \in DOMAIN progress : Handlers[u] = progress[u].handlers
  BY HandlersFacts DEF IInv, Placed
<1>2. ASSUME ~raced, NEW u \in Urls
      PROVE  LoopsOf(u) = IF u \in DOMAIN progress THEN 1 ELSE 0
  <2>1. Cardinality({i \in DOMAIN suspended : suspended[i] = u})
        = IF u \in Elements(suspended) THEN 1 ELSE 0
    BY <1>1, CountFacts
  <2>2. /\ u \in DOMAIN progress
           <=> u \in DOMAIN curl \/ u \in pushing \/ u \in Elements(suspended)
        /\ ~(u \in DOMAIN curl /\ u \in pushing)
        /\ ~(u \in DOMAIN curl /\ u \in Elements(suspended))
        /\ ~(u \in pushing /\ u \in Elements(suspended))
    BY <1>1, <1>2 DEF Placement, LoopsPlaced
  <2>. QED
    BY <2>1, <2>2 DEF LoopsOf
<1>3. ASSUME NEW r \in Requests
      PROVE  /\ told[r] = <<>> => Len(told[r]) = 0
             /\ told[r] # <<>> => Len(told[r]) = 1
  <2>1. Len(<<>>) = 0
    OBVIOUS
  <2>. QED
    BY <1>1, <2>1 DEF Typed
<1>4. ASSUME ~raced, NEW r \in Requests, r \in requested
      PROVE  PlacesOf(r) = 1 - Len(told[r])
  <2> DEFINE carrying == {u \in DOMAIN progress : r \in progress[u].handlers}
             queued == {i \in DOMAIN suspended : suspended[i] = r}
  <2>1. Cardinality(queued) = IF r \in Elements(suspended) THEN 1 ELSE 0
    BY <1>1, CountFacts
  <2>2. carrying \subseteq {UrlOf(r)}
    BY <1>1 DEF Placement, HandlersPlaced
  <2>3. Cardinality(carrying) = IF carrying = {} THEN 0 ELSE 1
    <3>1. CASE carrying = {}
      BY <3>1, FS_EmptySet
    <3>2. CASE carrying # {}
      <4>1. carrying = {UrlOf(r)}
        BY <2>2, <3>2
      <4>. QED
        BY <3>2, <4>1, FS_Singleton
    <3>. QED
      BY <3>1, <3>2
  <2>4. ~(r \in metas /\ r \in Elements(suspended))
    BY <1>1 DEF Placement, HandlersPlaced
  <2>5. r \in metas \cup Elements(suspended) => carrying = {}
    BY <1>1 DEF Placement, HandlersPlaced
  <2>6. told[r] = <<>> => r \in metas \/ r \in Elements(suspended) \/ carrying # {}
    BY <1>1, <1>4 DEF Placement, AskedPlaced, Answered
  <2>7. told[r] # <<>> => r \notin metas /\ r \notin Elements(suspended) /\ carrying = {}
    BY <1>1 DEF Placement, HandlersPlaced, Answered
  <2>8. PlacesOf(r) = (IF r \in metas THEN 1 ELSE 0) + Cardinality(queued)
                     + Cardinality(carrying)
    BY DEF PlacesOf
  <2> HIDE DEF queued, carrying
  <2>9. CASE told[r] = <<>>
    <3>1. Len(told[r]) = 0
      BY <1>3, <2>9
    <3>2. PlacesOf(r) = 1
      BY <2>1, <2>3, <2>4, <2>5, <2>6, <2>8, <2>9
    <3>. QED
      BY <3>1, <3>2
  <2>10. CASE told[r] # <<>>
    <3>1. Len(told[r]) = 1
      BY <1>3, <2>10
    <3>2. PlacesOf(r) = 0
      BY <2>1, <2>3, <2>7, <2>8, <2>10
    <3>. QED
      BY <3>1, <3>2
  <2>. QED
    BY <2>9, <2>10
<1>5. ~raced => OneLoop
  BY <1>2 DEF OneLoop
<1>6. ASSUME NEW r \in Requests PROVE Len(told[r]) <= 1
  <2>1. Len(told[r]) \in {0, 1}
    BY <1>3
  <2>2. \A n \in {0, 1} : n <= 1
    OBVIOUS
  <2>. QED
    BY <2>1, <2>2, Zenon
<1>. QED
  BY <1>4, <1>5, <1>6 DEF OneLoopOneAnswer

\* Whatever fails, is cancelled or dies, and however requests for one url meet: a
\* download in progress has one loop, and a request is in one place until its handler
\* is called, once (async_loader's in_progress_, suspended_tasks_ and
\* fire_chunks_callback), unless two threads used suspended_tasks_ at the same time.
THEOREM OneLoopAndOneAnswer == Spec => []OneLoopOneAnswer
<1>1. Init => IInv
  BY InitHolds
<1>2. IInv /\ [Next]_vars => IInv'
  BY StepKeeps
<1>3. IInv => OneLoopOneAnswer
  BY InvariantImplies
<1>. QED
  BY <1>1, <1>2, <1>3, PTL DEF Spec

-----------------------------------------------------------------------------
(* What the temporary files hold. *)

Words == (Urls \cup {None}) \X Nat

From(w, u) == \A i \in DOMAIN w : w[i][1] = u

\* Words of u only, and not too many, are the beginning of its file.
Begins(w, u) ==
    From(w, u) /\ Len(w) <= Size(u) => \A i \in 1..Len(w) : w[i] = <<u, i>>

IsChunks(c, u) ==
    /\ {"path", "downloaded"} \subseteq DOMAIN c
    /\ c.downloaded \in Nat /\ c.downloaded < Size(u)

\* A request asks for what is left, at most.
IsAsked(x, c, u) ==
    x.words \in Nat /\ (x.stage = "asked" => c.downloaded + x.words <= Size(u))

\* The words that count as downloaded, those of an answer that has come included.
Written(x, c) == c.downloaded + IF x.stage = "done" THEN x.words ELSE 0

Shared(pr, mx) ==
    \A u, v \in DOMAIN pr : u # v /\ pr[u].path = pr[v].path => pr[u].path \in mx

\* The temporary file of a running request holds what was counted.
Counted(pr, cu, t, bad) ==
    \A u \in DOMAIN cu :
        cu[u].stage \in {"asked", "done"} /\ pr[u].path \in Paths \ bad =>
            /\ From(t[pr[u].path], u)
            /\ Len(t[pr[u].path]) = Written(cu[u], pr[u])

FileState(pr, cu, t, bad, mx) ==
    /\ mx \subseteq bad /\ t \in [Paths -> Seq(Words)]
    /\ DOMAIN pr \subseteq Urls /\ DOMAIN cu \subseteq DOMAIN pr
    /\ \A u \in DOMAIN pr : IsChunks(pr[u], u)
    /\ \A u \in DOMAIN cu : IsAsked(cu[u], pr[u], u)
    /\ Shared(pr, mx)
    /\ \A p \in Paths \ bad : \A u \in Urls : Begins(t[p], u)
    /\ Counted(pr, cu, t, bad)

LEMMA SizeFacts == \A u \in Urls : Size(u) \in Nat /\ Size(u) > 0
  BY UrlsAssumption

LEMMA EmptyWords ==
    /\ <<>> \in Seq(Words) /\ Len(<<>>) = 0
    /\ \A u : From(<<>>, u) /\ Begins(<<>>, u)
<1>1. <<>> \in Seq(Words) /\ Len(<<>>) = 0 /\ DOMAIN <<>> = {}
  OBVIOUS
<1>2. \A i \in 1..Len(<<>>) : FALSE
  BY <1>1
<1>. QED
  BY <1>1, <1>2 DEF From, Begins

\* A download ends.
LEMMA EndState ==
    ASSUME NEW pr, NEW cu, NEW t, NEW bad, NEW mx, FileState(pr, cu, t, bad, mx), NEW u
    PROVE  FileState(Without(pr, u), Without(cu, u), t, bad, mx)
<1> DEFINE pr2 == Without(pr, u)
           cu2 == Without(cu, u)
<1>1. /\ DOMAIN pr2 = DOMAIN pr \ {u} /\ \A v \in DOMAIN pr2 : pr2[v] = pr[v]
      /\ DOMAIN cu2 = DOMAIN cu \ {u} /\ \A v \in DOMAIN cu2 : cu2[v] = cu[v]
  BY DEF Without
<1> HIDE DEF pr2, cu2
<1>2. Shared(pr2, mx)
  BY <1>1 DEF FileState, Shared
<1>3. Counted(pr2, cu2, t, bad)
  BY <1>1 DEF FileState, Counted
<1>4. FileState(pr2, cu2, t, bad, mx)
  BY <1>1, <1>2, <1>3 DEF FileState
<1>. QED
  BY <1>4 DEF pr2, cu2

\* A request is over.
LEMMA OverState ==
    ASSUME NEW pr, NEW cu, NEW t, NEW bad, NEW mx, FileState(pr, cu, t, bad, mx), NEW u
    PROVE  FileState(pr, Without(cu, u), t, bad, mx)
<1> DEFINE cu2 == Without(cu, u)
<1>1. DOMAIN cu2 = DOMAIN cu \ {u} /\ \A v \in DOMAIN cu2 : cu2[v] = cu[v]
  BY DEF Without
<1> HIDE DEF cu2
<1>3. Counted(pr, cu2, t, bad)
  BY <1>1 DEF FileState, Counted
<1>4. FileState(pr, cu2, t, bad, mx)
  BY <1>1, <1>3 DEF FileState
<1>. QED
  BY <1>4 DEF cu2

\* A temporary file that nobody writes, or two do, is emptied.
LEMMA EmptyState ==
    ASSUME NEW pr, NEW cu, NEW t, NEW bad, NEW mx, FileState(pr, cu, t, bad, mx), NEW p,
           NEW bad2, NEW mx2, mx \subseteq mx2, mx2 \subseteq bad2, bad \ {p} \subseteq bad2,
           \A v \in DOMAIN cu : pr[v].path = p => p \in mx2
    PROVE  FileState(pr, cu, [t EXCEPT ![p] = <<>>], bad2, mx2)
<1> DEFINE t2 == [t EXCEPT ![p] = <<>>]
<1>1. /\ t2 \in [Paths -> Seq(Words)]
      /\ \A q \in Paths \ {p} : t2[q] = t[q]
      /\ p \in Paths => t2[p] = <<>>
  BY EmptyWords DEF FileState
<1> HIDE DEF t2
<1>2. Shared(pr, mx2)
  BY DEF FileState, Shared
<1>3. ASSUME NEW q \in Paths \ bad2, NEW u \in Urls PROVE Begins(t2[q], u)
  BY <1>1, EmptyWords DEF FileState
<1>4. Counted(pr, cu, t2, bad2)
  BY <1>1 DEF FileState, Counted
<1>5. FileState(pr, cu, t2, bad2, mx2)
  BY <1>1, <1>2, <1>3, <1>4 DEF FileState
<1>. QED
  BY <1>5 DEF t2

\* What is said of a download that is not about its file changes.
LEMMA SameChunks ==
    ASSUME NEW pr, NEW cu, NEW t, NEW bad, NEW mx, FileState(pr, cu, t, bad, mx),
           NEW pr2, DOMAIN pr2 = DOMAIN pr,
           \A v \in DOMAIN pr : /\ IsChunks(pr2[v], v) /\ pr2[v].path = pr[v].path
                                /\ pr2[v].downloaded = pr[v].downloaded
    PROVE  FileState(pr2, cu, t, bad, mx)
<1>1. Shared(pr2, mx)
  BY DEF FileState, Shared
<1>2. Counted(pr2, cu, t, bad)
  BY DEF FileState, Counted, Written
<1>3. \A u \in DOMAIN cu : IsAsked(cu[u], pr2[u], u)
  BY DEF FileState, IsAsked
<1>. QED
  BY <1>1, <1>2, <1>3 DEF FileState

LEMMA MoreBad ==
    ASSUME NEW pr, NEW cu, NEW t, NEW bad, NEW mx, FileState(pr, cu, t, bad, mx),
           NEW bad2, NEW mx2, mx \subseteq mx2, mx2 \subseteq bad2, bad \subseteq bad2
    PROVE  FileState(pr, cu, t, bad2, mx2)
<1>1. Shared(pr, mx2)
  BY DEF FileState, Shared
<1>2. Counted(pr, cu, t, bad2)
  BY DEF FileState, Counted
<1>. QED
  BY <1>1, <1>2 DEF FileState

LEMMA ConcatFacts ==
    ASSUME NEW w \in Seq(Words), NEW x \in Seq(Words)
    PROVE  /\ w \o x \in Seq(Words) /\ Len(w \o x) = Len(w) + Len(x)
           /\ Len(w) \in Nat /\ Len(x) \in Nat
           /\ DOMAIN w = 1..Len(w) /\ DOMAIN x = 1..Len(x)
           /\ DOMAIN (w \o x) = 1..(Len(w) + Len(x))
           /\ \A i \in 1..Len(w) : (w \o x)[i] = w[i]
           /\ \A i \in 1..Len(x) : (w \o x)[Len(w) + i] = x[i]
<1>1. \A i \in 1..Len(x) : Len(w) + i > Len(w) /\ Len(w) + i - Len(w) = i
  OBVIOUS
<1>. QED
  BY <1>1

\* The answer to a request continues the file.
LEMMA NextWords ==
    ASSUME NEW u \in Urls, NEW w \in Seq(Words), From(w, u), Begins(w, u),
           NEW x \in Seq(Words), From(x, u),
           \/ \A i \in 1..Len(x) : x[i] = <<u, Len(w) + i>>
           \/ w # <<>> /\ Len(x) = Size(u)
    PROVE  /\ From(w \o x, u)
           /\ \A v \in Urls : Begins(w \o x, v)
<1> DEFINE r == w \o x
<1>1. /\ r \in Seq(Words) /\ Len(r) = Len(w) + Len(x)
      /\ Len(w) \in Nat /\ Len(x) \in Nat
      /\ DOMAIN w = 1..Len(w) /\ DOMAIN x = 1..Len(x)
      /\ DOMAIN r = 1..(Len(w) + Len(x))
      /\ \A i \in 1..Len(w) : r[i] = w[i]
      /\ \A i \in 1..Len(x) : r[Len(w) + i] = x[i]
  BY ConcatFacts
<1>2. w # <<>> => Len(w) > 0
  OBVIOUS
<1> HIDE DEF r
<1>3. ASSUME NEW i \in DOMAIN r
      PROVE  i \in DOMAIN w \/ (i - Len(w) \in DOMAIN x /\ r[i] = x[i - Len(w)])
  <2>1. CASE i <= Len(w)
    BY <1>1, <2>1
  <2>2. CASE i > Len(w)
    <3>1. i - Len(w) \in 1..Len(x) /\ Len(w) + (i - Len(w)) = i
      BY <1>1, <2>2
    <3>. QED
      BY <1>1, <3>1
  <2>. QED
    BY <1>1, <2>1, <2>2
<1>4. From(r, u)
  BY <1>1, <1>3 DEF From
<1>5. Begins(r, u)
  <2>1. CASE \A i \in 1..Len(x) : x[i] = <<u, Len(w) + i>>
    <3>1. ASSUME Len(r) <= Size(u), NEW i \in 1..Len(r) PROVE r[i] = <<u, i>>
      <4>1. Len(w) <= Size(u)
        BY <1>1, <3>1, SizeFacts
      <4>2. CASE i \in DOMAIN w
        BY <1>1, <4>1, <4>2 DEF Begins
      <4>3. CASE i - Len(w) \in DOMAIN x /\ r[i] = x[i - Len(w)]
        <5>1. x[i - Len(w)] = <<u, Len(w) + (i - Len(w))>>
          BY <1>1, <2>1, <4>3
        <5>2. Len(w) + (i - Len(w)) = i
          BY <1>1
        <5>. QED
          BY <4>3, <5>1, <5>2
      <4>. QED
        BY <1>1, <1>3, <4>2, <4>3
    <3>. QED
      BY <3>1 DEF Begins
  <2>2. CASE w # <<>> /\ Len(x) = Size(u)
    <3>1. Len(r) > Size(u)
      BY <1>1, <1>2, <2>2, SizeFacts
    <3>2. ~(Len(r) <= Size(u))
      BY <1>1, <3>1, SizeFacts
    <3>. QED
      BY <3>2 DEF Begins
  <2>. QED
    BY <2>1, <2>2
<1>6. ASSUME NEW v \in Urls, v # u, From(r, v) PROVE \A i \in 1..Len(r) : r[i] = <<v, i>>
  <2>1. \A i \in DOMAIN r : r[i][1] = u /\ r[i][1] = v
    BY <1>4, <1>6 DEF From
  <2>2. \A i \in 1..Len(r) : FALSE
    BY <1>1, <1>6, <2>1
  <2>. QED
    BY <2>2
<1>7. \A v \in Urls : Begins(r, v)
  BY <1>5, <1>6 DEF Begins
<1>. QED
  BY <1>4, <1>7 DEF r

\* What a thread of curl writes.
LEMMA WriteState ==
    ASSUME NEW pr, NEW cu, NEW t, NEW bad, NEW mx, FileState(pr, cu, t, bad, mx),
           NEW u \in DOMAIN cu, NEW x \in Seq(Words), NEW stage, stage # "asked",
           NEW bad2, bad \subseteq bad2,
           pr[u].path \in Paths \ bad2 =>
               /\ From(t[pr[u].path] \o x, u)
               /\ \A v \in Urls : Begins(t[pr[u].path] \o x, v)
               /\ stage = "done" => Len(t[pr[u].path]) = pr[u].downloaded
    PROVE  FileState(pr, With(cu, u, [stage |-> stage, words |-> Len(x)]),
                     [t EXCEPT ![pr[u].path] = @ \o x], bad2, mx)
<1> DEFINE p == pr[u].path
           y == [stage |-> stage, words |-> Len(x)]
           cu2 == With(cu, u, y)
           t2 == [t EXCEPT ![p] = @ \o x]
<1>0. y.stage = stage /\ y.words = Len(x) /\ Len(x) \in Nat
  OBVIOUS
<1>1. /\ DOMAIN cu2 = DOMAIN cu /\ cu2[u] = y
      /\ \A v \in DOMAIN cu \ {u} : cu2[v] = cu[v]
  BY DEF With
<1>2. ASSUME p \in Paths PROVE t[p] \in Seq(Words) /\ t[p] \o x \in Seq(Words)
  BY <1>2, ConcatFacts DEF FileState
<1>3. /\ t2 \in [Paths -> Seq(Words)]
      /\ \A q \in Paths \ {p} : t2[q] = t[q]
      /\ p \in Paths => t2[p] = t[p] \o x
  BY <1>2 DEF FileState
<1> HIDE DEF y, cu2, t2
<1>4. \A v \in DOMAIN cu2 : IsAsked(cu2[v], pr[v], v)
  BY <1>0, <1>1 DEF FileState, IsAsked
<1>5. ASSUME NEW q \in Paths \ bad2, NEW v \in Urls PROVE Begins(t2[q], v)
  BY <1>3 DEF FileState
<1>6. ASSUME NEW v \in DOMAIN cu2, cu2[v].stage \in {"asked", "done"},
             pr[v].path \in Paths \ bad2
      PROVE  /\ From(t2[pr[v].path], v)
             /\ Len(t2[pr[v].path]) = Written(cu2[v], pr[v])
  <2>1. CASE v = u
    <3>1. stage = "done" /\ Len(t[p]) = pr[u].downloaded /\ t2[p] = t[p] \o x
      BY <1>0, <1>1, <1>3, <1>6, <2>1
    <3>2. Len(t2[p]) = Len(t[p]) + Len(x)
      BY <1>2, <1>6, <2>1, <3>1, ConcatFacts
    <3>. QED
      BY <1>0, <1>1, <1>6, <2>1, <3>1, <3>2 DEF Written
  <2>2. CASE v # u
    <3>1. v \in DOMAIN pr /\ u \in DOMAIN pr /\ v \in DOMAIN cu /\ cu2[v] = cu[v]
      BY <1>1, <2>2 DEF FileState
    <3>2. pr[v].path # p
      BY <1>6, <2>2, <3>1 DEF FileState, Shared
    <3>3. t2[pr[v].path] = t[pr[v].path]
      BY <1>3, <1>6, <3>2
    <3>. QED
      BY <1>6, <3>1, <3>3 DEF FileState, Counted
  <2>. QED
    BY <2>1, <2>2
<1>7. Counted(pr, cu2, t2, bad2)
  BY <1>6 DEF Counted
<1>8. FileState(pr, cu2, t2, bad2, mx)
  BY <1>1, <1>3, <1>4, <1>5, <1>7 DEF FileState
<1>. QED
  BY <1>8 DEF cu2, t2, y

\* The next chunk is asked for.
LEMMA AskState ==
    ASSUME NEW pr, NEW cu, NEW t, NEW bad, NEW mx, FileState(pr, cu, t, bad, mx),
           NEW u \in Urls, NEW c, IsChunks(c, u),
           u \in DOMAIN pr => pr[u].path = c.path,
           NEW x, IsAsked(x, c, u), x.stage = "asked",
           NEW t2, t2 = [t EXCEPT ![c.path] = IF c.downloaded = 0 THEN <<>> ELSE @],
           NEW bad2, NEW mx2, mx \subseteq mx2, mx2 \subseteq bad2,
           bad \ {c.path} \subseteq bad2,
           c.path \notin bad2 =>
               /\ \A v \in DOMAIN pr \ {u} : pr[v].path # c.path
               /\ c.downloaded # 0 => /\ c.path \notin bad /\ From(t[c.path], u)
                                      /\ c.downloaded = Len(t[c.path]),
           \A v \in DOMAIN pr \ {u} : pr[v].path = c.path => c.path \in mx2
    PROVE  FileState(With(pr, u, c), With(cu, u, x), t2, bad2, mx2)
<1> DEFINE p == c.path
           pr2 == With(pr, u, c)
           cu2 == With(cu, u, x)
<1>1. /\ DOMAIN cu2 = DOMAIN cu \cup {u} /\ cu2[u] = x
      /\ \A v \in DOMAIN cu \ {u} : cu2[v] = cu[v]
      /\ DOMAIN pr2 = DOMAIN pr \cup {u} /\ pr2[u] = c
      /\ \A v \in DOMAIN pr \ {u} : pr2[v] = pr[v]
  BY DEF With
<1>3. /\ t2 \in [Paths -> Seq(Words)]
      /\ \A q \in Paths \ {p} : t2[q] = t[q]
      /\ p \in Paths => t2[p] = IF c.downloaded = 0 THEN <<>> ELSE t[p]
  BY EmptyWords DEF FileState
<1> HIDE DEF cu2, pr2, p
<1>4. \A v \in DOMAIN cu2 : IsAsked(cu2[v], pr2[v], v)
  BY <1>1 DEF FileState
<1>5. ASSUME NEW q \in Paths \ bad2, NEW v \in Urls PROVE Begins(t2[q], v)
  BY <1>3, EmptyWords DEF FileState, p
<1>6. ASSUME NEW v \in DOMAIN cu2, cu2[v].stage \in {"asked", "done"},
             pr2[v].path \in Paths \ bad2
      PROVE  /\ From(t2[pr2[v].path], v)
             /\ Len(t2[pr2[v].path]) = Written(cu2[v], pr2[v])
  <2>1. CASE v = u
    <3>1. Written(cu2[v], pr2[v]) = c.downloaded
      BY <1>1, <2>1 DEF Written, IsChunks
    <3>. QED
      BY <1>1, <1>3, <1>6, <2>1, <3>1, EmptyWords DEF p
  <2>2. CASE v # u
    <3>1. v \in DOMAIN pr /\ v \in DOMAIN cu /\ cu2[v] = cu[v] /\ pr2[v] = pr[v]
      BY <1>1, <2>2 DEF FileState
    <3>2. pr[v].path # p
      BY <1>6, <2>2, <3>1 DEF p
    <3>3. t2[pr[v].path] = t[pr[v].path] /\ pr[v].path \in Paths \ bad
      BY <1>3, <1>6, <3>1, <3>2 DEF p
    <3>. QED
      BY <1>6, <3>1, <3>3 DEF FileState, Counted
  <2>. QED
    BY <2>1, <2>2
<1>7. Counted(pr2, cu2, t2, bad2)
  BY <1>6 DEF Counted
<1>8. Shared(pr2, mx2)
  <2>1. ASSUME NEW v \in DOMAIN pr2, NEW w \in DOMAIN pr2, v # w, pr2[v].path = pr2[w].path
        PROVE  pr2[v].path \in mx2
    <3>1. CASE v # u /\ w # u
      BY <1>1, <2>1, <3>1 DEF FileState, Shared
    <3>2. CASE v = u \/ w = u
      BY <1>1, <2>1, <3>2 DEF p
    <3>. QED
      BY <3>1, <3>2
  <2>. QED
    BY <2>1 DEF Shared
<1>9. FileState(pr2, cu2, t2, bad2, mx2)
  BY <1>1, <1>3, <1>4, <1>5, <1>7, <1>8 DEF FileState
<1>. QED
  BY <1>9 DEF cu2, pr2

-----------------------------------------------------------------------------
(* The invariant of the files. *)

Bad == spoiled \cup mixed

FInv ==
    /\ FileState(progress, curl, tmp, Bad, mixed)
    /\ DOMAIN file = Paths
    /\ FileIsWhole

LEMMA NotForeign == \A p, u : Foreign(p, u) <=> ~From(tmp[p], u)
  BY DEF Foreign, From

\* A complete temporary file is moved.
LEMMA MovedIsWhole ==
    ASSUME FInv, NEW u \in Urls, NEW p,
           p \in Paths \ Bad => Len(tmp[p]) = Size(u),
           file' = [file EXCEPT ![p] = Moved(p, u)]
    PROVE  DOMAIN file' = Paths /\ FileIsWhole'
<1> DEFINE m == Moved(p, u)
<1>1. /\ m.words = tmp[p] /\ m.url = u
      /\ m.bad = (p \in Bad \/ Foreign(p, u))
  BY DEF Moved, Bad
<1>2. ASSUME p \in Paths, ~m.bad PROVE m.words = Whole(u)
  <2>1. /\ tmp[p] \in Seq(Words) /\ Len(tmp[p]) = Size(u) /\ Begins(tmp[p], u)
        /\ From(tmp[p], u)
    BY <1>1, <1>2, NotForeign DEF FInv, FileState
  <2>2. Len(tmp[p]) <= Size(u)
    BY <2>1, SizeFacts
  <2>3. \A i \in 1..Size(u) : tmp[p][i] = <<u, i>>
    BY <2>1, <2>2 DEF Begins
  <2>4. tmp[p] = [i \in 1..Size(u) |-> tmp[p][i]]
    BY <2>1
  <2>. QED
    BY <1>1, <2>3, <2>4 DEF Whole
<1> HIDE DEF m
<1>3. /\ DOMAIN file' = Paths /\ \A q \in Paths \ {p} : file'[q] = file[q]
      /\ p \in Paths => file'[p] = m
  BY DEF FInv, m
<1>4. \A q \in Paths : file'[q] # None =>
                          file'[q].bad \/ file'[q].words = Whole(file'[q].url)
  BY <1>1, <1>2, <1>3 DEF FInv, FileIsWhole
<1>. QED
  BY <1>3, <1>4 DEF FileIsWhole

\* A file is deleted, or copied to another place.
LEMMA CopiedIsWhole ==
    ASSUME FInv, NEW p, NEW x, x = None \/ \E q \in Paths : x = file[q],
           file' = [file EXCEPT ![p] = x]
    PROVE  DOMAIN file' = Paths /\ FileIsWhole'
<1>3. /\ DOMAIN file' = Paths /\ \A q \in Paths \ {p} : file'[q] = file[q]
      /\ p \in Paths => file'[p] = x
  BY DEF FInv
<1>4. \A q \in Paths : file'[q] # None =>
                          file'[q].bad \/ file'[q].words = Whole(file'[q].url)
  BY <1>3 DEF FInv, FileIsWhole
<1>. QED
  BY <1>3, <1>4 DEF FileIsWhole

LEMMA SameFiles ==
    ASSUME FInv, file' = file
    PROVE  DOMAIN file' = Paths /\ FileIsWhole'
  BY DEF FInv, FileIsWhole

\* What is left of a download that ends, its temporary file emptied.
LEMMA EndEmptied ==
    ASSUME FInv, NEW u \in DOMAIN progress, TmpBecomes(progress[u].path, <<>>),
           mixed' = mixed, progress' = Without(progress, u), curl' = Without(curl, u)
    PROVE  FileState(progress', curl', tmp', Bad', mixed')
<1> DEFINE p == progress[u].path
<1>1. FileState(progress', curl', tmp, Bad, mixed)
  BY EndState DEF FInv
<1>2. tmp' = [tmp EXCEPT ![p] = <<>>] /\ spoiled' = spoiled \ {p}
  BY DEF TmpBecomes
<1>3. \A v \in DOMAIN curl' : v \in DOMAIN progress \ {u} /\ progress'[v] = progress[v]
  BY <1>1 DEF FileState, Without
<1>4. \A v \in DOMAIN curl' : progress'[v].path = p => p \in mixed
  BY <1>3 DEF FInv, FileState, Shared
<1>5. mixed \subseteq Bad' /\ Bad \ {p} \subseteq Bad'
  BY <1>2 DEF Bad
<1>. QED
  BY <1>1, <1>2, <1>4, <1>5, EmptyState

LEMMA AskedFacts ==
    ASSUME NEW u \in Urls, NEW c, IsChunks(c, u)
    PROVE  Asked(c, u) \in Nat /\ c.downloaded + Asked(c, u) <= Size(u)
<1> DEFINE left == Size(u) - c.downloaded
           size == IF c.high \/ left < MaxChunk THEN left ELSE MaxChunk
<1>1. Size(u) \in Nat /\ c.downloaded \in Nat /\ left \in Nat /\ left > 0 /\ MaxChunk \in Nat
  BY SizeFacts, BoundsAssumption DEF IsChunks
<1>2. size \in Nat
  BY <1>1
<1> HIDE DEF size
<1>3. Asked(c, u) = IF size + 1 < left THEN size + 1 ELSE left
  BY DEF Asked, size
<1>. QED
  BY <1>1, <1>2, <1>3

\* download_file_sharing_impl.
LEMMA AskChunkState ==
    ASSUME FInv, NEW u \in Urls, NEW c, IsChunks(c, u), AskChunk(u, c),
           u \in DOMAIN progress => progress[u].path = c.path,
           c.cancel => u \in DOMAIN progress
    PROVE  FileState(progress', curl', tmp', Bad', mixed')
<1> DEFINE p == c.path
<1>1. CASE c.cancel
  BY <1>1, EndEmptied DEF AskChunk
<1>2. CASE /\ progress' = Without(progress, u) /\ curl' = Without(curl, u)
           /\ UNCHANGED <<tmp, spoiled, mixed>>
  BY <1>2, EndState DEF FInv, Bad
<1>3. CASE /\ curl' = With(curl, u, [stage |-> "asked", words |-> Asked(c, u)])
           /\ progress' = With(progress, u, c)
           /\ tmp' = [tmp EXCEPT ![p] = IF c.downloaded = 0 THEN <<>> ELSE @]
           /\ spoiled' = CASE c.downloaded = 0 -> spoiled \ {p}
                           [] c.downloaded = Len(tmp[p]) -> spoiled
                           [] OTHER -> spoiled \cup {p}
           /\ mixed' = IF Others(u, p) = {} /\ ~Foreign(p, u) THEN mixed ELSE mixed \cup {p}
  <2> DEFINE x == [stage |-> "asked", words |-> Asked(c, u)]
  <2>1. IsAsked(x, c, u) /\ x.stage = "asked"
    BY AskedFacts DEF IsAsked
  <2> HIDE DEF x
  <2>2. mixed \subseteq mixed' /\ mixed' \subseteq Bad' /\ Bad \ {p} \subseteq Bad'
    BY <1>3 DEF Bad
  <2>3. \A v \in DOMAIN progress \ {u} : progress[v].path = p => p \in mixed'
    BY <1>3 DEF Others
  <2>4. ASSUME p \notin Bad'
        PROVE  /\ \A v \in DOMAIN progress \ {u} : progress[v].path # p
               /\ c.downloaded # 0 => /\ p \notin Bad /\ From(tmp[p], u)
                                      /\ c.downloaded = Len(tmp[p])
    <3>1. p \notin mixed' /\ p \notin spoiled'
      BY <2>4 DEF Bad
    <3>2. Others(u, p) = {} /\ ~Foreign(p, u) /\ p \notin mixed
      BY <1>3, <3>1
    <3>3. c.downloaded # 0 => c.downloaded = Len(tmp[p]) /\ p \notin spoiled
      BY <1>3, <3>1
    <3>. QED
      BY <2>3, <3>1, <3>2, <3>3, NotForeign DEF Bad
  <2>5. FileState(progress, curl, tmp, Bad, mixed)
    BY DEF FInv
  <2>. QED
    BY <1>3, <2>1, <2>2, <2>3, <2>4, <2>5, AskState DEF x
<1>. QED
  BY <1>1, <1>2, <1>3 DEF AskChunk, Opens, OpenFails

-----------------------------------------------------------------------------
(* Every step keeps it. *)

LEMMA PairIsWord == \A u \in Urls \cup {None}, n \in Nat : <<u, n>> \in Words
  BY DEF Words

\* What a server sends of the file of u.
LEMMA PartWords ==
    ASSUME NEW u \in Urls, NEW k \in Nat, NEW n \in Nat, k + n <= Size(u)
    PROVE  /\ Part(u, k, n) \in Seq(Words) /\ Len(Part(u, k, n)) = n
           /\ \A i \in 1..n : Part(u, k, n)[i] = <<u, k + i>>
<1> DEFINE x == Part(u, k, n)
<1>1. \A i \in 1..n : k + i \in 1..Size(u) /\ k + i \in Nat
  BY SizeFacts
<1>2. \A i \in 1..n : x[i] = <<u, k + i>>
  BY <1>1 DEF Part, Whole
<1>3. \A i \in 1..n : x[i] \in Words
  BY <1>1, <1>2, PairIsWord
<1>4. x = [i \in 1..n |-> x[i]]
  BY DEF Part
<1> HIDE DEF x
<1>5. x \in Seq(Words) /\ Len(x) = n
  BY <1>3, <1>4
<1>. QED
  BY <1>2, <1>5 DEF x

LEMMA WholeWords ==
    ASSUME NEW u \in Urls
    PROVE  /\ Whole(u) \in Seq(Words) /\ Len(Whole(u)) = Size(u)
           /\ \A i \in 1..Size(u) : Whole(u)[i] = <<u, i>>
<1>1. 0 \in Nat /\ Size(u) \in Nat /\ 0 + Size(u) <= Size(u)
  BY SizeFacts
<1>2. \A i \in 1..Size(u) : 0 + i = i
  BY <1>1
<1>3. Whole(u) = [i \in 1..Size(u) |-> Whole(u)[i]]
  BY DEF Whole
<1>4. Part(u, 0, Size(u)) = Whole(u)
  BY <1>2, <1>3 DEF Part
<1>. QED
  BY <1>1, <1>2, <1>4, PartWords

\* Whatever comes is the file, or follows the words that are counted, or the place is
\* marked.
LEMMA ReceivedState ==
    ASSUME FInv, NEW u \in DOMAIN curl, curl[u].stage = "asked", NEW x \in Seq(Words),
           NEW stage, Received(u, x, stage), UNCHANGED <<progress, mixed>>,
           stage # "asked", x = Whole(u) \/ InLine(u, x) \/ stage # "done"
    PROVE  FileState(progress', curl', tmp', Bad', mixed')
<1> DEFINE p == progress[u].path
<1>1. /\ FileState(progress, curl, tmp, Bad, mixed)
      /\ u \in DOMAIN progress /\ u \in Urls /\ IsChunks(progress[u], u)
      /\ progress[u].downloaded \in Nat
  BY DEF FInv, FileState, IsChunks
<1>2. /\ Bad \subseteq Bad'
      /\ p \in Bad' \/ x = Whole(u) \/ InLine(u, x)
  BY DEF Received, Bad
<1>3. DOMAIN x = 1..Len(x)
  OBVIOUS
<1>7. ASSUME p \in Paths \ Bad'
      PROVE  /\ From(tmp[p] \o x, u)
             /\ \A v \in Urls : Begins(tmp[p] \o x, v)
             /\ Len(tmp[p]) = progress[u].downloaded
  <2>1. /\ p \in Paths \ Bad /\ tmp[p] \in Seq(Words)
        /\ From(tmp[p], u) /\ Len(tmp[p]) = Written(curl[u], progress[u])
        /\ Begins(tmp[p], u)
    BY <1>1, <1>2, <1>7 DEF FileState, Counted
  <2>2. Len(tmp[p]) = progress[u].downloaded
    BY <1>1, <2>1 DEF Written
  <2>3. CASE InLine(u, x)
    <3>1. \A i \in 1..Len(x) : x[i] = <<u, Len(tmp[p]) + i>>
      BY <1>3, <2>2, <2>3 DEF InLine
    <3>2. From(x, u)
      BY <1>3, <3>1 DEF From
    <3>. QED
      BY <1>1, <2>1, <2>2, <3>1, <3>2, NextWords
  <2>4. CASE x = Whole(u)
    <3>1. Len(x) = Size(u) /\ \A i \in 1..Len(x) : x[i] = <<u, i>>
      BY <1>1, <2>4, WholeWords
    <3>2. From(x, u)
      BY <1>3, <3>1 DEF From
    <3>3. tmp[p] = <<>> => \A i \in 1..Len(x) : x[i] = <<u, Len(tmp[p]) + i>>
      BY <3>1, EmptyWords
    <3>. QED
      BY <1>1, <2>1, <2>2, <3>1, <3>2, <3>3, NextWords
  <2>. QED
    BY <1>2, <1>7, <2>3, <2>4
<1>8. /\ tmp' = [tmp EXCEPT ![p] = @ \o x]
      /\ curl' = With(curl, u, [stage |-> stage, words |-> Len(x)])
  BY DEF Received
<1>. QED
  BY <1>1, <1>2, <1>7, <1>8, WriteState

LEMMA ReceiveFiles ==
    ASSUME FInv, NEW u \in Urls, Receive(u)
    PROVE  FInv'
<1> DEFINE k == progress[u].downloaded
           w == curl[u].words
<1>1. /\ u \in DOMAIN curl /\ curl[u].stage = "asked" /\ UNCHANGED <<progress, mixed>>
      /\ file' = file
  BY DEF Receive
<1>2. w \in Nat /\ k \in Nat /\ k + w <= Size(u) /\ Size(u) \in Nat
  BY <1>1, SizeFacts DEF FInv, FileState, IsAsked, IsChunks
<1>3. ASSUME NEW n \in 0..w
      PROVE  Part(u, k, n) \in Seq(Words) /\ InLine(u, Part(u, k, n))
  <2>1. n \in Nat /\ k + n <= Size(u)
    BY <1>2
  <2>2. /\ Part(u, k, n) \in Seq(Words) /\ Len(Part(u, k, n)) = n
        /\ \A i \in 1..n : Part(u, k, n)[i] = <<u, k + i>>
    BY <1>2, <2>1, PartWords
  <2>3. DOMAIN Part(u, k, n) = 1..n
    BY DEF Part
  <2>. QED
    BY <2>2, <2>3 DEF InLine
<1>4. ASSUME NEW n \in 1..(Size(u) - 1) PROVE Part(u, 0, n) \in Seq(Words)
  <2>1. 0 \in Nat /\ n \in Nat /\ 0 + n <= Size(u)
    BY <1>2
  <2>. QED
    BY <2>1, PartWords
<1>5. <<Junk>> \in Seq(Words)
  <2>1. Junk \in Words
    BY PairIsWord DEF Junk
  <2>. QED
    BY <2>1
<1>6. \E x \in Seq(Words) : \E stage :
        /\ Received(u, x, stage) /\ stage # "asked"
        /\ x = Whole(u) \/ InLine(u, x) \/ stage # "done"
  <2>1. CASE Received(u, Part(u, k, w), "done")
    <3>1. w \in 0..w
      BY <1>2
    <3>. QED
      BY <1>3, <2>1, <3>1
  <2>2. CASE Received(u, Whole(u), "done")
    BY <2>2, WholeWords
  <2>3. CASE \E stage \in {"failed", "gone"} : Received(u, <<Junk>>, stage)
    BY <1>5, <2>3
  <2>4. CASE \E n \in 0..(w - 1) : Received(u, Part(u, k, n), "failed")
    <3>1. \A n \in 0..(w - 1) : n \in 0..w
      BY <1>2
    <3>. QED
      BY <1>3, <2>4, <3>1
  <2>5. CASE \E n \in 1..(Size(u) - 1) : Received(u, Part(u, 0, n), "failed")
    BY <1>4, <2>5
  <2>. QED
    BY <2>1, <2>2, <2>3, <2>4, <2>5 DEF Receive
<1>7. FileState(progress', curl', tmp', Bad', mixed')
  BY <1>1, <1>6, ReceivedState
<1>. QED
  BY <1>1, <1>7, SameFiles DEF FInv

LEMMA ChunkDoneFiles ==
    ASSUME FInv, NEW u \in Urls, ChunkDone(u)
    PROVE  FInv'
<1> DEFINE c == [progress[u] EXCEPT !.downloaded = @ + curl[u].words]
           p == progress[u].path
<1>1. /\ u \in DOMAIN curl /\ u \in DOMAIN progress /\ curl[u].stage = "done"
      /\ FileState(progress, curl, tmp, Bad, mixed)
      /\ IsChunks(progress[u], u) /\ curl[u].words \in Nat
  BY DEF ChunkDone, FInv, FileState, IsAsked
<1>2. /\ c.path = p /\ c.downloaded = progress[u].downloaded + curl[u].words
      /\ {"path", "downloaded"} \subseteq DOMAIN c /\ c.downloaded \in Nat
  BY <1>1 DEF IsChunks
<1>3. ASSUME c.downloaded = Size(u), p \in Paths \ Bad PROVE Len(tmp[p]) = Size(u)
  BY <1>1, <1>2, <1>3 DEF FileState, Counted, Written
<1>4. CASE /\ c.downloaded = Size(u) /\ curl' = Without(curl, u) /\ mixed' = mixed
           /\ file' = [file EXCEPT ![p] = Moved(p, u)]
           /\ TmpBecomes(p, <<>>)
           /\ Fire(u, "success")
  <2>1. FileState(progress', curl', tmp', Bad', mixed')
    BY <1>1, <1>4, EndEmptied DEF Fire
  <2>2. DOMAIN file' = Paths /\ FileIsWhole'
    BY <1>3, <1>4, MovedIsWhole
  <2>. QED
    BY <2>1, <2>2 DEF FInv
<1>5. CASE /\ curl' = Without(curl, u) /\ Fire(u, "error")
           /\ UNCHANGED <<file, tmp, spoiled, mixed>>
  <2>1. FileState(progress', curl', tmp', Bad', mixed')
    BY <1>1, <1>5, EndState DEF Fire, Bad
  <2>. QED
    BY <1>5, <2>1, SameFiles DEF FInv
<1>6. CASE c.downloaded < Size(u) /\ AskChunk(u, c) /\ file' = file
  <2>1. IsChunks(c, u)
    BY <1>2, <1>6 DEF IsChunks
  <2>2. FileState(progress', curl', tmp', Bad', mixed')
    BY <1>1, <1>2, <1>6, <2>1, AskChunkState
  <2>. QED
    BY <1>6, <2>2, SameFiles DEF FInv
<1>7. \/ /\ c.downloaded = Size(u)
         /\ curl' = Without(curl, u)
         /\ \/ /\ file' = [file EXCEPT ![c.path] = Moved(c.path, u)]
               /\ TmpBecomes(c.path, <<>>)
               /\ Fire(u, "success")
            \/ /\ Fire(u, "error")
               /\ UNCHANGED <<file, tmp, spoiled>>
         /\ mixed' = mixed
      \/ /\ curl' = Without(curl, u)
         /\ Fire(u, "error")
         /\ UNCHANGED <<file, tmp, spoiled, mixed>>
      \/ /\ c.downloaded < Size(u)
         /\ AskChunk(u, c)
         /\ UNCHANGED file
  BY DEF ChunkDone
<1> HIDE DEF c, p
<1>. QED
  BY <1>2, <1>4, <1>5, <1>6, <1>7 DEF p

LEMMA ChunkFailedFiles ==
    ASSUME FInv, NEW u \in Urls, ChunkFailed(u)
    PROVE  FInv'
<1>1. /\ u \in DOMAIN curl /\ u \in DOMAIN progress /\ UNCHANGED <<file, mixed>>
      /\ curl' = Without(curl, u)
  BY DEF ChunkFailed, FInv, FileState
<1>2. CASE TmpBecomes(progress[u].path, <<>>) /\ Fire(u, "cancelled")
  <2>1. FileState(progress', curl', tmp', Bad', mixed')
    BY <1>1, <1>2, EndEmptied DEF Fire
  <2>. QED
    BY <1>1, <2>1, SameFiles DEF FInv
<1>3. CASE UNCHANGED <<tmp, spoiled, progress, told>>
  <2>1. FileState(progress', curl', tmp', Bad', mixed')
    BY <1>1, <1>3, OverState DEF FInv, Bad
  <2>. QED
    BY <1>1, <2>1, SameFiles DEF FInv
<1>. QED
  BY <1>2, <1>3 DEF ChunkFailed

\* _file_name is a place.
LocalTyped == local \in [Requests -> Paths \cup {None}]

LEMMA LocalKeeps == LocalTyped /\ [Next]_vars => LocalTyped'
<1> SUFFICES ASSUME LocalTyped, [Next]_vars PROVE LocalTyped'
  OBVIOUS
<1>1. ASSUME NEW r, Accept(r) PROVE LocalTyped'
  <2>1. \/ local' = local
        \/ /\ saved[UrlOf(r)] \in Paths
           /\ local' = [local EXCEPT ![r] = IF @ = None THEN saved[UrlOf(r)] ELSE @]
    BY <1>1 DEF Accept, Valid
  <2>. QED
    BY <2>1 DEF LocalTyped
<1>2. CASE Crash
  BY <1>2, BoundsAssumption DEF Crash, LocalTyped
<1>3. CASE local' = local
  BY <1>3 DEF LocalTyped
<1>4. ASSUME NEW r \in Requests, Download(r) \/ Meta(r) PROVE LocalTyped'
  BY <1>1, <1>3, <1>4 DEF Download, Meta, MetaFails, MetaFound, MetaArrives
<1>5. ASSUME NEW u \in Urls, Cancel(u) \/ Chunk(u) PROVE local' = local
  BY <1>5 DEF Cancel, Chunk, Receive, ChunkDone, ChunkFailed, Suspend
<1>6. CASE SaveLocalPath \/ Resuming \/ UNCHANGED vars
  BY <1>1, <1>3, <1>6 DEF SaveLocalPath, Resuming, BeginResume, Resume, EndResume, vars, memory
<1>. QED
  BY <1>2, <1>3, <1>4, <1>5, <1>6 DEF Next

LEMMA LeastElement ==
    ASSUME NEW S, S \subseteq Nat, S # {}
    PROVE  \E m \in S : \A n \in S : m <= n
<1>1. PICK m \in S : \A n \in S : ~(<<n, m>> \in OpToRel(<, Nat))
  BY NatLessThanWellFounded, WFMin
<1>2. \A n \in S : ~(n < m)
  BY <1>1 DEF OpToRel
<1>. QED
  BY <1>2

\* The first free place is one.
LEMMA PlaceFacts ==
    ASSUME LocalTyped, NEW r \in Requests
    PROVE  Place(r) \in Paths
<1> DEFINE c == Candidates(UrlOf(r))
           free == {i \in DOMAIN c : file[c[i]] = None}
<1>1. c \in Seq(Paths) /\ c # <<>> /\ free \subseteq DOMAIN c
  BY UrlFacts, UrlsAssumption
<1> HIDE DEF c, free
<1>2. /\ Len(c) \in DOMAIN c /\ DOMAIN c \subseteq Nat
      /\ \A i \in DOMAIN c : c[i] \in Paths
  BY <1>1
<1>3. Place(r) = IF local[r] # None THEN local[r]
                 ELSE IF free = {} THEN c[Len(c)]
                 ELSE c[CHOOSE i \in free : \A j \in free : i <= j]
  BY DEF Place, c, free
<1>4. CASE free # {}
  <2>1. free \subseteq Nat
    BY <1>1, <1>2
  <2>2. PICK m \in free : \A n \in free : m <= n
    BY <1>4, <2>1, LeastElement
  <2>4. (CHOOSE i \in free : \A j \in free : i <= j) \in free
    BY <2>2
  <2>. QED
    BY <1>1, <1>2, <1>3, <1>4, <2>4 DEF LocalTyped
<1>. QED
  BY <1>2, <1>3, <1>4 DEF LocalTyped

LEMMA JoinFiles ==
    ASSUME NEW t, NEW bad, NEW mx, FileState(progress, curl, t, bad, mx),
           NEW u \in DOMAIN progress, NEW r, NEW high,
           progress' = [progress EXCEPT ![u].handlers = @ \cup {r}, ![u].high = high]
    PROVE  FileState(progress', curl, t, bad, mx)
<1> DEFINE c == progress[u]
           d == [[c EXCEPT !.handlers = @ \cup {r}] EXCEPT !.high = high]
<1>1. /\ DOMAIN progress' = DOMAIN progress /\ progress'[u] = d
      /\ \A v \in DOMAIN progress \ {u} : progress'[v] = progress[v]
  OBVIOUS
<1>2. /\ {"path", "downloaded"} \subseteq DOMAIN c
      /\ c.downloaded \in Nat /\ c.downloaded < Size(u)
  BY DEF FileState, IsChunks
<1>3. /\ {"path", "downloaded"} \subseteq DOMAIN d
      /\ d.path = c.path /\ d.downloaded = c.downloaded
  BY <1>2
<1>4. IsChunks(d, u) /\ d.path = c.path /\ d.downloaded = c.downloaded
  BY <1>2, <1>3 DEF IsChunks
<1> HIDE DEF c, d
<1>5. \A v \in DOMAIN progress : /\ IsChunks(progress'[v], v)
                                 /\ progress'[v].path = progress[v].path
                                 /\ progress'[v].downloaded = progress[v].downloaded
  BY <1>1, <1>4 DEF FileState, c
<1>. QED
  BY <1>1, <1>5, SameChunks

LEMMA AcceptFiles ==
    ASSUME FInv, NEW r \in Requests, Accept(r), UNCHANGED <<curl, tmp, spoiled, mixed, file>>
    PROVE  FInv'
<1> DEFINE u == UrlOf(r)
<1>1. CASE u \in DOMAIN progress
  <2>1. progress' = [progress EXCEPT ![u].handlers = @ \cup {r},
                                     ![u].high = @ \/ Raised(r)]
    BY <1>1 DEF Accept
  <2>2. \E high : progress' = [progress EXCEPT ![u].handlers = @ \cup {r},
                                               ![u].high = high]
    BY <2>1
  <2>3. FileState(progress', curl, tmp, Bad, mixed)
    BY <1>1, <2>2, JoinFiles DEF FInv
  <2>. QED
    BY <2>3, SameFiles DEF FInv, Bad
<1>2. CASE u \notin DOMAIN progress
  <2>1. progress' = progress
    BY <1>2 DEF Accept
  <2>. QED
    BY <2>1, SameFiles DEF FInv, Bad
<1>. QED
  BY <1>1, <1>2

LEMMA CancelFiles ==
    ASSUME FInv, NEW u \in Urls, Cancel(u)
    PROVE  FInv'
<1> DEFINE c == progress[u]
           d == [c EXCEPT !.cancel = TRUE]
<1>1. /\ UNCHANGED <<curl, tmp, spoiled, mixed, file>>
      /\ u \in DOMAIN progress /\ progress' = [progress EXCEPT ![u] = d]
  BY DEF Cancel, disk
<1>2. /\ {"path", "downloaded"} \subseteq DOMAIN c
      /\ c.downloaded \in Nat /\ c.downloaded < Size(u)
  BY <1>1 DEF FInv, FileState, IsChunks
<1>3. /\ {"path", "downloaded"} \subseteq DOMAIN d
      /\ d.path = c.path /\ d.downloaded = c.downloaded
  BY <1>2
<1>4. IsChunks(d, u) /\ d.path = c.path /\ d.downloaded = c.downloaded
  BY <1>2, <1>3 DEF IsChunks
<1> HIDE DEF c, d
<1>5. /\ DOMAIN progress' = DOMAIN progress /\ progress'[u] = d
      /\ \A v \in DOMAIN progress \ {u} : progress'[v] = progress[v]
  BY <1>1
<1>6. \A v \in DOMAIN progress : /\ IsChunks(progress'[v], v)
                                 /\ progress'[v].path = progress[v].path
                                 /\ progress'[v].downloaded = progress[v].downloaded
  BY <1>4, <1>5 DEF FInv, FileState, c
<1>7. FileState(progress', curl, tmp, Bad, mixed)
  BY <1>5, <1>6, SameChunks DEF FInv
<1>. QED
  BY <1>1, <1>7, SameFiles DEF FInv, Bad

LEMMA MetaFoundFiles ==
    ASSUME FInv, NEW r \in Requests, MetaFound(r)
    PROVE  FInv'
<1>1. /\ UNCHANGED <<progress, curl, tmp, spoiled, mixed>>
      /\ saved[UrlOf(r)] \in Paths
      /\ file' = [file EXCEPT ![Place(r)] = file[saved[UrlOf(r)]]]
  BY DEF MetaFound, Found, Valid
<1>2. DOMAIN file' = Paths /\ FileIsWhole'
  BY <1>1, CopiedIsWhole
<1>. QED
  BY <1>1, <1>2 DEF FInv, Bad

LEMMA MetaArrivesFiles ==
    ASSUME FInv, LocalTyped, NEW r \in Requests, MetaArrives(r)
    PROVE  FInv'
<1> DEFINE u == UrlOf(r)
           p == Place(r)
           complete == Len(tmp[p]) = Size(u)
           tooLong == Len(tmp[p]) > Size(u)
           c == [path |-> p, downloaded |-> IF tooLong THEN 0 ELSE Len(tmp[p]),
                 handlers |-> {r}, cancel |-> FALSE, high |-> Raised(r)]
<1>0. u \in Urls /\ Size(u) \in Nat /\ Size(u) > 0 /\ None \notin Urls
  BY UrlFacts, SizeFacts, BoundsAssumption
<1>1. FileState(progress, curl, tmp, Bad, mixed)
  BY DEF FInv
<1>2. ASSUME NEW v \in DOMAIN curl, progress[v].path = p
      PROVE  Others(None, p) # {}
  BY <1>0, <1>1, <1>2 DEF Others, FileState
<1>3. CASE /\ complete
           /\ file' = [file EXCEPT ![p] = Moved(p, u)]
           /\ TmpBecomes(p, <<>>)
           /\ mixed' = IF Others(None, p) # {} THEN mixed \cup {p} ELSE mixed
           /\ UNCHANGED <<progress, curl>>
  <2>1. tmp' = [tmp EXCEPT ![p] = <<>>] /\ spoiled' = spoiled \ {p}
    BY <1>3 DEF TmpBecomes
  <2>2. /\ mixed \subseteq mixed' /\ mixed' \subseteq Bad' /\ Bad \ {p} \subseteq Bad'
        /\ \A v \in DOMAIN curl : progress[v].path = p => p \in mixed'
    BY <1>2, <1>3, <2>1 DEF Bad
  <2>3. FileState(progress', curl', tmp', Bad', mixed')
    BY <1>1, <1>3, <2>1, <2>2, EmptyState
  <2>4. DOMAIN file' = Paths /\ FileIsWhole'
    BY <1>0, <1>3, MovedIsWhole
  <2>. QED
    BY <2>3, <2>4 DEF FInv
<1>4. CASE /\ u \in DOMAIN progress
           /\ IF tooLong THEN TmpBecomes(p, <<>>) ELSE UNCHANGED <<tmp, spoiled>>
           /\ mixed' = IF tooLong /\ Others(None, p) # {} THEN mixed \cup {p} ELSE mixed
           /\ file' = [file EXCEPT ![p] = None]
           /\ progress' = [progress EXCEPT ![u].handlers = @ \cup {r},
                                           ![u].high = @ \/ Raised(r)]
           /\ curl' = curl
  <2>1. \E high : progress' = [progress EXCEPT ![u].handlers = @ \cup {r},
                                               ![u].high = high]
    BY <1>4
  <2>2. FileState(progress, curl, tmp', Bad', mixed')
    <3>1. CASE tooLong
      <4>1. tmp' = [tmp EXCEPT ![p] = <<>>] /\ spoiled' = spoiled \ {p}
        BY <1>4, <3>1 DEF TmpBecomes
      <4>2. /\ mixed \subseteq mixed' /\ mixed' \subseteq Bad' /\ Bad \ {p} \subseteq Bad'
            /\ \A v \in DOMAIN curl : progress[v].path = p => p \in mixed'
        BY <1>2, <1>4, <3>1, <4>1 DEF Bad
      <4>. QED
        BY <1>1, <4>1, <4>2, EmptyState
    <3>2. CASE ~tooLong
      BY <1>1, <1>4, <3>2 DEF Bad
    <3>. QED
      BY <3>1, <3>2
  <2>3. FileState(progress', curl', tmp', Bad', mixed')
    BY <1>4, <2>1, <2>2, JoinFiles
  <2>4. DOMAIN file' = Paths /\ FileIsWhole'
    BY <1>4, CopiedIsWhole
  <2>. QED
    BY <2>3, <2>4 DEF FInv
<1>5. CASE ~complete /\ u \notin DOMAIN progress /\ AskChunk(u, c)
           /\ file' = [file EXCEPT ![p] = None]
  <2>1. /\ {"path", "downloaded"} \subseteq DOMAIN c
        /\ c.downloaded = IF tooLong THEN 0 ELSE Len(tmp[p])
        /\ c.cancel = FALSE
    OBVIOUS
  <2>2. ASSUME p \in Paths PROVE Len(tmp[p]) \in Nat
    BY <1>1, <2>2 DEF FileState
  <2>3. p \in Paths
    BY PlaceFacts
  <2>4. c.downloaded \in Nat /\ c.downloaded < Size(u)
    BY <1>0, <1>5, <2>1, <2>2, <2>3
  <2>5. IsChunks(c, u)
    BY <2>1, <2>4 DEF IsChunks
  <2> HIDE DEF c
  <2>6. FileState(progress', curl', tmp', Bad', mixed')
    BY <1>0, <1>5, <2>1, <2>5, AskChunkState
  <2>7. DOMAIN file' = Paths /\ FileIsWhole'
    BY <1>5, CopiedIsWhole
  <2>. QED
    BY <2>6, <2>7 DEF FInv
<1>6. CASE /\ u \notin DOMAIN progress
           /\ OpenFails(u, c) /\ TmpBecomes(p, <<>>)
           /\ mixed' = IF Others(None, p) # {} THEN mixed \cup {p} ELSE mixed
           /\ file' = [file EXCEPT ![p] = None]
  <2>1. tmp' = [tmp EXCEPT ![p] = <<>>] /\ spoiled' = spoiled \ {p}
    BY <1>6 DEF TmpBecomes
  <2>2. /\ mixed \subseteq mixed' /\ mixed' \subseteq Bad' /\ Bad \ {p} \subseteq Bad'
        /\ \A v \in DOMAIN curl : progress[v].path = p => p \in mixed'
    BY <1>2, <1>6, <2>1 DEF Bad
  <2>3. FileState(progress, curl, tmp', Bad', mixed')
    BY <1>1, <2>1, <2>2, EmptyState
  <2>4. progress' = Without(progress, u) /\ curl' = Without(curl, u)
    BY <1>6 DEF OpenFails
  <2>5. FileState(progress', curl', tmp', Bad', mixed')
    BY <2>3, <2>4, EndState
  <2>6. DOMAIN file' = Paths /\ FileIsWhole'
    BY <1>6, CopiedIsWhole
  <2>. QED
    BY <2>5, <2>6 DEF FInv
<1>9. CASE /\ UNCHANGED <<progress, curl, tmp, spoiled, mixed>>
           /\ file' = [file EXCEPT ![p] = None]
  <2>1. DOMAIN file' = Paths /\ FileIsWhole'
    BY <1>9, CopiedIsWhole
  <2>. QED
    BY <1>9, <2>1 DEF FInv, Bad
<1>7. ASSUME Opens(u, c)
      PROVE  AskChunk(u, c)
  <2>1. c.cancel = FALSE
    OBVIOUS
  <2>. QED
    BY <1>7, <2>1 DEF AskChunk
<1>8. /\ ~complete /\ u \notin DOMAIN progress /\ file' = [file EXCEPT ![p] = None]
      /\ \/ AskChunk(u, c)
         \/ Opens(u, c)
         \/ /\ OpenFails(u, c) /\ TmpBecomes(p, <<>>)
            /\ mixed' = IF Others(None, p) # {} THEN mixed \cup {p} ELSE mixed
      => FInv'
  BY <1>5, <1>6, <1>7
<1>. QED
  BY <1>3, <1>4, <1>8, <1>9 DEF MetaArrives

LEMMA ResumeFiles ==
    ASSUME FInv, IInv, Resume
    PROVE  FInv'
<1> DEFINE u == Head(suspended)
<1>1. CASE u \in Requests /\ Accept(u) /\ UNCHANGED <<curl, tmp, spoiled, mixed, file>>
  BY <1>1, AcceptFiles
<1>2. CASE u \notin Requests /\ AskChunk(u, progress[u]) /\ file' = file
  <2>1. u \in Tasks /\ u \in Elements(suspended)
    <3>1. suspended \in Seq(Tasks) /\ suspended # <<>>
      BY DEF Resume, IInv, Typed
    <3>2. 1 \in DOMAIN suspended /\ u = suspended[1] /\ suspended[1] \in Tasks
      BY <3>1
    <3>. QED
      BY <3>2 DEF Elements
  <2>2. u \in Urls /\ u \in DOMAIN progress
    BY <1>2, <2>1, HandlersFacts DEF Tasks, IInv, Placed, Placement, LoopsPlaced
  <2>3. IsChunks(progress[u], u)
    BY <2>2 DEF FInv, FileState
  <2>4. FileState(progress', curl', tmp', Bad', mixed')
    BY <1>2, <2>2, <2>3, AskChunkState
  <2>. QED
    BY <1>2, <2>4, SameFiles DEF FInv
<1>. QED
  BY <1>1, <1>2 DEF Resume

LEMMA CrashFiles ==
    ASSUME FInv, Crash
    PROVE  FInv'
<1>1. /\ progress' = Nobody /\ curl' = Nobody /\ UNCHANGED <<tmp, file, spoiled, mixed>>
      /\ DOMAIN Nobody = {}
  BY DEF Crash, disk, Nobody
<1>2. Shared(progress', mixed) /\ Counted(progress', curl', tmp, Bad)
  BY <1>1 DEF Shared, Counted
<1>3. FileState(progress', curl', tmp, Bad, mixed)
  BY <1>1, <1>2 DEF FInv, FileState
<1>. QED
  BY <1>1, <1>3, SameFiles DEF FInv, Bad

LEMMA InitFiles == Init => FInv /\ LocalTyped
<1> SUFFICES ASSUME Init PROVE FInv /\ LocalTyped
  OBVIOUS
<1>1. /\ progress = Nobody /\ curl = Nobody /\ DOMAIN Nobody = {}
      /\ tmp = [p \in Paths |-> <<>>] /\ file = [p \in Paths |-> None]
      /\ spoiled = {} /\ mixed = {} /\ local = [r \in Requests |-> Chosen(r)]
  BY DEF Init, Nobody
<1>2. Shared(progress, mixed) /\ Counted(progress, curl, tmp, Bad)
  BY <1>1 DEF Shared, Counted
<1>3. FileState(progress, curl, tmp, Bad, mixed)
  BY <1>1, <1>2, EmptyWords DEF FileState, Bad
<1>4. FileIsWhole /\ LocalTyped
  BY <1>1, BoundsAssumption DEF FileIsWhole, LocalTyped
<1>. QED
  BY <1>1, <1>3, <1>4 DEF FInv

LEMMA FilesKeep == IInv /\ LocalTyped /\ FInv /\ [Next]_vars => FInv'
<1> SUFFICES ASSUME IInv, LocalTyped, FInv, [Next]_vars PROVE FInv'
  OBVIOUS
<1>1. ASSUME NEW r \in Requests, Download(r) PROVE FInv'
  BY <1>1, AcceptFiles DEF Download
<1>2. ASSUME UNCHANGED <<progress, curl, tmp, file, spoiled, mixed>> PROVE FInv'
  BY <1>2, SameFiles DEF FInv, Bad
<1>3. ASSUME NEW r \in Requests, Meta(r) PROVE FInv'
  <2>1. CASE MetaFails(r)
    BY <1>2, <2>1 DEF MetaFails, disk
  <2>. QED
    BY <1>3, <2>1, MetaFoundFiles, MetaArrivesFiles DEF Meta
<1>4. ASSUME NEW u \in Urls, Cancel(u) PROVE FInv'
  BY <1>4, CancelFiles
<1>5. ASSUME NEW u \in Urls, Chunk(u) PROVE FInv'
  <2>1. CASE Suspend(u)
    BY <1>2, <2>1 DEF Suspend, disk
  <2>. QED
    BY <1>5, <2>1, ReceiveFiles, ChunkDoneFiles, ChunkFailedFiles DEF Chunk
<1>6. CASE SaveLocalPath
  BY <1>2, <1>6 DEF SaveLocalPath
<1>7. CASE Resuming
  <2>1. CASE BeginResume \/ EndResume
    BY <1>2, <2>1 DEF BeginResume, EndResume, disk
  <2>. QED
    BY <1>7, <2>1, ResumeFiles DEF Resuming
<1>8. CASE Crash
  BY <1>8, CrashFiles
<1>9. CASE UNCHANGED vars
  BY <1>2, <1>9 DEF vars, memory, disk
<1>. QED
  BY <1>1, <1>3, <1>4, <1>5, <1>6, <1>7, <1>8, <1>9 DEF Next

\* Whatever chunks fail, are asked for again or are left by a process that died, and
\* however many downloads there are: a file that is moved to its place is the file of
\* its url (download_file_sharing_impl's range and its temporary file), unless words were
\* appended to the temporary file behind uncounted ones, or a failed transfer had left
\* words in it that do not continue the file, or two downloads wrote it.
THEOREM MovedFilesAreWhole == Spec => []FileIsWhole
<1>1. Init => IInv /\ LocalTyped /\ FInv
  BY InitHolds, InitFiles
<1>2. IInv /\ LocalTyped /\ FInv /\ [Next]_vars => (IInv /\ LocalTyped /\ FInv)'
  BY StepKeeps, LocalKeeps, FilesKeep
<1>3. FInv => FileIsWhole
  BY DEF FInv
<1>. QED
  BY <1>1, <1>2, <1>3, PTL DEF Spec
=============================================================================
