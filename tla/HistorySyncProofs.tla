-------------------------- MODULE HistorySyncProofs --------------------------
(***************************************************************************)
(* Theorems about the index of a contact's history: that its file follows  *)
(* it, that its links skip nothing, that what is deleted stays away;       *)
(* whatever blocks arrive in whatever order, before or after it is loaded, *)
(* for any server, any bounds and any number of crashes.                   *)
(***************************************************************************)
EXTENDS HistorySync, FiniteSetTheorems, WellFoundedInduction, TLAPS

IsHeader(h) ==
    h = Header(h.prev, h.patch, h.deleted) /\ h.patch \in BOOLEAN /\ h.deleted \in BOOLEAN

IsIndex(x) == x = [i \in DOMAIN x |-> x[i]] /\ \A i \in DOMAIN x : IsHeader(x[i])

\* The file f has everything the index m tells.
Absorbs(f, m) == \A i \in DOMAIN m : i \in DOMAIN f /\ MergeWith(f[i], m[i]) = f[i]

\* The file f holds what the index m was built from; all of it, once it is loaded.
Follows(m, f, isLoaded) ==
    IsIndex(m) /\ IsIndex(f) /\ Absorbs(f, m) /\ (isLoaded => f = m)

\* r is the index x after the block b.
IsInserted(r, x, b) ==
    /\ DOMAIN r = DOMAIN x \cup DOMAIN b
    /\ \A i \in DOMAIN x \cup DOMAIN b :
          /\ i \notin DOMAIN b => r[i] = x[i]
          /\ i \notin DOMAIN x => r[i] = b[i]
          /\ i \in DOMAIN x /\ i \in DOMAIN b => r[i] = MergeWith(x[i], b[i])

-----------------------------------------------------------------------------
(* Merging headers. *)

LEMMA MergeFacts ==
    ASSUME NEW h, IsHeader(h), NEW n, IsHeader(n)
    PROVE  /\ IsHeader(MergeWith(h, n))
           /\ MergeWith(h, h) = h
           /\ MergeWith(MergeWith(h, n), n) = MergeWith(h, n)
           /\ MergeWith(h, MergeWith(h, n)) = MergeWith(h, n)
<1> DEFINE m == MergeWith(h, n)
<1>1. /\ m.prev = IF n.prev # None \/ ~n.patch THEN n.prev ELSE h.prev
      /\ m.patch = (h.patch /\ n.patch) /\ m.deleted = (h.deleted \/ n.deleted)
      /\ m = Header(m.prev, m.patch, m.deleted)
  BY DEF MergeWith, Header
<1>2. h.patch \in BOOLEAN /\ h.deleted \in BOOLEAN /\ n.patch \in BOOLEAN /\ n.deleted \in BOOLEAN
  BY DEF IsHeader
<1>3. m.patch \in BOOLEAN /\ m.deleted \in BOOLEAN
  BY <1>1, <1>2
<1>4. h = Header(h.prev, h.patch, h.deleted)
  BY DEF IsHeader
<1> HIDE DEF m
<1>5. IsHeader(m)
  BY <1>1, <1>3 DEF IsHeader
<1>6. MergeWith(h, h) = Header(h.prev, h.patch, h.deleted)
  BY <1>2 DEF MergeWith, Header
<1>7. MergeWith(m, n) = Header(m.prev, m.patch, m.deleted)
  BY <1>1, <1>2 DEF MergeWith, Header
<1>8. MergeWith(h, m) = Header(m.prev, m.patch, m.deleted)
  BY <1>1, <1>2 DEF MergeWith, Header
<1>. QED
  BY <1>1, <1>4, <1>5, <1>6, <1>7, <1>8 DEF m

\* What was told of before stays told of when both hear the news.
LEMMA AbsorbedNews ==
    ASSUME NEW f, IsHeader(f), NEW h, IsHeader(h), NEW n, IsHeader(n), MergeWith(f, h) = f
    PROVE  MergeWith(MergeWith(f, n), MergeWith(h, n)) = MergeWith(f, n)
<1> DEFINE g == MergeWith(f, n)
           m == MergeWith(h, n)
<1>1. /\ m.prev = IF n.prev # None \/ ~n.patch THEN n.prev ELSE h.prev
      /\ m.patch = (h.patch /\ n.patch) /\ m.deleted = (h.deleted \/ n.deleted)
  BY DEF MergeWith
<1>2. /\ g.prev = IF n.prev # None \/ ~n.patch THEN n.prev ELSE f.prev
      /\ g.patch = (f.patch /\ n.patch) /\ g.deleted = (f.deleted \/ n.deleted)
      /\ g = Header(g.prev, g.patch, g.deleted)
  BY DEF MergeWith, Header
<1>3. /\ f.prev = IF h.prev # None \/ ~h.patch THEN h.prev ELSE f.prev
      /\ f.patch = (f.patch /\ h.patch) /\ f.deleted = (f.deleted \/ h.deleted)
  BY DEF MergeWith
<1>4. /\ h.patch \in BOOLEAN /\ h.deleted \in BOOLEAN /\ n.patch \in BOOLEAN
      /\ n.deleted \in BOOLEAN /\ f.patch \in BOOLEAN /\ f.deleted \in BOOLEAN
  BY DEF IsHeader
<1> HIDE DEF g, m
<1>5. MergeWith(g, m) =
        Header(IF m.prev # None \/ ~m.patch THEN m.prev ELSE g.prev,
               g.patch /\ m.patch, g.deleted \/ m.deleted)
  BY DEF MergeWith, Header
<1>6. (IF m.prev # None \/ ~m.patch THEN m.prev ELSE g.prev) = g.prev
  BY <1>1, <1>2, <1>3, <1>4
<1>7. (g.patch /\ m.patch) = g.patch /\ (g.deleted \/ m.deleted) = g.deleted
  BY <1>1, <1>2, <1>3, <1>4
<1>. QED
  BY <1>2, <1>5, <1>6, <1>7 DEF g, m

-----------------------------------------------------------------------------
(* Indexes. *)

LEMMA IndexHolds ==
    ASSUME NEW x, IsIndex(x), NEW i \in DOMAIN x
    PROVE  IsHeader(x[i])
  BY Zenon DEF IsIndex

LEMMA SameIndex ==
    ASSUME NEW x, IsIndex(x), NEW y, IsIndex(y), DOMAIN x = DOMAIN y,
           \A i \in DOMAIN x : x[i] = y[i]
    PROVE  x = y
  BY Zenon DEF IsIndex

LEMMA EmptyFacts == IsIndex(EmptyIndex) /\ DOMAIN EmptyIndex = {}
  BY DEF IsIndex, EmptyIndex

LEMMA InsertFacts ==
    ASSUME NEW x, IsIndex(x), NEW b, IsIndex(b)
    PROVE  IsIndex(InsertBlock(x, b)) /\ IsInserted(InsertBlock(x, b), x, b)
<1> DEFINE r == InsertBlock(x, b)
<1>1. /\ r = [i \in DOMAIN r |-> r[i]] /\ DOMAIN r = DOMAIN x \cup DOMAIN b
      /\ \A i \in DOMAIN x \cup DOMAIN b :
            r[i] = IF i \notin DOMAIN b THEN x[i]
                   ELSE IF i \notin DOMAIN x THEN b[i] ELSE MergeWith(x[i], b[i])
  BY DEF InsertBlock
<1> HIDE DEF r
<1>2. \A i \in DOMAIN r : IsHeader(r[i])
  BY <1>1, MergeFacts DEF IsIndex
<1>3. IsInserted(r, x, b)
  BY <1>1 DEF IsInserted
<1>. QED
  BY <1>1, <1>2, <1>3 DEF r, IsIndex

LEMMA SavedFacts ==
    ASSUME NEW x, IsIndex(x), NEW b, IsIndex(b)
    PROVE  /\ IsIndex(SavedBlock(x, b)) /\ DOMAIN SavedBlock(x, b) = DOMAIN b
           /\ \A i \in DOMAIN b :
                SavedBlock(x, b)[i] = IF i \in DOMAIN x /\ ~MergeWith(x[i], b[i]).deleted
                                      THEN MergeWith(x[i], b[i]) ELSE b[i]
<1> DEFINE r == SavedBlock(x, b)
<1>1. /\ r = [i \in DOMAIN r |-> r[i]] /\ DOMAIN r = DOMAIN b
      /\ \A i \in DOMAIN b : r[i] = IF i \in DOMAIN x /\ ~MergeWith(x[i], b[i]).deleted
                                    THEN MergeWith(x[i], b[i]) ELSE b[i]
  BY DEF SavedBlock
<1> HIDE DEF r
<1>2. \A i \in DOMAIN r : IsHeader(r[i])
  BY <1>1, MergeFacts DEF IsIndex
<1>. QED
  BY <1>1, <1>2 DEF r, IsIndex

LEMMA InsertKeeps ==
    ASSUME NEW m, NEW f, NEW isLoaded, Follows(m, f, isLoaded), NEW b, IsIndex(b)
    PROVE  Follows(InsertBlock(m, b), InsertBlock(f, SavedBlock(m, b)), isLoaded)
<1> DEFINE s == SavedBlock(m, b)
           m2 == InsertBlock(m, b)
           f2 == InsertBlock(f, s)
<1> HIDE DEF s, m2, f2
<1>0. IsIndex(m) /\ IsIndex(f) /\ IsIndex(b)
  BY DEF Follows
<1>1. /\ IsIndex(m) /\ IsIndex(f) /\ (isLoaded => f = m)
      /\ \A i \in DOMAIN m : i \in DOMAIN f /\ MergeWith(f[i], m[i]) = f[i]
  BY DEF Follows, Absorbs
<1>2. /\ IsIndex(s) /\ DOMAIN s = DOMAIN b
      /\ \A i \in DOMAIN b : s[i] = IF i \in DOMAIN m /\ ~MergeWith(m[i], b[i]).deleted
                                    THEN MergeWith(m[i], b[i]) ELSE b[i]
  BY <1>0, SavedFacts DEF s
<1>3. IsIndex(m2) /\ IsInserted(m2, m, b)
  BY <1>0, InsertFacts DEF m2
<1>4. IsIndex(f2) /\ IsInserted(f2, f, s)
  BY <1>0, <1>2, InsertFacts DEF f2
<1>5. /\ \A i \in DOMAIN m : IsHeader(m[i])
      /\ \A i \in DOMAIN f : IsHeader(f[i])
      /\ \A i \in DOMAIN b : IsHeader(b[i])
  BY <1>1, IndexHolds
<1>6. ASSUME NEW i \in DOMAIN m2
      PROVE  i \in DOMAIN f2 /\ MergeWith(f2[i], m2[i]) = f2[i]
  <2>1. i \in DOMAIN f2
    BY <1>1, <1>2, <1>3, <1>4 DEF IsInserted
  <2>2. CASE i \notin DOMAIN b
    BY <2>2, <1>1, <1>2, <1>3, <1>4 DEF IsInserted
  <2>3. CASE i \in DOMAIN b /\ i \notin DOMAIN m
    <3>1. m2[i] = b[i] /\ s[i] = b[i]
      BY <2>3, <1>2, <1>3 DEF IsInserted
    <3>2. CASE i \in DOMAIN f
      <4>1. f2[i] = MergeWith(f[i], b[i])
        BY <2>3, <3>1, <3>2, <1>2, <1>4 DEF IsInserted
      <4>. QED
        BY <2>1, <2>3, <3>1, <3>2, <4>1, <1>5, MergeFacts
    <3>3. CASE i \notin DOMAIN f
      <4>1. f2[i] = b[i]
        BY <2>3, <3>1, <3>3, <1>2, <1>4 DEF IsInserted
      <4>. QED
        BY <2>1, <2>3, <3>1, <4>1, <1>5, MergeFacts
    <3>. QED
      BY <3>2, <3>3
  <2>4. CASE i \in DOMAIN b /\ i \in DOMAIN m
    <3> DEFINE news == MergeWith(m[i], b[i])
    <3>1. /\ m2[i] = news /\ i \in DOMAIN f /\ f2[i] = MergeWith(f[i], s[i])
          /\ s[i] = IF ~news.deleted THEN news ELSE b[i]
      BY <2>4, <1>1, <1>2, <1>3, <1>4 DEF IsInserted
    <3>2. IsHeader(m[i]) /\ IsHeader(b[i]) /\ IsHeader(f[i]) /\ MergeWith(f[i], m[i]) = f[i]
      BY <2>4, <3>1, <1>1, <1>5
    <3>3. IsHeader(news)
      BY <3>2, MergeFacts
    <3>4. MergeWith(MergeWith(f[i], b[i]), news) = MergeWith(f[i], b[i])
      BY <3>2, AbsorbedNews
    <3> HIDE DEF news
    <3>5. MergeWith(MergeWith(f[i], news), news) = MergeWith(f[i], news)
      BY <3>2, <3>3, MergeFacts
    <3>. QED
      BY <2>1, <3>1, <3>4, <3>5
  <2>. QED
    BY <2>2, <2>3, <2>4
<1>7. ASSUME isLoaded
      PROVE  f2 = m2
  <2>1. f = m
    BY <1>1, <1>7
  <2>2. DOMAIN f2 = DOMAIN m2
    BY <2>1, <1>2, <1>3, <1>4 DEF IsInserted
  <2>3. ASSUME NEW i \in DOMAIN m2
        PROVE  f2[i] = m2[i]
    <3>1. CASE i \notin DOMAIN b
      BY <3>1, <2>1, <1>2, <1>3, <1>4 DEF IsInserted
    <3>2. CASE i \in DOMAIN b /\ i \notin DOMAIN m
      BY <3>2, <2>1, <1>2, <1>3, <1>4 DEF IsInserted
    <3>3. CASE i \in DOMAIN b /\ i \in DOMAIN m
      <4>1. MergeWith(m[i], MergeWith(m[i], b[i])) = MergeWith(m[i], b[i])
        BY <3>3, <1>5, MergeFacts
      <4>2. /\ m2[i] = MergeWith(m[i], b[i]) /\ f2[i] = MergeWith(m[i], s[i])
            /\ s[i] = MergeWith(m[i], b[i]) \/ s[i] = b[i]
        BY <3>3, <2>1, <1>2, <1>3, <1>4 DEF IsInserted
      <4>. QED
        BY <4>1, <4>2
    <3>. QED
      BY <3>1, <3>2, <3>3
  <2>. QED
    BY <2>2, <2>3, <1>3, <1>4, SameIndex
<1>. QED
  BY <1>3, <1>4, <1>6, <1>7 DEF Follows, Absorbs, s, m2, f2

LEMMA AcceptedFacts ==
    ASSUME NEW x, NEW upTo, NEW b, IsIndex(b)
    PROVE  IsIndex(Accepted(x, upTo, b))
<1> DEFINE r == Accepted(x, upTo, b)
<1>1. /\ r = [i \in DOMAIN r |-> r[i]] /\ DOMAIN r \subseteq DOMAIN b
      /\ \A i \in DOMAIN r :
            r[i] = IF b[i].prev <= upTo THEN [b[i] EXCEPT !.prev = None] ELSE b[i]
  BY DEF Accepted, News
<1>2. \A h : IsHeader(h) => IsHeader([h EXCEPT !.prev = None])
  BY DEF IsHeader, Header
<1>3. \A i \in DOMAIN r : IsHeader(b[i])
  BY <1>1 DEF IsIndex
<1> HIDE DEF r
<1>4. \A i \in DOMAIN r : IsHeader(r[i])
  BY <1>1, <1>2, <1>3
<1>. QED
  BY <1>1, <1>4 DEF r, IsIndex

LEMMA ClosingFacts ==
    ASSUME NEW x, IsIndex(x), NEW from, NEW older
    PROVE  IsIndex(Closing(x, from, older))
<1>1. CASE ~older /\ from \in Kept(x)
  <2> DEFINE h == [x[from] EXCEPT !.prev = None]
  <2>1. IsHeader(x[from])
    BY <1>1 DEF Kept, IsIndex
  <2>2. IsHeader(h)
    BY <2>1 DEF IsHeader, Header
  <2> HIDE DEF h
  <2>3. IsIndex([i \in {from} |-> h])
    BY <2>2 DEF IsIndex
  <2>. QED
    BY <1>1, <2>3 DEF Closing, h
<1>2. CASE ~(~older /\ from \in Kept(x))
  BY <1>2, EmptyFacts DEF Closing
<1>. QED
  BY <1>1, <1>2

LEMMA DeleteFacts ==
    ASSUME NEW x, IsIndex(x), NEW to
    PROVE  IsIndex(DeleteUpTo(x, to))
<1> DEFINE rest == {i \in DOMAIN x : i > to}
           kept == Only(x, rest)
           first == Lowest(rest)
<1>1. kept = [i \in DOMAIN kept |-> kept[i]] /\ \A i \in DOMAIN kept : IsHeader(kept[i])
  BY DEF Only, IsIndex
<1>2. DeleteUpTo(x, to) = kept \/ DeleteUpTo(x, to) = [kept EXCEPT ![first].prev = None]
  BY DEF DeleteUpTo
<1> HIDE DEF kept, first
<1>3. IsIndex([kept EXCEPT ![first].prev = None])
  <2> DEFINE r == [kept EXCEPT ![first].prev = None]
  <2>1. /\ r = [i \in DOMAIN r |-> r[i]] /\ DOMAIN r = DOMAIN kept
        /\ \A i \in DOMAIN kept : r[i] = IF i = first THEN [kept[first] EXCEPT !.prev = None]
                                         ELSE kept[i]
    OBVIOUS
  <2>2. \A h : IsHeader(h) => IsHeader([h EXCEPT !.prev = None])
    BY DEF IsHeader, Header
  <2> HIDE DEF r
  <2>3. \A i \in DOMAIN r : IsHeader(r[i])
    BY <1>1, <2>1, <2>2
  <2>. QED
    BY <2>1, <2>3 DEF r, IsIndex
<1>4. IsIndex(kept)
  BY <1>1 DEF IsIndex
<1>. QED
  BY <1>2, <1>3, <1>4

\* Loading adds nothing to the file.
LEMMA LoadingFacts ==
    ASSUME NEW m, NEW f, NEW isLoaded, Follows(m, f, isLoaded)
    PROVE  InsertBlock(f, m) = f
<1> DEFINE r == InsertBlock(f, m)
<1>1. IsIndex(m) /\ IsIndex(f)
      /\ \A i \in DOMAIN m : i \in DOMAIN f /\ MergeWith(f[i], m[i]) = f[i]
  BY DEF Follows, Absorbs
<1>2. IsIndex(r) /\ IsInserted(r, f, m)
  BY <1>1, InsertFacts
<1> HIDE DEF r
<1>3. DOMAIN r = DOMAIN f /\ \A i \in DOMAIN f : r[i] = f[i]
  BY <1>1, <1>2 DEF IsInserted
<1>. QED
  BY <1>1, <1>2, <1>3, SameIndex DEF r

LEMMA SameFacts ==
    ASSUME NEW x, IsIndex(x), NEW isLoaded
    PROVE  Follows(x, x, isLoaded) /\ Follows(EmptyIndex, x, FALSE)
<1>1. \A i \in DOMAIN x : MergeWith(x[i], x[i]) = x[i]
  BY MergeFacts DEF IsIndex
<1>. QED
  BY <1>1, EmptyFacts DEF Follows, Absorbs

-----------------------------------------------------------------------------
(* What queues hold. *)

Elements(s) == {s[i] : i \in 1..Len(s)}

IsQueue(s) == s \in Seq(Elements(s))

LEMMA QueueAppend ==
    ASSUME NEW s, IsQueue(s), NEW x
    PROVE  /\ IsQueue(Append(s, x)) /\ Elements(Append(s, x)) = Elements(s) \cup {x}
<1> DEFINE S == Elements(s) \cup {x}
           r == Append(s, x)
<1>1. s \in Seq(S) /\ Len(s) \in Nat
  BY DEF IsQueue
<1>2. r \in Seq(S) /\ Len(r) = Len(s) + 1
      /\ r[Len(r)] = x /\ \A i \in 1..Len(s) : r[i] = s[i]
  BY <1>1
<1> HIDE DEF r
<1>3. Elements(r) = S
  BY <1>1, <1>2 DEF Elements
<1>. QED
  BY <1>2, <1>3 DEF IsQueue, r

LEMMA QueueTail ==
    ASSUME NEW s, IsQueue(s), s # <<>>
    PROVE  /\ IsQueue(Tail(s)) /\ Head(s) \in Elements(s)
           /\ Elements(Tail(s)) \subseteq Elements(s)
<1> DEFINE r == Tail(s)
<1>1. s \in Seq(Elements(s)) /\ Len(s) \in Nat /\ Len(s) # 0 /\ Head(s) = s[1]
  BY DEF IsQueue
<1>2. /\ r \in Seq(Elements(s)) /\ Len(r) = Len(s) - 1
      /\ \A i \in 1..Len(r) : r[i] = s[i + 1]
  BY <1>1
<1> HIDE DEF r
<1>3. r \in Seq(Elements(r))
  <2>1. r \in [1..Len(r) -> Elements(r)] /\ Len(r) \in Nat
    BY <1>2 DEF Elements
  <2>. QED
    BY <2>1
<1>4. Elements(r) \subseteq Elements(s)
  <2>1. ASSUME NEW i \in 1..Len(r)
        PROVE  i + 1 \in 1..Len(s) /\ r[i] = s[i + 1]
    BY <1>1, <1>2
  <2>. QED
    BY <2>1 DEF Elements
<1>5. Head(s) \in Elements(s)
  BY <1>1 DEF Elements
<1>. QED
  BY <1>3, <1>4, <1>5 DEF IsQueue, r

LEMMA QueueConcat ==
    ASSUME NEW s, IsQueue(s), NEW q, IsQueue(q)
    PROVE  /\ IsQueue(s \o q) /\ Elements(s \o q) = Elements(s) \cup Elements(q)
<1> DEFINE S == Elements(s) \cup Elements(q)
           r == s \o q
<1>1. s \in Seq(S) /\ q \in Seq(S) /\ Len(s) \in Nat /\ Len(q) \in Nat
  BY DEF IsQueue
<1>2. /\ r \in Seq(S) /\ Len(r) = Len(s) + Len(q)
      /\ \A i \in 1..Len(r) : r[i] = IF i <= Len(s) THEN s[i] ELSE q[i - Len(s)]
  BY <1>1
<1> HIDE DEF r
<1>3. Elements(r) = S
  <2>1. Elements(r) \subseteq S
    <3>1. ASSUME NEW i \in 1..Len(r)
          PROVE  r[i] \in S
      BY <1>2
    <3>. QED
      BY <3>1 DEF Elements
  <2>2. Elements(s) \subseteq Elements(r)
    <3>1. ASSUME NEW i \in 1..Len(s)
          PROVE  i \in 1..Len(r) /\ r[i] = s[i]
      BY <1>1, <1>2
    <3>. QED
      BY <3>1 DEF Elements
  <2>3. ASSUME NEW i \in 1..Len(q)
        PROVE  q[i] \in Elements(r)
    <3>1. r[Len(s) + i] = q[i] /\ Len(s) + i \in 1..Len(r)
      BY <1>1, <1>2
    <3>. QED
      BY <3>1 DEF Elements
  <2>. QED
    BY <2>1, <2>2, <2>3 DEF Elements
<1>. QED
  BY <1>2, <1>3 DEF IsQueue, r

LEMMA QueueEmpty == IsQueue(<<>>) /\ Elements(<<>>) = {}
<1>1. \A S : <<>> \in Seq(S)
  OBVIOUS
<1>. QED
  BY <1>1 DEF IsQueue, Elements

LEMMA QueueUnit ==
    ASSUME NEW x
    PROVE  IsQueue(<<x>>) /\ Elements(<<x>>) = {x}
<1>1. <<x>> \in Seq({x}) /\ Len(<<x>>) = 1 /\ <<x>>[1] = x
  OBVIOUS
<1>2. Elements(<<x>>) = {x}
  BY <1>1 DEF Elements
<1>. QED
  BY <1>1, <1>2 DEF IsQueue

-----------------------------------------------------------------------------
(* The invariant: the file follows the memory, and the blocks that are on  *)
(* their way to the archive are indexes.                                   *)

\* What a step of the core thread captures.
Captures(t) ==
    /\ "step" \in DOMAIN t
    /\ t.step = "localLoaded" => IsIndex(t.event.tail)
    /\ t.step \in {"localUpdated", "eventNotSentRemoved"} => IsIndex(t.tail)
    /\ t.step \in {"stateStored", "notSentRemoved"} =>
          /\ "answer" \in DOMAIN t
          /\ IsIndex(t.answer.messages) /\ IsIndex(t.answer.patches)

IsJob(j) ==
    /\ j.op = "update" => IsIndex(j.arg.messages) /\ IsIndex(j.arg.patches)
    /\ Captures(j.then)

JobsFine == IsQueue(jobs) /\ \A j \in Elements(jobs) : IsJob(j)
ResultsFine == IsQueue(results) /\ \A r \in Elements(results) : Captures(r.then)
FetchedFine == IsQueue(fetched) /\ \A e \in Elements(fetched) : IsIndex(e.tail)
AnswerFine ==
    answer # NoAnswer => IsIndex(answer.messages) /\ IsIndex(answer.patches)

Carried == JobsFine /\ ResultsFine /\ FetchedFine /\ AnswerFine

Followed == Follows(memory, file, loaded)

IInv == Carried /\ Followed

\* Frames.
LEMMA PostFacts ==
    ASSUME JobsFine, NEW j, IsJob(j), Post(j)
    PROVE  JobsFine'
<1>1. IsQueue(jobs') /\ Elements(jobs') = Elements(jobs) \cup {j}
  BY QueueAppend DEF JobsFine, Post
<1>. QED
  BY <1>1 DEF JobsFine

LEMMA TakeResultFacts ==
    ASSUME ResultsFine, NEW step, TakeResult(step)
    PROVE  ResultsFine' /\ Captures(Captured) /\ Captured.step = step
<1>1. /\ IsQueue(results') /\ Head(results) \in Elements(results)
      /\ Elements(results') \subseteq Elements(results)
  BY QueueTail DEF ResultsFine, TakeResult
<1>. QED
  BY <1>1 DEF ResultsFine, Captured, TakeResult

LEMMA TakeJobFacts ==
    ASSUME JobsFine, NEW op, TakeJob(op)
    PROVE  /\ JobsFine' /\ IsJob(Head(jobs)) /\ Head(jobs).op = op
<1>1. /\ IsQueue(jobs') /\ Head(jobs) \in Elements(jobs)
      /\ Elements(jobs') \subseteq Elements(jobs)
  BY QueueTail DEF JobsFine, TakeJob
<1>. QED
  BY <1>1 DEF JobsFine, TakeJob

LEMMA ReturnFacts ==
    ASSUME ResultsFine, IsJob(Head(jobs)), NEW value, Return(value)
    PROVE  ResultsFine'
<1> DEFINE r == [then |-> Head(jobs).then, value |-> value]
<1>1. Captures(r.then)
  BY DEF IsJob
<1>2. IsQueue(Append(results, r)) /\ Elements(Append(results, r)) = Elements(results) \cup {r}
  BY QueueAppend DEF ResultsFine
<1> HIDE DEF r
<1>3. results' = results \/ results' = Append(results, r)
  BY DEF Return, r
<1>. QED
  BY <1>1, <1>2, <1>3 DEF ResultsFine

LEMMA JobFacts ==
    ASSUME NEW op, NEW arg, NEW then, Captures(then),
           op = "update" => IsIndex(arg.messages) /\ IsIndex(arg.patches)
    PROVE  IsJob(Job(op, arg, then))
  BY DEF IsJob, Job

\* Steps that capture no block.
Plain(t) ==
    /\ "step" \in DOMAIN t
    /\ t.step \notin {"localLoaded", "localUpdated", "eventNotSentRemoved",
                      "stateStored", "notSentRemoved"}

LEMMA PlainFacts ==
    ASSUME NEW op, op # "update", NEW arg, NEW then, Plain(then)
    PROVE  IsJob(Job(op, arg, then))
<1>1. Captures(then)
  BY DEF Captures, Plain
<1>. QED
  BY <1>1, JobFacts

-----------------------------------------------------------------------------
(* What the server sends are indexes. *)

LEMMA SnapshotFacts ==
    ASSUME NEW n
    PROVE  IsIndex(Snapshot(n).tail) /\ IsIndex(Snapshot(n)'.tail)
<1>1. \A S : IsIndex(Messages(S))
  BY DEF IsIndex, IsHeader, Messages, Header
<1>2. IsIndex(Snapshot(n)'.tail)
  BY DEF Snapshot, Messages, IsIndex, IsHeader, Header
<1>. QED
  BY <1>1, <1>2 DEF Snapshot

LEMMA AnswerFacts ==
    ASSUME NEW r
    PROVE  IsIndex(Answer(r).messages) /\ IsIndex(Answer(r).patches)
<1>1. \A S : IsIndex(Messages(S))
  BY DEF IsIndex, IsHeader, Messages, Header
<1>2. \A S : IsIndex([i \in S |-> Header(None, TRUE, TRUE)])
  BY DEF IsIndex, IsHeader, Header
<1>. QED
  BY <1>1, <1>2 DEF Answer

-----------------------------------------------------------------------------
(* The archive's thread. *)

LEMMA ArchiveCarries ==
    ASSUME Carried, NEW op, TakeJob(op), NEW value, Return(value), JobChanges
    PROVE  Carried'
<1>1. JobsFine' /\ IsJob(Head(jobs))
  BY TakeJobFacts DEF Carried
<1>2. ResultsFine'
  BY <1>1, ReturnFacts DEF Carried
<1>3. FetchedFine' /\ AnswerFine'
  BY DEF Carried, FetchedFine, AnswerFine, JobOnly, JobChanges, network
<1>. QED
  BY <1>1, <1>2, <1>3 DEF Carried

LEMMA UpdateFollows ==
    ASSUME Carried, Followed, RunUpdate
    PROVE  Followed'
<1> DEFINE found == Accepted(memory, state.delUpTo, Arg.messages)
           patches == Accepted(memory, state.delUpTo, Arg.patches)
           messages == IF DOMAIN found \cup DOMAIN patches = {}
                       THEN Closing(memory, Arg.from, Arg.older) ELSE found
           between == InsertBlock(memory, messages)
           saved == InsertBlock(file, SavedBlock(memory, messages))
<1>1. /\ memory' = InsertBlock(between, patches)
      /\ file' = InsertBlock(saved, SavedBlock(between, patches))
      /\ loaded' = loaded
  BY DEF RunUpdate
<1>2. IsIndex(Arg.messages) /\ IsIndex(Arg.patches)
  BY TakeJobFacts DEF Carried, RunUpdate, IsJob, Arg
<1>3. IsIndex(found) /\ IsIndex(patches)
  BY <1>2, AcceptedFacts
<1>4. IsIndex(Closing(memory, Arg.from, Arg.older))
  BY ClosingFacts DEF Followed, Follows
<1> HIDE DEF found, patches
<1>5. IsIndex(messages)
  BY <1>3, <1>4
<1> HIDE DEF messages
<1>6. Follows(between, saved, loaded)
  BY <1>5, InsertKeeps DEF Followed
<1> HIDE DEF between, saved
<1>7. Follows(InsertBlock(between, patches),
              InsertBlock(saved, SavedBlock(between, patches)), loaded)
  BY <1>3, <1>6, InsertKeeps
<1>. QED
  BY <1>1, <1>7 DEF Followed

LEMMA DeleteFollows ==
    ASSUME Followed, RunDeleteUpTo
    PROVE  Followed'
<1>1. /\ memory' = DeleteUpTo(memory, Arg) /\ loaded' = loaded
      /\ file' = IF DOMAIN memory = {} \/ memory' # memory THEN memory' ELSE file
  BY DEF RunDeleteUpTo, DeletesFromFile
<1>2. IsIndex(memory')
  BY <1>1, DeleteFacts DEF Followed, Follows
<1>3. CASE file' = memory'
  BY <1>2, <1>3, SameFacts DEF Followed
<1>4. CASE memory' = memory /\ file' = file
  BY <1>1, <1>4 DEF Followed
<1>. QED
  BY <1>1, <1>3, <1>4

LEMMA LoadFollows ==
    ASSUME Followed, RunGetMessages
    PROVE  Followed'
<1>1. memory' = Load /\ loaded' = TRUE /\ file' = IF ~loaded /\ LoadDeletes THEN Load ELSE file
  BY DEF RunGetMessages
<1>2. CASE loaded
  <2>1. file = memory
    BY <1>2 DEF Followed, Follows
  <2>2. memory' = memory /\ file' = memory
    BY <1>1, <1>2, <2>1 DEF Load
  <2>. QED
    BY <1>1, <2>2, SameFacts DEF Followed, Follows
<1>3. CASE ~loaded
  <2>1. Loading = file /\ IsIndex(file)
    BY LoadingFacts DEF Loading, Followed, Follows
  <2>2. Load = IF LoadDeletes THEN DeleteUpTo(file, state.delUpTo) ELSE file
    BY <1>3, <2>1 DEF Load
  <2>3. IsIndex(memory') /\ file' = memory'
    BY <1>1, <1>3, <2>1, <2>2, DeleteFacts
  <2>. QED
    BY <2>3, SameFacts DEF Followed
<1>. QED
  BY <1>2, <1>3

LEMMA ArchiveKeeps ==
    ASSUME IInv, RunArchive
    PROVE  IInv'
<1>1. Carried /\ Followed
  BY DEF IInv
<1>2. Carried'
  <2>1. CASE RunGetState
    BY <1>1, <2>1, ArchiveCarries DEF RunGetState, JobOnly
  <2>2. CASE RunSetState
    BY <1>1, <2>2, ArchiveCarries DEF RunSetState, JobOnly
  <2>3. CASE RunPass
    BY <1>1, <2>3, ArchiveCarries DEF RunPass, JobOnly
  <2>4. CASE RunUpdate
    BY <1>1, <2>4, ArchiveCarries DEF RunUpdate, JobOnly
  <2>5. CASE RunDrop
    BY <1>1, <2>5, ArchiveCarries DEF RunDrop, JobOnly
  <2>6. CASE RunNextHole
    BY <1>1, <2>6, ArchiveCarries DEF RunNextHole, JobOnly
  <2>7. CASE RunValidate
    BY <1>1, <2>7, ArchiveCarries DEF RunValidate, JobOnly
  <2>8. CASE RunDeleteUpTo
    BY <1>1, <2>8, ArchiveCarries DEF RunDeleteUpTo, JobOnly
  <2>9. CASE RunGetMessages
    BY <1>1, <2>9, ArchiveCarries DEF RunGetMessages, JobOnly
  <2>10. CASE RunFree
    BY <1>1, <2>10, ArchiveCarries DEF RunFree, JobOnly
  <2>. QED
    BY <2>1, <2>2, <2>3, <2>4, <2>5, <2>6, <2>7, <2>8, <2>9, <2>10 DEF RunArchive
<1>3. Followed'
  <2>1. CASE RunUpdate
    BY <1>1, <2>1, UpdateFollows
  <2>2. CASE RunDrop
    <3>1. memory' = EmptyIndex /\ file' = EmptyIndex
      BY <2>2 DEF RunDrop
    <3>. QED
      BY <3>1, EmptyFacts, SameFacts DEF Followed
  <2>3. CASE RunDeleteUpTo
    BY <1>1, <2>3, DeleteFollows
  <2>4. CASE RunGetMessages
    BY <1>1, <2>4, LoadFollows
  <2>5. CASE RunFree
    <3>1. memory' = EmptyIndex /\ loaded' = FALSE /\ file' = file /\ IsIndex(file)
      BY <1>1, <2>5 DEF RunFree, Followed, Follows
    <3>. QED
      BY <3>1, SameFacts DEF Followed
  <2>6. CASE UNCHANGED <<memory, file, loaded>>
    BY <1>1, <2>6 DEF Followed
  <2>7. RunGetState \/ RunSetState \/ RunPass \/ RunNextHole \/ RunValidate =>
            UNCHANGED <<memory, file, loaded>>
    BY DEF RunGetState, RunSetState, RunPass, RunNextHole, RunValidate, archive
  <2>. QED
    BY <2>1, <2>2, <2>3, <2>4, <2>5, <2>6, <2>7 DEF RunArchive
<1>. QED
  BY <1>2, <1>3 DEF IInv

-----------------------------------------------------------------------------
(* The core thread, the server and the user. *)

LEMMA CoreCarries ==
    ASSUME Carried, NEW step, TakeResult(step), fetched' = fetched, answer' = answer,
           JobsFine'
    PROVE  Carried'
<1>1. ResultsFine'
  BY TakeResultFacts DEF Carried
<1>2. FetchedFine' /\ AnswerFine'
  BY DEF Carried, FetchedFine, AnswerFine
<1>. QED
  BY <1>1, <1>2 DEF Carried

LEMMA SameJobs == ASSUME JobsFine, jobs' = jobs PROVE JobsFine'
  BY DEF JobsFine

LEMMA GetNextHoleFacts ==
    ASSUME JobsFine, NEW from, NEW depth, NEW recursion, GetNextHole(from, depth, recursion)
    PROVE  JobsFine'
  BY PlainFacts, PostFacts DEF GetNextHole, Plain

LEMMA DownloadHolesFacts == ASSUME JobsFine, DownloadHoles PROVE JobsFine'
  BY PlainFacts, PostFacts DEF DownloadHoles, Plain, Then

LEMMA HopFacts ==
    ASSUME Carried, NEW step, NEW next, Hop(step, next),
           next \in {"introUpdated", "eventUpdated", "stateOfMessages", "messagesShown"}
    PROVE  Carried'
<1>1. TakeResult(step) /\ fetched' = fetched /\ answer' = answer
      /\ Post(Job("pass", 0, [Captured EXCEPT !.step = next]))
  BY DEF Hop, network
<1>2. Plain([Captured EXCEPT !.step = next])
  BY <1>1, TakeResultFacts DEF Carried, Captures, Plain
<1>3. JobsFine'
  BY <1>1, <1>2, PlainFacts, PostFacts DEF Carried
<1>. QED
  BY <1>1, <1>3, CoreCarries

LEMMA AnswerCarries ==
    ASSUME Carried, OnHistory
    PROVE  Carried'
<1> DEFINE then == [step |-> "stateStored", request |-> Head(requests), answer |-> answer]
           new == [last |-> answer.last, history |-> answer.version, dialog |-> 0,
                   delUpTo |-> None]
<1>1. /\ Post(Job("setState", new, then)) /\ answer # NoAnswer /\ answer' = NoAnswer
      /\ fetched' = fetched /\ results' = results
  BY DEF OnHistory
<1>2. Captures(then)
  BY <1>1 DEF Captures, Carried, AnswerFine
<1> HIDE DEF then, new
<1>3. JobsFine'
  BY <1>1, <1>2, JobFacts, PostFacts DEF Carried
<1>. QED
  BY <1>1, <1>3 DEF Carried, ResultsFine, FetchedFine, AnswerFine

LEMMA HistoryCarries ==
    ASSUME Carried, OnStateStored \/ OnDropped \/ OnNotSentRemoved \/ OnHistoryUpdated
    PROVE  Carried'
<1>1. CASE OnStateStored
  <2> DEFINE then == [Captured EXCEPT !.step = "notSentRemoved"]
  <2>1. TakeResult("stateStored") /\ fetched' = fetched /\ answer' = answer
    BY <1>1 DEF OnStateStored, CoreOnly, CoreChanges
  <2>2. Captures(then)
    BY <2>1, TakeResultFacts DEF Carried, Captures
  <2>3. IsJob(Job("drop", 0, Then("dropped")))
    BY PlainFacts DEF Plain, Then
  <2> HIDE DEF then
  <2>4. IsJob(Job("pass", 0, then))
    BY <2>2, JobFacts
  <2>5. Post(Job("drop", 0, Then("dropped"))) \/ Post(Job("pass", 0, then))
    BY <1>1 DEF OnStateStored, then
  <2>6. JobsFine'
    BY <2>3, <2>4, <2>5, PostFacts DEF Carried
  <2>. QED
    BY <2>1, <2>6, CoreCarries
<1>2. CASE OnDropped
  <2>1. /\ TakeResult("dropped") /\ fetched' = fetched /\ answer' = answer
        /\ DownloadHoles \/ jobs' = jobs
    BY <1>2 DEF OnDropped, CoreOnly, CoreChanges
  <2>2. JobsFine'
    BY <2>1, DownloadHolesFacts, SameJobs DEF Carried
  <2>. QED
    BY <2>1, <2>2, CoreCarries
<1>3. CASE OnNotSentRemoved
  <2> DEFINE a == Captured.answer
             arg == [messages |-> a.messages, patches |-> a.patches,
                     from |-> Captured.request.from, older |-> a.older]
             then == [step |-> "historyUpdated", then |-> Captured.request.then]
  <2>1. /\ TakeResult("notSentRemoved") /\ fetched' = fetched /\ answer' = answer
        /\ Post(Job("update", arg, then))
    BY <1>3 DEF OnNotSentRemoved, CoreOnly, CoreChanges
  <2>2. IsIndex(arg.messages) /\ IsIndex(arg.patches)
    BY <2>1, TakeResultFacts DEF Carried, Captures
  <2>3. Captures(then)
    BY DEF Captures
  <2> HIDE DEF arg, then
  <2>4. JobsFine'
    BY <2>1, <2>2, <2>3, JobFacts, PostFacts DEF Carried
  <2>. QED
    BY <2>1, <2>4, CoreCarries
<1>4. CASE OnHistoryUpdated
  <2> DEFINE t == Captured.then
             validated == [step |-> "validated", depth |-> t.tail, recursion |-> t.recursion]
  <2>1. /\ TakeResult("historyUpdated") /\ fetched' = fetched /\ answer' = answer
        /\ \/ Post(Job("validate", t.hole, validated))
           \/ DownloadHoles
           \/ jobs' = jobs
    BY <1>4 DEF OnHistoryUpdated, CoreOnly, CoreChanges, Succeeded
  <2>2. IsJob(Job("validate", t.hole, validated))
    BY PlainFacts DEF Plain
  <2>3. JobsFine'
    BY <2>1, <2>2, PostFacts, DownloadHolesFacts, SameJobs DEF Carried
  <2>. QED
    BY <2>1, <2>3, CoreCarries
<1>. QED
  BY <1>1, <1>2, <1>3, <1>4

LEMMA LoopCarries ==
    ASSUME Carried,
           OnHolesFrom \/ OnHole \/ OnHoleState \/ OnValidated \/ DownloadFailedHoles
    PROVE  Carried'
<1>1. CASE OnHolesFrom
  <2>1. /\ TakeResult("holesFrom") /\ fetched' = fetched /\ answer' = answer
        /\ GetNextHole(Result.last, None, 0)
    BY <1>1 DEF OnHolesFrom, CoreOnly, CoreChanges
  <2>. QED
    BY <2>1, GetNextHoleFacts, CoreCarries DEF Carried
<1>2. CASE OnHole
  <2> DEFINE then == [step |-> "holeState", hole |-> Result, from |-> Captured.from,
                      depth |-> Captured.depth, recursion |-> Captured.recursion]
  <2>1. /\ TakeResult("hole") /\ fetched' = fetched /\ answer' = answer
        /\ jobs' = jobs \/ Post(Job("getState", 0, then))
    BY <1>2 DEF OnHole, CoreOnly, CoreChanges
  <2>2. IsJob(Job("getState", 0, then))
    BY PlainFacts DEF Plain
  <2>3. JobsFine'
    BY <2>1, <2>2, PostFacts, SameJobs DEF Carried
  <2>. QED
    BY <2>1, <2>3, CoreCarries
<1>3. CASE OnHoleState
  <2>1. /\ TakeResult("holeState") /\ fetched' = fetched /\ answer' = answer /\ jobs' = jobs
    BY <1>3 DEF OnHoleState, CoreChanges
  <2>. QED
    BY <2>1, SameJobs, CoreCarries DEF Carried
<1>4. CASE OnValidated
  <2>1. /\ TakeResult("validated") /\ fetched' = fetched /\ answer' = answer
        /\ GetNextHole(Result, Captured.depth, Captured.recursion + 1)
    BY <1>4 DEF OnValidated, CoreOnly, CoreChanges
  <2>. QED
    BY <2>1, GetNextHoleFacts, CoreCarries DEF Carried
<1>5. CASE DownloadFailedHoles
  <2>1. /\ fetched' = fetched /\ answer' = answer /\ results' = results
        /\ GetNextHole(failed.from, failed.depth, failed.recursion)
    BY <1>5 DEF DownloadFailedHoles, CoreOnly, CoreChanges
  <2>2. JobsFine'
    BY <2>1, GetNextHoleFacts DEF Carried
  <2>. QED
    BY <2>1, <2>2 DEF Carried, ResultsFine, FetchedFine, AnswerFine
<1>. QED
  BY <1>1, <1>2, <1>3, <1>4, <1>5

LEMMA FetchedTail ==
    ASSUME FetchedFine, fetched # <<>>, fetched' = Tail(fetched)
    PROVE  FetchedFine'
  BY QueueTail DEF FetchedFine

LEMMA LoadedCarries ==
    ASSUME Carried, OnEventDlgState \/ OnLocalStateLoaded
    PROVE  Carried'
<1>1. CASE OnEventDlgState
  <2> DEFINE then == [step |-> "localLoaded", event |-> Head(fetched)]
  <2>1. /\ fetched # <<>> /\ fetched' = Tail(fetched) /\ answer' = answer
        /\ results' = results /\ Post(Job("getState", 0, then))
    BY <1>1 DEF OnEventDlgState
  <2>2. IsIndex(Head(fetched).tail)
    BY <2>1, QueueTail DEF Carried, FetchedFine
  <2>3. Captures(then)
    BY <2>2 DEF Captures
  <2> HIDE DEF then
  <2>4. JobsFine'
    BY <2>1, <2>3, JobFacts, PostFacts DEF Carried
  <2>5. FetchedFine'
    BY <2>1, FetchedTail DEF Carried
  <2>. QED
    BY <2>1, <2>4, <2>5 DEF Carried, ResultsFine, AnswerFine
<1>2. CASE OnLocalStateLoaded
  <2> DEFINE e == Captured.event
             new == [last |-> e.last, history |-> 0, dialog |-> e.version,
                     delUpTo |-> e.delUpTo]
             then == [step |-> "localUpdated", tail |-> e.tail,
                      patched |-> Result.last # None /\ e.version # Result.version,
                      cleared |-> e.delUpTo > Result.delUpTo,
                      moved   |-> e.last > Result.last]
  <2>1. /\ TakeResult("localLoaded") /\ fetched' = fetched /\ answer' = answer
        /\ Post(Job("setState", new, then))
    BY <1>2 DEF OnLocalStateLoaded, CoreOnly, CoreChanges
  <2>2. IsIndex(e.tail)
    BY <2>1, TakeResultFacts DEF Carried, Captures
  <2>3. Captures(then)
    BY <2>2 DEF Captures
  <2> HIDE DEF new, then
  <2>4. JobsFine'
    BY <2>1, <2>3, JobFacts, PostFacts DEF Carried
  <2>. QED
    BY <2>1, <2>4, CoreCarries
<1>. QED
  BY <1>1, <1>2

LEMMA UpdatedCarries ==
    ASSUME Carried, OnLocalStateUpdated
    PROVE  Carried'
<1> DEFINE c == Captured
           then == [step |-> "eventNotSentRemoved", tail |-> c.tail,
                    last |-> IF DOMAIN c.tail = {} THEN Result.last
                             ELSE Highest(DOMAIN c.tail),
                    delUpTo |-> Result.delUpTo, patched |-> c.patched,
                    cleared |-> c.cleared, moved |-> c.moved]
           delete == Job("deleteUpTo", Result.delUpTo, Then("eventDone"))
           clear == Job("getState", 0, Then("clearLast"))
<1>1. /\ TakeResult("localUpdated") /\ fetched' = fetched /\ answer' = answer
      /\ jobs' = jobs \o <<delete, clear>> \/ Post(Job("pass", 0, then))
  BY DEF OnLocalStateUpdated, CoreOnly, CoreChanges
<1>2. IsIndex(c.tail)
  BY <1>1, TakeResultFacts DEF Carried, Captures
<1>3. Captures(then)
  BY <1>2 DEF Captures
<1> HIDE DEF then
<1>4. IsJob(Job("pass", 0, then))
  BY <1>3, JobFacts
<1>5. IsJob(delete) /\ IsJob(clear)
  BY PlainFacts DEF Plain, Then
<1> HIDE DEF delete, clear
<1>6. ASSUME jobs' = jobs \o <<delete, clear>>
      PROVE  JobsFine'
  <2>1. IsQueue(<<delete, clear>>) /\ Elements(<<delete, clear>>) = {delete, clear}
    <3>1. <<delete, clear>> = Append(<<delete>>, clear)
      OBVIOUS
    <3>2. IsQueue(Append(<<delete>>, clear))
          /\ Elements(Append(<<delete>>, clear)) = {delete} \cup {clear}
      BY QueueUnit, QueueAppend
    <3>. QED
      BY <3>1, <3>2
  <2>2. IsQueue(jobs') /\ Elements(jobs') = Elements(jobs) \cup {delete, clear}
    BY <1>6, <2>1, QueueConcat DEF Carried, JobsFine
  <2>. QED
    BY <1>5, <2>2 DEF Carried, JobsFine
<1>7. JobsFine'
  BY <1>1, <1>4, <1>6, PostFacts DEF Carried
<1>. QED
  BY <1>1, <1>7, CoreCarries

LEMMA EventUpdatedCarries ==
    ASSUME Carried, OnEventUpdated
    PROVE  Carried'
<1> DEFINE c == Captured
           depth == IF Cardinality(DOMAIN c.tail) > 0 THEN Cardinality(DOMAIN c.tail) + 1
                    ELSE None
           search == Job("nextHole", [from |-> c.last, depth |-> depth],
                         [step |-> "hole", from |-> c.last, recursion |-> 0,
                          depth |-> depth])
           delete == Job("deleteUpTo", c.delUpTo, Then("eventDone"))
<1>1. /\ TakeResult("eventUpdated") /\ fetched' = fetched /\ answer' = answer
      /\ \E s \in {<<search>>, <<>>}, d \in {<<delete>>, <<>>} : jobs' = jobs \o s \o d
  BY DEF OnEventUpdated, CoreOnly, CoreChanges
<1>2. IsJob(search) /\ IsJob(delete)
  BY PlainFacts DEF Plain, Then
<1> HIDE DEF search, delete
<1>3. JobsFine'
  <2>1. PICK s \in {<<search>>, <<>>}, d \in {<<delete>>, <<>>} : jobs' = jobs \o s \o d
    BY <1>1
  <2>2. /\ IsQueue(s) /\ Elements(s) \subseteq {search}
        /\ IsQueue(d) /\ Elements(d) \subseteq {delete}
    BY QueueUnit, QueueEmpty
  <2>3. IsQueue(jobs \o s) /\ Elements(jobs \o s) = Elements(jobs) \cup Elements(s)
    BY <2>2, QueueConcat DEF Carried, JobsFine
  <2>4. IsQueue(jobs') /\ Elements(jobs') = Elements(jobs \o s) \cup Elements(d)
    BY <2>1, <2>2, <2>3, QueueConcat
  <2>. QED
    BY <1>2, <2>2, <2>3, <2>4 DEF Carried, JobsFine
<1>. QED
  BY <1>1, <1>3, CoreCarries

LEMMA EventCarries ==
    ASSUME Carried,
           \/ OnClearLast \/ OnEventNotSentRemoved \/ OnTailUpdated \/ OnIntroUpdated
           \/ OnEventDone
    PROVE  Carried'
<1>1. CASE OnClearLast
  <2> DEFINE new == [last |-> Result.last, history |-> Result.version, dialog |-> 0,
                     delUpTo |-> Result.delUpTo]
  <2>1. /\ TakeResult("clearLast") /\ fetched' = fetched /\ answer' = answer
        /\ Post(Job("setState", new, Nothing))
    BY <1>1 DEF OnClearLast, CoreOnly, CoreChanges
  <2>2. IsJob(Job("setState", new, Nothing))
    BY PlainFacts DEF Plain, Nothing
  <2>3. JobsFine'
    BY <2>1, <2>2, PostFacts DEF Carried
  <2>. QED
    BY <2>1, <2>3, CoreCarries
<1>2. CASE OnEventNotSentRemoved
  <2> DEFINE arg == [messages |-> Captured.tail, patches |-> EmptyIndex,
                     from |-> None, older |-> TRUE]
             then == [Captured EXCEPT !.step = "tailUpdated"]
  <2>1. /\ TakeResult("eventNotSentRemoved") /\ fetched' = fetched /\ answer' = answer
        /\ Post(Job("update", arg, then))
    BY <1>2 DEF OnEventNotSentRemoved, CoreOnly, CoreChanges
  <2>2. IsIndex(arg.messages) /\ IsIndex(arg.patches)
    BY <2>1, TakeResultFacts, EmptyFacts DEF Carried, Captures
  <2>3. Captures(then)
    BY <2>1, TakeResultFacts DEF Carried, Captures
  <2> HIDE DEF arg, then
  <2>4. JobsFine'
    BY <2>1, <2>2, <2>3, JobFacts, PostFacts DEF Carried
  <2>. QED
    BY <2>1, <2>4, CoreCarries
<1>3. CASE OnTailUpdated
  BY <1>3, HopFacts DEF OnTailUpdated
<1>4. CASE OnIntroUpdated
  BY <1>4, HopFacts DEF OnIntroUpdated
<1>5. CASE OnEventDone
  <2>1. /\ TakeResult("eventDone") /\ fetched' = fetched /\ answer' = answer /\ jobs' = jobs
    BY <1>5 DEF OnEventDone, CoreOnly, CoreChanges
  <2>. QED
    BY <2>1, SameJobs, CoreCarries DEF Carried
<1>. QED
  BY <1>1, <1>2, <1>3, <1>4, <1>5

LEMMA ShownCarries ==
    ASSUME Carried,
           OnMessagesLoaded \/ OnStateOfMessages \/ OnMessagesShown \/ OnStateOfOpened
    PROVE  Carried'
<1>1. CASE OnMessagesLoaded
  BY <1>1, HopFacts DEF OnMessagesLoaded
<1>2. CASE OnStateOfMessages
  BY <1>2, HopFacts DEF OnStateOfMessages
<1>3. CASE OnMessagesShown
  <2>1. /\ TakeResult("messagesShown") /\ fetched' = fetched /\ answer' = answer
        /\ Post(Job("getState", 0, Then("stateOfOpened")))
    BY <1>3 DEF OnMessagesShown, CoreOnly, CoreChanges
  <2>2. IsJob(Job("getState", 0, Then("stateOfOpened")))
    BY PlainFacts DEF Plain, Then
  <2>3. JobsFine'
    BY <2>1, <2>2, PostFacts DEF Carried
  <2>. QED
    BY <2>1, <2>3, CoreCarries
<1>4. CASE OnStateOfOpened
  <2>1. /\ TakeResult("stateOfOpened") /\ fetched' = fetched /\ answer' = answer
        /\ jobs' = jobs
    BY <1>4 DEF OnStateOfOpened, CoreOnly, CoreChanges
  <2>. QED
    BY <2>1, SameJobs, CoreCarries DEF Carried
<1>. QED
  BY <1>1, <1>2, <1>3, <1>4

LEMMA CoreKeeps ==
    ASSUME IInv, RunCore
    PROVE  IInv'
<1>1. Carried /\ Followed
  BY DEF IInv
<1>2. Carried'
  BY <1>1, AnswerCarries, HistoryCarries, LoopCarries, LoadedCarries, UpdatedCarries,
     EventUpdatedCarries, EventCarries, ShownCarries DEF RunCore
<1>3. UNCHANGED archive
  BY DEF RunCore, OnHistory, OnStateStored, OnDropped, OnNotSentRemoved, OnHistoryUpdated,
     OnHolesFrom, OnHole, OnHoleState, OnValidated, DownloadFailedHoles, OnEventDlgState,
     OnLocalStateLoaded, OnLocalStateUpdated, OnClearLast, OnEventNotSentRemoved,
     OnTailUpdated, OnIntroUpdated, OnEventUpdated, OnEventDone, OnMessagesLoaded,
     OnStateOfMessages, OnMessagesShown, OnStateOfOpened, Hop, CoreOnly, CoreChanges
<1>4. Followed'
  BY <1>1, <1>3 DEF Followed, archive
<1>. QED
  BY <1>2, <1>4 DEF IInv

LEMMA OutsideKeeps ==
    ASSUME IInv, ServerMoves \/ UserMoves \/ ServerAnswers \/ OnHistoryFailed
    PROVE  IInv'
<1>1. Carried /\ Followed
  BY DEF IInv
<1>2. Followed'
  <2>1. UNCHANGED archive
    BY DEF ServerMoves, UserMoves, NewMessage, DeleteMessage, ClearUpTo, ClearByPatch,
       ServerChanges, OpenDialog, CloseDialog, ServerAnswers, OnHistoryFailed
  <2>. QED
    BY <1>1, <2>1 DEF Followed, archive
<1>3. CASE ServerMoves
  <2>1. UNCHANGED <<jobs, results, answer>>
    BY <1>3 DEF ServerMoves, NewMessage, DeleteMessage, ClearUpTo, ClearByPatch,
       ServerChanges, threads
  <2>2. PICK n : Announce(n)
    BY <1>3 DEF ServerMoves, NewMessage, DeleteMessage, ClearUpTo, ClearByPatch
  <2>3. FetchedFine'
    BY <1>1, <2>2, SnapshotFacts, QueueAppend DEF Announce, Carried, FetchedFine
  <2>. QED
    BY <1>1, <1>2, <2>1, <2>3 DEF IInv, Carried, JobsFine, ResultsFine, AnswerFine
<1>4. CASE OpenDialog
  <2>1. /\ UNCHANGED <<results, fetched, answer>>
        /\ Post(Job("getMessages", 0, Then("messagesLoaded")))
    BY <1>4 DEF OpenDialog, network
  <2>2. JobsFine'
    BY <1>1, <2>1, PlainFacts, PostFacts DEF Plain, Then, Carried
  <2>. QED
    BY <1>1, <1>2, <2>1, <2>2 DEF IInv, Carried, ResultsFine, FetchedFine, AnswerFine
<1>5. CASE CloseDialog
  <2>1. /\ UNCHANGED <<results, fetched, answer>> /\ Post(Job("free", 0, Nothing))
    BY <1>5 DEF CloseDialog, network
  <2>2. JobsFine'
    BY <1>1, <2>1, PlainFacts, PostFacts DEF Plain, Nothing, Carried
  <2>. QED
    BY <1>1, <1>2, <2>1, <2>2 DEF IInv, Carried, ResultsFine, FetchedFine, AnswerFine
<1>6. CASE ServerAnswers
  <2>1. UNCHANGED <<jobs, results, fetched>> /\ answer' = Answer(Head(requests))
    BY <1>6 DEF ServerAnswers, threads
  <2>2. AnswerFine'
    BY <2>1, AnswerFacts DEF AnswerFine
  <2>. QED
    BY <1>1, <1>2, <2>1, <2>2 DEF IInv, Carried, JobsFine, ResultsFine, FetchedFine
<1>7. CASE OnHistoryFailed
  <2>1. /\ UNCHANGED <<results, fetched>> /\ answer' = NoAnswer
        /\ DownloadHoles \/ jobs' = jobs
    BY <1>7 DEF OnHistoryFailed
  <2>2. JobsFine'
    BY <1>1, <2>1, DownloadHolesFacts, SameJobs DEF Carried
  <2>. QED
    BY <1>1, <1>2, <2>1, <2>2 DEF IInv, Carried, ResultsFine, FetchedFine, AnswerFine
<1>. QED
  BY <1>3, <1>4, <1>5, <1>6, <1>7 DEF UserMoves

LEMMA CrashKeeps ==
    ASSUME IInv, Crash
    PROVE  IInv'
<1>1. /\ jobs' = <<>> /\ results' = <<>> /\ answer' = NoAnswer
      /\ \E n \in Tails : fetched' = <<Snapshot(n)>>
      /\ memory' = EmptyIndex /\ loaded' = FALSE /\ file' = file
  BY DEF Crash
<1>2. FetchedFine'
  BY <1>1, SnapshotFacts, QueueUnit DEF FetchedFine
<1>3. JobsFine' /\ ResultsFine' /\ AnswerFine'
  BY <1>1, QueueEmpty DEF JobsFine, ResultsFine, AnswerFine
<1>4. IsIndex(file)
  BY DEF IInv, Followed, Follows
<1>5. Followed'
  BY <1>1, <1>4, SameFacts DEF Followed
<1>. QED
  BY <1>2, <1>3, <1>5 DEF IInv, Carried

LEMMA InitKeeps == Init => IInv
<1> SUFFICES ASSUME Init PROVE IInv
  OBVIOUS
<1>1. /\ jobs = <<>> /\ results = <<>> /\ answer = NoAnswer
      /\ \E n \in Tails : fetched = <<Snapshot(n)>>
      /\ memory = EmptyIndex /\ loaded = FALSE /\ file = Messages(1..Stored)
  BY DEF Init
<1>2. IsIndex(file)
  BY <1>1 DEF Messages, IsIndex, IsHeader, Header
<1>3. Carried
  BY <1>1, SnapshotFacts, QueueUnit, QueueEmpty
     DEF Carried, JobsFine, ResultsFine, FetchedFine, AnswerFine
<1>4. Followed
  BY <1>1, <1>2, SameFacts DEF Followed
<1>. QED
  BY <1>3, <1>4 DEF IInv

LEMMA NextKeeps == IInv /\ [Next]_vars => IInv'
<1>1. ASSUME IInv, UNCHANGED vars
      PROVE  IInv'
  BY <1>1 DEF IInv, Carried, Followed, JobsFine, ResultsFine, FetchedFine, AnswerFine,
     vars, network, archive, threads
<1>. QED
  BY <1>1, ArchiveKeeps, CoreKeeps, OutsideKeeps, CrashKeeps DEF Next

\* Whatever the server sends before the index of a dialog is loaded, after it and while the
\* loading waits: once it is loaded, the file on disk holds the same headers
\* (archive_index::insert_block, save_block, load_from_local, delete_up_to).
THEOREM SameAfterRestart == Spec => []FileFollowsMemory
<1>1. IInv => FileFollowsMemory
  BY DEF IInv, Followed, Follows, FileFollowsMemory
<1>. QED
  BY <1>1, InitKeeps, NextKeeps, PTL DEF Spec

-----------------------------------------------------------------------------
(* What links tell of the server's messages, for a server s.               *)

LiveIn(s) == {i \in 1..s.last : i > s.delUpTo /\ i \notin s.gone}

\* The messages of the server between p and i, but for those in K, are deleted.
Joined(s, i, p, K) == \A m \in LiveIn(s) : p < m /\ m < i => m \in K

\* A message's link skips nothing outside K, and a patch has no link.
Sound(s, x, K) ==
    \A i \in DOMAIN x :
        /\ x[i].prev \in Int
        /\ IF x[i].patch THEN x[i].prev = None
           ELSE i \in 1..s.last /\ Joined(s, i, x[i].prev, K)

Linked(s, x) == Sound(s, x, Kept(x))
IsBlock(s, b) == Sound(s, b, {})

\* The block b has every message below from.
Reaches(s, from, b) == \A m \in LiveIn(s) : m < from => m \in DOMAIN b /\ ~b[m].patch

IsUpTo(s, u) == u \in Int /\ u <= s.delUpTo
IsFrom(s, from) == from \in Int /\ from <= s.last
IsHole(s, from, to) == IsFrom(s, from) /\ (from # None => to \in Int)
IsRequest(s, r) == IsHole(s, r.from, r.till) /\ r.count \in Int
IsPage(s, from, messages, patches, older) ==
    /\ IsBlock(s, messages) /\ IsBlock(s, patches) /\ IsFrom(s, from)
    /\ ~older => Reaches(s, from, messages)
IsAnswer(s, r, a) == IsPage(s, r.from, a.messages, a.patches, a.older)

\* What a step of the core thread captures.
Tells(s, t) ==
    /\ t.step = "localLoaded" => IsUpTo(s, t.event.delUpTo) /\ IsBlock(s, t.event.tail)
    /\ t.step = "localUpdated" => IsBlock(s, t.tail)
    /\ t.step = "eventNotSentRemoved" => "tail" \in DOMAIN t /\ IsBlock(s, t.tail)
    /\ t.step \in {"eventNotSentRemoved", "tailUpdated", "introUpdated", "eventUpdated"} =>
          "delUpTo" \in DOMAIN t /\ IsUpTo(s, t.delUpTo)
    /\ t.step \in {"stateStored", "notSentRemoved"} =>
          {"answer", "request"} \subseteq DOMAIN t /\ IsAnswer(s, t.request, t.answer)
    /\ t.step = "holeState" => IsHole(s, t.hole.from, t.hole.to)

\* The result of a job.
Gives(s, r) ==
    /\ Tells(s, r.then)
    /\ r.then.step \in {"localUpdated", "clearLast"} => IsUpTo(s, r.value.delUpTo)
    /\ r.then.step = "hole" => IsHole(s, r.value.from, r.value.to)

Orders(s, j) ==
    /\ Tells(s, j.then)
    /\ j.op = "update" =>
          IsPage(s, j.arg.from, j.arg.messages, j.arg.patches, j.arg.older)
    /\ j.op = "setState" => IsUpTo(s, j.arg.delUpTo)
    /\ j.op = "deleteUpTo" => IsUpTo(s, j.arg)
    /\ j.then.step = "hole" => j.op = "nextHole"
    /\ j.then.step \in {"localUpdated", "clearLast"} => j.op \in {"getState", "setState"}

Announces(s, e) == IsUpTo(s, e.delUpTo) /\ IsBlock(s, e.tail)

IsServer(s) ==
    /\ {"last", "gone", "delUpTo", "log"} \subseteq DOMAIN s
    /\ s.last \in Nat /\ s.delUpTo \in Int /\ None <= s.delUpTo

JobsTold == \A j \in Elements(jobs) : Orders(server, j)
ResultsTold == \A r \in Elements(results) : Gives(server, r)
FetchedTold == \A e \in Elements(fetched) : Announces(server, e)
RequestsTold == IsQueue(requests) /\ \A r \in Elements(requests) : IsRequest(server, r)
AnswerTold ==
    answer # NoAnswer => requests # <<>> /\ IsAnswer(server, Head(requests), answer)

Told == JobsTold /\ ResultsTold /\ FetchedTold /\ RequestsTold /\ AnswerTold

Stocked ==
    /\ "delUpTo" \in DOMAIN state /\ IsUpTo(server, state.delUpTo)
    /\ Linked(server, memory) /\ Linked(server, file)

LInv == IsServer(server) /\ Told /\ Stocked

-----------------------------------------------------------------------------
(* Lowest and highest members. *)

LEMMA LowestFacts ==
    ASSUME NEW S \in SUBSET Nat, S # {}
    PROVE  Lowest(S) \in S /\ \A j \in S : Lowest(S) <= j
<1>1. PICK x \in S : \A y \in S : ~(<<y, x>> \in OpToRel(<, Nat))
  BY NatLessThanWellFounded, WFMin
<1>2. \A y \in S : ~(y < x)
  BY <1>1 DEF OpToRel
<1>3. \A y \in S : x <= y
  BY <1>2
<1>. QED
  BY <1>3 DEF Lowest

LEMMA HighestFacts ==
    ASSUME NEW n \in Nat, NEW S \in SUBSET (1..n), S # {}
    PROVE  /\ Highest(S) \in S /\ \A j \in S : j <= Highest(S)
<1> DEFINE T == {k \in Nat : \A j \in S : j <= k}
           k == Lowest(T)
<1>1. n \in T
  OBVIOUS
<1>2. k \in T /\ \A m \in T : k <= m
  BY <1>1, LowestFacts
<1> HIDE DEF k
<1>3. k \in S
  <2> SUFFICES ASSUME k \notin S PROVE FALSE
    OBVIOUS
  <2>1. PICK i \in S : TRUE
    OBVIOUS
  <2>2. i \in 1..n /\ i <= k /\ k \in Nat
    BY <1>2, <2>1
  <2>3. k - 1 \in Nat
    BY <2>2
  <2>4. \A j \in S : j <= k - 1
    BY <1>2
  <2>. QED
    BY <1>2, <2>3, <2>4
<1>. QED
  BY <1>2, <1>3 DEF Highest

-----------------------------------------------------------------------------
(* A server that goes on: what it has not deleted and is not new, it had.  *)

Later(s, t) ==
    /\ s.last <= t.last /\ s.delUpTo <= t.delUpTo
    /\ \A m \in LiveIn(t) : m \in LiveIn(s) \/ m > s.last

LEMMA LiveFacts == LiveIn(server) = Live /\ LiveIn(server') = Live'
  BY DEF LiveIn, Live

LEMMA SoundLater ==
    ASSUME NEW s, IsServer(s), NEW t, IsServer(t), Later(s, t), NEW x, NEW K, Sound(s, x, K)
    PROVE  Sound(t, x, K)
<1> SUFFICES ASSUME NEW i \in DOMAIN x, ~x[i].patch
             PROVE  i \in 1..t.last /\ Joined(t, i, x[i].prev, K)
  BY DEF Sound
<1>1. i \in 1..s.last /\ Joined(s, i, x[i].prev, K)
  BY DEF Sound
<1>2. i \in 1..t.last
  BY <1>1 DEF IsServer, Later
<1>3. \A m \in LiveIn(t) : m < i => m \in LiveIn(s)
  BY <1>1 DEF IsServer, Later, LiveIn
<1>. QED
  BY <1>1, <1>2, <1>3 DEF Joined

LEMMA SoundWider ==
    ASSUME NEW s, NEW x, NEW K, NEW L, K \subseteq L, Sound(s, x, K)
    PROVE  Sound(s, x, L)
  BY DEF Sound, Joined

LEMMA PageLater ==
    ASSUME NEW s, IsServer(s), NEW t, IsServer(t), Later(s, t), NEW from, NEW messages,
           NEW patches, NEW older, IsPage(s, from, messages, patches, older)
    PROVE  IsPage(t, from, messages, patches, older)
<1>1. IsBlock(t, messages) /\ IsBlock(t, patches)
  BY SoundLater DEF IsPage, IsBlock
<1>2. from \in Int /\ from <= s.last /\ from <= t.last
  BY DEF IsPage, IsFrom, Later, IsServer
<1>3. \A m \in LiveIn(t) : m < from => m \in LiveIn(s)
  BY <1>2 DEF IsServer, Later, LiveIn
<1>. QED
  BY <1>1, <1>2, <1>3 DEF IsPage, Reaches, IsFrom

LEMMA BoundsLater ==
    ASSUME NEW s, IsServer(s), NEW t, IsServer(t), Later(s, t)
    PROVE  /\ \A u : IsUpTo(s, u) => IsUpTo(t, u)
           /\ \A from, to : IsHole(s, from, to) => IsHole(t, from, to)
           /\ \A r : IsRequest(s, r) => IsRequest(t, r)
           /\ \A b : IsBlock(s, b) => IsBlock(t, b)
           /\ \A r, a : IsAnswer(s, r, a) => IsAnswer(t, r, a)
           /\ \A e : Announces(s, e) => Announces(t, e)
<1>1. \A u : IsUpTo(s, u) => IsUpTo(t, u)
  BY DEF IsUpTo, IsServer, Later
<1>2. \A from, to : IsHole(s, from, to) => IsHole(t, from, to)
  BY DEF IsHole, IsFrom, IsServer, Later
<1>3. \A b : IsBlock(s, b) => IsBlock(t, b)
  BY SoundLater DEF IsBlock
<1>4. \A r, a : IsAnswer(s, r, a) => IsAnswer(t, r, a)
  BY PageLater DEF IsAnswer
<1>. QED
  BY <1>1, <1>2, <1>3, <1>4, Zenon DEF IsRequest, Announces

LEMMA TellsLater ==
    ASSUME NEW s, IsServer(s), NEW t, IsServer(t), Later(s, t)
    PROVE  /\ \A c : Tells(s, c) => Tells(t, c)
           /\ \A r : Gives(s, r) => Gives(t, r)
           /\ \A j : Orders(s, j) => Orders(t, j)
<1>1. \A c : Tells(s, c) => Tells(t, c)
  BY BoundsLater, SMTT(30) DEF Tells
<1>2. \A r : Gives(s, r) => Gives(t, r)
  BY <1>1, BoundsLater DEF Gives
<1>3. \A from, m, p, o : IsPage(s, from, m, p, o) => IsPage(t, from, m, p, o)
  BY PageLater
<1>4. \A j : Orders(s, j) => Orders(t, j)
  BY <1>1, <1>3, BoundsLater, SMTT(30) DEF Orders
<1>. QED
  BY <1>1, <1>2, <1>4

-----------------------------------------------------------------------------
(* Indexes whose links skip nothing that is missing. *)

LEMMA HeaderFields ==
    ASSUME NEW x, IsIndex(x), NEW i \in DOMAIN x
    PROVE  {"prev", "patch"} \subseteq DOMAIN x[i]
<1> DEFINE h == x[i]
<1>1. h = Header(h.prev, h.patch, h.deleted)
  BY IndexHolds DEF IsHeader
<1>2. \A p, q, d : {"prev", "patch"} \subseteq DOMAIN Header(p, q, d)
  BY DEF Header
<1> HIDE DEF h
<1>3. {"prev", "patch"} \subseteq DOMAIN h
  BY <1>1, <1>2
<1>. QED
  BY <1>3 DEF h

LEMMA KeptInsert ==
    ASSUME NEW x, NEW b, NEW r, IsInserted(r, x, b)
    PROVE  /\ Kept(x) \subseteq Kept(r)
           /\ \A i \in DOMAIN b : ~b[i].patch => i \in Kept(r)
<1>1. \A h, n : MergeWith(h, n).patch <=> (h.patch /\ n.patch)
  BY DEF MergeWith
<1>2. ASSUME NEW i \in DOMAIN x, ~x[i].patch
      PROVE  i \in DOMAIN r /\ ~r[i].patch
  BY <1>1, <1>2 DEF IsInserted
<1>3. ASSUME NEW i \in DOMAIN b, ~b[i].patch
      PROVE  i \in DOMAIN r /\ ~r[i].patch
  BY <1>1, <1>3 DEF IsInserted
<1>. QED
  BY <1>2, <1>3 DEF Kept

LEMMA InsertLinked ==
    ASSUME NEW s, NEW x, IsIndex(x), Linked(s, x), NEW b, IsIndex(b),
           NEW K, K \subseteq Kept(InsertBlock(x, b)), Sound(s, b, K)
    PROVE  Linked(s, InsertBlock(x, b))
<1> DEFINE r == InsertBlock(x, b)
<1>1. IsInserted(r, x, b)
  BY InsertFacts
<1> HIDE DEF r
<1>2. Kept(x) \subseteq Kept(r) /\ K \subseteq Kept(r)
  BY <1>1, KeptInsert DEF r
<1>3. Sound(s, x, Kept(r)) /\ Sound(s, b, Kept(r))
  BY <1>2, SoundWider DEF Linked
<1>4. ASSUME NEW i \in DOMAIN r
      PROVE  /\ r[i].prev \in Int
             /\ IF r[i].patch THEN r[i].prev = None
                ELSE i \in 1..s.last /\ Joined(s, i, r[i].prev, Kept(r))
  <2>1. CASE i \in DOMAIN x /\ i \in DOMAIN b
    <3>1. /\ r[i].prev = IF b[i].prev # None \/ ~b[i].patch THEN b[i].prev ELSE x[i].prev
          /\ r[i].patch = (x[i].patch /\ b[i].patch)
      <4>1. r[i] = MergeWith(x[i], b[i])
        BY <2>1, <1>1 DEF IsInserted
      <4>. QED
        BY <4>1 DEF MergeWith
    <3>2. x[i].patch \in BOOLEAN /\ b[i].patch \in BOOLEAN
      BY <2>1, IndexHolds DEF IsHeader
    <3>. QED
      BY <2>1, <3>1, <3>2, <1>3 DEF Sound
  <2>2. CASE i \in DOMAIN x /\ i \notin DOMAIN b
    BY <2>2, <1>1, <1>3 DEF IsInserted, Sound
  <2>3. CASE i \notin DOMAIN x /\ i \in DOMAIN b
    BY <2>3, <1>1, <1>3 DEF IsInserted, Sound
  <2>. QED
    BY <2>1, <2>2, <2>3, <1>1 DEF IsInserted
<1>. QED
  BY <1>4 DEF Linked, Sound, r

\* What is appended to the file, when all the memory keeps is kept in the file.
LEMMA SavedSound ==
    ASSUME NEW s, NEW x, IsIndex(x), Linked(s, x), NEW b, IsIndex(b),
           NEW K, K \subseteq Kept(x), Sound(s, b, K)
    PROVE  Sound(s, SavedBlock(x, b), Kept(InsertBlock(x, b)))
<1> DEFINE r == InsertBlock(x, b)
           d == SavedBlock(x, b)
<1>1. IsInserted(r, x, b)
  BY InsertFacts
<1>2. DOMAIN d = DOMAIN b /\ \A i \in DOMAIN b :
         d[i] = IF i \in DOMAIN x /\ ~MergeWith(x[i], b[i]).deleted
                THEN MergeWith(x[i], b[i]) ELSE b[i]
  BY SavedFacts
<1> HIDE DEF r, d
<1>3. Kept(x) \subseteq Kept(r)
  BY <1>1, KeptInsert
<1>4. Linked(s, r) /\ Sound(s, b, Kept(r))
  BY <1>3, InsertLinked, SoundWider DEF r
<1>5. ASSUME NEW i \in DOMAIN d
      PROVE  (i \in DOMAIN r /\ d[i] = r[i]) \/ (i \in DOMAIN b /\ d[i] = b[i])
  BY <1>1, <1>2 DEF IsInserted
<1>. QED
  BY <1>4, <1>5 DEF Linked, Sound, d, r

LEMMA AcceptedSound ==
    ASSUME NEW s, IsServer(s), NEW x, NEW u, IsUpTo(s, u), NEW b, IsIndex(b), IsBlock(s, b)
    PROVE  IsBlock(s, Accepted(x, u, b))
<1> DEFINE r == Accepted(x, u, b)
<1>1. /\ DOMAIN r \subseteq DOMAIN b
      /\ \A i \in DOMAIN r :
            r[i] = IF b[i].prev <= u THEN [b[i] EXCEPT !.prev = None] ELSE b[i]
  BY DEF Accepted, News
<1> HIDE DEF r
<1>2. ASSUME NEW i \in DOMAIN r
      PROVE  /\ r[i].prev = IF b[i].prev <= u THEN None ELSE b[i].prev
             /\ r[i].patch = b[i].patch
  <2>1. {"prev", "patch"} \subseteq DOMAIN b[i]
    BY <1>1, HeaderFields
  <2>. QED
    BY <1>1, <2>1
<1>3. \A m \in LiveIn(s) : m > u /\ m \in Nat
  BY DEF LiveIn, IsServer, IsUpTo
<1>4. ASSUME NEW i \in DOMAIN r
      PROVE  /\ r[i].prev \in Int
             /\ IF r[i].patch THEN r[i].prev = None
                ELSE i \in 1..s.last /\ Joined(s, i, r[i].prev, {})
  <2>1. /\ b[i].prev \in Int
        /\ IF b[i].patch THEN b[i].prev = None
           ELSE i \in 1..s.last /\ Joined(s, i, b[i].prev, {})
    BY <1>1 DEF IsBlock, Sound
  <2>. QED
    BY <2>1, <1>2, <1>3 DEF Joined, None, IsUpTo
<1>. QED
  BY <1>4 DEF IsBlock, Sound, r

\* Messages that say they are complete down to the first one, and of which all are
\* known or deleted, let the message they were asked from be the first one.
LEMMA ClosingSound ==
    ASSUME NEW s, IsServer(s), NEW x, IsIndex(x), Linked(s, x), NEW u, IsUpTo(s, u),
           NEW messages, NEW patches, NEW from, NEW older,
           IsPage(s, from, messages, patches, older),
           DOMAIN Accepted(x, u, messages) = {}
    PROVE  Sound(s, Closing(x, from, older), Kept(x))
<1>1. CASE ~older /\ from \in Kept(x)
  <2> DEFINE h == [x[from] EXCEPT !.prev = None]
  <2>1. {"prev", "patch"} \subseteq DOMAIN x[from] /\ ~x[from].patch /\ from \in 1..s.last
    BY <1>1, HeaderFields DEF Kept, Linked, Sound
  <2>2. h.prev = None /\ ~h.patch
    BY <2>1
  <2>3. \A m \in LiveIn(s) : m < from => m \in Kept(x)
    <3> SUFFICES ASSUME NEW m \in LiveIn(s), m < from PROVE m \in Kept(x)
      OBVIOUS
    <3>1. m \in DOMAIN messages /\ ~messages[m].patch /\ m > u
      BY <1>1 DEF IsPage, Reaches, LiveIn, IsServer, IsUpTo
    <3>2. m \notin News(x, messages)
      BY <3>1 DEF Accepted
    <3>. QED
      BY <3>1, <3>2 DEF News, Kept
  <2> HIDE DEF h
  <2>4. Closing(x, from, older) = [i \in {from} |-> h]
    BY <1>1 DEF Closing, h
  <2>. QED
    BY <2>1, <2>2, <2>3, <2>4 DEF Sound, Joined, None
<1>2. CASE ~(~older /\ from \in Kept(x))
  BY <1>2, EmptyFacts DEF Closing, Sound
<1>. QED
  BY <1>1, <1>2

LEMMA DeleteLinked ==
    ASSUME NEW s, IsServer(s), NEW x, IsIndex(x), Linked(s, x), NEW u, IsUpTo(s, u)
    PROVE  Linked(s, DeleteUpTo(x, u))
<1> DEFINE rest == {i \in DOMAIN x : i > u}
           first == Lowest(rest)
           kept == Only(x, rest)
           r == DeleteUpTo(x, u)
<1>1. DOMAIN kept = rest /\ \A i \in rest : kept[i] = x[i]
  BY DEF Only
<1>2. r = kept \/ (kept[first].prev = u /\ r = [kept EXCEPT ![first].prev = None])
  BY DEF DeleteUpTo
<1> HIDE DEF first, kept, r
<1>3. ASSUME NEW i \in DOMAIN x
      PROVE  {"prev", "patch"} \subseteq DOMAIN x[i]
  BY HeaderFields
<1>4. /\ DOMAIN r = rest
      /\ \A i \in rest : /\ r[i].patch = x[i].patch
                         /\ r[i].prev = x[i].prev \/ (x[i].prev = u /\ r[i].prev = None)
  <2>1. CASE r = kept
    BY <2>1, <1>1
  <2>2. CASE kept[first].prev = u /\ r = [kept EXCEPT ![first].prev = None]
    <3>1. DOMAIN r = rest
      BY <2>2, <1>1
    <3>2. ASSUME NEW i \in rest
          PROVE  r[i] = IF i = first THEN [x[i] EXCEPT !.prev = None] ELSE x[i]
      BY <2>2, <1>1
    <3>3. ASSUME NEW i \in rest
          PROVE  /\ r[i].patch = x[i].patch
                 /\ r[i].prev = IF i = first THEN None ELSE x[i].prev
      BY <3>2, <1>3
    <3>. QED
      BY <2>2, <1>1, <3>1, <3>3
  <2>. QED
    BY <1>2, <2>1, <2>2
<1>5. \A m \in LiveIn(s) : m > u /\ m \in Nat
  BY DEF LiveIn, IsServer, IsUpTo
<1>6. ASSUME NEW i \in rest
      PROVE  /\ r[i].prev \in Int
             /\ IF r[i].patch THEN r[i].prev = None
                ELSE i \in 1..s.last /\ Joined(s, i, r[i].prev, Kept(r))
  <2>1. /\ x[i].prev \in Int
        /\ IF x[i].patch THEN x[i].prev = None
           ELSE i \in 1..s.last /\ Joined(s, i, x[i].prev, Kept(x))
    BY DEF Linked, Sound
  <2>2. \A m \in LiveIn(s) : m \in Kept(x) => m \in Kept(r)
    BY <1>4, <1>5 DEF Kept
  <2>. QED
    BY <2>1, <2>2, <1>4, <1>5 DEF Joined, None, IsUpTo
<1>. QED
  BY <1>4, <1>6 DEF Linked, Sound, r

\* A message linked to the one below it in the index is linked over no message.
LEMMA LinkedSound ==
    ASSUME NEW s, IsServer(s), NEW x, IsIndex(x), Linked(s, x), NEW i \in Kept(x),
           ~Broken(x, i), NEW m \in LiveIn(s)
    PROVE  ~(Below(x, i) < m /\ m < i)
<1> SUFFICES ASSUME Below(x, i) < m, m < i PROVE FALSE
  OBVIOUS
<1>1. Joined(s, i, x[i].prev, Kept(x)) /\ x[i].prev = Below(x, i)
  BY DEF Kept, Linked, Sound, Broken
<1>2. m \in Kept(x)
  BY <1>1 DEF Joined
<1> DEFINE lower == {j \in Kept(x) : j < i}
<1>3. s.last \in Nat /\ lower \in SUBSET (1..s.last) /\ m \in lower
  BY <1>2 DEF IsServer, Kept, Linked, Sound
<1>4. Below(x, i) = Highest(lower)
  BY <1>3 DEF Below
<1>5. m <= Highest(lower) /\ Highest(lower) \in lower
  BY <1>3, HighestFacts
<1>. QED
  BY <1>3, <1>4, <1>5

-----------------------------------------------------------------------------
(* What the server sends. *)

MessagesOf(s, S) == [i \in S |-> Header(Newest({j \in LiveIn(s) : j < i}), FALSE, FALSE)]

LEMMA MessagesOfFacts ==
    ASSUME NEW s, IsServer(s), NEW S, S \subseteq LiveIn(s)
    PROVE  /\ IsBlock(s, MessagesOf(s, S)) /\ DOMAIN MessagesOf(s, S) = S
           /\ \A i \in S : ~MessagesOf(s, S)[i].patch
<1> DEFINE b == MessagesOf(s, S)
           lower(i) == {j \in LiveIn(s) : j < i}
<1>1. /\ DOMAIN b = S
      /\ \A i \in S : b[i].prev = Newest(lower(i)) /\ b[i].patch = FALSE
  BY DEF MessagesOf, Header
<1>2. s.last \in Nat /\ LiveIn(s) \subseteq 1..s.last
  BY DEF IsServer, LiveIn
<1> HIDE DEF b
<1>3. ASSUME NEW i \in S
      PROVE  b[i].prev \in Int /\ i \in 1..s.last /\ Joined(s, i, b[i].prev, {})
  <2>1. i \in 1..s.last
    BY <1>2
  <2>2. CASE lower(i) = {}
    <3>1. b[i].prev = None
      BY <1>1, <2>2 DEF Newest
    <3>. QED
      BY <2>1, <2>2, <3>1 DEF Joined, None
  <2>3. CASE lower(i) # {}
    <3>1. b[i].prev = Highest(lower(i))
      BY <1>1, <2>3 DEF Newest
    <3>2. lower(i) \in SUBSET (1..s.last)
      BY <1>2
    <3>3. Highest(lower(i)) \in lower(i) /\ \A j \in lower(i) : j <= Highest(lower(i))
      BY <1>2, <2>3, <3>2, HighestFacts
    <3>4. \A m \in LiveIn(s) : m < i => m <= b[i].prev
      BY <3>1, <3>3
    <3>5. b[i].prev \in 1..s.last
      BY <3>1, <3>2, <3>3
    <3>6. \A m \in LiveIn(s) : m \in Nat
      BY <1>2
    <3>. QED
      BY <2>1, <3>4, <3>5, <3>6 DEF Joined
  <2>. QED
    BY <2>2, <2>3
<1>. QED
  BY <1>1, <1>3 DEF IsBlock, Sound, b

LEMMA TopFacts == \A S, n : Top(S, n) \subseteq S
  BY DEF Top

LEMMA SnapshotTells ==
    ASSUME NEW n
    PROVE  /\ IsServer(server) => Announces(server, Snapshot(n))
           /\ IsServer(server') => Announces(server', Snapshot(n)')
<1>1. ASSUME NEW s, IsServer(s)
      PROVE  IsBlock(s, MessagesOf(s, Top(LiveIn(s), n))) /\ IsUpTo(s, s.delUpTo)
  BY <1>1, TopFacts, MessagesOfFacts DEF IsServer, IsUpTo
<1>2. /\ Snapshot(n).delUpTo = server.delUpTo
      /\ Snapshot(n).tail = MessagesOf(server, Top(LiveIn(server), n))
  BY LiveFacts DEF Snapshot, Messages, MessagesOf
<1>3. /\ Snapshot(n)'.delUpTo = server'.delUpTo
      /\ Snapshot(n)'.tail = MessagesOf(server', Top(LiveIn(server'), n))
  BY LiveFacts DEF Snapshot, Messages, MessagesOf, Top
<1>. QED
  BY <1>1, <1>2, <1>3 DEF Announces

\* An answer that says there is nothing older has all there is below the message it
\* was asked from.
LEMMA AnswerTells ==
    ASSUME IsServer(server), NEW r, IsRequest(server, r)
    PROVE  IsAnswer(server, r, Answer(r))
<1> DEFINE range == {i \in Live : (r.from = None \/ i < r.from) /\ i > r.till}
           page == Top(range, r.count)
           below == {i \in Live : IF page = {} THEN r.from = None \/ i < r.from
                                  ELSE i < Lowest(page)}
           a == Answer(r)
<1>1. /\ a.messages = MessagesOf(server, page) /\ a.older = (below # {})
      /\ \E P : a.patches = [i \in P |-> Header(None, TRUE, TRUE)]
  BY LiveFacts DEF Answer, Messages, MessagesOf
<1>2. page \subseteq range /\ range \subseteq Live
  BY TopFacts
<1>3. server.last \in Nat /\ Live \subseteq 1..server.last
  BY DEF IsServer, Live
<1>4. /\ IsBlock(server, a.messages) /\ DOMAIN a.messages = page
      /\ \A i \in page : ~a.messages[i].patch
  BY <1>1, <1>2, LiveFacts, MessagesOfFacts
<1>5. IsBlock(server, a.patches)
  BY <1>1 DEF IsBlock, Sound, Header, None
<1>6. r.from \in Int /\ r.from <= server.last /\ (r.from # None => r.till \in Int)
      /\ r.count \in Int
  BY DEF IsRequest, IsHole, IsFrom
<1>7. ASSUME ~a.older, NEW m \in Live, m < r.from
      PROVE  m \in page
  <2>1. m \in 1..server.last /\ r.from # None /\ r.till \in Int
    BY <1>3, <1>6, <1>7 DEF None
  <2>2. below = {}
    BY <1>1, <1>7
  <2>3. page # {}
    BY <1>7, <2>2
  <2>4. page \in SUBSET Nat
    <3> HIDE DEF range, page
    <3>1. \A i \in page : i \in 1..server.last
      BY <1>2, <1>3
    <3>. QED
      BY <1>3, <3>1
  <2> DEFINE l == Lowest(page)
  <2>5. l \in page
    BY <2>3, <2>4, LowestFacts
  <2>6. l \in Nat
    BY <2>4, <2>5
  <2>7. ~(m < l)
    BY <1>7, <2>2, <2>3
  <2> HIDE DEF l
  <2>8. l \in range /\ l > r.till
    BY <1>2, <2>5
  <2>9. m \in range
    BY <1>7, <2>1, <2>6, <2>7, <2>8
  <2> DEFINE above(i) == {j \in range : i <= j}
  <2>10. IsFiniteSet(above(l)) /\ above(m) \subseteq above(l)
    <3>1. IsFiniteSet(1..server.last)
      BY <1>3, FS_Interval
    <3>2. above(l) \subseteq 1..server.last
      BY <1>2, <1>3
    <3>3. ASSUME NEW j \in above(m)
          PROVE  j \in above(l)
      BY <1>2, <1>3, <2>1, <2>6, <2>7
    <3>. QED
      BY <3>1, <3>2, <3>3, FS_Subset
  <2>11. /\ Cardinality(above(m)) <= Cardinality(above(l))
         /\ Cardinality(above(m)) \in Nat /\ Cardinality(above(l)) \in Nat
    BY <2>10, FS_Subset, FS_CardinalityType
  <2>12. Cardinality(above(l)) <= r.count
    BY <2>5 DEF Top
  <2>13. Cardinality(above(m)) <= r.count
    BY <1>6, <2>11, <2>12
  <2>. QED
    BY <2>9, <2>13 DEF Top
<1>8. ~a.older => Reaches(server, r.from, a.messages)
  <2> HIDE DEF page, a
  <2>. QED
    BY <1>4, <1>7, LiveFacts DEF Reaches
<1> HIDE DEF a
<1>9. IsAnswer(server, r, a)
  BY <1>4, <1>5, <1>6, <1>8 DEF IsAnswer, IsPage, IsFrom
<1>. QED
  BY <1>9 DEF a

-----------------------------------------------------------------------------
(* The server goes on. *)

LEMMA ServerGoesOn ==
    ASSUME IsServer(server), ServerMoves
    PROVE  /\ IsServer(server') /\ Later(server, server')
           /\ \E n : fetched' = Append(fetched, Snapshot(n)')
<1>1. /\ server.last \in Nat /\ server.delUpTo \in Int
      /\ {"last", "gone", "delUpTo", "log"} \subseteq DOMAIN server
      /\ \A i \in Live : i \in 1..server.last /\ i > server.delUpTo
  BY DEF IsServer, Live
<1>2. ASSUME DOMAIN server' = DOMAIN server, server'.last \in {server.last, server.last + 1},
             server'.delUpTo = server.delUpTo \/ server'.delUpTo \in Live,
             \A i : i \in server.gone => i \in server'.gone
      PROVE  IsServer(server') /\ Later(server, server')
  <2>1. /\ server'.last \in Nat /\ server'.last >= server.last
        /\ server'.delUpTo \in Int /\ server'.delUpTo >= server.delUpTo
    BY <1>1, <1>2
  <2>2. ASSUME NEW m \in LiveIn(server')
        PROVE  m \in LiveIn(server) \/ m > server.last
    BY <1>1, <1>2, <2>1 DEF LiveIn
  <2>. QED
    BY <1>1, <1>2, <2>1, <2>2 DEF IsServer, Later, None
<1>3. CASE NewMessage
  <2>1. server' = [server EXCEPT !.last = @ + 1] /\ \E n : fetched' = Append(fetched, Snapshot(n)')
    BY <1>3 DEF NewMessage, Announce
  <2>. QED
    BY <1>1, <1>2, <2>1
<1>4. CASE DeleteMessage
  <2>1. fetched' = Append(fetched, Snapshot(0)')
    BY <1>4 DEF DeleteMessage, Announce
  <2>2. PICK i \in Live : server' = [server EXCEPT !.gone = @ \cup {i}, !.log = Log("delete", i)]
    BY <1>4 DEF DeleteMessage
  <2>. QED
    BY <1>1, <1>2, <2>1, <2>2
<1>5. CASE ClearUpTo
  <2>1. fetched' = Append(fetched, Snapshot(0)')
    BY <1>5 DEF ClearUpTo, Announce
  <2>2. PICK i \in Live : server' = [server EXCEPT !.delUpTo = i]
    BY <1>5 DEF ClearUpTo
  <2>. QED
    BY <1>1, <1>2, <2>1, <2>2
<1>6. CASE ClearByPatch
  <2>1. fetched' = Append(fetched, Snapshot(0)') /\ Live # {}
    BY <1>6 DEF ClearByPatch, Announce
  <2>2. Highest(Live) \in Live
    BY <1>1, <2>1, HighestFacts DEF Live
  <2>3. server' = [server EXCEPT !.delUpTo = Highest(Live), !.log = Log("clear", Highest(Live))]
    BY <1>6 DEF ClearByPatch
  <2>. QED
    BY <1>1, <1>2, <2>1, <2>2, <2>3
<1>. QED
  BY <1>3, <1>4, <1>5, <1>6 DEF ServerMoves

LEMMA ServerTells ==
    ASSUME IInv, LInv, ServerMoves
    PROVE  LInv'
<1>1. /\ IsServer(server) /\ IsServer(server') /\ Later(server, server')
      /\ \E n : fetched' = Append(fetched, Snapshot(n)')
  BY ServerGoesOn DEF LInv
<1>2. UNCHANGED <<requests, answer, memory, file, state, jobs, results>>
  BY DEF ServerMoves, NewMessage, DeleteMessage, ClearUpTo, ClearByPatch, ServerChanges,
         archive, threads
<1>3. JobsTold' /\ ResultsTold'
  BY <1>1, <1>2, TellsLater DEF LInv, Told, JobsTold, ResultsTold
<1>4. RequestsTold' /\ AnswerTold'
  BY <1>1, <1>2, BoundsLater DEF LInv, Told, RequestsTold, AnswerTold
<1>5. FetchedTold'
  <2>1. PICK n : fetched' = Append(fetched, Snapshot(n)')
    BY <1>1
  <2>2. Elements(fetched') = Elements(fetched) \cup {Snapshot(n)'}
    BY <2>1, QueueAppend DEF IInv, Carried, FetchedFine
  <2>3. Announces(server', Snapshot(n)')
    BY <1>1, SnapshotTells
  <2>. QED
    BY <1>1, <2>2, <2>3, BoundsLater DEF LInv, Told, FetchedTold
<1>6. Stocked'
  <2>1. Linked(server', memory) /\ Linked(server', file)
    BY <1>1, SoundLater DEF LInv, Stocked, Linked
  <2>. QED
    BY <1>1, <1>2, <2>1, BoundsLater DEF LInv, Stocked
<1>. QED
  BY <1>1, <1>3, <1>4, <1>5, <1>6 DEF LInv, Told

-----------------------------------------------------------------------------
(* The archive's thread. *)

\* Steps that capture nothing of the server's.
Mute(t) ==
    /\ "step" \in DOMAIN t
    /\ t.step \notin {"localLoaded", "localUpdated", "eventNotSentRemoved", "tailUpdated",
                      "introUpdated", "eventUpdated", "stateStored", "notSentRemoved",
                      "holeState", "hole", "clearLast"}

LEMMA MuteTells ==
    ASSUME NEW s, NEW t, Mute(t)
    PROVE  /\ Tells(s, t) /\ t.step # "hole" /\ t.step \notin {"localUpdated", "clearLast"}
  BY DEF Mute, Tells

LEMMA MuteOrders ==
    ASSUME NEW s, NEW t, Mute(t), NEW op, NEW arg,
           op \notin {"update", "setState", "deleteUpTo"}
    PROVE  Orders(s, Job(op, arg, t))
<1>1. Job(op, arg, t).op = op /\ Job(op, arg, t).then = t
  BY DEF Job
<1>. QED
  BY <1>1, MuteTells DEF Orders

LEMMA PostTold ==
    ASSUME JobsFine, JobsTold, server' = server, NEW j, Orders(server, j), Post(j)
    PROVE  JobsTold'
<1>1. Elements(jobs') = Elements(jobs) \cup {j}
  BY QueueAppend DEF JobsFine, Post
<1>. QED
  BY <1>1 DEF JobsTold

LEMMA TakeResultTold ==
    ASSUME ResultsFine, ResultsTold, server' = server, NEW step, TakeResult(step)
    PROVE  /\ ResultsTold' /\ Gives(server, Head(results)) /\ Tells(server, Captured)
           /\ "step" \in DOMAIN Captured /\ Captured.step = step
<1>1. /\ Head(results) \in Elements(results) /\ Elements(results') \subseteq Elements(results)
  BY QueueTail DEF ResultsFine, TakeResult
<1>. QED
  BY <1>1, TakeResultFacts DEF ResultsTold, Gives, Captured, Captures

LEMMA TakeJobTold ==
    ASSUME JobsFine, JobsTold, server' = server, NEW op, TakeJob(op)
    PROVE  JobsTold' /\ Orders(server, Head(jobs)) /\ Head(jobs).op = op
<1>1. Head(jobs) \in Elements(jobs) /\ Elements(jobs') \subseteq Elements(jobs)
  BY QueueTail DEF JobsFine, TakeJob
<1>. QED
  BY <1>1 DEF JobsTold, TakeJob

LEMMA ReturnTold ==
    ASSUME ResultsFine, ResultsTold, server' = server, NEW value, Return(value),
           Gives(server, [then |-> Head(jobs).then, value |-> value])
    PROVE  ResultsTold'
<1> DEFINE r == [then |-> Head(jobs).then, value |-> value]
<1>1. Elements(Append(results, r)) = Elements(results) \cup {r}
  BY QueueAppend DEF ResultsFine
<1>2. Gives(server, r)
  OBVIOUS
<1> HIDE DEF r
<1>3. results' = results \/ results' = Append(results, r)
  BY DEF Return, r
<1>. QED
  BY <1>1, <1>2, <1>3 DEF ResultsTold

LEMMA AskedSame ==
    ASSUME RequestsTold, AnswerTold, UNCHANGED <<server, requests, answer>>
    PROVE  RequestsTold' /\ AnswerTold'
  BY DEF RequestsTold, AnswerTold

LEMMA ArchiveTells ==
    ASSUME IInv, LInv, NEW op, TakeJob(op), NEW value, Return(value), JobChanges,
           op \in {"getState", "setState"} => IsUpTo(server, value.delUpTo),
           op = "nextHole" => IsHole(server, value.from, value.to),
           Stocked'
    PROVE  LInv'
<1>1. server' = server /\ UNCHANGED <<requests, answer, fetched>>
  BY DEF JobOnly, JobChanges, network
<1>2. JobsTold' /\ Orders(server, Head(jobs)) /\ Head(jobs).op = op
  BY <1>1, TakeJobTold DEF IInv, Carried, LInv, Told
<1>3. Gives(server, [then |-> Head(jobs).then, value |-> value])
  BY <1>2 DEF Gives, Orders
<1>4. ResultsTold'
  BY <1>1, <1>3, ReturnTold DEF IInv, Carried, LInv, Told
<1>5. FetchedTold' /\ RequestsTold' /\ AnswerTold'
  BY <1>1, AskedSame DEF LInv, Told, FetchedTold
<1>. QED
  BY <1>1, <1>2, <1>4, <1>5 DEF LInv, Told

LEMMA KeptBounds ==
    ASSUME NEW s, IsServer(s), NEW x, Linked(s, x)
    PROVE  /\ Kept(x) \subseteq 1..s.last /\ \A i \in Kept(x) : Below(x, i) \in Int
<1>1. Kept(x) \subseteq 1..s.last
  BY DEF Kept, Linked, Sound
<1>2. ASSUME NEW i \in Kept(x)
      PROVE  Below(x, i) \in Int
  <2> DEFINE lower == {j \in Kept(x) : j < i}
  <2>1. lower \in SUBSET (1..s.last) /\ s.last \in Nat
    BY <1>1 DEF IsServer
  <2>2. lower # {} => Highest(lower) \in lower
    BY <2>1, HighestFacts
  <2>3. Below(x, i) = IF lower = {} THEN None ELSE Highest(lower)
    BY DEF Below
  <2> HIDE DEF lower
  <2>4. CASE lower = {}
    BY <2>3, <2>4 DEF None
  <2>5. CASE lower # {}
    <3>1. Highest(lower) \in 1..s.last
      BY <2>1, <2>2, <2>5
    <3>2. Below(x, i) = Highest(lower)
      BY <2>3, <2>5
    <3>3. \A k \in 1..s.last : k \in Int
      BY <2>1
    <3>. QED
      BY <3>1, <3>2, <3>3
  <2>. QED
    BY <2>4, <2>5
<1>. QED
  BY <1>1, <1>2

LEMMA NextHoleTells ==
    ASSUME NEW s, IsServer(s), NEW x, Linked(s, x), NEW from, NEW depth
    PROVE  IsHole(s, NextHole(x, from, depth).from, NextHole(x, from, depth).to)
<1> DEFINE h == NextHole(x, from, depth)
<1>1. ASSUME NEW to PROVE IsHole(s, None, to)
  BY DEF IsHole, IsFrom, IsServer, None
<1>2. ASSUME NEW top
      PROVE  IsHole(s, HoleBelow(x, top, depth).from, HoleBelow(x, top, depth).to)
  <2> DEFINE walk == {i \in Kept(x) : i <= top}
             rank(i) == Cardinality({j \in walk : i <= j})
             holes == {i \in walk : Broken(x, i) /\ (depth = None \/ rank(i) <= depth)}
             first == Highest(holes)
             b == HoleBelow(x, top, depth)
  <2>1. CASE holes = {}
    BY <2>1, <1>1 DEF HoleBelow, NoHole
  <2>2. CASE holes # {}
    <3>1. b.from = first /\ b.to = Below(x, first)
      BY <2>2 DEF HoleBelow, Hole
    <3>2. holes \subseteq Kept(x)
      OBVIOUS
    <3> HIDE DEF holes, b
    <3>3. holes \in SUBSET (1..s.last) /\ s.last \in Nat
      BY <3>2, KeptBounds DEF IsServer
    <3>4. first \in holes
      BY <2>2, <3>3, HighestFacts
    <3> HIDE DEF first
    <3>5. first \in Int /\ first <= s.last /\ Below(x, first) \in Int
      <4>1. first \in Kept(x) /\ first \in 1..s.last
        BY <3>2, <3>3, <3>4
      <4>. QED
        BY <3>3, <4>1, KeptBounds
    <3>6. IsHole(s, b.from, b.to)
      BY <3>1, <3>5 DEF IsHole, IsFrom
    <3>. QED
      BY <3>6 DEF b
  <2>. QED
    BY <2>1, <2>2
<1>3. \/ \E to : h = Hole(None, to, 0)
      \/ h = NoHole
      \/ \E top : h = HoleBelow(x, top, depth)
  BY DEF NextHole
<1> HIDE DEF h
<1>4. IsHole(s, h.from, h.to)
  BY <1>1, <1>2, <1>3 DEF Hole, NoHole
<1>. QED
  BY <1>4 DEF h

LEMMA KeptFollows ==
    ASSUME NEW m, NEW f, NEW isLoaded, Follows(m, f, isLoaded)
    PROVE  Kept(m) \subseteq Kept(f)
<1> SUFFICES ASSUME NEW i \in DOMAIN m, ~m[i].patch
             PROVE  i \in DOMAIN f /\ ~f[i].patch
  BY DEF Kept
<1>1. i \in DOMAIN f /\ MergeWith(f[i], m[i]) = f[i]
  BY DEF Follows, Absorbs
<1>2. MergeWith(f[i], m[i]).patch <=> (f[i].patch /\ m[i].patch)
  BY DEF MergeWith
<1>. QED
  BY <1>1, <1>2

LEMMA BothLinked ==
    ASSUME NEW s, NEW m, NEW f, NEW isLoaded, Follows(m, f, isLoaded),
           Linked(s, m), Linked(s, f), NEW b, IsIndex(b), Sound(s, b, Kept(m))
    PROVE  /\ Linked(s, InsertBlock(m, b))
           /\ Linked(s, InsertBlock(f, SavedBlock(m, b)))
<1> DEFINE m2 == InsertBlock(m, b)
           d == SavedBlock(m, b)
           f2 == InsertBlock(f, d)
<1>1. IsIndex(m) /\ IsIndex(f) /\ IsIndex(d)
  BY SavedFacts DEF Follows
<1>2. IsInserted(m2, m, b)
  BY <1>1, InsertFacts
<1>3. Kept(m) \subseteq Kept(m2)
  BY <1>2, KeptInsert
<1>4. Linked(s, m2)
  BY <1>1, <1>3, InsertLinked
<1>5. Sound(s, d, Kept(m2))
  BY <1>1, SavedSound
<1>6. Follows(m2, f2, isLoaded)
  BY InsertKeeps
<1> HIDE DEF m2, d, f2
<1>7. Kept(m2) \subseteq Kept(f2)
  BY <1>6, KeptFollows
<1>8. Linked(s, f2)
  BY <1>1, <1>5, <1>7, InsertLinked DEF f2
<1>. QED
  BY <1>4, <1>8 DEF m2, f2, d

LEMMA UpdateTells ==
    ASSUME IInv, LInv, RunUpdate
    PROVE  Stocked'
<1> DEFINE found == Accepted(memory, state.delUpTo, Arg.messages)
           patches == Accepted(memory, state.delUpTo, Arg.patches)
           closing == Closing(memory, Arg.from, Arg.older)
           messages == IF DOMAIN found \cup DOMAIN patches = {} THEN closing ELSE found
           between == InsertBlock(memory, messages)
           saved == InsertBlock(file, SavedBlock(memory, messages))
<1>1. /\ memory' = InsertBlock(between, patches)
      /\ file' = InsertBlock(saved, SavedBlock(between, patches))
      /\ state' = state /\ server' = server /\ TakeJob("update")
  BY DEF RunUpdate, JobOnly, JobChanges, network
<1>2. /\ IsIndex(Arg.messages) /\ IsIndex(Arg.patches)
  BY <1>1, TakeJobFacts DEF IInv, Carried, IsJob, Arg
<1>3. IsPage(server, Arg.from, Arg.messages, Arg.patches, Arg.older)
  BY <1>1, TakeJobTold DEF IInv, Carried, LInv, Told, Orders, Arg
<1>4. /\ Follows(memory, file, loaded) /\ Linked(server, memory) /\ Linked(server, file)
      /\ IsServer(server) /\ IsUpTo(server, state.delUpTo) /\ IsIndex(memory)
  BY DEF IInv, Followed, Follows, LInv, Stocked
<1>5. /\ IsIndex(found) /\ IsIndex(patches)
      /\ IsBlock(server, found) /\ IsBlock(server, patches)
  BY <1>2, <1>3, <1>4, AcceptedFacts, AcceptedSound DEF IsPage
<1>6. IsIndex(closing) /\ (DOMAIN found = {} => Sound(server, closing, Kept(memory)))
  BY <1>3, <1>4, ClosingFacts, ClosingSound
<1> HIDE DEF found, patches, closing
<1>7. IsIndex(messages) /\ Sound(server, messages, Kept(memory))
  BY <1>5, <1>6, SoundWider DEF IsBlock
<1> HIDE DEF messages
<1>8. Linked(server, between) /\ Linked(server, saved) /\ Follows(between, saved, loaded)
  BY <1>4, <1>7, BothLinked, InsertKeeps
<1> HIDE DEF between, saved
<1>9. Sound(server, patches, Kept(between))
  BY <1>5, SoundWider DEF IsBlock
<1>10. Linked(server, memory') /\ Linked(server, file')
  BY <1>1, <1>5, <1>8, <1>9, BothLinked
<1>. QED
  BY <1>1, <1>4, <1>10 DEF Stocked, LInv

LEMMA LoadTells ==
    ASSUME IInv, LInv, RunGetMessages
    PROVE  Stocked'
<1>1. /\ memory' = Load /\ file' = IF ~loaded /\ LoadDeletes THEN Load ELSE file
      /\ state' = state /\ server' = server
  BY DEF RunGetMessages, JobOnly, JobChanges, network
<1>2. /\ Follows(memory, file, loaded) /\ Linked(server, memory) /\ Linked(server, file)
      /\ IsServer(server) /\ IsUpTo(server, state.delUpTo) /\ IsIndex(file)
  BY DEF IInv, Followed, Follows, LInv, Stocked
<1>3. Loading = file
  BY <1>2, LoadingFacts DEF Loading
<1>4. Linked(server, DeleteUpTo(file, state.delUpTo))
  BY <1>2, DeleteLinked
<1>5. Linked(server, Load)
  BY <1>2, <1>3, <1>4 DEF Load
<1>. QED
  BY <1>1, <1>2, <1>5 DEF Stocked, LInv

LEMMA RunArchiveTells ==
    ASSUME IInv, LInv, RunArchive
    PROVE  LInv'
<1>0. /\ IsServer(server) /\ IsUpTo(server, state.delUpTo) /\ "delUpTo" \in DOMAIN state
      /\ Linked(server, memory) /\ Linked(server, file)
      /\ IsIndex(memory) /\ IsIndex(file)
  BY DEF LInv, Stocked, IInv, Followed, Follows
<1>1. ASSUME UNCHANGED archive, JobChanges PROVE Stocked'
  BY <1>0, <1>1 DEF Stocked, archive, JobOnly, JobChanges, network
<1>2. \A x : DOMAIN x = {} => Linked(server, x)
  BY DEF Linked, Sound
<1>3. CASE RunGetState
  BY <1>0, <1>1, <1>3, ArchiveTells DEF RunGetState, JobOnly
<1>4. CASE RunSetState
  <2>1. /\ TakeJob("setState") /\ Return(state') /\ JobChanges /\ state' = MergeState(Arg)
        /\ UNCHANGED <<memory, file>> /\ server' = server
    BY <1>4 DEF RunSetState, JobOnly, JobChanges, network
  <2>2. IsUpTo(server, Arg.delUpTo)
    BY <2>1, TakeJobTold DEF IInv, Carried, LInv, Told, Orders, Arg
  <2>3. /\ "delUpTo" \in DOMAIN MergeState(Arg)
        /\ MergeState(Arg).delUpTo \in {state.delUpTo, Arg.delUpTo}
    BY <1>0 DEF MergeState
  <2>4. IsUpTo(server, state'.delUpTo)
    BY <1>0, <2>1, <2>2, <2>3
  <2>5. Stocked'
    BY <1>0, <2>1, <2>3, <2>4 DEF Stocked
  <2>. QED
    BY <2>1, <2>4, <2>5, ArchiveTells
<1>5. CASE RunPass
  BY <1>1, <1>5, ArchiveTells DEF RunPass, JobOnly
<1>6. CASE RunUpdate
  BY <1>6, UpdateTells, ArchiveTells DEF RunUpdate, JobOnly
<1>7. CASE RunDrop
  <2>1. DOMAIN memory' = {} /\ DOMAIN file' = {} /\ state' = state /\ server' = server
    BY <1>7, EmptyFacts DEF RunDrop, JobOnly, JobChanges, network
  <2>2. Stocked'
    BY <1>0, <1>2, <2>1 DEF Stocked
  <2>. QED
    BY <1>7, <2>2, ArchiveTells DEF RunDrop
<1>8. CASE RunNextHole
  BY <1>0, <1>1, <1>8, NextHoleTells, ArchiveTells DEF RunNextHole
<1>9. CASE RunValidate
  BY <1>1, <1>9, ArchiveTells DEF RunValidate, JobOnly
<1>10. CASE RunDeleteUpTo
  <2>1. /\ TakeJob("deleteUpTo") /\ server' = server /\ state' = state
        /\ memory' = DeleteUpTo(memory, Arg) /\ file' \in {memory', file}
    BY <1>10 DEF RunDeleteUpTo, JobOnly, JobChanges, network
  <2>2. IsUpTo(server, Arg)
    BY <2>1, TakeJobTold DEF IInv, Carried, LInv, Told, Orders, Arg
  <2>3. Linked(server, memory')
    BY <1>0, <2>1, <2>2, DeleteLinked
  <2>4. Stocked'
    BY <1>0, <2>1, <2>3 DEF Stocked
  <2>. QED
    BY <1>10, <2>4, ArchiveTells DEF RunDeleteUpTo
<1>11. CASE RunGetMessages
  BY <1>11, LoadTells, ArchiveTells DEF RunGetMessages, JobOnly
<1>12. CASE RunFree
  <2>1. DOMAIN memory' = {} /\ file' = file /\ state' = state /\ server' = server
    BY <1>12, EmptyFacts DEF RunFree, JobOnly, JobChanges, network
  <2>2. Stocked'
    BY <1>0, <1>2, <2>1 DEF Stocked
  <2>. QED
    BY <1>12, <2>2, ArchiveTells DEF RunFree, JobOnly
<1>. QED
  BY <1>3, <1>4, <1>5, <1>6, <1>7, <1>8, <1>9, <1>10, <1>11, <1>12 DEF RunArchive

-----------------------------------------------------------------------------
(* The core thread. *)

LEMMA CoreTells ==
    ASSUME LInv, UNCHANGED <<server, archive>>, JobsTold', ResultsTold', FetchedTold',
           RequestsTold', AnswerTold'
    PROVE  LInv'
  BY DEF LInv, Told, Stocked, archive

\* A step that takes a result and asks nothing of the server.
LEMMA JobsTell ==
    ASSUME IInv, LInv, NEW step, TakeResult(step), requests' = requests,
           CoreChanges, JobsTold'
    PROVE  LInv'
<1>1. UNCHANGED <<server, archive, fetched, answer, requests>>
  BY DEF CoreOnly, CoreChanges
<1>2. ResultsTold'
  BY <1>1, TakeResultTold DEF IInv, Carried, LInv, Told
<1>3. FetchedTold' /\ RequestsTold' /\ AnswerTold'
  BY <1>1, AskedSame DEF LInv, Told, FetchedTold
<1>. QED
  BY <1>1, <1>2, <1>3, CoreTells

LEMMA SameJobsTold ==
    ASSUME JobsTold, server' = server, jobs' = jobs
    PROVE  JobsTold'
  BY DEF JobsTold

LEMMA GetNextHoleTells ==
    ASSUME JobsFine, JobsTold, server' = server, NEW from, NEW depth, NEW recursion,
           GetNextHole(from, depth, recursion)
    PROVE  JobsTold'
<1> DEFINE j == Job("nextHole", [from |-> from, depth |-> depth],
                    [step |-> "hole", from |-> from, depth |-> depth,
                     recursion |-> recursion])
<1>1. Orders(server, j)
  BY DEF Orders, Job, Tells
<1>2. Post(j)
  BY DEF GetNextHole
<1>. QED
  BY <1>1, <1>2, PostTold

LEMMA DownloadHolesTells ==
    ASSUME JobsFine, JobsTold, server' = server, DownloadHoles
    PROVE  JobsTold'
  BY MuteOrders, PostTold DEF DownloadHoles, Mute, Then

LEMMA AskTells ==
    ASSUME RequestsTold, AnswerTold, UNCHANGED <<server, answer>>, NEW r,
           IsRequest(server, r), AskHistory(r)
    PROVE  RequestsTold' /\ AnswerTold'
<1>1. IsQueue(requests') /\ Elements(requests') = Elements(requests) \cup {r}
  BY QueueAppend DEF RequestsTold, AskHistory
<1>2. requests # <<>> => requests' # <<>> /\ Head(requests') = Head(requests)
  BY DEF AskHistory, RequestsTold, IsQueue
<1>. QED
  BY <1>1, <1>2 DEF RequestsTold, AnswerTold

LEMMA RequestTells ==
    ASSUME NEW s, NEW from, NEW till, NEW count, NEW version, NEW then,
           IsHole(s, from, till), count \in Int
    PROVE  IsRequest(s, Request(from, till, count, version, then))
  BY DEF IsRequest, Request

LEMMA AnyTells ==
    ASSUME NEW s, IsServer(s)
    PROVE  /\ IsUpTo(s, None) /\ \A to : IsHole(s, None, to)
           /\ IsBlock(s, EmptyIndex)
  BY EmptyFacts DEF IsServer, IsUpTo, IsHole, IsFrom, None, IsBlock, Sound

LEMMA AnswerStored ==
    ASSUME IInv, LInv, OnHistory
    PROVE  LInv'
<1> DEFINE then == [step |-> "stateStored", request |-> Head(requests), answer |-> answer]
           new == [last |-> answer.last, history |-> answer.version, dialog |-> 0,
                   delUpTo |-> None]
<1>1. /\ requests # <<>> /\ answer # NoAnswer /\ requests' = Tail(requests)
      /\ answer' = NoAnswer /\ Post(Job("setState", new, then))
      /\ UNCHANGED <<server, fetched, archive, results>>
  BY DEF OnHistory
<1>2. IsServer(server) /\ IsAnswer(server, Head(requests), answer)
  BY <1>1 DEF LInv, Told, AnswerTold
<1>3. Orders(server, Job("setState", new, then))
  <2>1. Tells(server, then)
    BY <1>2 DEF Tells
  <2>2. IsUpTo(server, new.delUpTo)
    BY <1>2, AnyTells
  <2>3. then.step = "stateStored"
    OBVIOUS
  <2> HIDE DEF then, new
  <2>. QED
    BY <2>1, <2>2, <2>3 DEF Orders, Job
<1> HIDE DEF then, new
<1>4. JobsTold'
  BY <1>1, <1>3, PostTold DEF IInv, Carried, LInv, Told
<1>5. RequestsTold' /\ AnswerTold'
  BY <1>1, QueueTail DEF LInv, Told, RequestsTold, AnswerTold
<1>6. ResultsTold' /\ FetchedTold'
  BY <1>1 DEF LInv, Told, ResultsTold, FetchedTold
<1>. QED
  BY <1>1, <1>4, <1>5, <1>6, CoreTells

LEMMA HistoryTells ==
    ASSUME IInv, LInv, OnStateStored \/ OnDropped \/ OnNotSentRemoved \/ OnHistoryUpdated
    PROVE  LInv'
<1>0. JobsFine /\ ResultsFine /\ JobsTold /\ ResultsTold /\ IsServer(server)
  BY DEF IInv, Carried, LInv, Told
<1>1. CASE OnStateStored
  <2> DEFINE then == [Captured EXCEPT !.step = "notSentRemoved"]
  <2>1. TakeResult("stateStored") /\ CoreChanges /\ server' = server /\ requests' = requests
    BY <1>1 DEF OnStateStored, CoreOnly, CoreChanges
  <2>2. /\ Tells(server, Captured) /\ "step" \in DOMAIN Captured
        /\ Captured.step = "stateStored"
    BY <1>0, <2>1, TakeResultTold
  <2>3. {"answer", "request"} \subseteq DOMAIN Captured
        /\ IsAnswer(server, Captured.request, Captured.answer)
    BY <2>2 DEF Tells
  <2>4. /\ then.step = "notSentRemoved" /\ {"answer", "request"} \subseteq DOMAIN then
        /\ then.answer = Captured.answer /\ then.request = Captured.request
    BY <2>2, <2>3
  <2> HIDE DEF then
  <2>5. Orders(server, Job("pass", 0, then))
    BY <2>3, <2>4 DEF Orders, Job, Tells
  <2>6. Orders(server, Job("drop", 0, Then("dropped")))
    BY MuteOrders DEF Mute, Then
  <2>7. Post(Job("drop", 0, Then("dropped"))) \/ Post(Job("pass", 0, then))
    BY <1>1 DEF OnStateStored, then
  <2>8. JobsTold'
    BY <1>0, <2>1, <2>5, <2>6, <2>7, PostTold
  <2>. QED
    BY <2>1, <2>8, JobsTell
<1>2. CASE OnDropped
  <2>1. /\ TakeResult("dropped") /\ CoreChanges /\ server' = server /\ requests' = requests
        /\ DownloadHoles \/ jobs' = jobs
    BY <1>2 DEF OnDropped, CoreOnly, CoreChanges
  <2>2. JobsTold'
    BY <1>0, <2>1, DownloadHolesTells, SameJobsTold
  <2>. QED
    BY <2>1, <2>2, JobsTell
<1>3. CASE OnNotSentRemoved
  <2> DEFINE a == Captured.answer
             arg == [messages |-> a.messages, patches |-> a.patches,
                     from |-> Captured.request.from, older |-> a.older]
             then == [step |-> "historyUpdated", then |-> Captured.request.then]
  <2>1. /\ TakeResult("notSentRemoved") /\ CoreChanges /\ server' = server
        /\ requests' = requests /\ Post(Job("update", arg, then))
    BY <1>3 DEF OnNotSentRemoved, CoreOnly, CoreChanges
  <2>2. IsAnswer(server, Captured.request, a)
    BY <1>0, <2>1, TakeResultTold DEF Tells
  <2>3. IsPage(server, arg.from, arg.messages, arg.patches, arg.older)
    BY <2>2 DEF IsAnswer
  <2>4. Mute(then)
    BY DEF Mute
  <2> HIDE DEF arg, then
  <2>5. Orders(server, Job("update", arg, then))
    BY <2>3, <2>4, MuteTells DEF Orders, Job
  <2>6. JobsTold'
    BY <1>0, <2>1, <2>5, PostTold
  <2>. QED
    BY <2>1, <2>6, JobsTell
<1>4. CASE OnHistoryUpdated
  <2> DEFINE t == Captured.then
             validated == [step |-> "validated", depth |-> t.tail, recursion |-> t.recursion]
  <2>1. /\ TakeResult("historyUpdated") /\ CoreChanges /\ server' = server
        /\ requests' = requests
        /\ \/ Post(Job("validate", t.hole, validated))
           \/ DownloadHoles
           \/ jobs' = jobs
    BY <1>4 DEF OnHistoryUpdated, CoreOnly, CoreChanges, Succeeded
  <2>2. Orders(server, Job("validate", t.hole, validated))
    BY MuteOrders DEF Mute
  <2>3. JobsTold'
    BY <1>0, <2>1, <2>2, PostTold, DownloadHolesTells, SameJobsTold
  <2>. QED
    BY <2>1, <2>3, JobsTell
<1>. QED
  BY <1>1, <1>2, <1>3, <1>4

LEMMA LoopTells ==
    ASSUME IInv, LInv,
           OnHolesFrom \/ OnHole \/ OnHoleState \/ OnValidated \/ DownloadFailedHoles
    PROVE  LInv'
<1>0. JobsFine /\ ResultsFine /\ JobsTold /\ ResultsTold /\ IsServer(server)
  BY DEF IInv, Carried, LInv, Told
<1>1. CASE OnHolesFrom
  <2>1. /\ TakeResult("holesFrom") /\ CoreChanges /\ server' = server /\ requests' = requests
        /\ GetNextHole(Result.last, None, 0)
    BY <1>1 DEF OnHolesFrom, CoreOnly, CoreChanges
  <2>2. JobsTold'
    BY <1>0, <2>1, GetNextHoleTells
  <2>. QED
    BY <2>1, <2>2, JobsTell
<1>2. CASE OnHole
  <2> DEFINE then == [step |-> "holeState", hole |-> Result, from |-> Captured.from,
                      depth |-> Captured.depth, recursion |-> Captured.recursion]
  <2>1. /\ TakeResult("hole") /\ CoreChanges /\ server' = server /\ requests' = requests
        /\ jobs' = jobs \/ Post(Job("getState", 0, then))
    BY <1>2 DEF OnHole, CoreOnly, CoreChanges
  <2>2. IsHole(server, Result.from, Result.to)
    BY <1>0, <2>1, TakeResultTold DEF Gives, Result, Captured
  <2>3. Orders(server, Job("getState", 0, then))
    BY <2>2 DEF Orders, Job, Tells
  <2>4. JobsTold'
    BY <1>0, <2>1, <2>3, PostTold, SameJobsTold
  <2>. QED
    BY <2>1, <2>4, JobsTell
<1>3. CASE OnHoleState
  <2> DEFINE hole == Captured.hole
             then == [step |-> "holeAnswered", hole |-> hole, from |-> Captured.from,
                      depth |-> Captured.depth, recursion |-> Captured.recursion,
                      tail |-> DepthTail(Captured.depth, hole)]
             r == Request(hole.from, hole.to, PageSize, Result.version, then)
  <2>1. /\ TakeResult("holeState") /\ UNCHANGED <<server, fetched, answer, archive, jobs>>
        /\ requests' = requests \/ AskHistory(r)
    BY <1>3 DEF OnHoleState, CoreChanges
  <2>2. IsHole(server, hole.from, hole.to)
    BY <1>0, <2>1, TakeResultTold DEF Tells
  <2> HIDE DEF then
  <2>3. IsRequest(server, r)
    BY <2>2, RequestTells, HistoryAssumption
  <2> HIDE DEF r
  <2>4. RequestsTold' /\ AnswerTold'
    BY <2>1, <2>3, AskTells, AskedSame DEF LInv, Told
  <2>5. JobsTold' /\ ResultsTold' /\ FetchedTold'
    BY <1>0, <2>1, SameJobsTold, TakeResultTold DEF LInv, Told, FetchedTold
  <2>. QED
    BY <2>1, <2>4, <2>5, CoreTells
<1>4. CASE OnValidated
  <2>1. /\ TakeResult("validated") /\ CoreChanges /\ server' = server /\ requests' = requests
        /\ GetNextHole(Result, Captured.depth, Captured.recursion + 1)
    BY <1>4 DEF OnValidated, CoreOnly, CoreChanges
  <2>2. JobsTold'
    BY <1>0, <2>1, GetNextHoleTells
  <2>. QED
    BY <2>1, <2>2, JobsTell
<1>5. CASE DownloadFailedHoles
  <2>1. /\ UNCHANGED <<server, fetched, answer, archive, results, requests>>
        /\ GetNextHole(failed.from, failed.depth, failed.recursion)
    BY <1>5 DEF DownloadFailedHoles, CoreOnly, CoreChanges
  <2>2. JobsTold'
    BY <1>0, <2>1, GetNextHoleTells
  <2>3. ResultsTold' /\ FetchedTold' /\ RequestsTold' /\ AnswerTold'
    BY <2>1, AskedSame DEF LInv, Told, ResultsTold, FetchedTold
  <2>. QED
    BY <2>1, <2>2, <2>3, CoreTells
<1>. QED
  BY <1>1, <1>2, <1>3, <1>4, <1>5

LEMMA EventBegins ==
    ASSUME IInv, LInv, OnEventDlgState
    PROVE  LInv'
<1> DEFINE then == [step |-> "localLoaded", event |-> Head(fetched)]
<1>1. /\ fetched # <<>> /\ fetched' = Tail(fetched) /\ Post(Job("getState", 0, then))
      /\ UNCHANGED <<server, requests, answer, archive, results>>
  BY DEF OnEventDlgState
<1>2. Announces(server, Head(fetched)) /\ FetchedTold'
  BY <1>1, QueueTail DEF IInv, Carried, FetchedFine, LInv, Told, FetchedTold
<1>3. Tells(server, then) /\ then.step = "localLoaded"
  BY <1>2 DEF Tells, Announces
<1> HIDE DEF then
<1>4. Orders(server, Job("getState", 0, then))
  BY <1>3 DEF Orders, Job
<1>5. JobsTold'
  BY <1>1, <1>4, PostTold DEF IInv, Carried, LInv, Told
<1>6. ResultsTold' /\ RequestsTold' /\ AnswerTold'
  BY <1>1, AskedSame DEF LInv, Told, ResultsTold
<1>. QED
  BY <1>1, <1>2, <1>5, <1>6, CoreTells

LEMMA StateLoaded ==
    ASSUME IInv, LInv, OnLocalStateLoaded
    PROVE  LInv'
<1> DEFINE e == Captured.event
           new == [last |-> e.last, history |-> 0, dialog |-> e.version,
                   delUpTo |-> e.delUpTo]
           then == [step |-> "localUpdated", tail |-> e.tail,
                    patched |-> Result.last # None /\ e.version # Result.version,
                    cleared |-> e.delUpTo > Result.delUpTo,
                    moved   |-> e.last > Result.last]
<1>0. JobsFine /\ ResultsFine /\ JobsTold /\ ResultsTold /\ IsServer(server)
  BY DEF IInv, Carried, LInv, Told
<1>1. /\ TakeResult("localLoaded") /\ CoreChanges /\ server' = server /\ requests' = requests
      /\ Post(Job("setState", new, then))
  BY DEF OnLocalStateLoaded, CoreOnly, CoreChanges
<1>2. IsUpTo(server, e.delUpTo) /\ IsBlock(server, e.tail)
  BY <1>0, <1>1, TakeResultTold DEF Tells
<1>3. IsUpTo(server, new.delUpTo) /\ then.step = "localUpdated" /\ Tells(server, then)
  BY <1>2 DEF Tells
<1> HIDE DEF new, then
<1>4. Orders(server, Job("setState", new, then))
  BY <1>3 DEF Orders, Job
<1>5. JobsTold'
  BY <1>0, <1>1, <1>4, PostTold
<1>. QED
  BY <1>1, <1>5, JobsTell

LEMMA StateUpdated ==
    ASSUME IInv, LInv, OnLocalStateUpdated
    PROVE  LInv'
<1> DEFINE c == Captured
           then == [step |-> "eventNotSentRemoved", tail |-> c.tail,
                    last |-> IF DOMAIN c.tail = {} THEN Result.last
                             ELSE Highest(DOMAIN c.tail),
                    delUpTo |-> Result.delUpTo, patched |-> c.patched,
                    cleared |-> c.cleared, moved |-> c.moved]
           delete == Job("deleteUpTo", Result.delUpTo, Then("eventDone"))
           clear == Job("getState", 0, Then("clearLast"))
           r == Request(None, None, 1, Result.version, Nothing)
<1>0. JobsFine /\ ResultsFine /\ JobsTold /\ ResultsTold /\ IsServer(server)
  BY DEF IInv, Carried, LInv, Told
<1>1. /\ TakeResult("localUpdated") /\ UNCHANGED <<server, fetched, answer, archive>>
      /\ jobs' = jobs \o <<delete, clear>> \/ Post(Job("pass", 0, then))
      /\ requests' = requests \/ AskHistory(r)
  BY DEF OnLocalStateUpdated, CoreOnly, CoreChanges
<1>2. IsBlock(server, c.tail) /\ IsUpTo(server, Result.delUpTo) /\ ResultsTold'
  BY <1>0, <1>1, TakeResultTold DEF Tells, Gives, Result, Captured
<1>3. Orders(server, Job("pass", 0, then))
  <2>1. Tells(server, then) /\ then.step = "eventNotSentRemoved"
    BY <1>2 DEF Tells
  <2> HIDE DEF then
  <2>. QED
    BY <2>1 DEF Orders, Job
<1>4. Orders(server, delete) /\ Orders(server, clear)
  BY <1>2 DEF Orders, Job, Tells, Then
<1>5. IsRequest(server, r)
  BY <1>0, AnyTells, RequestTells
<1> HIDE DEF then, delete, clear, r
<1>6. ASSUME jobs' = jobs \o <<delete, clear>>
      PROVE  JobsTold'
  <2>1. IsQueue(<<delete, clear>>) /\ Elements(<<delete, clear>>) = {delete, clear}
    <3>1. <<delete, clear>> = Append(<<delete>>, clear)
      OBVIOUS
    <3>2. IsQueue(Append(<<delete>>, clear))
          /\ Elements(Append(<<delete>>, clear)) = {delete} \cup {clear}
      BY QueueUnit, QueueAppend
    <3>. QED
      BY <3>1, <3>2
  <2>2. Elements(jobs') = Elements(jobs) \cup {delete, clear}
    BY <1>0, <1>6, <2>1, QueueConcat DEF JobsFine
  <2>. QED
    BY <1>0, <1>1, <1>4, <2>2 DEF JobsTold
<1>7. JobsTold'
  BY <1>0, <1>1, <1>3, <1>6, PostTold
<1>8. RequestsTold' /\ AnswerTold'
  BY <1>1, <1>5, AskTells, AskedSame DEF LInv, Told
<1>9. FetchedTold'
  BY <1>1 DEF LInv, Told, FetchedTold
<1>. QED
  BY <1>1, <1>2, <1>7, <1>8, <1>9, CoreTells

LEMMA EventUpdatedTells ==
    ASSUME IInv, LInv, OnEventUpdated
    PROVE  LInv'
<1> DEFINE c == Captured
           depth == IF Cardinality(DOMAIN c.tail) > 0 THEN Cardinality(DOMAIN c.tail) + 1
                    ELSE None
           search == Job("nextHole", [from |-> c.last, depth |-> depth],
                         [step |-> "hole", from |-> c.last, recursion |-> 0,
                          depth |-> depth])
           delete == Job("deleteUpTo", c.delUpTo, Then("eventDone"))
<1>0. JobsFine /\ ResultsFine /\ JobsTold /\ ResultsTold
  BY DEF IInv, Carried, LInv, Told
<1>1. /\ TakeResult("eventUpdated") /\ CoreChanges /\ server' = server /\ requests' = requests
      /\ \E s \in {<<search>>, <<>>}, d \in {<<delete>>, <<>>} : jobs' = jobs \o s \o d
  BY DEF OnEventUpdated, CoreOnly, CoreChanges
<1>2. IsUpTo(server, c.delUpTo)
  BY <1>0, <1>1, TakeResultTold DEF Tells
<1>3. Orders(server, search) /\ Orders(server, delete)
  BY <1>2 DEF Orders, Job, Tells, Then
<1> HIDE DEF search, delete
<1>4. JobsTold'
  <2>1. PICK s \in {<<search>>, <<>>}, d \in {<<delete>>, <<>>} : jobs' = jobs \o s \o d
    BY <1>1
  <2>2. /\ IsQueue(s) /\ Elements(s) \subseteq {search}
        /\ IsQueue(d) /\ Elements(d) \subseteq {delete}
    BY QueueUnit, QueueEmpty
  <2>3. IsQueue(jobs \o s) /\ Elements(jobs \o s) = Elements(jobs) \cup Elements(s)
    BY <1>0, <2>2, QueueConcat DEF JobsFine
  <2>4. Elements(jobs') = Elements(jobs \o s) \cup Elements(d)
    BY <2>1, <2>2, <2>3, QueueConcat
  <2>. QED
    BY <1>0, <1>1, <1>3, <2>2, <2>3, <2>4 DEF JobsTold
<1>. QED
  BY <1>1, <1>4, JobsTell

\* The steps of an event that wait for a job with no result.
LEMMA HopTells ==
    ASSUME IInv, LInv, NEW step, NEW next, Hop(step, next),
           \/ step \in {"tailUpdated", "introUpdated"}
              /\ next \in {"introUpdated", "eventUpdated"}
           \/ next \in {"stateOfMessages", "messagesShown"}
    PROVE  LInv'
<1> DEFINE then == [Captured EXCEPT !.step = next]
<1>0. JobsFine /\ ResultsFine /\ JobsTold /\ ResultsTold
  BY DEF IInv, Carried, LInv, Told
<1>1. /\ TakeResult(step) /\ CoreChanges /\ server' = server /\ requests' = requests
      /\ Post(Job("pass", 0, then))
  BY DEF Hop, CoreOnly, CoreChanges, network
<1>2. /\ Tells(server, Captured) /\ "step" \in DOMAIN Captured /\ Captured.step = step
  BY <1>0, <1>1, TakeResultTold
<1>3. then.step = next /\ "step" \in DOMAIN then
  BY <1>2
<1>4. Orders(server, Job("pass", 0, then))
  <2>1. CASE step \in {"tailUpdated", "introUpdated"}
             /\ next \in {"introUpdated", "eventUpdated"}
    <3>1. "delUpTo" \in DOMAIN Captured /\ IsUpTo(server, Captured.delUpTo)
      BY <1>2, <2>1 DEF Tells
    <3>2. "delUpTo" \in DOMAIN then /\ IsUpTo(server, then.delUpTo)
      BY <1>2, <3>1
    <3> HIDE DEF then
    <3>. QED
      BY <1>3, <2>1, <3>2 DEF Orders, Job, Tells
  <2>2. CASE next \in {"stateOfMessages", "messagesShown"}
    <3> HIDE DEF then
    <3>1. Mute(then)
      BY <1>3, <2>2 DEF Mute
    <3>. QED
      BY <3>1, MuteOrders
  <2>. QED
    BY <2>1, <2>2
<1> HIDE DEF then
<1>5. JobsTold'
  BY <1>0, <1>1, <1>4, PostTold
<1>. QED
  BY <1>1, <1>5, JobsTell

LEMMA TailTells ==
    ASSUME IInv, LInv, OnEventNotSentRemoved
    PROVE  LInv'
<1> DEFINE arg == [messages |-> Captured.tail, patches |-> EmptyIndex,
                   from |-> None, older |-> TRUE]
           then == [Captured EXCEPT !.step = "tailUpdated"]
<1>0. JobsFine /\ ResultsFine /\ JobsTold /\ ResultsTold /\ IsServer(server)
  BY DEF IInv, Carried, LInv, Told
<1>1. /\ TakeResult("eventNotSentRemoved") /\ CoreChanges /\ server' = server
      /\ requests' = requests /\ Post(Job("update", arg, then))
  BY DEF OnEventNotSentRemoved, CoreOnly, CoreChanges
<1>2. /\ Tells(server, Captured) /\ "step" \in DOMAIN Captured
      /\ Captured.step = "eventNotSentRemoved"
  BY <1>0, <1>1, TakeResultTold
<1>3. /\ IsBlock(server, Captured.tail)
      /\ "delUpTo" \in DOMAIN Captured /\ IsUpTo(server, Captured.delUpTo)
  BY <1>2 DEF Tells
<1>4. /\ then.step = "tailUpdated" /\ "delUpTo" \in DOMAIN then
      /\ IsUpTo(server, then.delUpTo)
  BY <1>2, <1>3
<1>5. IsPage(server, arg.from, arg.messages, arg.patches, arg.older)
  BY <1>0, <1>3, AnyTells DEF IsPage, IsHole
<1> HIDE DEF arg, then
<1>6. Tells(server, then)
  BY <1>4 DEF Tells
<1>7. Orders(server, Job("update", arg, then))
  BY <1>4, <1>5, <1>6 DEF Orders, Job
<1>8. JobsTold'
  BY <1>0, <1>1, <1>7, PostTold
<1>. QED
  BY <1>1, <1>8, JobsTell

LEMMA EventTells ==
    ASSUME IInv, LInv, OnClearLast \/ OnEventDone
    PROVE  LInv'
<1>0. JobsFine /\ ResultsFine /\ JobsTold /\ ResultsTold
  BY DEF IInv, Carried, LInv, Told
<1>1. CASE OnClearLast
  <2> DEFINE new == [last |-> Result.last, history |-> Result.version, dialog |-> 0,
                     delUpTo |-> Result.delUpTo]
  <2>1. /\ TakeResult("clearLast") /\ CoreChanges /\ server' = server /\ requests' = requests
        /\ Post(Job("setState", new, Nothing))
    BY <1>1 DEF OnClearLast, CoreOnly, CoreChanges
  <2>2. IsUpTo(server, Result.delUpTo)
    BY <1>0, <2>1, TakeResultTold DEF Gives, Result, Captured
  <2>3. IsUpTo(server, new.delUpTo) /\ Mute(Nothing)
    BY <2>2 DEF Mute, Nothing
  <2> HIDE DEF new
  <2>4. Orders(server, Job("setState", new, Nothing))
    BY <2>3, MuteTells DEF Orders, Job
  <2>5. JobsTold'
    BY <1>0, <2>1, <2>4, PostTold
  <2>. QED
    BY <2>1, <2>5, JobsTell
<1>2. CASE OnEventDone
  <2>1. /\ TakeResult("eventDone") /\ CoreChanges /\ server' = server /\ requests' = requests
        /\ jobs' = jobs
    BY <1>2 DEF OnEventDone, CoreOnly, CoreChanges
  <2>. QED
    BY <1>0, <2>1, SameJobsTold, JobsTell
<1>. QED
  BY <1>1, <1>2

LEMMA ShownTells ==
    ASSUME IInv, LInv, OnMessagesShown \/ OnStateOfOpened
    PROVE  LInv'
<1>0. JobsFine /\ ResultsFine /\ JobsTold /\ ResultsTold /\ IsServer(server)
  BY DEF IInv, Carried, LInv, Told
<1>1. CASE OnMessagesShown
  <2>1. /\ TakeResult("messagesShown") /\ CoreChanges /\ server' = server /\ requests' = requests
        /\ Post(Job("getState", 0, Then("stateOfOpened")))
    BY <1>1 DEF OnMessagesShown, CoreOnly, CoreChanges
  <2>2. Orders(server, Job("getState", 0, Then("stateOfOpened")))
    BY MuteOrders DEF Mute, Then
  <2>3. JobsTold'
    BY <1>0, <2>1, <2>2, PostTold
  <2>. QED
    BY <2>1, <2>3, JobsTell
<1>2. CASE OnStateOfOpened
  <2> DEFINE r == Request(None, None, 1, Result.version, Then("opened"))
  <2>1. /\ TakeResult("stateOfOpened") /\ AskHistory(r)
        /\ UNCHANGED <<server, fetched, answer, archive, jobs>>
    BY <1>2 DEF OnStateOfOpened, CoreOnly, CoreChanges
  <2>2. IsRequest(server, r)
    BY <1>0, AnyTells, RequestTells
  <2> HIDE DEF r
  <2>3. RequestsTold' /\ AnswerTold'
    BY <2>1, <2>2, AskTells DEF LInv, Told
  <2>4. JobsTold' /\ ResultsTold' /\ FetchedTold'
    BY <1>0, <2>1, SameJobsTold, TakeResultTold DEF LInv, Told, FetchedTold
  <2>. QED
    BY <2>1, <2>3, <2>4, CoreTells
<1>. QED
  BY <1>1, <1>2

LEMMA RunCoreTells ==
    ASSUME IInv, LInv, RunCore
    PROVE  LInv'
<1>1. CASE OnTailUpdated \/ OnIntroUpdated \/ OnMessagesLoaded \/ OnStateOfMessages
  BY <1>1, HopTells DEF OnTailUpdated, OnIntroUpdated, OnMessagesLoaded, OnStateOfMessages
<1>. QED
  BY <1>1, AnswerStored, HistoryTells, LoopTells, EventBegins, StateLoaded, StateUpdated,
     EventUpdatedTells, TailTells, EventTells, ShownTells DEF RunCore

-----------------------------------------------------------------------------
(* Everything else, and the theorem. *)

LEMMA OutsideTells ==
    ASSUME IInv, LInv, UserMoves \/ ServerAnswers \/ OnHistoryFailed
    PROVE  LInv'
<1>0. JobsFine /\ JobsTold /\ IsServer(server) /\ RequestsTold
  BY DEF IInv, Carried, LInv, Told
<1>1. CASE UserMoves
  <2>1. /\ UNCHANGED <<server, fetched, requests, answer, archive, results>>
        /\ \/ Post(Job("getMessages", 0, Then("messagesLoaded")))
           \/ Post(Job("free", 0, Nothing))
    BY <1>1 DEF UserMoves, OpenDialog, CloseDialog, network
  <2>2. /\ Orders(server, Job("getMessages", 0, Then("messagesLoaded")))
        /\ Orders(server, Job("free", 0, Nothing))
    BY MuteOrders DEF Mute, Then, Nothing
  <2>3. JobsTold'
    BY <1>0, <2>1, <2>2, PostTold
  <2>4. ResultsTold' /\ FetchedTold' /\ RequestsTold' /\ AnswerTold'
    BY <2>1, AskedSame DEF LInv, Told, ResultsTold, FetchedTold
  <2>. QED
    BY <2>1, <2>3, <2>4, CoreTells
<1>2. CASE ServerAnswers
  <2>1. /\ requests # <<>> /\ answer' = Answer(Head(requests))
        /\ UNCHANGED <<server, fetched, requests, archive, jobs, results>>
    BY <1>2 DEF ServerAnswers, threads
  <2>2. IsRequest(server, Head(requests))
    BY <1>0, <2>1, QueueTail DEF RequestsTold
  <2>3. AnswerTold' /\ RequestsTold'
    BY <1>0, <2>1, <2>2, AnswerTells DEF AnswerTold, RequestsTold
  <2>4. JobsTold' /\ ResultsTold' /\ FetchedTold'
    BY <2>1 DEF LInv, Told, JobsTold, ResultsTold, FetchedTold
  <2>. QED
    BY <2>1, <2>3, <2>4, CoreTells
<1>3. CASE OnHistoryFailed
  <2>1. /\ requests # <<>> /\ requests' = Tail(requests) /\ answer' = NoAnswer
        /\ UNCHANGED <<server, fetched, archive, results>>
        /\ DownloadHoles \/ jobs' = jobs
    BY <1>3 DEF OnHistoryFailed
  <2>2. JobsTold'
    BY <1>0, <2>1, DownloadHolesTells, SameJobsTold
  <2>3. RequestsTold' /\ AnswerTold'
    BY <1>0, <2>1, QueueTail DEF RequestsTold, AnswerTold
  <2>4. ResultsTold' /\ FetchedTold'
    BY <2>1 DEF LInv, Told, ResultsTold, FetchedTold
  <2>. QED
    BY <2>1, <2>2, <2>3, <2>4, CoreTells
<1>. QED
  BY <1>1, <1>2, <1>3

LEMMA CrashTells ==
    ASSUME LInv, Crash
    PROVE  LInv'
<1>1. /\ jobs' = <<>> /\ results' = <<>> /\ answer' = NoAnswer /\ requests' = <<>>
      /\ \E n \in Tails : fetched' = <<Snapshot(n)>>
      /\ memory' = EmptyIndex /\ UNCHANGED <<file, state, server>>
  BY DEF Crash
<1>2. JobsTold' /\ ResultsTold' /\ RequestsTold' /\ AnswerTold'
  BY <1>1, QueueEmpty DEF JobsTold, ResultsTold, RequestsTold, AnswerTold
<1>3. FetchedTold'
  BY <1>1, QueueUnit, SnapshotTells DEF LInv, FetchedTold
<1>4. Stocked'
  BY <1>1, EmptyFacts DEF LInv, Stocked, Linked, Sound
<1>. QED
  BY <1>1, <1>2, <1>3, <1>4 DEF LInv, Told

LEMMA InitTells == Init => LInv
<1> SUFFICES ASSUME Init PROVE LInv
  OBVIOUS
<1>1. /\ jobs = <<>> /\ results = <<>> /\ answer = NoAnswer /\ requests = <<>>
      /\ \E n \in Tails : fetched = <<Snapshot(n)>>
      /\ memory = EmptyIndex /\ file = Messages(1..Stored)
      /\ "delUpTo" \in DOMAIN state /\ state.delUpTo = None
  BY DEF Init
<1>2. /\ budget.existing \in Nat /\ Stored \in Nat /\ Stored <= budget.existing
      /\ server = [last |-> budget.existing, gone |-> {}, delUpTo |-> None, log |-> <<>>]
  BY HistoryAssumption DEF Init
<1>3. IsServer(server) /\ server.last = budget.existing /\ server.gone = {}
      /\ server.delUpTo = None
  BY <1>2 DEF IsServer, None
<1>4. 1..Stored \subseteq LiveIn(server)
  BY <1>2, <1>3 DEF LiveIn, None
<1>5. Linked(server, file)
  <2>1. file = MessagesOf(server, 1..Stored)
    BY <1>1, LiveFacts DEF Messages, MessagesOf
  <2>2. IsBlock(server, file)
    BY <1>3, <1>4, <2>1, MessagesOfFacts
  <2>. QED
    BY <2>2, SoundWider DEF IsBlock, Linked
<1>6. Stocked
  BY <1>1, <1>3, <1>5, AnyTells, EmptyFacts DEF Stocked, Linked, Sound
<1>7. JobsTold /\ ResultsTold /\ RequestsTold /\ AnswerTold
  BY <1>1, QueueEmpty DEF JobsTold, ResultsTold, RequestsTold, AnswerTold
<1>8. FetchedTold
  BY <1>1, <1>3, QueueUnit, SnapshotTells DEF FetchedTold
<1>. QED
  BY <1>3, <1>6, <1>7, <1>8 DEF LInv, Told

LEMMA NextTells == IInv /\ LInv /\ [Next]_vars => LInv'
<1>1. ASSUME LInv, UNCHANGED vars
      PROVE  LInv'
  BY <1>1 DEF LInv, Told, Stocked, JobsTold, ResultsTold, FetchedTold, RequestsTold,
     AnswerTold, vars, network, archive, threads
<1>. QED
  BY <1>1, ServerTells, RunArchiveTells, RunCoreTells, OutsideTells, CrashTells DEF Next

LEMMA LinkedImplies == IInv /\ LInv => LinksSound
<1> SUFFICES ASSUME IInv, LInv, NEW index \in {memory, file}, NEW i \in Kept(index),
                    ~Broken(index, i), NEW m \in Live
             PROVE  ~(Below(index, i) < m /\ m < i)
  BY DEF LinksSound
<1>1. IsServer(server) /\ IsIndex(index) /\ Linked(server, index)
  BY DEF IInv, Followed, Follows, LInv, Stocked
<1>. QED
  BY <1>1, LinkedSound, LiveFacts

\* Where the archive's index or its file links a message to the one it has below it, or to
\* nothing, the server has no message between them: whatever is missing shows as a
\* broken link, which get_next_hole finds. So it is for any order of answers, events,
\* deletions, clearings, failures and deaths of the process (archive_index::
\* insert_block, save_block, delete_up_to, contact_archive::insert_history_block).
THEOREM HolesAreSeen == Spec => []LinksSound
<1>1. Init => IInv /\ LInv
  BY InitKeeps, InitTells
<1>2. (IInv /\ LInv) /\ [Next]_vars => (IInv /\ LInv)'
  BY NextKeeps, NextTells
<1>. QED
  BY <1>1, <1>2, LinkedImplies, PTL DEF Spec

-----------------------------------------------------------------------------
(* What the stored version of the patches tells of deletions.              *)

\* Only the patches of deleted messages wait for their messages.
IsFit(x) == \A i \in DOMAIN x : i \in Nat /\ (x[i].patch => x[i].deleted)
IsPatches(x) == \A i \in DOMAIN x : i \in Nat /\ x[i].patch /\ x[i].deleted

\* Who has version v of the server's log has heard of no deletion outside C.
Claims(log, C, v) ==
    /\ v \in Nat /\ v <= Len(log) + 1
    /\ \A k \in DOMAIN log : k < v /\ log[k].kind = "delete" => log[k].id \in C

Promising == {"eventNotSentRemoved", "tailUpdated", "introUpdated", "eventUpdated"}
Carrying == {"stateStored", "notSentRemoved"}

\* What a step of the core thread captures.
Holds(t) ==
    /\ t.step = "localLoaded" => IsFit(t.event.tail)
    /\ t.step \in {"localUpdated", "eventNotSentRemoved"} => IsFit(t.tail)
    /\ t.step \in Promising => "cleared" \in DOMAIN t
    /\ t.step \in Carrying => IsFit(t.answer.messages) /\ IsPatches(t.answer.patches)

\* A result, for a log, the deletions C that are covered and the stored delUpTo u.
Vouches(log, C, u, r) ==
    /\ Holds(r.then)
    /\ r.then.step \in {"localLoaded", "clearLast"} =>
          r.value.delUpTo \in Int /\ r.value.delUpTo <= u
    /\ r.then.step \in {"localUpdated", "holeState", "clearLast", "stateOfOpened"} =>
          Claims(log, C, r.value.version)

Charges(log, C, u, j) ==
    /\ Holds(j.then)
    /\ j.op = "update" => IsFit(j.arg.messages) /\ IsPatches(j.arg.patches)
    /\ j.op = "setState" =>
          /\ Claims(log, C, j.arg.history) /\ j.arg.delUpTo \in Int
          /\ j.arg.delUpTo <= u \/ (j.then.step = "localUpdated" /\ j.then.cleared)
    /\ j.then.step \in {"localLoaded", "localUpdated", "holeState", "clearLast",
                        "stateOfOpened"} => j.op \in {"getState", "setState"}

\* Patches on their way to the index.
Holding(t) == IF t.step \in Carrying THEN DOMAIN t.answer.patches ELSE {}
Bringing(j) ==
    Holding(j.then) \cup (IF j.op = "update" THEN DOMAIN j.arg.patches ELSE {})
OnTheWay(i, js, rs) ==
    (\E j \in js : i \in Bringing(j)) \/ (\E r \in rs : i \in Holding(r.then))

\* Deletions the archive carries out, is about to, or has lost.
Covered(u, lost, f, js, rs) ==
    {i \in Nat : i <= u \/ i \in lost \/ i \in Flagged(f) \/ OnTheWay(i, js, rs)}
Covering == Covered(state.delUpTo, forgotten, file, Elements(jobs), Elements(results))

\* Deletions up to d that are still to be carried out.
Promises(t, d) == t.step \in Promising /\ t.cleared /\ t.delUpTo = d
DueByJob(j, d) == Promises(j.then, d) \/ (j.op = "deleteUpTo" /\ j.arg = d)
DueByResult(r, d) ==
    \/ Promises(r.then, d)
    \/ r.then.step = "localUpdated" /\ r.then.cleared /\ r.value.delUpTo = d
Due(js, rs, d) ==
    (\E j \in js : DueByJob(j, d)) \/ (\E r \in rs : DueByResult(r, d))

Swept(m, isLoaded, u, js, rs) ==
    isLoaded /\ (\E i \in DOMAIN m : i < u) => Due(js, rs, u)

JobsTrue == \A j \in Elements(jobs) : Charges(server.log, Covering, state.delUpTo, j)
ResultsTrue ==
    \A r \in Elements(results) : Vouches(server.log, Covering, state.delUpTo, r)
FetchedTrue == \A e \in Elements(fetched) : IsFit(e.tail)
RequestsTrue == \A r \in Elements(requests) : Claims(server.log, Covering, r.version)
AnswerTrue ==
    answer # NoAnswer =>
        /\ IsFit(answer.messages) /\ IsPatches(answer.patches)
        /\ Claims(server.log, Covering \cup DOMAIN answer.patches, answer.version)

LogTrue == IsQueue(server.log) /\ \A k \in DOMAIN server.log : server.log[k].id \in Nat
StateTrue ==
    /\ {"last", "version", "delUpTo"} \subseteq DOMAIN state
    /\ None <= state.delUpTo /\ Claims(server.log, Covering, state.version)
IndexTrue == IsFit(memory) /\ IsFit(file)
SweptTrue == Swept(memory, loaded, state.delUpTo, Elements(jobs), Elements(results))

GInv ==
    /\ JobsTrue /\ ResultsTrue /\ FetchedTrue /\ RequestsTrue /\ AnswerTrue
    /\ LogTrue /\ StateTrue /\ IndexTrue /\ SweptTrue

-----------------------------------------------------------------------------
(* Claims stay true while the log grows and deletions stay covered.        *)

LogGrows(l, k) ==
    /\ Len(l) \in Nat /\ Len(k) \in Nat /\ Len(l) <= Len(k)
    /\ DOMAIN l = 1..Len(l) /\ DOMAIN k = 1..Len(k)
    /\ \A n \in DOMAIN l : k[n] = l[n]

LEMMA ClaimsLater ==
    ASSUME NEW l, NEW k, LogGrows(l, k), NEW C, NEW D, C \subseteq D
    PROVE  \A v : Claims(l, C, v) => Claims(k, D, v)
<1> SUFFICES ASSUME NEW v, Claims(l, C, v) PROVE Claims(k, D, v)
  OBVIOUS
<1>1. v \in Nat /\ v <= Len(l) + 1 /\ Len(l) \in Nat /\ Len(k) \in Nat /\ Len(l) <= Len(k)
  BY DEF Claims, LogGrows
<1>2. ASSUME NEW n \in DOMAIN k, n < v, k[n].kind = "delete"
      PROVE  k[n].id \in D
  <2>1. n \in DOMAIN l /\ k[n] = l[n]
    <3>1. n \in 1..Len(k)
      BY <1>2 DEF LogGrows
    <3>2. n \in 1..Len(l)
      BY <1>1, <1>2, <3>1
    <3>. QED
      BY <3>2 DEF LogGrows
  <2>. QED
    BY <1>2, <2>1 DEF Claims
<1>. QED
  BY <1>1, <1>2 DEF Claims

LEMMA SameLog ==
    ASSUME LogTrue
    PROVE  LogGrows(server.log, server.log)
<1>1. server.log \in Seq(Elements(server.log))
  BY DEF LogTrue, IsQueue
<1>. QED
  BY <1>1 DEF LogGrows

LEMMA VouchesLater ==
    ASSUME NEW l, NEW k, LogGrows(l, k), NEW C, NEW D, C \subseteq D,
           NEW u \in Int, NEW w \in Int, u <= w
    PROVE  /\ \A r : Vouches(l, C, u, r) => Vouches(k, D, w, r)
           /\ \A j : Charges(l, C, u, j) => Charges(k, D, w, j)
<1>1. \A v : Claims(l, C, v) => Claims(k, D, v)
  BY ClaimsLater
<1>2. \A r : Vouches(l, C, u, r) => Vouches(k, D, w, r)
  BY <1>1 DEF Vouches
<1>3. \A j : Charges(l, C, u, j) => Charges(k, D, w, j)
  BY <1>1 DEF Charges
<1>. QED
  BY <1>2, <1>3

\* Taking the first of a queue leaves the others.
LEMMA QueueSplit ==
    ASSUME NEW s, IsQueue(s), s # <<>>
    PROVE  Elements(s) = {Head(s)} \cup Elements(Tail(s))
<1> DEFINE r == Tail(s)
<1>1. s \in Seq(Elements(s)) /\ Len(s) \in Nat /\ Len(s) # 0 /\ Head(s) = s[1]
  BY DEF IsQueue
<1>2. Len(r) = Len(s) - 1 /\ \A i \in 1..Len(r) : r[i] = s[i + 1]
  BY <1>1
<1> HIDE DEF r
<1>3. ASSUME NEW i \in 1..Len(s), i # 1
      PROVE  s[i] \in Elements(r)
  <2>1. i - 1 \in 1..Len(r) /\ r[i - 1] = s[i]
    BY <1>1, <1>2, <1>3
  <2>. QED
    BY <2>1 DEF Elements
<1>4. Elements(s) \subseteq {Head(s)} \cup Elements(r)
  BY <1>1, <1>3 DEF Elements
<1>5. Head(s) \in Elements(s) /\ Elements(r) \subseteq Elements(s)
  BY QueueTail DEF r
<1>. QED
  BY <1>4, <1>5 DEF r

LEMMA CoveredGrows ==
    ASSUME NEW u \in Int, NEW w \in Int, u <= w, NEW lost, NEW gone, lost \subseteq gone,
           NEW f, NEW g, NEW js, NEW ks, NEW rs, NEW qs,
           \A i \in Nat : i \in Flagged(f) => i \in Covered(w, gone, g, ks, qs),
           \A j \in js : \A i \in Nat : i \in Bringing(j) => i \in Covered(w, gone, g, ks, qs),
           \A r \in rs : \A i \in Nat :
              i \in Holding(r.then) => i \in Covered(w, gone, g, ks, qs)
    PROVE  Covered(u, lost, f, js, rs) \subseteq Covered(w, gone, g, ks, qs)
<1> SUFFICES ASSUME NEW i \in Nat,
                    i <= u \/ i \in lost \/ i \in Flagged(f) \/ OnTheWay(i, js, rs)
             PROVE  i \in Covered(w, gone, g, ks, qs)
  BY DEF Covered
<1>1. CASE i <= u
  BY <1>1 DEF Covered
<1>2. CASE i \in lost
  BY <1>2 DEF Covered
<1>3. CASE i \in Flagged(f)
  BY <1>3
<1>4. CASE OnTheWay(i, js, rs)
  BY <1>4 DEF OnTheWay
<1>. QED
  BY <1>1, <1>2, <1>3, <1>4

\* Everything but the index that is carried, when the archive goes on.
LEMMA Carry ==
    ASSUME GInv, LInv, Covering \subseteq Covering', state'.delUpTo \in Int,
           state.delUpTo <= state'.delUpTo, server' = server
    PROVE  /\ \A j \in Elements(jobs) : Charges(server'.log, Covering', state'.delUpTo, j)
           /\ \A r \in Elements(results) : Vouches(server'.log, Covering', state'.delUpTo, r)
           /\ \A r \in Elements(requests) : Claims(server'.log, Covering', r.version)
           /\ LogTrue'
<1>1. state.delUpTo \in Int /\ LogGrows(server.log, server.log)
  BY SameLog DEF GInv, LInv, Stocked, IsUpTo
<1> DEFINE C == Covering
           D == Covering'
           u == state.delUpTo
           w == state'.delUpTo
           l == server.log
<1>2. C \subseteq D /\ u \in Int /\ w \in Int /\ u <= w /\ LogGrows(l, l) /\ server'.log = l
  BY <1>1
<1>3. /\ \A j \in Elements(jobs) : Charges(l, C, u, j)
      /\ \A r \in Elements(results) : Vouches(l, C, u, r)
      /\ \A r \in Elements(requests) : Claims(l, C, r.version)
  BY DEF GInv, JobsTrue, ResultsTrue, RequestsTrue
<1>4. LogTrue'
  BY DEF GInv, LogTrue
<1> HIDE DEF C, D, u, w, l
<1>5. /\ \A j \in Elements(jobs) : Charges(l, D, w, j)
      /\ \A r \in Elements(results) : Vouches(l, D, w, r)
      /\ \A r \in Elements(requests) : Claims(l, D, r.version)
  BY <1>2, <1>3, ClaimsLater, VouchesLater
<1>. QED
  BY <1>2, <1>4, <1>5 DEF D, w, l

LEMMA AnswerCarry ==
    ASSUME GInv, LInv, Covering \subseteq Covering', server' = server, answer' = answer
    PROVE  AnswerTrue'
<1> SUFFICES ASSUME answer # NoAnswer
             PROVE  AnswerTrue'
  BY DEF AnswerTrue
<1>1. /\ IsFit(answer.messages) /\ IsPatches(answer.patches)
      /\ Claims(server.log, Covering \cup DOMAIN answer.patches, answer.version)
  BY DEF GInv, AnswerTrue
<1>2. LogGrows(server.log, server.log)
  BY SameLog DEF GInv
<1>3. Covering \cup DOMAIN answer.patches \subseteq Covering' \cup DOMAIN answer.patches
  OBVIOUS
<1>4. Claims(server.log, Covering' \cup DOMAIN answer.patches, answer.version)
  BY <1>1, <1>2, <1>3, ClaimsLater
<1>. QED
  BY <1>1, <1>4 DEF AnswerTrue

LEMMA ArchiveMoves ==
    ASSUME IInv, NEW op, TakeJob(op), NEW value, Return(value),
           NEW result, result = [then |-> Head(jobs).then, value |-> value]
    PROVE  /\ Elements(jobs) = {Head(jobs)} \cup Elements(jobs') /\ Head(jobs).op = op
           /\ Head(jobs).then # Nothing => Elements(results') = Elements(results) \cup {result}
           /\ Head(jobs).then = Nothing => Elements(results') = Elements(results)
<1>1. Elements(jobs) = {Head(jobs)} \cup Elements(jobs') /\ Head(jobs).op = op
  BY QueueSplit DEF IInv, Carried, JobsFine, TakeJob
<1>2. Head(jobs).then # Nothing => results' = Append(results, result)
  BY DEF Return
<1>3. Head(jobs).then = Nothing => results' = results
  BY DEF Return
<1>4. Elements(Append(results, result)) = Elements(results) \cup {result}
  BY QueueAppend DEF IInv, Carried, ResultsFine
<1>. QED
  BY <1>1, <1>2, <1>3, <1>4

LEMMA NothingHeld ==
    /\ Holding(Nothing) = {} /\ \A d : ~Promises(Nothing, d)
    /\ Nothing.step = "nothing"
  BY DEF Nothing, Holding, Carrying, Promises, Promising

\* A sweep that was due is due or is being done.
LEMMA DueMoves ==
    ASSUME IInv, NEW op, TakeJob(op), NEW value, Return(value), NEW d,
           Due(Elements(jobs), Elements(results), d)
    PROVE  \/ Due(Elements(jobs'), Elements(results'), d)
           \/ op = "deleteUpTo" /\ Arg = d
<1> DEFINE result == [then |-> Head(jobs).then, value |-> value]
<1>0. result.then = Head(jobs).then
  OBVIOUS
<1>1. /\ Elements(jobs) = {Head(jobs)} \cup Elements(jobs') /\ Head(jobs).op = op
      /\ Head(jobs).then # Nothing => Elements(results') = Elements(results) \cup {result}
      /\ Head(jobs).then = Nothing => Elements(results') = Elements(results)
  BY ArchiveMoves
<1> HIDE DEF result
<1>2. CASE \E r \in Elements(results) : DueByResult(r, d)
  BY <1>1, <1>2 DEF Due
<1>3. CASE \E j \in Elements(jobs) : DueByJob(j, d)
  <2>1. CASE \E j \in Elements(jobs') : DueByJob(j, d)
    BY <2>1 DEF Due
  <2>2. CASE DueByJob(Head(jobs), d)
    <3>1. CASE Promises(Head(jobs).then, d)
      <4>1. Head(jobs).then # Nothing
        BY <3>1, NothingHeld
      <4>2. DueByResult(result, d)
        BY <3>1, <1>0 DEF DueByResult
      <4>. QED
        BY <1>1, <4>1, <4>2 DEF Due
    <3>2. CASE Head(jobs).op = "deleteUpTo" /\ Head(jobs).arg = d
      BY <1>1, <3>2 DEF Arg
    <3>. QED
      BY <2>2, <3>1, <3>2 DEF DueByJob
  <2>. QED
    BY <1>1, <1>3, <2>1, <2>2
<1>. QED
  BY <1>2, <1>3 DEF Due

LEMMA SweptSame ==
    ASSUME IInv, GInv, NEW op, TakeJob(op), NEW value, Return(value),
           op = "deleteUpTo" => Arg # state.delUpTo,
           state'.delUpTo = state.delUpTo, loaded' => loaded,
           \A i \in DOMAIN memory' : i \in DOMAIN memory \/ ~(i < state.delUpTo)
    PROVE  SweptTrue'
<1>1. Swept(memory, loaded, state.delUpTo, Elements(jobs), Elements(results))
  BY DEF GInv, SweptTrue
<1>2. Due(Elements(jobs), Elements(results), state.delUpTo) =>
          Due(Elements(jobs'), Elements(results'), state.delUpTo)
  BY DueMoves
<1>3. Swept(memory', loaded', state.delUpTo, Elements(jobs'), Elements(results'))
  BY <1>1, <1>2 DEF Swept
<1>. QED
  BY <1>3 DEF SweptTrue

\* A job that leaves deletions covered, and the index fit, leaves everything true.
LEMMA ArchiveStep ==
    ASSUME IInv, LInv, GInv, NEW op, TakeJob(op), NEW value, Return(value), JobChanges,
           forgotten \subseteq forgotten',
           {"last", "version", "delUpTo"} \subseteq DOMAIN state',
           state'.delUpTo \in Int, state.delUpTo <= state'.delUpTo,
           Claims(server.log, Covering, state'.version),
           op \in {"getState", "setState"} => value = state',
           \A i \in Nat : i \in Flagged(file) => i \in Covering',
           op = "update" => \A i \in Nat : i \in DOMAIN Arg.patches => i \in Covering',
           IndexTrue', SweptTrue'
    PROVE  GInv'
<1> DEFINE result == [then |-> Head(jobs).then, value |-> value]
<1>0. result.then = Head(jobs).then /\ result.value = value
  OBVIOUS
<1>1. /\ Elements(jobs) = {Head(jobs)} \cup Elements(jobs') /\ Head(jobs).op = op
      /\ Head(jobs).then # Nothing => Elements(results') = Elements(results) \cup {result}
      /\ Head(jobs).then = Nothing => Elements(results') = Elements(results)
  BY ArchiveMoves
<1>2. /\ server' = server /\ fetched' = fetched /\ requests' = requests /\ answer' = answer
      /\ state.delUpTo \in Int /\ None <= state.delUpTo /\ None \in Int
  BY DEF JobChanges, network, LInv, Stocked, IsUpTo, GInv, StateTrue, None
<1> HIDE DEF result
<1>3. Covering \subseteq Covering'
  <2>1. ASSUME NEW j \in Elements(jobs), NEW i \in Nat, i \in Bringing(j)
        PROVE  i \in Covering'
    <3>1. CASE j \in Elements(jobs')
      BY <3>1, <2>1 DEF Covering, Covered, OnTheWay
    <3>2. CASE j = Head(jobs)
      <4>1. CASE i \in Holding(j.then)
        <5>1. result \in Elements(results')
          BY <1>1, <3>2, <4>1, NothingHeld
        <5>. QED
          BY <1>0, <3>2, <4>1, <5>1 DEF Covering, Covered, OnTheWay
      <4>2. CASE j.op = "update" /\ i \in DOMAIN j.arg.patches
        BY <1>1, <3>2, <4>2 DEF Arg
      <4>. QED
        BY <2>1, <4>1, <4>2 DEF Bringing
    <3>. QED
      BY <1>1, <3>1, <3>2
  <2>2. ASSUME NEW r \in Elements(results), NEW i \in Nat, i \in Holding(r.then)
        PROVE  i \in Covering'
    <3>1. r \in Elements(results')
      BY <1>1
    <3>. QED
      BY <2>2, <3>1 DEF Covering, Covered, OnTheWay
  <2>. QED
    BY <1>2, <2>1, <2>2, CoveredGrows DEF Covering
<1>4. /\ \A j \in Elements(jobs) : Charges(server'.log, Covering', state'.delUpTo, j)
      /\ \A r \in Elements(results) : Vouches(server'.log, Covering', state'.delUpTo, r)
      /\ \A r \in Elements(requests) : Claims(server'.log, Covering', r.version)
      /\ LogTrue'
  BY <1>2, <1>3, Carry
<1>5. Claims(server.log, Covering', state'.version)
  BY <1>3, ClaimsLater, SameLog DEF GInv
<1>6. Vouches(server'.log, Covering', state'.delUpTo, result)
  <2>1. /\ Holds(result.then)
        /\ result.then.step \in {"localLoaded", "localUpdated", "holeState", "clearLast",
                                 "stateOfOpened"} => result.value = state'
    BY <1>0, <1>1, <1>4 DEF Charges
  <2>. QED
    BY <1>2, <1>5, <2>1 DEF Vouches
<1>7. JobsTrue' /\ ResultsTrue' /\ RequestsTrue'
  BY <1>1, <1>2, <1>4, <1>6 DEF JobsTrue, ResultsTrue, RequestsTrue
<1>8. FetchedTrue' /\ AnswerTrue'
  BY <1>2, <1>3, AnswerCarry DEF GInv, FetchedTrue
<1>9. StateTrue'
  BY <1>2, <1>5 DEF StateTrue, GInv
<1>. QED
  BY <1>4, <1>7, <1>8, <1>9 DEF GInv

-----------------------------------------------------------------------------
(* The index keeps the flags of deleted messages.                          *)

LEMMA FitInsert ==
    ASSUME NEW x, IsIndex(x), IsFit(x), NEW b, IsIndex(b), IsFit(b)
    PROVE  /\ IsIndex(InsertBlock(x, b)) /\ IsFit(InsertBlock(x, b))
           /\ IsFit(SavedBlock(x, b)) /\ Flagged(x) \subseteq Flagged(InsertBlock(x, b))
           /\ Flagged(b) \subseteq Flagged(SavedBlock(x, b))
           /\ Flagged(b) \subseteq Flagged(InsertBlock(x, b))
<1> DEFINE r == InsertBlock(x, b)
           s == SavedBlock(x, b)
<1>1. /\ IsIndex(r) /\ DOMAIN r = DOMAIN x \cup DOMAIN b
      /\ \A i \in DOMAIN x \cup DOMAIN b :
          /\ i \notin DOMAIN b => r[i] = x[i]
          /\ i \notin DOMAIN x => r[i] = b[i]
          /\ i \in DOMAIN x /\ i \in DOMAIN b => r[i] = MergeWith(x[i], b[i])
  <2>1. IsIndex(r) /\ IsInserted(r, x, b)
    BY InsertFacts
  <2> HIDE DEF r
  <2>. QED
    BY <2>1 DEF IsInserted
<1>2. /\ DOMAIN s = DOMAIN b
      /\ \A i \in DOMAIN b : s[i] = IF i \in DOMAIN x /\ ~MergeWith(x[i], b[i]).deleted
                                    THEN MergeWith(x[i], b[i]) ELSE b[i]
  BY SavedFacts
<1>3. /\ \A h, n : MergeWith(h, n).patch <=> (h.patch /\ n.patch)
      /\ \A h, n : MergeWith(h, n).deleted <=> (h.deleted \/ n.deleted)
  BY DEF MergeWith
<1>4. /\ \A i \in DOMAIN x : i \in Nat /\ (x[i].patch => x[i].deleted)
      /\ \A i \in DOMAIN b : i \in Nat /\ (b[i].patch => b[i].deleted)
  BY DEF IsFit
<1> HIDE DEF r, s
<1>5. IsFit(r)
  BY <1>1, <1>3, <1>4 DEF IsFit
<1>6. IsFit(s)
  BY <1>2, <1>3, <1>4 DEF IsFit
<1>7. Flagged(x) \subseteq Flagged(r) /\ Flagged(b) \subseteq Flagged(r)
  BY <1>1, <1>3 DEF Flagged
<1>8. Flagged(b) \subseteq Flagged(s)
  BY <1>2, <1>3 DEF Flagged
<1>. QED
  BY <1>1, <1>5, <1>6, <1>7, <1>8 DEF r, s

LEMMA FitDelete ==
    ASSUME NEW x, IsIndex(x), IsFit(x), NEW to \in Int
    PROVE  /\ IsFit(DeleteUpTo(x, to)) /\ DOMAIN DeleteUpTo(x, to) = {i \in DOMAIN x : i > to}
           /\ \A i \in DOMAIN DeleteUpTo(x, to) : DeleteUpTo(x, to)[i].deleted = x[i].deleted
<1> DEFINE rest == {i \in DOMAIN x : i > to}
           kept == Only(x, rest)
           first == Lowest(rest)
           r == DeleteUpTo(x, to)
<1>1. DOMAIN kept = rest /\ \A i \in rest : kept[i] = x[i]
  BY DEF Only
<1>2. r = kept \/ r = [kept EXCEPT ![first].prev = None]
  BY DEF DeleteUpTo
<1>3. \A i \in rest : IsHeader(x[i])
  BY IndexHolds
<1>4. \A h : IsHeader(h) => /\ [h EXCEPT !.prev = None].patch = h.patch
                            /\ [h EXCEPT !.prev = None].deleted = h.deleted
  BY DEF IsHeader, Header
<1> HIDE DEF kept, first, r
<1>5. DOMAIN r = rest
  BY <1>1, <1>2
<1>6. \A i \in rest : r[i] = x[i] \/ r[i] = [x[i] EXCEPT !.prev = None]
  BY <1>1, <1>2
<1>7. \A i \in rest : r[i].patch = x[i].patch /\ r[i].deleted = x[i].deleted
  BY <1>3, <1>4, <1>6
<1>8. IsFit(r)
  BY <1>5, <1>7 DEF IsFit
<1>. QED
  BY <1>5, <1>7, <1>8 DEF r

LEMMA FitAccepted ==
    ASSUME NEW x, NEW upTo, NEW b, IsIndex(b)
    PROVE  /\ \A i : i \in DOMAIN Accepted(x, upTo, b) <=> i \in News(x, b) /\ i > upTo
           /\ News(x, b) \subseteq DOMAIN b
           /\ \A i \in DOMAIN Accepted(x, upTo, b) :
                 /\ Accepted(x, upTo, b)[i].patch = b[i].patch
                 /\ Accepted(x, upTo, b)[i].deleted = b[i].deleted
           /\ IsFit(b) => IsFit(Accepted(x, upTo, b))
<1> DEFINE r == Accepted(x, upTo, b)
<1>1. /\ DOMAIN r = {i \in News(x, b) : i > upTo} /\ News(x, b) \subseteq DOMAIN b
      /\ \A i \in DOMAIN r :
            r[i] = IF b[i].prev <= upTo THEN [b[i] EXCEPT !.prev = None] ELSE b[i]
  BY DEF Accepted, News
<1>2. \A h : IsHeader(h) => /\ [h EXCEPT !.prev = None].patch = h.patch
                            /\ [h EXCEPT !.prev = None].deleted = h.deleted
  BY DEF IsHeader, Header
<1>3. \A i \in DOMAIN r : i \in DOMAIN b /\ IsHeader(b[i])
  BY <1>1 DEF IsIndex
<1> HIDE DEF r
<1>4. \A i \in DOMAIN r : r[i].patch = b[i].patch /\ r[i].deleted = b[i].deleted
  BY <1>1, <1>2, <1>3
<1>5. IsFit(b) => IsFit(r)
  BY <1>3, <1>4 DEF IsFit
<1>. QED
  BY <1>1, <1>4, <1>5 DEF r

LEMMA FitClosing ==
    ASSUME NEW x, IsIndex(x), IsFit(x), NEW from, NEW older
    PROVE  IsFit(Closing(x, from, older)) /\ DOMAIN Closing(x, from, older) \subseteq DOMAIN x
<1>1. CASE ~older /\ from \in Kept(x)
  <2> DEFINE h == [x[from] EXCEPT !.prev = None]
  <2>1. IsHeader(x[from]) /\ from \in DOMAIN x /\ ~x[from].patch /\ from \in Nat
    BY <1>1 DEF Kept, IsIndex, IsFit
  <2>2. h.patch = x[from].patch
    BY <2>1 DEF IsHeader, Header
  <2> HIDE DEF h
  <2>3. IsFit([i \in {from} |-> h])
    BY <2>1, <2>2 DEF IsFit
  <2>. QED
    BY <1>1, <2>1, <2>3 DEF Closing, h
<1>2. CASE ~(~older /\ from \in Kept(x))
  BY <1>2, EmptyFacts DEF Closing, IsFit
<1>. QED
  BY <1>1, <1>2

-----------------------------------------------------------------------------
(* The archive's thread. *)

LEMMA FlagsCovered ==
    ASSUME NEW i \in Nat, i \in Flagged(file') \/ i \in forgotten' \/ i <= state'.delUpTo
    PROVE  i \in Covering'
  BY DEF Covering, Covered, Flagged

LEMMA UpdateTrue ==
    ASSUME IInv, LInv, GInv, RunUpdate
    PROVE  GInv'
<1> DEFINE found == Accepted(memory, state.delUpTo, Arg.messages)
           patches == Accepted(memory, state.delUpTo, Arg.patches)
           closing == Closing(memory, Arg.from, Arg.older)
           messages == IF DOMAIN found \cup DOMAIN patches = {} THEN closing ELSE found
           between == InsertBlock(memory, messages)
           saved == InsertBlock(file, SavedBlock(memory, messages))
<1>1. /\ memory' = InsertBlock(between, patches)
      /\ file' = InsertBlock(saved, SavedBlock(between, patches))
      /\ state' = state /\ loaded' = loaded /\ TakeJob("update") /\ Return(0)
      /\ JobChanges /\ forgotten' = forgotten
  BY DEF RunUpdate, JobOnly, observed
<1>2. IsIndex(Arg.messages) /\ IsIndex(Arg.patches)
  BY <1>1, TakeJobFacts DEF IInv, Carried, IsJob, Arg
<1>3. IsFit(Arg.messages) /\ IsPatches(Arg.patches)
  <2>1. Head(jobs) \in Elements(jobs) /\ Head(jobs).op = "update"
    BY <1>1, QueueTail DEF IInv, Carried, JobsFine, TakeJob
  <2>. QED
    BY <2>1 DEF GInv, JobsTrue, Charges, Arg
<1>4. /\ IsIndex(memory) /\ IsIndex(file) /\ IsFit(memory) /\ IsFit(file)
      /\ \A i \in DOMAIN memory : i \in DOMAIN file /\ MergeWith(file[i], memory[i]) = file[i]
      /\ state.delUpTo \in Int
  BY DEF IInv, Followed, Follows, Absorbs, GInv, IndexTrue, LInv, Stocked, IsUpTo
<1>5. IsFit(Arg.patches) /\ \A i \in DOMAIN Arg.patches : Arg.patches[i].deleted
  BY <1>3 DEF IsPatches, IsFit
<1>6. /\ IsIndex(found) /\ IsIndex(patches) /\ IsFit(found) /\ IsFit(patches)
      /\ \A i \in DOMAIN found : i > state.delUpTo
      /\ \A i : i \in DOMAIN patches <=> i \in News(memory, Arg.patches) /\ i > state.delUpTo
      /\ DOMAIN patches \subseteq DOMAIN Arg.patches
      /\ \A i \in DOMAIN patches : patches[i].deleted = Arg.patches[i].deleted
  <2>1. IsIndex(found) /\ IsIndex(patches)
    BY <1>2, AcceptedFacts
  <2>2. IsFit(found) /\ \A i \in DOMAIN found : i > state.delUpTo
    BY <1>2, <1>3, FitAccepted
  <2>3. /\ \A i : i \in DOMAIN patches <=> i \in News(memory, Arg.patches) /\ i > state.delUpTo
        /\ News(memory, Arg.patches) \subseteq DOMAIN Arg.patches /\ IsFit(patches)
        /\ \A i \in DOMAIN patches : patches[i].deleted = Arg.patches[i].deleted
    BY <1>2, <1>5, FitAccepted
  <2> HIDE DEF found, patches
  <2>. QED
    BY <2>1, <2>2, <2>3
<1>7. IsIndex(closing) /\ IsFit(closing) /\ DOMAIN closing \subseteq DOMAIN memory
  BY <1>4, ClosingFacts, FitClosing
<1>8. DOMAIN patches \subseteq Flagged(patches)
  BY <1>5, <1>6 DEF Flagged
<1> HIDE DEF found, patches, closing
<1>9. /\ IsIndex(messages) /\ IsFit(messages)
      /\ \A i \in DOMAIN messages : i \in DOMAIN memory \/ i > state.delUpTo
  BY <1>6, <1>7
<1> HIDE DEF messages
<1>10. /\ IsIndex(between) /\ IsFit(between) /\ IsFit(SavedBlock(memory, messages))
       /\ IsIndex(SavedBlock(memory, messages)) /\ DOMAIN between = DOMAIN memory \cup DOMAIN messages
  <2>1. /\ IsIndex(between) /\ IsFit(between) /\ IsFit(SavedBlock(memory, messages))
    BY <1>4, <1>9, FitInsert
  <2>2. IsIndex(SavedBlock(memory, messages))
    BY <1>4, <1>9, SavedFacts
  <2>3. IsInserted(between, memory, messages)
    BY <1>4, <1>9, InsertFacts
  <2>. QED
    BY <2>1, <2>2, <2>3 DEF IsInserted
<1>11. IsIndex(saved) /\ IsFit(saved) /\ Flagged(file) \subseteq Flagged(saved)
  BY <1>4, <1>10, FitInsert
<1> HIDE DEF between, saved
<1>12. /\ IsIndex(SavedBlock(between, patches)) /\ IsFit(SavedBlock(between, patches))
       /\ Flagged(patches) \subseteq Flagged(SavedBlock(between, patches))
       /\ IsFit(InsertBlock(between, patches))
       /\ DOMAIN InsertBlock(between, patches) = DOMAIN between \cup DOMAIN patches
  <2>1. /\ IsFit(SavedBlock(between, patches)) /\ IsFit(InsertBlock(between, patches))
        /\ Flagged(patches) \subseteq Flagged(SavedBlock(between, patches))
    BY <1>6, <1>10, FitInsert
  <2>2. IsIndex(SavedBlock(between, patches))
    BY <1>6, <1>10, SavedFacts
  <2>3. IsInserted(InsertBlock(between, patches), between, patches)
    BY <1>6, <1>10, InsertFacts
  <2>. QED
    BY <2>1, <2>2, <2>3 DEF IsInserted
<1>13. /\ IsFit(file') /\ Flagged(saved) \subseteq Flagged(file')
       /\ Flagged(SavedBlock(between, patches)) \subseteq Flagged(file')
  BY <1>1, <1>11, <1>12, FitInsert
<1>14. \A i \in Nat : i \in Flagged(file) => i \in Covering'
  BY <1>11, <1>13, FlagsCovered
<1>15. ASSUME NEW i \in Nat, i \in DOMAIN Arg.patches
       PROVE  i \in Covering'
  <2>1. CASE i <= state.delUpTo
    BY <1>1, <2>1, FlagsCovered
  <2>2. CASE i \in News(memory, Arg.patches) /\ ~(i <= state.delUpTo)
    <3>1. i \in DOMAIN patches
      BY <1>4, <1>6, <2>2
    <3>. QED
      BY <1>8, <1>12, <1>13, <3>1, FlagsCovered
  <2>3. CASE i \notin News(memory, Arg.patches)
    <3>1. i \in DOMAIN memory /\ Arg.patches[i].patch = memory[i].patch
      BY <1>15, <2>3 DEF News
    <3>2. Arg.patches[i].patch
      BY <1>3, <1>15 DEF IsPatches
    <3>3. memory[i].deleted
      BY <1>4, <3>1, <3>2 DEF IsFit
    <3>4. i \in DOMAIN file /\ file[i].deleted
      <4>1. \A h, n : n.deleted => MergeWith(h, n).deleted
        BY DEF MergeWith
      <4>. QED
        BY <1>4, <3>1, <3>3, <4>1
    <3>. QED
      BY <1>14, <3>4 DEF Flagged
  <2>. QED
    BY <2>1, <2>2, <2>3
<1>16. IndexTrue'
  BY <1>1, <1>12, <1>13 DEF IndexTrue
<1>17. SweptTrue'
  <2>1. ASSUME NEW i \in DOMAIN memory'
        PROVE  i \in DOMAIN memory \/ ~(i < state.delUpTo)
    <3>1. i \in DOMAIN memory \/ i > state.delUpTo
      BY <1>1, <1>6, <1>9, <1>10, <1>12, <2>1
    <3>2. i \in Nat
      BY <1>16 DEF IndexTrue, IsFit
    <3>. QED
      BY <1>4, <3>1, <3>2
  <2>. QED
    BY <1>1, <2>1, SweptSame
<1>. QED
  <2>1. Claims(server.log, Covering, state'.version)
        /\ {"last", "version", "delUpTo"} \subseteq DOMAIN state'
    BY <1>1 DEF GInv, StateTrue
  <2>2. state'.delUpTo \in Int /\ state.delUpTo <= state'.delUpTo
    BY <1>1, <1>4
  <2>. QED
    BY <1>1, <1>14, <1>15, <1>16, <1>17, <2>1, <2>2, ArchiveStep

LEMMA SetStateTrue ==
    ASSUME IInv, LInv, GInv, RunSetState
    PROVE  GInv'
<1> DEFINE result == [then |-> Head(jobs).then, value |-> state']
<1>0. result.then = Head(jobs).then /\ result.value = state'
  OBVIOUS
<1>1. /\ TakeJob("setState") /\ Return(state') /\ JobChanges /\ state' = MergeState(Arg)
      /\ UNCHANGED <<memory, file, loaded, forgotten>>
  BY DEF RunSetState, JobOnly, observed
<1>2. Head(jobs) \in Elements(jobs) /\ Head(jobs).op = "setState"
  BY <1>1, QueueTail DEF IInv, Carried, JobsFine, TakeJob
<1>3. /\ Claims(server.log, Covering, Arg.history) /\ Arg.delUpTo \in Int
      /\ Arg.delUpTo <= state.delUpTo
            \/ (Head(jobs).then.step = "localUpdated" /\ Head(jobs).then.cleared)
  BY <1>2 DEF GInv, JobsTrue, Charges, Arg
<1>4. /\ {"last", "version", "delUpTo"} \subseteq DOMAIN state /\ state.delUpTo \in Int
      /\ Claims(server.log, Covering, state.version) /\ IndexTrue
  BY DEF GInv, StateTrue, LInv, Stocked, IsUpTo
<1>5. /\ {"last", "version", "delUpTo"} \subseteq DOMAIN state'
      /\ state'.version \in {state.version, Arg.history}
      /\ state'.delUpTo = state.delUpTo
            \/ (state'.delUpTo = Arg.delUpTo /\ Arg.delUpTo > state.delUpTo)
  BY <1>1, <1>4 DEF MergeState
<1>6. state'.delUpTo \in Int /\ state.delUpTo <= state'.delUpTo
  BY <1>3, <1>4, <1>5
<1>7. /\ Claims(server.log, Covering, state'.version)
      /\ IndexTrue'
  BY <1>1, <1>3, <1>4, <1>5 DEF IndexTrue
<1>8. \A i \in Nat : i \in Flagged(file) => i \in Covering'
  BY <1>1, FlagsCovered
<1> HIDE DEF result
<1>9. SweptTrue'
  <2>1. CASE state'.delUpTo = state.delUpTo
    BY <1>1, <2>1, SweptSame
  <2>2. CASE state'.delUpTo # state.delUpTo
    <3>1. Head(jobs).then.step = "localUpdated" /\ Head(jobs).then.cleared
      BY <1>3, <1>4, <1>5, <2>2
    <3>2. Head(jobs).then # Nothing
      BY <3>1, NothingHeld
    <3>3. result \in Elements(results')
      <4>1. Elements(results') = Elements(results) \cup {result}
        BY <1>1, <3>2, ArchiveMoves DEF result
      <4>. QED
        BY <4>1
    <3>4. DueByResult(result, state'.delUpTo)
      BY <1>0, <3>1 DEF DueByResult
    <3>5. Due(Elements(jobs'), Elements(results'), state'.delUpTo)
      BY <3>3, <3>4 DEF Due
    <3>. QED
      BY <3>5 DEF SweptTrue, Swept
  <2>. QED
    BY <2>1, <2>2
<1>. QED
  BY <1>1, <1>5, <1>6, <1>7, <1>8, <1>9, ArchiveStep

\* What the file loses is forgotten.
LEMMA ForgetCovers ==
    ASSUME NEW ids, Forget(ids), state' = state, state.delUpTo \in Int, NEW i \in Nat, i \in ids
    PROVE  i \in Covering' /\ forgotten \subseteq forgotten'
<1>1. i > state.delUpTo => i \in forgotten'
  BY DEF Forget
<1>2. i \in forgotten' \/ i <= state'.delUpTo
  BY <1>1
<1>. QED
  BY <1>2, FlagsCovered DEF Forget

LEMMA DropTrue ==
    ASSUME IInv, LInv, GInv, RunDrop
    PROVE  GInv'
<1>1. /\ TakeJob("drop") /\ Return(0) /\ JobChanges /\ Forget(Flagged(file))
      /\ DOMAIN memory' = {} /\ DOMAIN file' = {} /\ loaded' = loaded /\ state' = state
  BY EmptyFacts DEF RunDrop
<1>2. state.delUpTo \in Int
  BY DEF LInv, Stocked, IsUpTo
<1>3. IndexTrue' /\ SweptTrue'
  BY <1>1 DEF IndexTrue, IsFit, SweptTrue, Swept
<1>4. forgotten \subseteq forgotten' /\ \A i \in Nat : i \in Flagged(file) => i \in Covering'
  <2>1. forgotten \subseteq forgotten'
    BY <1>1 DEF Forget
  <2>. QED
    BY <1>1, <1>2, <2>1, ForgetCovers
<1>5. Claims(server.log, Covering, state'.version)
        /\ {"last", "version", "delUpTo"} \subseteq DOMAIN state'
  BY <1>1 DEF GInv, StateTrue
<1>6. state'.delUpTo \in Int /\ state.delUpTo <= state'.delUpTo
  BY <1>1, <1>2
<1>. QED
  BY <1>1, <1>3, <1>4, <1>5, <1>6, ArchiveStep

LEMMA DeleteUpToTrue ==
    ASSUME IInv, LInv, GInv, RunDeleteUpTo
    PROVE  GInv'
<1>1. /\ TakeJob("deleteUpTo") /\ Return(0) /\ JobChanges
      /\ Forget(Flagged(file) \ Flagged(file'))
      /\ memory' = DeleteUpTo(memory, Arg) /\ file' \in {memory', file}
      /\ loaded' = loaded /\ state' = state
  BY DEF RunDeleteUpTo
<1>2. /\ state.delUpTo \in Int /\ IsIndex(memory) /\ IsFit(memory) /\ IsFit(file)
  BY DEF LInv, Stocked, IsUpTo, IInv, Followed, Follows, GInv, IndexTrue
<1>3. Arg \in Int
  <2>1. Head(jobs) \in Elements(jobs) /\ Head(jobs).op = "deleteUpTo"
    BY <1>1, QueueTail DEF IInv, Carried, JobsFine, TakeJob
  <2>. QED
    BY <2>1 DEF LInv, Told, JobsTold, Orders, IsUpTo, Arg
<1>4. IsFit(memory') /\ DOMAIN memory' = {i \in DOMAIN memory : i > Arg}
  BY <1>1, <1>2, <1>3, FitDelete
<1>5. IndexTrue'
  BY <1>1, <1>2, <1>4 DEF IndexTrue
<1>6. SweptTrue'
  <2>1. CASE Arg = state.delUpTo
    <3>1. ASSUME NEW i \in DOMAIN memory'
          PROVE  ~(i < state'.delUpTo)
      <4>1. i \in Nat /\ i > state.delUpTo
        BY <1>2, <1>4, <2>1 DEF IsFit
      <4>. QED
        BY <1>1, <1>2, <4>1
    <3>. QED
      BY <3>1 DEF SweptTrue, Swept
  <2>2. CASE Arg # state.delUpTo
    BY <1>1, <1>4, <2>2, SweptSame
  <2>. QED
    BY <2>1, <2>2
<1>7. forgotten \subseteq forgotten'
  BY <1>1 DEF Forget
<1>8. ASSUME NEW i \in Nat, i \in Flagged(file)
      PROVE  i \in Covering'
  <2>1. CASE i \in Flagged(file')
    BY <2>1, FlagsCovered
  <2>2. CASE i \in Flagged(file) \ Flagged(file')
    BY <1>1, <1>2, <2>2, ForgetCovers
  <2>. QED
    BY <1>8, <2>1, <2>2
<1>9. Claims(server.log, Covering, state'.version)
        /\ {"last", "version", "delUpTo"} \subseteq DOMAIN state'
  BY <1>1 DEF GInv, StateTrue
<1>10. state'.delUpTo \in Int /\ state.delUpTo <= state'.delUpTo
  BY <1>1, <1>2
<1>. QED
  BY <1>1, <1>5, <1>6, <1>7, <1>8, <1>9, <1>10, ArchiveStep

\* What is loaded holds nothing of what was cleared.
LEMMA LoadTrue ==
    ASSUME IInv, LInv, GInv
    PROVE  /\ IsFit(Load)
           /\ \A i \in Nat : i \in Flagged(file) => i <= state.delUpTo \/ i \in Flagged(Load)
           /\ ~loaded => \A i \in DOMAIN Load : state.delUpTo <= i
           /\ \A i \in Kept(Load) : ~Load[i].deleted => i \notin Flagged(file)
<1>1. /\ state.delUpTo \in Int /\ IsIndex(memory) /\ IsFit(memory) /\ IsFit(file)
      /\ IsIndex(file) /\ Follows(memory, file, loaded)
  BY DEF LInv, Stocked, IsUpTo, IInv, Followed, Follows, GInv, IndexTrue
<1>2. CASE loaded
  <2>1. file = memory /\ Load = memory
    BY <1>1, <1>2 DEF Follows, Load
  <2>. QED
    BY <1>1, <1>2, <2>1 DEF Flagged
<1>3. CASE ~loaded
  <2>1. Loading = file
    BY <1>1, LoadingFacts DEF Loading
  <2> DEFINE r == DeleteUpTo(file, state.delUpTo)
  <2>2. /\ IsFit(r) /\ DOMAIN r = {i \in DOMAIN file : i > state.delUpTo}
        /\ \A i \in DOMAIN r : r[i].deleted = file[i].deleted
    BY <1>1, FitDelete
  <2>3. Load = IF LoadDeletes THEN r ELSE file
    BY <1>3, <2>1 DEF Load
  <2> HIDE DEF r
  <2>4. DOMAIN file \subseteq Nat
    BY <1>1 DEF IsFit
  <2>5. CASE LoadDeletes
    <3>1. Load = r
      BY <2>3, <2>5
    <3>2. \A i \in DOMAIN r : state.delUpTo <= i
      BY <1>1, <2>2, <2>4
    <3>3. \A i \in Nat : i \in Flagged(file) => i <= state.delUpTo \/ i \in Flagged(r)
      BY <1>1, <2>2 DEF Flagged
    <3>4. \A i \in DOMAIN r : ~r[i].deleted => i \notin Flagged(file)
      BY <2>2 DEF Flagged
    <3>. QED
      BY <2>2, <3>1, <3>2, <3>3, <3>4 DEF Kept
  <2>6. CASE ~LoadDeletes
    <3>1. Load = file
      BY <2>3, <2>6
    <3>2. ASSUME NEW i \in DOMAIN file
          PROVE  state.delUpTo <= i
      <4>1. DOMAIN file # {} /\ ~(state.delUpTo > Lowest(DOMAIN file))
        BY <2>1, <2>6, <3>2 DEF LoadDeletes
      <4>2. Lowest(DOMAIN file) \in DOMAIN file /\ Lowest(DOMAIN file) <= i
        BY <2>4, <4>1, LowestFacts
      <4>3. Lowest(DOMAIN file) \in Nat /\ i \in Nat
        BY <2>4, <4>2
      <4>. QED
        BY <1>1, <4>1, <4>2, <4>3
    <3>. QED
      BY <1>1, <3>1, <3>2 DEF Flagged
  <2>. QED
    BY <2>5, <2>6
<1>. QED
  BY <1>2, <1>3

LEMMA GetMessagesTrue ==
    ASSUME IInv, LInv, GInv, RunGetMessages
    PROVE  GInv'
<1>1. /\ TakeJob("getMessages") /\ Return(0) /\ JobChanges /\ forgotten' = forgotten
      /\ memory' = Load /\ file' = (IF ~loaded /\ LoadDeletes THEN Load ELSE file)
      /\ state' = state
  BY DEF RunGetMessages, JobOnly, observed
<1>2. /\ state.delUpTo \in Int /\ IsFit(file)
  BY DEF LInv, Stocked, IsUpTo, GInv, IndexTrue
<1>3. IndexTrue'
  BY <1>1, <1>2, LoadTrue DEF IndexTrue
<1>4. \A i \in Nat : i \in Flagged(file) => i \in Covering'
  BY <1>1, LoadTrue, FlagsCovered
<1>5. SweptTrue'
  <2>1. CASE loaded
    <3>1. memory' = memory
      BY <1>1, <2>1 DEF Load
    <3>. QED
      BY <1>1, <2>1, <3>1, SweptSame
  <2>2. CASE ~loaded
    <3>1. \A i \in DOMAIN memory' : i \in Nat /\ state'.delUpTo <= i
      BY <1>1, <1>3, <2>2, LoadTrue DEF IndexTrue, IsFit
    <3>2. \A i \in DOMAIN memory' : ~(i < state'.delUpTo)
      BY <1>1, <1>2, <3>1
    <3>. QED
      BY <3>2 DEF SweptTrue, Swept
  <2>. QED
    BY <2>1, <2>2
<1>6. Claims(server.log, Covering, state'.version)
        /\ {"last", "version", "delUpTo"} \subseteq DOMAIN state'
  BY <1>1 DEF GInv, StateTrue
<1>7. state'.delUpTo \in Int /\ state.delUpTo <= state'.delUpTo
  BY <1>1, <1>2
<1>. QED
  BY <1>1, <1>3, <1>4, <1>5, <1>6, <1>7, ArchiveStep

LEMMA RunArchiveTrue ==
    ASSUME IInv, LInv, GInv, RunArchive
    PROVE  GInv'
<1>0. /\ state.delUpTo \in Int /\ Claims(server.log, Covering, state.version)
      /\ {"last", "version", "delUpTo"} \subseteq DOMAIN state /\ IndexTrue
  BY DEF LInv, Stocked, IsUpTo, GInv, StateTrue
<1>1. ASSUME NEW op, TakeJob(op), op \notin {"setState", "update", "deleteUpTo"},
             NEW value, Return(value), JobChanges, op = "getState" => value = state,
             UNCHANGED <<file, state, forgotten>>, loaded' => loaded,
             memory' = memory \/ DOMAIN memory' = {}
      PROVE  GInv'
  <2>1. SweptTrue'
    BY <1>1, SweptSame
  <2>2. \A i \in Nat : i \in Flagged(file) => i \in Covering'
    BY <1>1, FlagsCovered
  <2>3. IndexTrue'
    BY <1>0, <1>1 DEF IndexTrue, IsFit
  <2>4. /\ Claims(server.log, Covering, state'.version)
        /\ {"last", "version", "delUpTo"} \subseteq DOMAIN state'
        /\ state'.delUpTo \in Int /\ state.delUpTo <= state'.delUpTo
        /\ forgotten \subseteq forgotten' /\ (op \in {"getState", "setState"} => value = state')
    BY <1>0, <1>1
  <2>. QED
    BY <1>1, <2>1, <2>2, <2>3, <2>4, ArchiveStep
<1>2. CASE RunGetState
  BY <1>1, <1>2 DEF RunGetState, JobOnly, observed, archive
<1>3. CASE RunPass
  BY <1>1, <1>3 DEF RunPass, JobOnly, observed, archive
<1>4. CASE RunNextHole
  BY <1>1, <1>4 DEF RunNextHole, archive
<1>5. CASE RunValidate
  BY <1>1, <1>5 DEF RunValidate, JobOnly, observed, archive
<1>6. CASE RunFree
  BY <1>1, <1>6, EmptyFacts DEF RunFree, JobOnly, observed
<1>. QED
  BY <1>2, <1>3, <1>4, <1>5, <1>6, UpdateTrue, SetStateTrue, DropTrue, DeleteUpToTrue,
     GetMessagesTrue DEF RunArchive

-----------------------------------------------------------------------------
(* The core thread. *)

\* Results that are taken hand over what they hold.
HandedOver ==
    /\ Elements(results') \subseteq Elements(results)
    /\ \A r \in Elements(results) :
          \/ r \in Elements(results')
          \/ /\ \A i \in Nat : i \in Holding(r.then) => i \in Covering'
             /\ \A d : DueByResult(r, d) => Due(Elements(jobs'), Elements(results'), d)

LEMMA CoreCovers ==
    ASSUME LInv, GInv, state' = state, file' = file, forgotten \subseteq forgotten', HandedOver,
           Elements(jobs) \subseteq Elements(jobs')
    PROVE  Covering \subseteq Covering'
<1>1. state.delUpTo \in Int
  BY DEF LInv, Stocked, IsUpTo
<1>2. \A i \in Nat : i \in Flagged(file) => i \in Covering'
  BY FlagsCovered
<1>3. ASSUME NEW j \in Elements(jobs), NEW i \in Nat, i \in Bringing(j)
      PROVE  i \in Covering'
  <2>1. j \in Elements(jobs')
    OBVIOUS
  <2>. QED
    BY <1>3, <2>1 DEF Covering, Covered, OnTheWay
<1>4. ASSUME NEW r \in Elements(results), NEW i \in Nat, i \in Holding(r.then)
      PROVE  i \in Covering'
  <2>1. CASE r \in Elements(results')
    BY <1>4, <2>1 DEF Covering, Covered, OnTheWay
  <2>2. CASE r \notin Elements(results')
    BY <1>4, <2>2 DEF HandedOver
  <2>. QED
    BY <2>1, <2>2
<1>. QED
  BY <1>1, <1>2, <1>3, <1>4, CoveredGrows DEF Covering

LEMMA CoreStep ==
    ASSUME LInv, GInv, server' = server, UNCHANGED archive, forgotten \subseteq forgotten',
           HandedOver, NEW N, Elements(jobs') = Elements(jobs) \cup N,
           \A j \in N : Charges(server.log, Covering', state.delUpTo, j),
           \A r \in Elements(requests') :
              r \in Elements(requests) \/ Claims(server.log, Covering, r.version),
           answer' = answer \/ AnswerTrue', FetchedTrue'
    PROVE  GInv'
<1>1. /\ UNCHANGED <<memory, file, loaded, state>>
      /\ state.delUpTo \in Int /\ state.delUpTo <= state.delUpTo
  BY DEF archive, LInv, Stocked, IsUpTo
<1>2. Covering \subseteq Covering'
  BY <1>1, CoreCovers
<1>3. /\ \A j \in Elements(jobs) : Charges(server'.log, Covering', state'.delUpTo, j)
      /\ \A r \in Elements(results) : Vouches(server'.log, Covering', state'.delUpTo, r)
      /\ \A r \in Elements(requests) : Claims(server'.log, Covering', r.version)
      /\ LogTrue'
  BY <1>1, <1>2, Carry
<1>4. JobsTrue' /\ ResultsTrue'
  BY <1>1, <1>3 DEF JobsTrue, ResultsTrue, HandedOver
<1>5. \A v : Claims(server.log, Covering, v) => Claims(server.log, Covering', v)
  BY <1>2, ClaimsLater, SameLog DEF GInv
<1>6. RequestsTrue'
  BY <1>3, <1>5 DEF RequestsTrue
<1>7. AnswerTrue'
  BY <1>2, AnswerCarry
<1>8. StateTrue' /\ IndexTrue'
  BY <1>1, <1>5 DEF GInv, StateTrue, IndexTrue
<1>9. SweptTrue'
  <2>1. Due(Elements(jobs), Elements(results), state.delUpTo) =>
            Due(Elements(jobs'), Elements(results'), state.delUpTo)
    BY DEF Due, HandedOver
  <2>2. Swept(memory, loaded, state.delUpTo, Elements(jobs'), Elements(results'))
    BY <2>1 DEF GInv, SweptTrue, Swept
  <2>. QED
    BY <1>1, <2>2 DEF SweptTrue
<1>. QED
  BY <1>3, <1>4, <1>6, <1>7, <1>8, <1>9 DEF GInv

LEMMA PostAdds ==
    ASSUME IInv, NEW j, Post(j)
    PROVE  Elements(jobs') = Elements(jobs) \cup {j}
  BY QueueAppend DEF IInv, Carried, JobsFine, Post

LEMMA Taken ==
    ASSUME IInv, GInv, NEW step, TakeResult(step)
    PROVE  /\ Elements(results) = {Head(results)} \cup Elements(results')
           /\ "step" \in DOMAIN Captured /\ Captured.step = step
           /\ Holds(Captured) /\ Captured = Head(results).then /\ Result = Head(results).value
           /\ Vouches(server.log, Covering, state.delUpTo, Head(results))
<1>1. Elements(results) = {Head(results)} \cup Elements(results')
  BY QueueSplit DEF IInv, Carried, ResultsFine, TakeResult
<1>2. Vouches(server.log, Covering, state.delUpTo, Head(results))
  BY <1>1 DEF GInv, ResultsTrue
<1>. QED
  BY <1>1, <1>2, TakeResultFacts DEF Vouches, Captured, Result, IInv, Carried, Captures

LEMMA SameFetched ==
    ASSUME GInv, fetched' = fetched
    PROVE  FetchedTrue'
  BY DEF GInv, FetchedTrue

\* A result that holds nothing is taken.
LEMMA IdleStep ==
    ASSUME IInv, LInv, GInv, NEW step, TakeResult(step),
           step \notin Promising \cup Carrying \cup {"localUpdated"},
           CoreChanges, forgotten' = forgotten,
           NEW N, Elements(jobs') = Elements(jobs) \cup N,
           \A j \in N : Charges(server.log, Covering, state.delUpTo, j),
           \A r \in Elements(requests') :
              r \in Elements(requests) \/ Claims(server.log, Covering, r.version)
    PROVE  GInv'
<1>1. /\ Elements(results) = {Head(results)} \cup Elements(results')
      /\ Head(results).then.step = step
  BY Taken
<1>2. server' = server /\ UNCHANGED archive /\ answer' = answer /\ fetched' = fetched
  BY DEF CoreChanges
<1>3. Holding(Head(results).then) = {} /\ \A d : ~DueByResult(Head(results), d)
  BY <1>1 DEF Holding, DueByResult, Promises
<1>4. HandedOver
  BY <1>1, <1>3 DEF HandedOver
<1>5. Covering \subseteq Covering'
  BY <1>2, <1>4, CoreCovers DEF archive
<1>6. \A j \in N : Charges(server.log, Covering', state.delUpTo, j)
  <2>1. LogGrows(server.log, server.log) /\ state.delUpTo \in Int
        /\ state.delUpTo <= state.delUpTo
    BY SameLog DEF GInv, LInv, Stocked, IsUpTo
  <2>2. \A j : Charges(server.log, Covering, state.delUpTo, j) =>
                   Charges(server.log, Covering', state.delUpTo, j)
    BY <1>5, <2>1, VouchesLater
  <2>. QED
    BY <2>2
<1>7. FetchedTrue'
  BY <1>2, SameFetched
<1>. QED
  BY <1>2, <1>4, <1>6, <1>7, CoreStep

\* Jobs that bring nothing.
LEMMA IdleJob ==
    ASSUME NEW l, NEW C, NEW u, NEW op, NEW arg, NEW then,
           then.step \notin Promising \cup Carrying \cup {"localLoaded", "localUpdated"},
           op \notin {"update", "setState"},
           op = "getState" \/ then.step \notin {"holeState", "clearLast", "stateOfOpened"}
    PROVE  Charges(l, C, u, Job(op, arg, then))
<1> DEFINE j == Job(op, arg, then)
<1>1. j.op = op /\ j.then = then
  BY DEF Job
<1>2. Holds(then)
  BY DEF Holds, Promising, Carrying
<1> HIDE DEF j
<1>3. Charges(l, C, u, j)
  BY <1>1, <1>2 DEF Charges
<1>. QED
  BY <1>3 DEF j

LEMMA SameRequests ==
    ASSUME requests' = requests
    PROVE  \A r \in Elements(requests') :
              r \in Elements(requests) \/ Claims(server.log, Covering, r.version)
  OBVIOUS

LEMMA NewRequest ==
    ASSUME LInv, NEW r, AskHistory(r) \/ requests' = requests,
           Claims(server.log, Covering, r.version)
    PROVE  \A q \in Elements(requests') :
              q \in Elements(requests) \/ Claims(server.log, Covering, q.version)
<1>1. AskHistory(r) => Elements(requests') = Elements(requests) \cup {r}
  BY QueueAppend DEF AskHistory, LInv, Told, RequestsTold
<1>. QED
  BY <1>1

\* An idle step that posts at most one job and asks nothing of the server.
LEMMA IdlePost ==
    ASSUME IInv, LInv, GInv, NEW step, TakeResult(step),
           step \notin Promising \cup Carrying \cup {"localUpdated"},
           CoreOnly, requests' = requests,
           NEW j, Charges(server.log, Covering, state.delUpTo, j), jobs' = jobs \/ Post(j)
    PROVE  GInv'
<1>1. CoreChanges /\ forgotten' = forgotten
  BY DEF CoreOnly, observed
<1>2. CASE jobs' = jobs
  <2> DEFINE N == Elements(jobs)
  <2>1. Elements(jobs') = Elements(jobs) \cup N
    BY <1>2
  <2>2. \A k \in N : Charges(server.log, Covering, state.delUpTo, k)
    BY DEF GInv, JobsTrue
  <2> HIDE DEF N
  <2>. QED
    BY <1>1, <2>1, <2>2, SameRequests, IdleStep
<1>3. CASE Post(j)
  <2>1. Elements(jobs') = Elements(jobs) \cup {j}
    BY <1>3, PostAdds
  <2>2. \A k \in {j} : Charges(server.log, Covering, state.delUpTo, k)
    OBVIOUS
  <2>. QED
    BY <1>1, <2>1, <2>2, SameRequests, IdleStep
<1>. QED
  BY <1>2, <1>3

LEMMA NextHoleJob ==
    ASSUME NEW l, NEW C, NEW u, NEW from, NEW depth, NEW recursion
    PROVE  Charges(l, C, u, Job("nextHole", [from |-> from, depth |-> depth],
                                [step |-> "hole", from |-> from, depth |-> depth,
                                 recursion |-> recursion]))
  BY IdleJob DEF Promising, Carrying

LEMMA HolesJob ==
    ASSUME NEW l, NEW C, NEW u
    PROVE  Charges(l, C, u, Job("getState", 0, Then("holesFrom")))
  BY IdleJob DEF Promising, Carrying, Then

\* Steps that take a result with nothing in it and post a job with nothing in it.
LEMMA IdleTrue ==
    ASSUME IInv, LInv, GInv,
           \/ OnDropped \/ OnHistoryUpdated \/ OnHolesFrom \/ OnHole \/ OnValidated
           \/ OnEventDone \/ OnMessagesLoaded \/ OnStateOfMessages \/ OnMessagesShown
    PROVE  GInv'
<1> DEFINE l == server.log
           C == Covering
           u == state.delUpTo
<1> HIDE DEF l, C, u
<1>0. ASSUME NEW step, TakeResult(step),
             step \notin Promising \cup Carrying \cup {"localUpdated"},
             CoreOnly, requests' = requests, NEW j, Charges(l, C, u, j),
             jobs' = jobs \/ Post(j)
      PROVE  GInv'
  BY <1>0, IdlePost DEF l, C, u
<1>1. CASE OnDropped
  <2>1. /\ TakeResult("dropped") /\ CoreOnly /\ requests' = requests
        /\ jobs' = jobs \/ Post(Job("getState", 0, Then("holesFrom")))
    BY <1>1 DEF OnDropped, DownloadHoles
  <2>. QED
    BY <1>0, <2>1, HolesJob DEF Promising, Carrying
<1>2. CASE OnHistoryUpdated
  <2> DEFINE t == Captured.then
             validated == [step |-> "validated", depth |-> t.tail, recursion |-> t.recursion]
  <2>1. /\ TakeResult("historyUpdated") /\ CoreOnly /\ requests' = requests
        /\ \/ Post(Job("validate", t.hole, validated))
           \/ Post(Job("getState", 0, Then("holesFrom")))
           \/ jobs' = jobs
    BY <1>2 DEF OnHistoryUpdated, Succeeded, DownloadHoles
  <2>2. Charges(l, C, u, Job("validate", t.hole, validated))
    BY IdleJob DEF Promising, Carrying
  <2> HIDE DEF validated, t
  <2>. QED
    BY <1>0, <2>1, <2>2, HolesJob DEF Promising, Carrying
<1>3. CASE OnHolesFrom
  <2>1. /\ TakeResult("holesFrom") /\ CoreOnly /\ requests' = requests
        /\ GetNextHole(Result.last, None, 0)
    BY <1>3 DEF OnHolesFrom
  <2>. QED
    BY <1>0, <2>1, NextHoleJob DEF Promising, Carrying, GetNextHole
<1>4. CASE OnHole
  <2> DEFINE then == [step |-> "holeState", hole |-> Result, from |-> Captured.from,
                      depth |-> Captured.depth, recursion |-> Captured.recursion]
  <2>1. /\ TakeResult("hole") /\ CoreOnly /\ requests' = requests
        /\ jobs' = jobs \/ Post(Job("getState", 0, then))
    BY <1>4 DEF OnHole
  <2>2. Charges(l, C, u, Job("getState", 0, then))
    BY IdleJob DEF Promising, Carrying
  <2> HIDE DEF then
  <2>. QED
    BY <1>0, <2>1, <2>2 DEF Promising, Carrying
<1>5. CASE OnValidated
  <2>1. /\ TakeResult("validated") /\ CoreOnly /\ requests' = requests
        /\ GetNextHole(Result, Captured.depth, Captured.recursion + 1)
    BY <1>5 DEF OnValidated
  <2>. QED
    BY <1>0, <2>1, NextHoleJob DEF Promising, Carrying, GetNextHole
<1>6. CASE OnEventDone
  <2>1. TakeResult("eventDone") /\ CoreOnly /\ requests' = requests /\ jobs' = jobs
    BY <1>6 DEF OnEventDone
  <2>. QED
    BY <1>0, <2>1, HolesJob DEF Promising, Carrying
<1>7. CASE OnMessagesLoaded \/ OnStateOfMessages
  <2>1. PICK step \in {"messagesLoaded", "stateOfMessages"},
             next \in {"stateOfMessages", "messagesShown"} : Hop(step, next)
    BY <1>7 DEF OnMessagesLoaded, OnStateOfMessages
  <2> DEFINE then == [Captured EXCEPT !.step = next]
  <2>2. /\ TakeResult(step) /\ CoreOnly /\ requests' = requests
        /\ Post(Job("pass", 0, then))
    BY <2>1 DEF Hop, CoreOnly, CoreChanges, network
  <2>3. then.step = next
    BY <2>2, Taken
  <2> HIDE DEF then
  <2>4. Charges(l, C, u, Job("pass", 0, then))
    BY <2>3, IdleJob DEF Promising, Carrying
  <2>. QED
    BY <1>0, <2>2, <2>4 DEF Promising, Carrying
<1>8. CASE OnMessagesShown
  <2>1. /\ TakeResult("messagesShown") /\ CoreOnly /\ requests' = requests
        /\ Post(Job("getState", 0, Then("stateOfOpened")))
    BY <1>8 DEF OnMessagesShown
  <2>2. Charges(l, C, u, Job("getState", 0, Then("stateOfOpened")))
    BY IdleJob DEF Promising, Carrying, Then
  <2>. QED
    BY <1>0, <2>1, <2>2 DEF Promising, Carrying
<1>. QED
  BY <1>1, <1>2, <1>3, <1>4, <1>5, <1>6, <1>7, <1>8

\* A request asks for what is not known by the state that was read.
LEMMA AskTrue ==
    ASSUME IInv, LInv, GInv, OnHoleState \/ OnStateOfOpened
    PROVE  GInv'
<1> DEFINE hole == Captured.hole
           then == [step |-> "holeAnswered", hole |-> hole, from |-> Captured.from,
                    depth |-> Captured.depth, recursion |-> Captured.recursion,
                    tail |-> DepthTail(Captured.depth, hole)]
           r == Request(hole.from, hole.to, PageSize, Result.version, then)
           q == Request(None, None, 1, Result.version, Then("opened"))
<1>0. r.version = Result.version /\ q.version = Result.version
  BY DEF Request
<1>1. /\ OnHoleState => TakeResult("holeState") /\ (AskHistory(r) \/ requests' = requests)
      /\ OnStateOfOpened => TakeResult("stateOfOpened") /\ AskHistory(q)
      /\ CoreChanges /\ forgotten' = forgotten /\ jobs' = jobs
  BY DEF OnHoleState, OnStateOfOpened, CoreOnly, observed
<1> HIDE DEF r, q
<1>2. PICK step \in {"holeState", "stateOfOpened"} : TakeResult(step)
  BY <1>1
<1>3. Claims(server.log, Covering, Result.version)
  BY <1>2, Taken DEF Vouches
<1>4. \A p \in Elements(requests') :
         p \in Elements(requests) \/ Claims(server.log, Covering, p.version)
  BY <1>0, <1>1, <1>3, NewRequest
<1>5. step \notin Promising \cup Carrying \cup {"localUpdated"}
  BY DEF Promising, Carrying
<1> DEFINE N == Elements(jobs)
<1>6. Elements(jobs') = Elements(jobs) \cup N
  BY <1>1
<1>7. \A k \in N : Charges(server.log, Covering, state.delUpTo, k)
  BY DEF GInv, JobsTrue
<1> HIDE DEF N
<1>. QED
  BY <1>1, <1>2, <1>4, <1>5, <1>6, <1>7, IdleStep

LEMMA NothingClaimed ==
    ASSUME LogTrue, NEW C
    PROVE  Claims(server.log, C, 0)
<1>1. Len(server.log) \in Nat /\ DOMAIN server.log = 1..Len(server.log)
  BY SameLog DEF LogGrows
<1>. QED
  BY <1>1 DEF Claims

\* What an event clears is marked to be cleared when the state knew less.
LEMMA StateLoadedTrue ==
    ASSUME IInv, LInv, GInv, OnLocalStateLoaded \/ OnClearLast
    PROVE  GInv'
<1>1. CASE OnLocalStateLoaded
  <2> DEFINE e == Captured.event
             new == [last |-> e.last, history |-> 0, dialog |-> e.version,
                     delUpTo |-> e.delUpTo]
             then == [step |-> "localUpdated", tail |-> e.tail,
                      patched |-> Result.last # None /\ e.version # Result.version,
                      cleared |-> e.delUpTo > Result.delUpTo,
                      moved   |-> e.last > Result.last]
             j == Job("setState", new, then)
  <2>1. TakeResult("localLoaded") /\ CoreOnly /\ requests' = requests /\ Post(j)
    BY <1>1 DEF OnLocalStateLoaded
  <2>2. e.delUpTo \in Int
    <3>1. server' = server
      BY <2>1 DEF CoreOnly, CoreChanges
    <3>2. Tells(server, Captured) /\ Captured.step = "localLoaded"
      BY <2>1, <3>1, TakeResultTold DEF IInv, Carried, LInv, Told
    <3>. QED
      BY <3>2 DEF Tells, IsUpTo
  <2>3. /\ IsFit(e.tail) /\ Result.delUpTo \in Int /\ Result.delUpTo <= state.delUpTo
    BY <2>1, Taken DEF Vouches, Holds
  <2>4. state.delUpTo \in Int
    BY DEF LInv, Stocked, IsUpTo
  <2>5. Claims(server.log, Covering, 0)
    BY NothingClaimed DEF GInv
  <2>6. j.op = "setState" /\ j.arg = new /\ j.then = then
    BY DEF Job
  <2> HIDE DEF e
  <2>7. /\ then.step = "localUpdated" /\ then.tail = e.tail
        /\ e.delUpTo > Result.delUpTo => then.cleared
        /\ new.history = 0 /\ new.delUpTo = e.delUpTo
    OBVIOUS
  <2> HIDE DEF j, new, then
  <2>8. Holds(then)
    BY <2>3, <2>7 DEF Holds, Promising, Carrying
  <2>9. new.delUpTo <= state.delUpTo \/ then.cleared
    BY <2>2, <2>3, <2>4, <2>7
  <2>10. Charges(server.log, Covering, state.delUpTo, j)
    BY <2>2, <2>5, <2>6, <2>7, <2>8, <2>9 DEF Charges
  <2>. QED
    BY <2>1, <2>10, IdlePost DEF Promising, Carrying
<1>2. CASE OnClearLast
  <2> DEFINE new == [last |-> Result.last, history |-> Result.version, dialog |-> 0,
                     delUpTo |-> Result.delUpTo]
             j == Job("setState", new, Nothing)
  <2>1. TakeResult("clearLast") /\ CoreOnly /\ requests' = requests /\ Post(j)
    BY <1>2 DEF OnClearLast
  <2>2. /\ Result.delUpTo \in Int /\ Result.delUpTo <= state.delUpTo
        /\ Claims(server.log, Covering, Result.version)
    BY <2>1, Taken DEF Vouches
  <2>3. j.op = "setState" /\ j.arg = new /\ j.then = Nothing
    BY DEF Job
  <2>4. new.history = Result.version /\ new.delUpTo = Result.delUpTo
    OBVIOUS
  <2> HIDE DEF j, new
  <2>5. Holds(Nothing)
    BY NothingHeld DEF Holds, Promising, Carrying
  <2>6. Charges(server.log, Covering, state.delUpTo, j)
    BY <2>2, <2>3, <2>4, <2>5, NothingHeld DEF Charges
  <2>. QED
    BY <2>1, <2>6, IdlePost DEF Promising, Carrying
<1>. QED
  BY <1>1, <1>2

\* A result is taken and what it holds is handed over.
LEMMA BusyStep ==
    ASSUME IInv, LInv, GInv, NEW step, TakeResult(step), CoreChanges,
           forgotten \subseteq forgotten',
           NEW N, Elements(jobs') = Elements(jobs) \cup N,
           \A j \in N : Charges(server.log, Covering', state.delUpTo, j),
           \A i \in Nat : i \in Holding(Captured) => i \in Covering',
           \A d : DueByResult(Head(results), d) => Due(Elements(jobs'), Elements(results'), d),
           \A r \in Elements(requests') :
              r \in Elements(requests) \/ Claims(server.log, Covering, r.version)
    PROVE  GInv'
<1>1. /\ Elements(results) = {Head(results)} \cup Elements(results')
      /\ Head(results).then = Captured
  BY Taken
<1>2. server' = server /\ UNCHANGED archive /\ answer' = answer /\ fetched' = fetched
  BY DEF CoreChanges
<1>3. HandedOver
  BY <1>1 DEF HandedOver
<1>4. FetchedTrue'
  BY <1>2, SameFetched
<1>. QED
  BY <1>2, <1>3, <1>4, CoreStep

\* The one job of such a step.
LEMMA BusyPost ==
    ASSUME IInv, LInv, GInv, NEW step, TakeResult(step), CoreChanges,
           forgotten \subseteq forgotten', NEW j, Post(j),
           Charges(server.log, Covering', state.delUpTo, j),
           \A i \in Nat : i \in Holding(Captured) => i \in Bringing(j) \/ i \in Covering',
           \A d : DueByResult(Head(results), d) => DueByJob(j, d),
           \A r \in Elements(requests') :
              r \in Elements(requests) \/ Claims(server.log, Covering, r.version)
    PROVE  GInv'
<1>1. Elements(jobs') = Elements(jobs) \cup {j}
  BY PostAdds
<1>2. j \in Elements(jobs')
  BY <1>1
<1>3. \A i \in Nat : i \in Bringing(j) => i \in Covering'
  BY <1>2 DEF Covering, Covered, OnTheWay
<1>4. \A d : DueByResult(Head(results), d) => Due(Elements(jobs'), Elements(results'), d)
  BY <1>2 DEF Due
<1>5. \A i \in Nat : i \in Holding(Captured) => i \in Covering'
  BY <1>3
<1> DEFINE N == {j}
<1>6. Elements(jobs') = Elements(jobs) \cup N
      /\ \A k \in N : Charges(server.log, Covering', state.delUpTo, k)
  BY <1>1
<1> HIDE DEF N
<1>. QED
  BY <1>4, <1>5, <1>6, BusyStep

LEMMA AnswerPassed ==
    ASSUME IInv, LInv, GInv, OnStateStored \/ OnNotSentRemoved
    PROVE  GInv'
<1> DEFINE l == server.log
           C == Covering'
           u == state.delUpTo
<1>0. requests' = requests /\ CoreChanges
  BY DEF OnStateStored, OnNotSentRemoved, CoreOnly
<1>1. PICK step \in Carrying : TakeResult(step)
  <2>1. OnStateStored => TakeResult("stateStored")
    BY DEF OnStateStored
  <2>2. OnNotSentRemoved => TakeResult("notSentRemoved")
    BY DEF OnNotSentRemoved
  <2>. QED
    BY <2>1, <2>2 DEF Carrying
<1>2. /\ Captured.step = step /\ "step" \in DOMAIN Captured
      /\ Captured = Head(results).then
      /\ Holding(Captured) = DOMAIN Captured.answer.patches
      /\ IsFit(Captured.answer.messages) /\ IsPatches(Captured.answer.patches)
  BY <1>1, Taken DEF Holding, Holds
<1>3. \A d : ~DueByResult(Head(results), d)
  BY <1>1, <1>2 DEF DueByResult, Promises, Promising, Carrying
<1>4. \A r \in Elements(requests') :
         r \in Elements(requests) \/ Claims(server.log, Covering, r.version)
  BY <1>0, SameRequests
<1> HIDE DEF l, C, u
<1>5. CASE OnStateStored /\ Captured.answer.clear
  <2> DEFINE j == Job("drop", 0, Then("dropped"))
  <2>1. Post(j) /\ Forget(DOMAIN Captured.answer.patches)
    BY <1>5 DEF OnStateStored
  <2>2. Charges(l, C, u, j)
    BY IdleJob DEF Promising, Carrying, Then
  <2> HIDE DEF j
  <2>3. state' = state /\ state.delUpTo \in Int /\ forgotten \subseteq forgotten'
    BY <1>0, <2>1 DEF CoreChanges, archive, LInv, Stocked, IsUpTo, Forget
  <2>4. \A i \in Nat : i \in Holding(Captured) => i \in Covering'
    BY <1>2, <2>1, <2>3, ForgetCovers
  <2>. QED
    BY <1>0, <1>1, <1>3, <1>4, <2>1, <2>2, <2>3, <2>4, BusyPost DEF l, C, u
<1>6. CASE OnStateStored /\ ~Captured.answer.clear
  <2> DEFINE then == [Captured EXCEPT !.step = "notSentRemoved"]
             j == Job("pass", 0, then)
  <2>1. Post(j) /\ forgotten' = forgotten
    BY <1>6 DEF OnStateStored
  <2>2. "answer" \in DOMAIN Captured
    BY <1>1, Taken, TakeResultFacts DEF IInv, Carried, Captures, Carrying
  <2>3. then.step = "notSentRemoved" /\ then.answer = Captured.answer
    BY <1>2, <2>2
  <2>4. j.op = "pass" /\ j.then = then
    BY DEF Job
  <2> HIDE DEF j, then
  <2>5. Charges(l, C, u, j)
    <3>1. Holds(then)
      BY <1>2, <2>3 DEF Holds, Promising
    <3>. QED
      BY <2>3, <2>4, <3>1 DEF Charges
  <2>6. Holding(Captured) = Bringing(j)
    BY <1>2, <2>3, <2>4 DEF Bringing, Holding, Carrying
  <2>. QED
    BY <1>0, <1>1, <1>3, <1>4, <2>1, <2>5, <2>6, BusyPost DEF l, C, u
<1>7. CASE OnNotSentRemoved
  <2> DEFINE a == Captured.answer
             arg == [messages |-> a.messages, patches |-> a.patches,
                     from |-> Captured.request.from, older |-> a.older]
             then == [step |-> "historyUpdated", then |-> Captured.request.then]
             j == Job("update", arg, then)
  <2>1. Post(j) /\ forgotten' = forgotten
    BY <1>7 DEF OnNotSentRemoved, CoreOnly, observed
  <2>2. j.op = "update" /\ j.then = then /\ j.arg = arg
    BY DEF Job
  <2>3. then.step = "historyUpdated" /\ arg.messages = a.messages /\ arg.patches = a.patches
    OBVIOUS
  <2> HIDE DEF j, then, arg
  <2>4. Charges(l, C, u, j)
    <3>1. Holds(then)
      BY <2>3 DEF Holds, Promising, Carrying
    <3>. QED
      BY <1>2, <2>2, <2>3, <3>1 DEF Charges
  <2>5. \A i \in Holding(Captured) : i \in Bringing(j)
    BY <1>2, <2>2, <2>3 DEF Bringing
  <2>. QED
    BY <1>0, <1>1, <1>3, <1>4, <2>1, <2>4, <2>5, BusyPost DEF l, C, u
<1>. QED
  BY <1>5, <1>6, <1>7

LEMMA EventPassed ==
    ASSUME IInv, LInv, GInv, OnEventNotSentRemoved \/ OnTailUpdated \/ OnIntroUpdated
    PROVE  GInv'
<1> DEFINE l == server.log
           C == Covering'
           u == state.delUpTo
<1>0. requests' = requests /\ CoreChanges /\ forgotten' = forgotten
  BY DEF OnEventNotSentRemoved, OnTailUpdated, OnIntroUpdated, Hop, CoreOnly, CoreChanges,
     observed, network
<1>1. PICK step \in Promising, next \in Promising \ {"eventNotSentRemoved"} :
          /\ TakeResult(step)
          /\ \/ Post(Job("pass", 0, [Captured EXCEPT !.step = next]))
             \/ /\ step = "eventNotSentRemoved"
                /\ Post(Job("update", [messages |-> Captured.tail, patches |-> EmptyIndex,
                                       from |-> None, older |-> TRUE],
                            [Captured EXCEPT !.step = next]))
  BY DEF Promising, OnEventNotSentRemoved, OnTailUpdated, OnIntroUpdated, Hop
<1> DEFINE then == [Captured EXCEPT !.step = next]
           arg == [messages |-> Captured.tail, patches |-> EmptyIndex,
                   from |-> None, older |-> TRUE]
<1>2. /\ Captured.step = step /\ "step" \in DOMAIN Captured
      /\ Captured = Head(results).then /\ Holding(Captured) = {}
      /\ Holds(Captured)
  BY <1>1, Taken DEF Holding, Promising, Carrying
<1>3. "cleared" \in DOMAIN Captured /\ "delUpTo" \in DOMAIN Captured
  <2>1. "cleared" \in DOMAIN Captured
    BY <1>2 DEF Holds
  <2>2. server' = server
    BY <1>0 DEF CoreChanges
  <2>3. Tells(server, Captured)
    BY <1>1, <2>2, TakeResultTold DEF IInv, Carried, LInv, Told
  <2>. QED
    BY <1>2, <2>1, <2>3 DEF Tells, Promising
<1>4. /\ then.step = next /\ then.cleared = Captured.cleared
      /\ then.delUpTo = Captured.delUpTo /\ "cleared" \in DOMAIN then
  BY <1>2, <1>3
<1>5. \A r \in Elements(requests') :
         r \in Elements(requests) \/ Claims(server.log, Covering, r.version)
  BY <1>0, SameRequests
<1>6. step = "eventNotSentRemoved" => IsFit(arg.messages) /\ IsPatches(arg.patches)
  BY <1>2, EmptyFacts DEF Holds, IsPatches
<1> HIDE DEF then, arg, l, C, u
<1>7. Holds(then)
  BY <1>4 DEF Holds, Promising, Carrying
<1>8. \A d : DueByResult(Head(results), d) => Promises(then, d)
  BY <1>2, <1>4 DEF DueByResult, Promises, Promising
<1>9. PICK j : /\ Post(j) /\ j.then = then
               /\ \/ j.op = "pass"
                  \/ j.op = "update" /\ j.arg = arg /\ step = "eventNotSentRemoved"
  <2>1. \A op, x, t : Job(op, x, t).op = op /\ Job(op, x, t).arg = x /\ Job(op, x, t).then = t
    BY DEF Job
  <2>. QED
    BY <1>1, <2>1 DEF then, arg
<1>10. Charges(l, C, u, j)
  BY <1>4, <1>6, <1>7, <1>9 DEF Charges, Promising
<1>11. \A d : DueByResult(Head(results), d) => DueByJob(j, d)
  BY <1>8, <1>9 DEF DueByJob
<1>. QED
  BY <1>0, <1>1, <1>2, <1>5, <1>9, <1>10, <1>11, BusyPost DEF l, C, u

LEMMA StateUpdatedTrue ==
    ASSUME IInv, LInv, GInv, OnLocalStateUpdated
    PROVE  GInv'
<1> DEFINE c == Captured
           then == [step |-> "eventNotSentRemoved", tail |-> c.tail,
                    last |-> IF DOMAIN c.tail = {} THEN Result.last
                             ELSE Highest(DOMAIN c.tail),
                    delUpTo |-> Result.delUpTo, patched |-> c.patched,
                    cleared |-> c.cleared, moved |-> c.moved]
           delete == Job("deleteUpTo", Result.delUpTo, Then("eventDone"))
           clear == Job("getState", 0, Then("clearLast"))
           pass == Job("pass", 0, then)
           r == Request(None, None, 1, Result.version, Nothing)
           l == server.log
           C == Covering'
           u == state.delUpTo
<1>1. /\ TakeResult("localUpdated") /\ CoreChanges /\ forgotten' = forgotten
      /\ (c.cleared /\ jobs' = jobs \o <<delete, clear>>) \/ Post(pass)
      /\ AskHistory(r) \/ requests' = requests
  BY DEF OnLocalStateUpdated, CoreOnly, observed
<1>2. /\ Captured.step = "localUpdated" /\ Captured = Head(results).then
      /\ Result = Head(results).value /\ Holding(Captured) = {}
      /\ IsFit(c.tail) /\ Claims(server.log, Covering, Result.version)
  BY <1>1, Taken DEF Holding, Carrying, Vouches, Holds
<1>3. /\ then.step = "eventNotSentRemoved" /\ then.tail = c.tail
      /\ then.cleared = c.cleared /\ then.delUpTo = Result.delUpTo
      /\ "cleared" \in DOMAIN then
  OBVIOUS
<1>4. /\ delete.op = "deleteUpTo" /\ delete.arg = Result.delUpTo
      /\ pass.op = "pass" /\ pass.then = then
  BY DEF Job
<1>5. \A q \in Elements(requests') :
         q \in Elements(requests) \/ Claims(server.log, Covering, q.version)
  <2>1. r.version = Result.version
    BY DEF Request
  <2> HIDE DEF r
  <2>. QED
    BY <1>1, <1>2, <2>1, NewRequest
<1> HIDE DEF l, C, u
<1>6. Charges(l, C, u, delete) /\ Charges(l, C, u, clear)
  BY IdleJob DEF Promising, Carrying, Then
<1>7. \A d : DueByResult(Head(results), d) => c.cleared /\ Result.delUpTo = d
  BY <1>2 DEF DueByResult, Promises, Promising
<1> HIDE DEF then, delete, clear, pass, r
<1>8. CASE Post(pass)
  <2>1. Charges(l, C, u, pass)
    <3>1. Holds(then)
      BY <1>2, <1>3 DEF Holds, Promising, Carrying
    <3>. QED
      BY <1>3, <1>4, <3>1 DEF Charges
  <2>2. \A d : DueByResult(Head(results), d) => DueByJob(pass, d)
    BY <1>3, <1>4, <1>7 DEF DueByJob, Promises, Promising
  <2>. QED
    BY <1>1, <1>2, <1>5, <1>8, <2>1, <2>2, BusyPost DEF l, C, u
<1>9. CASE c.cleared /\ jobs' = jobs \o <<delete, clear>>
  <2>1. IsQueue(<<delete, clear>>) /\ Elements(<<delete, clear>>) = {delete, clear}
    <3>1. <<delete, clear>> = Append(<<delete>>, clear)
      OBVIOUS
    <3>2. IsQueue(Append(<<delete>>, clear))
          /\ Elements(Append(<<delete>>, clear)) = {delete} \cup {clear}
      BY QueueUnit, QueueAppend
    <3>. QED
      BY <3>1, <3>2
  <2>2. Elements(jobs') = Elements(jobs) \cup {delete, clear}
    BY <1>9, <2>1, QueueConcat DEF IInv, Carried, JobsFine
  <2>3. \A k \in {delete, clear} : Charges(l, C, u, k)
    BY <1>6
  <2>4. \A d : DueByResult(Head(results), d) => Due(Elements(jobs'), Elements(results'), d)
    <3>1. delete \in Elements(jobs')
      BY <2>2
    <3>. QED
      BY <1>4, <1>7, <3>1 DEF Due, DueByJob
  <2> DEFINE N == {delete, clear}
  <2>5. Elements(jobs') = Elements(jobs) \cup N /\ \A k \in N : Charges(l, C, u, k)
    BY <2>2, <2>3
  <2> HIDE DEF N
  <2>. QED
    BY <1>1, <1>2, <1>5, <2>4, <2>5, BusyStep DEF l, C, u
<1>. QED
  BY <1>1, <1>8, <1>9

LEMMA EventUpdatedTrue ==
    ASSUME IInv, LInv, GInv, OnEventUpdated
    PROVE  GInv'
<1> DEFINE c == Captured
           depth == IF Cardinality(DOMAIN c.tail) > 0 THEN Cardinality(DOMAIN c.tail) + 1
                    ELSE None
           search == Job("nextHole", [from |-> c.last, depth |-> depth],
                         [step |-> "hole", from |-> c.last, recursion |-> 0,
                          depth |-> depth])
           delete == Job("deleteUpTo", c.delUpTo, Then("eventDone"))
           l == server.log
           C == Covering'
           u == state.delUpTo
<1>1. /\ TakeResult("eventUpdated") /\ CoreChanges /\ forgotten' = forgotten
      /\ requests' = requests
      /\ \E s \in {<<search>>, <<>>}, d \in {<<delete>>, <<>>} :
            jobs' = jobs \o s \o d /\ (c.cleared => d = <<delete>>)
  BY DEF OnEventUpdated, CoreOnly, observed
<1>2. /\ Captured.step = "eventUpdated" /\ Captured = Head(results).then
      /\ Holding(Captured) = {}
  BY <1>1, Taken DEF Holding, Carrying
<1>3. delete.op = "deleteUpTo" /\ delete.arg = c.delUpTo
  BY DEF Job
<1> HIDE DEF l, C, u
<1>4. Charges(l, C, u, search) /\ Charges(l, C, u, delete)
  BY IdleJob DEF Promising, Carrying, Then
<1>5. \A d : DueByResult(Head(results), d) => c.cleared /\ c.delUpTo = d
  BY <1>2 DEF DueByResult, Promises, Promising
<1> HIDE DEF search, delete
<1>6. PICK s \in {<<search>>, <<>>}, e \in {<<delete>>, <<>>} :
          jobs' = jobs \o s \o e /\ (c.cleared => e = <<delete>>)
  BY <1>1
<1>7. /\ IsQueue(s) /\ Elements(s) \subseteq {search}
      /\ IsQueue(e) /\ Elements(e) \subseteq {delete}
      /\ e = <<delete>> => delete \in Elements(e)
  BY QueueUnit, QueueEmpty
<1>8. IsQueue(jobs \o s) /\ Elements(jobs \o s) = Elements(jobs) \cup Elements(s)
  BY <1>7, QueueConcat DEF IInv, Carried, JobsFine
<1>9. Elements(jobs') = Elements(jobs \o s) \cup Elements(e)
  BY <1>6, <1>7, <1>8, QueueConcat
<1> DEFINE N == Elements(s) \cup Elements(e)
<1>10. Elements(jobs') = Elements(jobs) \cup N /\ \A k \in N : Charges(l, C, u, k)
  BY <1>4, <1>7, <1>8, <1>9
<1>11. \A d : DueByResult(Head(results), d) => Due(Elements(jobs'), Elements(results'), d)
  <2>1. c.cleared => delete \in Elements(jobs')
    BY <1>6, <1>7, <1>9
  <2>. QED
    BY <1>3, <1>5, <2>1 DEF Due, DueByJob
<1>12. \A q \in Elements(requests') :
          q \in Elements(requests) \/ Claims(server.log, Covering, q.version)
  BY <1>1, SameRequests
<1> HIDE DEF N
<1>. QED
  BY <1>1, <1>2, <1>10, <1>11, <1>12, BusyStep DEF l, C, u

LEMMA SameResults ==
    ASSUME results' = results
    PROVE  HandedOver
  BY DEF HandedOver

\* An answer brings what its version knows of.
LEMMA AnswerTaken ==
    ASSUME IInv, LInv, GInv, OnHistory
    PROVE  GInv'
<1> DEFINE then == [step |-> "stateStored", request |-> Head(requests), answer |-> answer]
           new == [last |-> answer.last, history |-> answer.version, dialog |-> 0,
                   delUpTo |-> None]
           j == Job("setState", new, then)
<1>1. /\ requests # <<>> /\ answer # NoAnswer /\ requests' = Tail(requests)
      /\ answer' = NoAnswer /\ Post(j) /\ forgotten' = forgotten
      /\ server' = server /\ fetched' = fetched /\ UNCHANGED archive /\ results' = results
  BY DEF OnHistory, observed
<1>2. /\ then.step = "stateStored" /\ then.answer = answer
      /\ new.history = answer.version /\ new.delUpTo = None
      /\ j.op = "setState" /\ j.arg = new /\ j.then = then
  BY DEF Job
<1> HIDE DEF then, new, j
<1>3. Elements(jobs') = Elements(jobs) \cup {j}
  BY <1>1, PostAdds
<1>4. HandedOver
  BY <1>1, SameResults
<1>5. Covering \subseteq Covering'
  BY <1>1, <1>3, <1>4, CoreCovers DEF archive
<1>6. /\ IsFit(answer.messages) /\ IsPatches(answer.patches)
      /\ Claims(server.log, Covering \cup DOMAIN answer.patches, answer.version)
  BY <1>1 DEF GInv, AnswerTrue
<1>7. DOMAIN answer.patches \subseteq Covering'
  <2>1. \A i \in DOMAIN answer.patches : i \in Nat /\ i \in Bringing(j)
    BY <1>2, <1>6 DEF IsPatches, Bringing, Holding, Carrying
  <2>2. j \in Elements(jobs')
    BY <1>3
  <2>. QED
    BY <2>1, <2>2 DEF Covering, Covered, OnTheWay
<1>8. Claims(server.log, Covering', answer.version)
  <2>1. Covering \cup DOMAIN answer.patches \subseteq Covering'
    BY <1>5, <1>7
  <2>. QED
    BY <1>6, <2>1, ClaimsLater, SameLog DEF GInv
<1>9. Charges(server.log, Covering', state.delUpTo, j)
  <2>1. Holds(then)
    BY <1>2, <1>6 DEF Holds, Promising, Carrying
  <2>2. None \in Int /\ None <= state.delUpTo
    BY DEF GInv, StateTrue, None
  <2>. QED
    BY <1>2, <1>8, <2>1, <2>2 DEF Charges
<1>10. \A r \in Elements(requests') :
         r \in Elements(requests) \/ Claims(server.log, Covering, r.version)
  BY <1>1, QueueTail DEF LInv, Told, RequestsTold
<1>11. AnswerTrue' /\ FetchedTrue'
  BY <1>1, SameFetched DEF AnswerTrue
<1> DEFINE N == {j}
<1>12. Elements(jobs') = Elements(jobs) \cup N
       /\ \A k \in N : Charges(server.log, Covering', state.delUpTo, k)
  BY <1>3, <1>9
<1> HIDE DEF N
<1>13. forgotten \subseteq forgotten'
  BY <1>1
<1>. QED
  BY <1>1, <1>4, <1>10, <1>11, <1>12, <1>13, CoreStep

\* Steps that post a job with nothing in it, and take no result.
LEMMA OwnStep ==
    ASSUME IInv, LInv, GInv, server' = server, UNCHANGED archive, results' = results,
           forgotten' = forgotten, NEW j, Post(j) \/ jobs' = jobs,
           Charges(server.log, Covering, state.delUpTo, j),
           Elements(requests') \subseteq Elements(requests),
           answer' = answer \/ AnswerTrue', FetchedTrue'
    PROVE  GInv'
<1>1. HandedOver
  BY SameResults
<1> DEFINE N == Elements(jobs') \ Elements(jobs)
<1>2. Elements(jobs') = Elements(jobs) \cup N /\ N \subseteq {j}
  BY PostAdds
<1> HIDE DEF N
<1>3. Covering \subseteq Covering'
  BY <1>1, <1>2, CoreCovers DEF archive
<1>4. Charges(server.log, Covering', state.delUpTo, j)
  <2>1. LogGrows(server.log, server.log) /\ state.delUpTo \in Int
        /\ state.delUpTo <= state.delUpTo
    BY SameLog DEF GInv, LInv, Stocked, IsUpTo
  <2>. QED
    BY <1>3, <2>1, VouchesLater
<1>5. \A k \in N : Charges(server.log, Covering', state.delUpTo, k)
  BY <1>2, <1>4
<1>. QED
  BY <1>1, <1>2, <1>5, CoreStep

LEMMA EventBeginsTrue ==
    ASSUME IInv, LInv, GInv, OnEventDlgState \/ DownloadFailedHoles
    PROVE  GInv'
<1>1. CASE OnEventDlgState
  <2> DEFINE then == [step |-> "localLoaded", event |-> Head(fetched)]
             j == Job("getState", 0, then)
  <2>1. /\ fetched # <<>> /\ fetched' = Tail(fetched) /\ Post(j)
        /\ server' = server /\ requests' = requests /\ answer' = answer
        /\ UNCHANGED archive /\ results' = results /\ forgotten' = forgotten
    BY <1>1 DEF OnEventDlgState, observed
  <2>2. then.step = "localLoaded" /\ then.event = Head(fetched)
        /\ j.op = "getState" /\ j.then = then
    BY DEF Job
  <2> HIDE DEF then, j
  <2>3. FetchedTrue' /\ IsFit(Head(fetched).tail)
    BY <2>1, QueueTail DEF GInv, FetchedTrue, IInv, Carried, FetchedFine
  <2>4. Charges(server.log, Covering, state.delUpTo, j)
    <3>1. Holds(then)
      BY <2>2, <2>3 DEF Holds, Promising, Carrying
    <3>. QED
      BY <2>2, <3>1 DEF Charges
  <2>. QED
    BY <2>1, <2>3, <2>4, OwnStep
<1>2. CASE DownloadFailedHoles
  <2>1. /\ server' = server /\ requests' = requests /\ answer' = answer /\ fetched' = fetched
        /\ UNCHANGED archive /\ results' = results /\ forgotten' = forgotten
        /\ GetNextHole(failed.from, failed.depth, failed.recursion)
    BY <1>2 DEF DownloadFailedHoles, CoreOnly, CoreChanges, observed
  <2>2. FetchedTrue'
    BY <2>1, SameFetched
  <2> DEFINE j == Job("nextHole", [from |-> failed.from, depth |-> failed.depth],
                      [step |-> "hole", from |-> failed.from, depth |-> failed.depth,
                       recursion |-> failed.recursion])
  <2>3. Post(j)
    BY <2>1 DEF GetNextHole
  <2>4. Charges(server.log, Covering, state.delUpTo, j)
    BY NextHoleJob
  <2> HIDE DEF j
  <2>. QED
    BY <2>1, <2>2, <2>3, <2>4, OwnStep
<1>. QED
  BY <1>1, <1>2

LEMMA RunCoreTrue ==
    ASSUME IInv, LInv, GInv, RunCore
    PROVE  GInv'
  BY AnswerTaken, AnswerPassed, IdleTrue, AskTrue, StateLoadedTrue, StateUpdatedTrue,
     EventPassed, EventUpdatedTrue, EventBeginsTrue DEF RunCore

-----------------------------------------------------------------------------
(* Everything else, and the theorem. *)

LEMMA FitMessages ==
    ASSUME NEW s, IsServer(s), NEW S, S \subseteq LiveIn(s)
    PROVE  IsFit(MessagesOf(s, S))
<1>1. \A i \in LiveIn(s) : i \in Nat
  BY DEF LiveIn, IsServer
<1>. QED
  BY <1>1, MessagesOfFacts DEF IsFit

LEMMA SnapshotFit ==
    ASSUME NEW n
    PROVE  /\ IsServer(server) => IsFit(Snapshot(n).tail)
           /\ IsServer(server') => IsFit(Snapshot(n)'.tail)
<1>1. ASSUME NEW s, IsServer(s)
      PROVE  IsFit(MessagesOf(s, Top(LiveIn(s), n)))
  BY <1>1, TopFacts, FitMessages
<1>2. Snapshot(n).tail = MessagesOf(server, Top(LiveIn(server), n))
  BY LiveFacts DEF Snapshot, Messages, MessagesOf
<1>3. Snapshot(n)'.tail = MessagesOf(server', Top(LiveIn(server'), n))
  BY LiveFacts DEF Snapshot, Messages, MessagesOf, Top
<1>. QED
  BY <1>1, <1>2, <1>3

LEMMA ServerTrue ==
    ASSUME IInv, LInv, GInv, ServerMoves
    PROVE  GInv'
<1>1. /\ IsServer(server) /\ IsServer(server')
      /\ \E n : fetched' = Append(fetched, Snapshot(n)')
  BY ServerGoesOn DEF LInv
<1>2. UNCHANGED <<requests, answer, memory, file, loaded, state, jobs, results, forgotten>>
  BY DEF ServerMoves, NewMessage, DeleteMessage, ClearUpTo, ClearByPatch, ServerChanges,
     archive, threads, observed
<1>3. \/ server'.log = server.log
      \/ \E kind, id : id \in Nat /\ server'.log = Append(server.log, [kind |-> kind, id |-> id])
  <2>1. \A i \in Live : i \in Nat
    BY <1>1 DEF Live, IsServer
  <2>2. "log" \in DOMAIN server /\ "gone" \in DOMAIN server
    BY <1>1 DEF IsServer
  <2>3. NewMessage \/ ClearUpTo => server'.log = server.log
    BY <2>2 DEF NewMessage, ClearUpTo
  <2>4. DeleteMessage => \E i \in Live : server'.log = Log("delete", i)
    BY <2>2 DEF DeleteMessage
  <2>5. ClearByPatch => Live # {} /\ server'.log = Log("clear", Highest(Live))
    BY <2>2 DEF ClearByPatch
  <2>6. Live # {} => Highest(Live) \in Nat
    <3>1. server.last \in Nat /\ Live \in SUBSET (1..server.last)
      BY <1>1 DEF IsServer, Live
    <3>2. Live # {} => Highest(Live) \in Live
      BY <3>1, HighestFacts
    <3>. QED
      BY <2>1, <3>2
  <2>. QED
    BY <2>1, <2>3, <2>4, <2>5, <2>6 DEF ServerMoves, Log
<1>4. LogGrows(server.log, server'.log) /\ LogTrue'
  <2> DEFINE l == server.log
  <2>1. /\ l \in Seq(Elements(l)) /\ IsQueue(l) /\ LogGrows(l, l)
        /\ \A k \in DOMAIN l : l[k].id \in Nat
    BY SameLog DEF GInv, LogTrue, IsQueue
  <2>2. CASE server'.log = l
    BY <2>1, <2>2 DEF LogTrue
  <2>3. ASSUME NEW kind, NEW id \in Nat, server'.log = Append(l, [kind |-> kind, id |-> id])
        PROVE  LogGrows(l, server'.log) /\ LogTrue'
    <3> DEFINE e == [kind |-> kind, id |-> id]
    <3>1. e.id \in Nat
      OBVIOUS
    <3> HIDE DEF e
    <3> DEFINE r == Append(l, e)
    <3>2. /\ IsQueue(r) /\ Len(r) = Len(l) + 1 /\ Len(l) \in Nat
          /\ DOMAIN r = 1..Len(r) /\ DOMAIN l = 1..Len(l)
          /\ r[Len(r)] = e /\ \A k \in 1..Len(l) : r[k] = l[k]
      <4>1. l \in Seq(Elements(l) \cup {e}) /\ e \in Elements(l) \cup {e}
        BY <2>1
      <4>2. IsQueue(r)
        BY <2>1, QueueAppend
      <4> HIDE DEF l
      <4>. QED
        BY <4>1, <4>2
    <3>3. server'.log = r
      BY <2>3 DEF e
    <3> HIDE DEF r
    <3>4. LogGrows(l, r)
      BY <3>2 DEF LogGrows
    <3>5. \A k \in DOMAIN r : r[k].id \in Nat
      <4>1. \A k \in DOMAIN r : k \in 1..Len(l) \/ k = Len(r)
        BY <3>2
      <4>. QED
        BY <2>1, <3>1, <3>2, <4>1
    <3>. QED
      BY <3>2, <3>3, <3>4, <3>5 DEF LogTrue
  <2>. QED
    BY <1>3, <2>2, <2>3
<1>5. Covering' = Covering /\ state'.delUpTo = state.delUpTo /\ state.delUpTo \in Int
  BY <1>2 DEF Covering, Covered, OnTheWay, LInv, Stocked, IsUpTo
<1> DEFINE C == Covering
           D == Covering'
           l == server.log
           k == server'.log
           u == state.delUpTo
<1> HIDE DEF C, D, l, k, u
<1>6. /\ \A v : Claims(l, C, v) => Claims(k, D, v)
      /\ \A r : Vouches(l, C, u, r) => Vouches(k, D, u, r)
      /\ \A j : Charges(l, C, u, j) => Charges(k, D, u, j)
  BY <1>4, <1>5, ClaimsLater, VouchesLater DEF C, D, l, k, u
<1>7. JobsTrue' /\ ResultsTrue' /\ RequestsTrue'
  BY <1>2, <1>5, <1>6 DEF GInv, JobsTrue, ResultsTrue, RequestsTrue, C, D, l, k, u
<1>8. AnswerTrue'
  <2>1. \A v, P : Claims(l, C \cup P, v) => Claims(k, D \cup P, v)
    BY <1>4, <1>5, ClaimsLater DEF C, D, l, k
  <2>. QED
    BY <1>2, <2>1 DEF GInv, AnswerTrue, C, D, l, k
<1>9. FetchedTrue'
  <2>1. PICK n : fetched' = Append(fetched, Snapshot(n)')
    BY <1>1
  <2>2. Elements(fetched') = Elements(fetched) \cup {Snapshot(n)'}
    BY <2>1, QueueAppend DEF IInv, Carried, FetchedFine
  <2>3. IsFit(Snapshot(n)'.tail)
    BY <1>1, SnapshotFit
  <2>. QED
    BY <2>2, <2>3 DEF GInv, FetchedTrue
<1>10. StateTrue' /\ IndexTrue' /\ SweptTrue'
  BY <1>2, <1>6 DEF GInv, StateTrue, IndexTrue, SweptTrue, C, D, l, k
<1>. QED
  BY <1>4, <1>7, <1>8, <1>9, <1>10 DEF GInv

\* An answer brings every deletion that the version it was asked with lacks.
LEMMA AnswerClaims ==
    ASSUME IInv, LInv, GInv, NEW r, Claims(server.log, Covering, r.version)
    PROVE  /\ IsFit(Answer(r).messages) /\ IsPatches(Answer(r).patches)
           /\ Claims(server.log, Covering \cup DOMAIN Answer(r).patches, Answer(r).version)
<1> DEFINE range == {i \in Live : (r.from = None \/ i < r.from) /\ i > r.till}
           page == Top(range, r.count)
           since == IF r.version = 0 THEN 1 ELSE r.version
           a == Answer(r)
           P == Patches("delete", since)
           l == server.log
<1>1. /\ a.messages = MessagesOf(server, page) /\ a.version = Len(l) + 1
      /\ a.patches = [i \in P |-> Header(None, TRUE, TRUE)]
  BY LiveFacts DEF Answer, Messages, MessagesOf, Version
<1>2. page \subseteq LiveIn(server)
  BY TopFacts, LiveFacts
<1>3. /\ Len(l) \in Nat /\ DOMAIN l = 1..Len(l) /\ \A k \in DOMAIN l : l[k].id \in Nat
  BY SameLog DEF LogGrows, GInv, LogTrue
<1>4. r.version \in Nat /\ since \in Nat /\ since >= 1
      /\ (since = r.version \/ (since = 1 /\ r.version = 0))
  BY DEF Claims
<1>5. P = {l[k].id : k \in {j \in since..Len(l) : l[j].kind = "delete"}}
  BY DEF Patches
<1> HIDE DEF page, a, since
<1>6. IsFit(a.messages)
  BY <1>1, <1>2, FitMessages DEF LInv
<1>7. \A k \in since..Len(l) : k \in DOMAIN l
  BY <1>3, <1>4
<1>8. \A i \in P : i \in Nat
  BY <1>3, <1>5, <1>7
<1> HIDE DEF P
<1>9. IsPatches(a.patches) /\ DOMAIN a.patches = P
  BY <1>1, <1>8 DEF IsPatches, Header
<1>10. ASSUME NEW k \in DOMAIN l, l[k].kind = "delete"
       PROVE  l[k].id \in Covering \cup P
  <2>1. CASE k < r.version
    BY <1>10, <2>1 DEF Claims
  <2>2. CASE ~(k < r.version)
    <3>1. k \in since..Len(l)
      BY <1>3, <1>4, <2>2
    <3>. QED
      BY <1>5, <1>10, <3>1
  <2>. QED
    BY <2>1, <2>2
<1>11. Claims(l, Covering \cup P, Len(l) + 1)
  BY <1>3, <1>10 DEF Claims
<1>. QED
  BY <1>1, <1>6, <1>9, <1>11 DEF a

LEMMA OutsideTrue ==
    ASSUME IInv, LInv, GInv, UserMoves \/ ServerAnswers \/ OnHistoryFailed
    PROVE  GInv'
<1>1. CASE UserMoves
  <2>1. /\ server' = server /\ fetched' = fetched /\ requests' = requests
        /\ answer' = answer /\ UNCHANGED archive /\ results' = results
        /\ forgotten' = forgotten
        /\ \/ Post(Job("getMessages", 0, Then("messagesLoaded")))
           \/ Post(Job("free", 0, Nothing))
    BY <1>1 DEF UserMoves, OpenDialog, CloseDialog, network, observed
  <2>2. /\ Charges(server.log, Covering, state.delUpTo,
                   Job("getMessages", 0, Then("messagesLoaded")))
        /\ Charges(server.log, Covering, state.delUpTo, Job("free", 0, Nothing))
    BY IdleJob DEF Promising, Carrying, Then, Nothing
  <2>3. FetchedTrue' /\ Elements(requests') \subseteq Elements(requests)
    BY <2>1, SameFetched
  <2>. QED
    BY <2>1, <2>2, <2>3, OwnStep
<1>2. CASE ServerAnswers
  <2>1. /\ requests # <<>> /\ answer' = Answer(Head(requests))
        /\ server' = server /\ fetched' = fetched /\ requests' = requests
        /\ UNCHANGED archive /\ results' = results /\ jobs' = jobs /\ forgotten' = forgotten
    BY <1>2 DEF ServerAnswers, threads, observed
  <2>2. Claims(server.log, Covering, Head(requests).version)
    BY <2>1, QueueTail DEF LInv, Told, RequestsTold, GInv, RequestsTrue
  <2>3. Covering' = Covering
    BY <2>1 DEF Covering, Covered, OnTheWay, archive
  <2>4. AnswerTrue'
    BY <2>1, <2>2, <2>3, AnswerClaims DEF AnswerTrue
  <2>5. FetchedTrue' /\ Elements(requests') \subseteq Elements(requests)
    BY <2>1, SameFetched
  <2>. QED
    BY <2>1, <2>4, <2>5, HolesJob, OwnStep
<1>3. CASE OnHistoryFailed
  <2>1. /\ requests # <<>> /\ requests' = Tail(requests) /\ answer' = NoAnswer
        /\ server' = server /\ fetched' = fetched /\ UNCHANGED archive
        /\ results' = results /\ forgotten' = forgotten
        /\ Post(Job("getState", 0, Then("holesFrom"))) \/ jobs' = jobs
    BY <1>3 DEF OnHistoryFailed, DownloadHoles, observed
  <2>2. AnswerTrue' /\ FetchedTrue'
    BY <2>1, SameFetched DEF AnswerTrue
  <2>3. Elements(requests') \subseteq Elements(requests)
    BY <2>1, QueueTail DEF LInv, Told, RequestsTold
  <2>. QED
    BY <2>1, <2>2, <2>3, HolesJob, OwnStep
<1>. QED
  BY <1>1, <1>2, <1>3

\* What the dead process knew of and the file does not hold is forgotten.
LEMMA CrashTrue ==
    ASSUME IInv, LInv, GInv, Crash
    PROVE  GInv'
<1>1. /\ jobs' = <<>> /\ results' = <<>> /\ answer' = NoAnswer /\ requests' = <<>>
      /\ \E n \in Tails : fetched' = <<Snapshot(n)>>
      /\ memory' = EmptyIndex /\ loaded' = FALSE /\ file' = file /\ state' = state
      /\ server' = server /\ Forget(KnownDeleted(state.version) \ Flagged(file))
  BY DEF Crash
<1>2. JobsTrue' /\ ResultsTrue' /\ RequestsTrue' /\ AnswerTrue'
  BY <1>1, QueueEmpty DEF JobsTrue, ResultsTrue, RequestsTrue, AnswerTrue
<1>3. FetchedTrue'
  <2>1. PICK n \in Tails : fetched' = <<Snapshot(n)>>
    BY <1>1
  <2>2. IsFit(Snapshot(n).tail)
    BY SnapshotFit DEF LInv
  <2>. QED
    BY <2>1, <2>2, QueueUnit DEF FetchedTrue
<1>4. LogTrue' /\ IndexTrue' /\ SweptTrue'
  BY <1>1, EmptyFacts DEF GInv, LogTrue, IndexTrue, IsFit, SweptTrue, Swept
<1>5. Claims(server.log, Covering', state.version)
  <2>1. Claims(server.log, Covering, state.version) /\ state.delUpTo \in Int
    BY DEF GInv, StateTrue, LInv, Stocked, IsUpTo
  <2>2. ASSUME NEW k \in DOMAIN server.log, k < state.version, server.log[k].kind = "delete"
        PROVE  server.log[k].id \in Covering'
    <3> DEFINE i == server.log[k].id
    <3>1. i \in Nat
      BY DEF GInv, LogTrue
    <3>2. i \in KnownDeleted(state.version)
      BY <2>2 DEF KnownDeleted
    <3> HIDE DEF i
    <3>3. ASSUME i \in Flagged(file)
          PROVE  i \in Covering'
      <4>1. i \in Flagged(file')
        BY <1>1, <3>3
      <4>. QED
        BY <3>1, <4>1, FlagsCovered
    <3>4. ASSUME i \notin Flagged(file)
          PROVE  i \in Covering'
      <4> DEFINE dropped == KnownDeleted(state.version) \ Flagged(file)
      <4>1. i \in dropped
        BY <3>2, <3>4
      <4>2. Forget(dropped) /\ state' = state /\ state.delUpTo \in Int
        BY <1>1, <2>1
      <4> HIDE DEF dropped
      <4>. QED
        BY <3>1, <4>1, <4>2, ForgetCovers
    <3>. QED
      BY <3>3, <3>4 DEF i
  <2>. QED
    BY <2>1, <2>2 DEF Claims
<1>6. StateTrue'
  BY <1>1, <1>5 DEF GInv, StateTrue
<1>. QED
  BY <1>2, <1>3, <1>4, <1>6 DEF GInv

LEMMA InitTrue == Init => GInv
<1> SUFFICES ASSUME Init PROVE GInv
  OBVIOUS
<1>1. /\ jobs = <<>> /\ results = <<>> /\ answer = NoAnswer /\ requests = <<>>
      /\ \E n \in Tails : fetched = <<Snapshot(n)>>
      /\ memory = EmptyIndex /\ file = Messages(1..Stored) /\ loaded = FALSE
      /\ server.log = <<>> /\ {"last", "version", "delUpTo"} \subseteq DOMAIN state
      /\ state.delUpTo = None /\ state.version \in {0, 1}
  BY DEF Init
<1>2. LInv
  BY InitTells
<1>3. JobsTrue /\ ResultsTrue /\ RequestsTrue /\ AnswerTrue
  BY <1>1, QueueEmpty DEF JobsTrue, ResultsTrue, RequestsTrue, AnswerTrue
<1>4. FetchedTrue
  BY <1>1, <1>2, SnapshotFit, QueueUnit DEF LInv, FetchedTrue
<1>5. LogTrue
  BY <1>1, QueueEmpty DEF LogTrue
<1>6. IsFit(file)
  <2>1. \A i \in 1..Stored : i \in Nat
    OBVIOUS
  <2>2. DOMAIN file = 1..Stored /\ \A i \in 1..Stored : file[i].patch = FALSE
    BY <1>1 DEF Messages, Header
  <2>. QED
    BY <2>1, <2>2 DEF IsFit
<1>7. IndexTrue /\ SweptTrue
  BY <1>1, <1>6, EmptyFacts DEF IndexTrue, IsFit, SweptTrue, Swept
<1>8. StateTrue
  <2>1. Len(server.log) = 0 /\ DOMAIN server.log = {}
    BY <1>1
  <2>. QED
    BY <1>1, <2>1 DEF StateTrue, Claims, None
<1>. QED
  BY <1>3, <1>4, <1>5, <1>7, <1>8 DEF GInv

LEMMA NextTrue == IInv /\ LInv /\ GInv /\ [Next]_vars => GInv'
<1>1. ASSUME GInv, UNCHANGED vars
      PROVE  GInv'
  BY <1>1 DEF GInv, JobsTrue, ResultsTrue, FetchedTrue, RequestsTrue, AnswerTrue, LogTrue,
     StateTrue, IndexTrue, SweptTrue, Covering, vars, network, archive, threads, observed
<1>. QED
  BY <1>1, ServerTrue, RunArchiveTrue, RunCoreTrue, OutsideTrue, CrashTrue DEF Next

LEMMA TrueImplies == IInv /\ LInv /\ GInv => NothingDeletedShown
<1> SUFFICES ASSUME IInv, LInv, GInv, Quiet, NEW i \in Visible(Load)
             PROVE  /\ i >= state.delUpTo
                    /\ i \in KnownDeleted(state.version) =>
                           i \in forgotten \cup {state.delUpTo}
  BY DEF NothingDeletedShown
<1>1. /\ i \in Kept(Load) /\ i \in DOMAIN Load /\ i \in Nat /\ i \notin Flagged(file)
      /\ state.delUpTo \in Int
  <2>1. i \in Kept(Load) /\ ~Load[i].deleted
    BY DEF Visible
  <2>2. i \in DOMAIN Load
    BY <2>1 DEF Kept
  <2>3. i \in Nat /\ i \notin Flagged(file)
    BY <2>1, <2>2, LoadTrue DEF IsFit
  <2>4. state.delUpTo \in Int
    BY DEF LInv, Stocked, IsUpTo
  <2>. QED
    BY <2>1, <2>2, <2>3, <2>4
<1>2. Elements(jobs) = {} /\ Elements(results) = {}
  BY QueueEmpty DEF Quiet
<1>3. i >= state.delUpTo
  <2>1. CASE loaded
    <3>1. i \in DOMAIN memory
      BY <1>1, <2>1 DEF Load
    <3>2. ~(i < state.delUpTo)
      BY <1>2, <2>1, <3>1 DEF GInv, SweptTrue, Swept, Due
    <3>. QED
      BY <1>1, <3>2
  <2>2. CASE ~loaded
    BY <1>1, <2>2, LoadTrue
  <2>. QED
    BY <2>1, <2>2
<1>4. ASSUME i \in KnownDeleted(state.version)
      PROVE  i \in forgotten \cup {state.delUpTo}
  <2>1. PICK k \in DOMAIN server.log : /\ k < state.version /\ server.log[k].kind = "delete"
                                       /\ server.log[k].id = i
    BY <1>4 DEF KnownDeleted
  <2>2. i \in Covering
    BY <2>1 DEF GInv, StateTrue, Claims
  <2>3. i <= state.delUpTo \/ i \in forgotten
    BY <1>1, <1>2, <2>2 DEF Covering, Covered, OnTheWay
  <2>. QED
    BY <1>1, <1>3, <2>3
<1>. QED
  BY <1>3, <1>4

\* Whatever brings a message back, be it late, twice, or in an answer that others
\* overtook: when all is handled, no message is shown that the stored state knows to
\* be deleted, but for the deletions the archive has lost, and the one message it does
\* not clear. So the version of the patches that is stored never claims more than what
\* the index of the archive, or a patch on its way to it, holds (archive_state::
\* set_state, contact_archive::insert_history_block, archive_index::insert_block,
\* delete_up_to, im::get_history_from_server, on_event_dlg_state).
THEOREM DeletionsStay == Spec => []NothingDeletedShown
<1>1. Init => IInv /\ LInv /\ GInv
  BY InitKeeps, InitTells, InitTrue
<1>2. (IInv /\ LInv /\ GInv) /\ [Next]_vars => (IInv /\ LInv /\ GInv)'
  BY NextKeeps, NextTells, NextTrue
<1>. QED
  BY <1>1, <1>2, TrueImplies, PTL DEF Spec

=============================================================================
