------------------------ MODULE MessageSendingProofs ------------------------
(***************************************************************************)
(* Proofs about MessageSending, for every number of messages and every     *)
(* budget: the three invariants of MessageSendingInvariants are inductive, *)
(* the second with the first and the third with both.                      *)
(*                                                                         *)
(* The lemmas about queues, the line, the store and the queues' contents   *)
(* come first, then one lemma for each action, then the first theorems;    *)
(* then the same for DInv, and for EInv.                                   *)
(***************************************************************************)
EXTENDS MessageSendingInvariants, FiniteSetTheorems, FunctionTheorems, WellFoundedInduction,
        TLAPS

-----------------------------------------------------------------------------
(* Queues: their elements, and how many steps of each kind of loop they    *)
(* hold.                                                                   *)

LEMMA OfFinite ==
    ASSUME NEW q, IsQueue(q), NEW k
    PROVE  IsFiniteSet(Of(q, k)) /\ Steps(q, k) \in Nat
<1>1. DOMAIN q = 1..Len(q) /\ Len(q) \in Nat
  BY DEF IsQueue
<1>2. IsFiniteSet(DOMAIN q)
  BY <1>1, FS_Interval
<1>3. Of(q, k) \subseteq DOMAIN q
  BY DEF Of
<1>. QED
  BY <1>2, <1>3, FS_Subset, FS_CardinalityType DEF Steps

LEMMA QueueEmpty ==
    /\ IsQueue(<<>>) /\ Elements(<<>>) = {} /\ Len(<<>>) = 0
    /\ \A k : Steps(<<>>, k) = 0
<1>1. IsQueue(<<>>) /\ Len(<<>>) = 0 /\ Elements(<<>>) = {}
  BY DEF IsQueue, Elements
<1>2. \A k : Of(<<>>, k) = {}
  BY DEF Of
<1>. QED
  BY <1>1, <1>2, FS_EmptySet DEF Steps

LEMMA QueueAppend ==
    ASSUME NEW q, IsQueue(q), NEW c
    PROVE  /\ IsQueue(Append(q, c)) /\ Elements(Append(q, c)) = Elements(q) \cup {c}
           /\ Len(q) \in Nat /\ Len(Append(q, c)) = Len(q) + 1
           /\ DOMAIN q = 1..Len(q) /\ DOMAIN Append(q, c) = 1..(Len(q) + 1)
           /\ Append(q, c)[Len(q) + 1] = c
           /\ \A i \in 1..Len(q) : Append(q, c)[i] = q[i]
<1> DEFINE S == Elements(q) \cup {c}
           r == Append(q, c)
<1>1. q \in Seq(S) /\ Len(q) \in Nat /\ DOMAIN q = 1..Len(q)
  BY DEF IsQueue
<1>2. /\ r \in Seq(S) /\ Len(r) = Len(q) + 1 /\ DOMAIN r = 1..(Len(q) + 1)
      /\ r[Len(q) + 1] = c /\ \A i \in 1..Len(q) : r[i] = q[i]
  BY <1>1
<1> HIDE DEF r
<1>3. Elements(r) = S
  BY <1>1, <1>2 DEF Elements
<1>. QED
  BY <1>1, <1>2, <1>3 DEF IsQueue, r

LEMMA AppendSteps ==
    ASSUME NEW q, IsQueue(q), NEW c, NEW k
    PROVE  Steps(Append(q, c), k) = Steps(q, k) + (IF Class(c) = k THEN 1 ELSE 0)
<1> DEFINE r == Append(q, c)
           n == Len(q) + 1
<1>1. /\ DOMAIN r = DOMAIN q \cup {n} /\ n \notin DOMAIN q /\ r[n] = c
      /\ \A i \in DOMAIN q : r[i] = q[i]
  BY QueueAppend
<1> HIDE DEF r, n
<1>2. Of(r, k) = IF Class(c) = k THEN Of(q, k) \cup {n} ELSE Of(q, k)
  BY <1>1 DEF Of
<1>3. n \notin Of(q, k)
  BY <1>1 DEF Of
<1>4. Cardinality(Of(q, k) \cup {n}) = Cardinality(Of(q, k)) + 1
  BY <1>3, OfFinite, FS_AddElement
<1>5. Cardinality(Of(q, k)) + 0 = Cardinality(Of(q, k))
  BY OfFinite DEF Steps
<1>. QED
  BY <1>2, <1>4, <1>5 DEF r, Steps

LEMMA QueueTail ==
    ASSUME NEW q, IsQueue(q), q # <<>>
    PROVE  /\ IsQueue(Tail(q)) /\ Elements(q) = Elements(Tail(q)) \cup {Head(q)}
           /\ Len(q) \in Nat \ {0} /\ Len(Tail(q)) = Len(q) - 1
           /\ DOMAIN q = 1..Len(q) /\ DOMAIN Tail(q) = 1..(Len(q) - 1)
           /\ Head(q) = q[1] /\ \A i \in 1..(Len(q) - 1) : Tail(q)[i] = q[i + 1]
<1> DEFINE r == Tail(q)
<1>1. q \in Seq(Elements(q)) /\ Len(q) \in Nat /\ Len(q) # 0 /\ Head(q) = q[1]
  BY DEF IsQueue
<1>2. /\ r \in Seq(Elements(q)) /\ Len(r) = Len(q) - 1
      /\ DOMAIN r = 1..Len(r) /\ DOMAIN q = 1..Len(q)
      /\ \A i \in 1..Len(r) : r[i] = q[i + 1]
  BY <1>1
<1> HIDE DEF r
<1>3. r \in Seq(Elements(r))
  <2>1. r \in [1..Len(r) -> Elements(r)] /\ Len(r) \in Nat
    BY <1>1, <1>2 DEF Elements
  <2>. QED
    BY <2>1
<1>4. ASSUME NEW c \in Elements(q), c # q[1] PROVE c \in Elements(r)
  <2>1. PICK i \in 1..Len(q) : c = q[i] /\ i # 1
    BY <1>2, <1>4 DEF Elements
  <2>2. i - 1 \in DOMAIN r /\ r[i - 1] = c
    BY <1>1, <1>2, <2>1
  <2>. QED
    BY <2>2 DEF Elements
<1>5. ASSUME NEW c \in Elements(r) PROVE c \in Elements(q)
  BY <1>1, <1>2 DEF Elements
<1>6. q[1] \in Elements(q)
  BY <1>1, <1>2 DEF Elements
<1>7. Elements(q) = Elements(r) \cup {q[1]}
  BY <1>4, <1>5, <1>6
<1>. QED
  BY <1>1, <1>2, <1>3, <1>7 DEF IsQueue, r

LEMMA TailSteps ==
    ASSUME NEW q, IsQueue(q), q # <<>>, NEW k
    PROVE  Steps(Tail(q), k) = Steps(q, k) - (IF Class(Head(q)) = k THEN 1 ELSE 0)
<1> DEFINE r == Tail(q)
           S == Of(q, k) \ {1}
           T == Of(r, k)
           F == [i \in S |-> i - 1]
<1>1. /\ IsQueue(r) /\ Len(q) \in Nat \ {0}
      /\ DOMAIN q = 1..Len(q) /\ DOMAIN r = 1..(Len(q) - 1)
      /\ Head(q) = q[1] /\ \A i \in 1..(Len(q) - 1) : r[i] = q[i + 1]
  BY QueueTail
<1> HIDE DEF r
<1>2. \A i \in S : i \in Nat /\ i - 1 \in T
  <2>1. ASSUME NEW i \in S PROVE i \in Nat /\ i - 1 \in T
    <3>1. i \in 1..Len(q) /\ i # 1 /\ Class(q[i]) = k
      BY <1>1 DEF Of
    <3>2. i - 1 \in 1..(Len(q) - 1) /\ (i - 1) + 1 = i
      BY <1>1, <3>1
    <3>3. r[i - 1] = q[i]
      BY <1>1, <3>2
    <3>. QED
      BY <1>1, <3>1, <3>2, <3>3 DEF Of
  <2>. QED
    BY <2>1
<1>3. \A j \in T : \E i \in S : i - 1 = j
  <2>1. ASSUME NEW j \in T PROVE j + 1 \in S /\ (j + 1) - 1 = j
    <3>1. j \in 1..(Len(q) - 1) /\ Class(r[j]) = k
      BY <1>1 DEF Of
    <3>2. j + 1 \in 1..Len(q) /\ j + 1 # 1 /\ q[j + 1] = r[j] /\ (j + 1) - 1 = j
      BY <1>1, <3>1
    <3>. QED
      BY <1>1, <3>1, <3>2 DEF Of
  <2>. QED
    BY <2>1
<1>4. IsFiniteSet(S) /\ Cardinality(S) = Steps(q, k)
                                        - (IF Class(Head(q)) = k THEN 1 ELSE 0)
  <2>1. 1 \in Of(q, k) <=> Class(Head(q)) = k
    BY <1>1 DEF Of
  <2>2. /\ IsFiniteSet(S)
        /\ Cardinality(S) = IF 1 \in Of(q, k) THEN Cardinality(Of(q, k)) - 1
                                              ELSE Cardinality(Of(q, k))
    BY OfFinite, FS_RemoveElement
  <2>. QED
    BY <2>1, <2>2, OfFinite DEF Steps
<1> HIDE DEF S, T
<1>5. F \in [S -> T] /\ \A a, b \in S : F[a] = F[b] => a = b
  BY <1>2
<1>6. \A t \in T : \E i \in S : F[i] = t
  BY <1>3
<1>7. F \in Bijection(S, T)
  BY <1>5, <1>6, Fun_IsBij
<1>8. ExistsBijection(S, T)
  BY <1>7, Fun_ExistsBij
<1>9. Cardinality(T) = Cardinality(S)
  BY <1>4, <1>8, FS_Bijection
<1>. QED
  BY <1>4, <1>9 DEF T, r, Steps

\* No step is counted, no step is there.
LEMMA StepsFound ==
    ASSUME NEW q, IsQueue(q), NEW c \in Elements(q)
    PROVE  Steps(q, Class(c)) >= 1
<1>1. PICK i \in DOMAIN q : q[i] = c
  BY DEF Elements
<1>2. i \in Of(q, Class(c))
  BY <1>1 DEF Of
<1>3. Of(q, Class(c)) # {}
  BY <1>2
<1>4. Steps(q, Class(c)) # 0
  BY <1>3, OfFinite, FS_EmptySet DEF Steps
<1>. QED
  BY <1>4, OfFinite

LEMMA StepsNone ==
    ASSUME NEW q, IsQueue(q), NEW k, \A c \in Elements(q) : Class(c) # k
    PROVE  Steps(q, k) = 0
<1>1. Of(q, k) = {}
  BY DEF Of, Elements
<1>. QED
  BY <1>1, FS_EmptySet DEF Steps

\* What the core thread queues is one job or two.
LEMMA Concatenations ==
    ASSUME NEW q, IsQueue(q)
    PROVE  /\ q \o <<>> = q
           /\ \A a : q \o <<a>> = Append(q, a)
           /\ \A a, b : q \o <<a, b>> = Append(Append(q, a), b)
<1>1. q \in Seq(Elements(q))
  BY DEF IsQueue
<1>2. q \o <<>> = q
  BY <1>1
<1>3. ASSUME NEW a PROVE q \o <<a>> = Append(q, a)
  <2>1. q \in Seq(Elements(q) \cup {a})
    BY <1>1
  <2>. QED
    BY <2>1
<1>4. ASSUME NEW a, NEW b PROVE q \o <<a, b>> = Append(Append(q, a), b)
  <2>1. q \in Seq(Elements(q) \cup {a, b})
    BY <1>1
  <2>. QED
    BY <2>1
<1>. QED
  BY <1>2, <1>3, <1>4

-----------------------------------------------------------------------------
(* The line of entries: the internal ids that are in the store (S), in the *)
(* archive's jobs (J) and in the GUI's commands (C), as sequences of keys. *)

LEMMA NothingIsNoOriginal == \A m \in Messages : Original(m) # Nothing
  BY BoundsAssumption DEF Messages, Original, Nothing

LEMMA KeyAppend ==
    ASSUME NEW ks \in Seq(Keys), NEW k \in Keys
    PROVE  /\ Append(ks, k) \in Seq(Keys) /\ DOMAIN ks = 1..Len(ks) /\ Len(ks) \in Nat
           /\ DOMAIN Append(ks, k) = 1..(Len(ks) + 1)
           /\ Append(ks, k)[Len(ks) + 1] = k
           /\ \A i \in 1..Len(ks) : Append(ks, k)[i] = ks[i]
           /\ \A x : In(Append(ks, k), x) <=> In(ks, x) \/ x = k
<1> DEFINE r == Append(ks, k)
<1>1. /\ r \in Seq(Keys) /\ DOMAIN ks = 1..Len(ks) /\ Len(ks) \in Nat
      /\ DOMAIN r = 1..(Len(ks) + 1)
      /\ r[Len(ks) + 1] = k /\ \A i \in 1..Len(ks) : r[i] = ks[i]
  OBVIOUS
<1> HIDE DEF r
<1>2. ASSUME NEW x PROVE In(r, x) <=> In(ks, x) \/ x = k
  BY <1>1 DEF In
<1>. QED
  BY <1>1, <1>2 DEF r

LEMMA KeyTail ==
    ASSUME NEW ks \in Seq(Keys), ks # <<>>
    PROVE  /\ Tail(ks) \in Seq(Keys) /\ DOMAIN ks = 1..Len(ks) /\ Len(ks) \in Nat \ {0}
           /\ DOMAIN Tail(ks) = 1..(Len(ks) - 1)
           /\ Head(ks) = ks[1] /\ ks[1] \in Keys
           /\ \A i \in 1..(Len(ks) - 1) : Tail(ks)[i] = ks[i + 1]
           /\ \A x : In(ks, x) <=> In(Tail(ks), x) \/ x = Head(ks)
<1> DEFINE r == Tail(ks)
<1>1. /\ r \in Seq(Keys) /\ DOMAIN ks = 1..Len(ks) /\ Len(ks) \in Nat \ {0}
      /\ DOMAIN r = 1..(Len(ks) - 1) /\ Head(ks) = ks[1] /\ ks[1] \in Keys
      /\ \A i \in 1..(Len(ks) - 1) : r[i] = ks[i + 1]
  OBVIOUS
<1> HIDE DEF r
<1>2. ASSUME NEW x, In(ks, x), x # Head(ks) PROVE In(r, x)
  <2>1. PICK i \in 1..Len(ks) : ks[i] = x /\ i # 1
    BY <1>1, <1>2 DEF In
  <2>2. i - 1 \in DOMAIN r /\ r[i - 1] = x
    BY <1>1, <2>1
  <2>. QED
    BY <2>2 DEF In
<1>3. ASSUME NEW x, In(r, x) PROVE In(ks, x)
  <2>1. PICK i \in 1..(Len(ks) - 1) : r[i] = x
    BY <1>1, <1>3 DEF In
  <2>2. i + 1 \in DOMAIN ks /\ ks[i + 1] = x
    BY <1>1, <2>1
  <2>. QED
    BY <2>2 DEF In
<1>4. In(ks, Head(ks))
  BY <1>1 DEF In
<1>. QED
  BY <1>1, <1>2, <1>3, <1>4 DEF r

\* A key at the end.
LEMMA SortedAppend ==
    ASSUME NEW ks \in Seq(Keys), Sorted(ks), NEW k \in Keys,
           \A i \in DOMAIN ks : Precedes(ks[i], k)
    PROVE  Sorted(Append(ks, k))
  BY KeyAppend DEF Sorted

LEMMA BeforeAppend ==
    ASSUME NEW ks \in Seq(Keys), NEW ls \in Seq(Keys), Before(ks, ls), NEW k \in Keys
    PROVE  /\ (\A i \in DOMAIN ks : Precedes(ks[i], k)) => Before(ks, Append(ls, k))
           /\ (\A i \in DOMAIN ls : Precedes(k, ls[i])) => Before(Append(ks, k), ls)
<1>1. (\A i \in DOMAIN ks : Precedes(ks[i], k)) => Before(ks, Append(ls, k))
  BY KeyAppend DEF Before
<1>2. (\A i \in DOMAIN ls : Precedes(k, ls[i])) => Before(Append(ks, k), ls)
  BY KeyAppend DEF Before
<1>. QED
  BY <1>1, <1>2

\* What is left without the first key.
LEMMA SortedTail ==
    ASSUME NEW ks \in Seq(Keys), ks # <<>>, Sorted(ks)
    PROVE  Sorted(Tail(ks)) /\ \A i \in DOMAIN Tail(ks) : Precedes(Head(ks), Tail(ks)[i])
<1>1. Sorted(Tail(ks))
  BY KeyTail DEF Sorted
<1>2. \A i \in DOMAIN Tail(ks) : Precedes(Head(ks), Tail(ks)[i])
  BY KeyTail DEF Sorted
<1>. QED
  BY <1>1, <1>2

LEMMA BeforeTail ==
    ASSUME NEW ks \in Seq(Keys), NEW ls \in Seq(Keys), Before(ks, ls)
    PROVE  /\ ks # <<>> => /\ Before(Tail(ks), ls)
                           /\ \A i \in DOMAIN ls : Precedes(Head(ks), ls[i])
           /\ ls # <<>> => /\ Before(ks, Tail(ls))
                           /\ \A i \in DOMAIN ks : Precedes(ks[i], Head(ls))
<1>1. ASSUME ks # <<>>
      PROVE Before(Tail(ks), ls) /\ \A i \in DOMAIN ls : Precedes(Head(ks), ls[i])
  BY <1>1, KeyTail DEF Before
<1>2. ASSUME ls # <<>>
      PROVE Before(ks, Tail(ls)) /\ \A i \in DOMAIN ks : Precedes(ks[i], Head(ls))
  BY <1>2, KeyTail DEF Before
<1>. QED
  BY <1>1, <1>2

\* A job that inserts nothing joins the queue.
LEMMA LineAppendNothing ==
    ASSUME NEW S, NEW J, NEW C, LineOK(S, J, C)
    PROVE  /\ LineOK(S, Append(J, Nothing), C)
           /\ Originals(S, Append(J, Nothing), C) = Originals(S, J, C)
<1>1. Nothing \in Keys /\ \A k : Precedes(k, Nothing) /\ Precedes(Nothing, k)
  BY DEF Nothing, Keys, Precedes
<1>2. LineOK(S, Append(J, Nothing), C)
  BY <1>1, KeyAppend, SortedAppend, BeforeAppend DEF LineOK
<1>3. \A m \in Messages : In(Append(J, Nothing), Original(m)) <=> In(J, Original(m))
  BY <1>1, KeyAppend, NothingIsNoOriginal DEF LineOK
<1>. QED
  BY <1>2, <1>3 DEF Originals

\* A job that inserts nothing is executed.
LEMMA LineTailNothing ==
    ASSUME NEW S, NEW J, NEW C, LineOK(S, J, C), J # <<>>, Head(J) = Nothing
    PROVE  /\ LineOK(S, Tail(J), C)
           /\ Originals(S, Tail(J), C) = Originals(S, J, C)
<1>1. LineOK(S, Tail(J), C)
  BY KeyTail, SortedTail, BeforeTail DEF LineOK
<1>2. \A m \in Messages : In(Tail(J), Original(m)) <=> In(J, Original(m))
  BY KeyTail, NothingIsNoOriginal DEF LineOK
<1>. QED
  BY <1>1, <1>2 DEF Originals

\* A command becomes the job that inserts its entry.
LEMMA LineCommand ==
    ASSUME NEW S, NEW J, NEW C, LineOK(S, J, C), C # <<>>
    PROVE  /\ LineOK(S, Append(J, Head(C)), Tail(C))
           /\ Originals(S, Append(J, Head(C)), Tail(C)) = Originals(S, J, C)
<1>1. Head(C) \in Keys /\ Tail(C) \in Seq(Keys)
  BY KeyTail DEF LineOK
<1>2. LineOK(S, Append(J, Head(C)), Tail(C))
  <2>1. Sorted(Append(J, Head(C)))
    BY <1>1, SortedAppend, BeforeTail DEF LineOK
  <2>2. Sorted(Tail(C))
    BY SortedTail DEF LineOK
  <2>3. Before(S, Append(J, Head(C)))
    BY <1>1, BeforeAppend, BeforeTail DEF LineOK
  <2>4. Before(S, Tail(C))
    BY BeforeTail DEF LineOK
  <2>5. Before(Append(J, Head(C)), Tail(C))
    BY <1>1, BeforeAppend, BeforeTail, SortedTail DEF LineOK
  <2>. QED
    BY <1>1, <2>1, <2>2, <2>3, <2>4, <2>5, KeyAppend DEF LineOK
<1>3. \A m \in Messages :
         /\ In(Append(J, Head(C)), Original(m)) <=> In(J, Original(m)) \/ Original(m) = Head(C)
         /\ In(C, Original(m)) <=> In(Tail(C), Original(m)) \/ Original(m) = Head(C)
  BY <1>1, KeyAppend, KeyTail DEF LineOK
<1>. QED
  BY <1>2, <1>3 DEF Originals

\* A command that inserts no original is handled.
LEMMA LineCommandDone ==
    ASSUME NEW S, NEW J, NEW C, LineOK(S, J, C), C # <<>>,
           \A m \in Messages : Original(m) # Head(C)
    PROVE  /\ LineOK(S, J, Tail(C))
           /\ Originals(S, J, Tail(C)) = Originals(S, J, C)
<1>1. LineOK(S, J, Tail(C))
  BY KeyTail, SortedTail, BeforeTail DEF LineOK
<1>2. \A m \in Messages : In(Tail(C), Original(m)) <=> In(C, Original(m))
  BY KeyTail DEF LineOK
<1>. QED
  BY <1>1, <1>2 DEF Originals

\* The first job inserts its entry at the end of the store.
LEMMA LineInsert ==
    ASSUME NEW S, NEW J, NEW C, LineOK(S, J, C), J # <<>>
    PROVE  /\ LineOK(Append(S, Head(J)), Tail(J), C)
           /\ Originals(Append(S, Head(J)), Tail(J), C) = Originals(S, J, C)
           /\ Head(J) # Nothing => ~In(S, Head(J))
<1>1. Head(J) \in Keys /\ Tail(J) \in Seq(Keys)
  BY KeyTail DEF LineOK
<1>2. LineOK(Append(S, Head(J)), Tail(J), C)
  <2>1. Sorted(Append(S, Head(J)))
    BY <1>1, SortedAppend, BeforeTail DEF LineOK
  <2>2. Sorted(Tail(J))
    BY SortedTail DEF LineOK
  <2>3. Before(Append(S, Head(J)), Tail(J))
    BY <1>1, BeforeAppend, BeforeTail, SortedTail DEF LineOK
  <2>4. Before(Append(S, Head(J)), C)
    BY <1>1, BeforeAppend, BeforeTail DEF LineOK
  <2>5. Before(Tail(J), C)
    BY BeforeTail DEF LineOK
  <2>. QED
    BY <1>1, <2>1, <2>2, <2>3, <2>4, <2>5, KeyAppend DEF LineOK
<1>3. \A m \in Messages :
         /\ In(Append(S, Head(J)), Original(m)) <=> In(S, Original(m)) \/ Original(m) = Head(J)
         /\ In(J, Original(m)) <=> In(Tail(J), Original(m)) \/ Original(m) = Head(J)
  BY <1>1, KeyAppend, KeyTail DEF LineOK
<1>4. Head(J) # Nothing => ~In(S, Head(J))
  BY BeforeTail DEF LineOK, In, Precedes
<1>. QED
  BY <1>2, <1>3, <1>4 DEF Originals

\* The GUI gives a command with a new key.
LEMMA LineType ==
    ASSUME NEW S, NEW J, NEW C, LineOK(S, J, C), NEW k \in Keys,
           \A x : In(S, x) \/ In(J, x) \/ In(C, x) => Precedes(x, k)
    PROVE  /\ LineOK(S, J, Append(C, k))
           /\ Originals(S, J, Append(C, k))
              = Originals(S, J, C) \cup {m \in Messages : Original(m) = k}
<1>1. /\ \A i \in DOMAIN S : Precedes(S[i], k)
      /\ \A i \in DOMAIN J : Precedes(J[i], k)
      /\ \A i \in DOMAIN C : Precedes(C[i], k)
  BY DEF In
<1>2. LineOK(S, J, Append(C, k))
  BY <1>1, KeyAppend, SortedAppend, BeforeAppend DEF LineOK
<1>3. \A m \in Messages : In(Append(C, k), Original(m)) <=> In(C, Original(m)) \/ Original(m) = k
  BY KeyAppend DEF LineOK
<1>. QED
  BY <1>2, <1>3 DEF Originals

\* An entry leaves the store.
LEMMA LineTrim ==
    ASSUME NEW S, NEW T, NEW J, NEW C, NEW k, LineOK(S, J, C), Trimmed(S, T, k)
    PROVE  /\ LineOK(T, J, C)
           /\ Originals(T, J, C) \subseteq Originals(S, J, C)
           /\ \A m \in Originals(S, J, C) : m \in Originals(T, J, C) \/ Original(m) = k
<1>1. CASE T = S
  BY <1>1
<1>2. CASE T # S
  <2>1. PICK at \in DOMAIN S :
          /\ S[at] = k /\ T \in Seq(Keys) /\ Len(T) = Len(S) - 1
          /\ \A i \in 1..(Len(S) - 1) : T[i] = S[IF i < at THEN i ELSE i + 1]
    BY <1>2 DEF Trimmed
  <2>2. /\ DOMAIN S = 1..Len(S) /\ Len(S) \in Nat /\ DOMAIN T = 1..(Len(S) - 1)
        /\ at \in 1..Len(S)
    BY <2>1 DEF LineOK
  <2> DEFINE old(i) == IF i < at THEN i ELSE i + 1
  <2>3. \A i \in DOMAIN T : old(i) \in DOMAIN S /\ T[i] = S[old(i)]
    BY <2>1, <2>2
  <2>4. \A i, j \in DOMAIN T : i < j => old(i) < old(j)
    BY <2>2
  <2> HIDE DEF old
  <2>5. Sorted(T)
    BY <2>3, <2>4 DEF Sorted, LineOK
  <2>6. Before(T, J) /\ Before(T, C)
    BY <2>3 DEF Before, LineOK
  <2>7. \A x : In(T, x) => In(S, x)
    BY <2>3 DEF In
  <2>8. ASSUME NEW x, In(S, x), x # k PROVE In(T, x)
    <3>1. PICK i \in 1..Len(S) : S[i] = x /\ i # at
      BY <2>1, <2>2, <2>8 DEF In
    <3> DEFINE n == IF i < at THEN i ELSE i - 1
    <3>2. n \in 1..(Len(S) - 1) /\ (IF n < at THEN n ELSE n + 1) = i
      BY <2>2, <3>1
    <3> HIDE DEF n
    <3>3. n \in DOMAIN T /\ T[n] = x
      BY <2>1, <2>2, <3>1, <3>2
    <3>. QED
      BY <3>3 DEF In
  <2>9. LineOK(T, J, C)
    BY <2>1, <2>5, <2>6 DEF LineOK
  <2>. QED
    BY <2>7, <2>8, <2>9 DEF Originals
<1>. QED
  BY <1>1, <1>2

\* The first entry of the store is the oldest message of the line.
LEMMA LineFirst ==
    ASSUME NEW S, NEW J, NEW C, LineOK(S, J, C), S # <<>>, NEW m \in Messages,
           S[1] = Original(m)
    PROVE  m \in Originals(S, J, C) /\ \A k \in Originals(S, J, C) : m <= k
<1>1. 1 \in DOMAIN S /\ DOMAIN S = 1..Len(S) /\ Len(S) \in Nat
  BY KeyTail DEF LineOK
<1>2. m \in Originals(S, J, C)
  BY <1>1 DEF Originals, In
<1>3. ASSUME NEW k \in Originals(S, J, C), k # m PROVE m <= k
  <2>1. Precedes(Original(m), Original(k))
    <3>1. CASE In(S, Original(k))
      <4>1. PICK i \in 1..Len(S) : S[i] = Original(k)
        BY <1>1, <3>1 DEF In
      <4>2. i # 1
        BY <1>3, <4>1 DEF Original
      <4>. QED
        BY <1>1, <4>1, <4>2 DEF LineOK, Sorted
    <3>2. CASE In(J, Original(k))
      BY <1>1, <3>2 DEF In, LineOK, Before
    <3>3. CASE In(C, Original(k))
      BY <1>1, <3>3 DEF In, LineOK, Before
    <3>. QED
      BY <1>3, <3>1, <3>2, <3>3 DEF Originals
  <2>2. Original(m) # Nothing /\ Original(k) # Nothing /\ k \in Messages
    BY <1>3, NothingIsNoOriginal DEF Originals
  <2>3. m \in Nat /\ k \in Nat
    BY <2>2, BoundsAssumption DEF Messages
  <2>. QED
    BY <2>1, <2>2, <2>3 DEF Precedes, Original
<1>4. m <= m
  BY BoundsAssumption DEF Messages
<1>. QED
  BY <1>2, <1>3, <1>4

\* Without jobs and commands only what is stored is left.
LEMMA LineCrash ==
    ASSUME NEW S, NEW J, NEW C, LineOK(S, J, C)
    PROVE  /\ LineOK(S, <<>>, <<>>)
           /\ Originals(S, <<>>, <<>>) = {m \in Messages : In(S, Original(m))}
<1>1. <<>> \in Seq(Keys) /\ DOMAIN <<>> = {}
  OBVIOUS
<1>. QED
  BY <1>1 DEF LineOK, Sorted, Before, Originals, In

-----------------------------------------------------------------------------
(* Lemmas about entries and the store: every operation keeps their types,  *)
(* and changes the line only where it says so.                             *)

LEMMA EntryKept ==
    ASSUME NEW T, NEW C, NEW e, IsEntry(e, T, C), NEW f,
           \/ f = e
           \/ f = [e EXCEPT !.deleted = TRUE]
           \/ f = [e EXCEPT !.posted = TRUE]
           \/ f = [e EXCEPT !.posted = FALSE]
    PROVE  IsEntry(f, T, C) /\ f.iid = e.iid
<1>1. /\ f \in EntryRecord /\ f.iid = e.iid /\ f.msg = e.msg /\ f.text = e.text
      /\ f.msgid = e.msgid /\ f.fresh = e.fresh
  BY DEF IsEntry, EntryRecord
<1>. QED
  BY <1>1 DEF IsEntry

Known(e, id) == [e EXCEPT !.msgid = id]
Confirmed(e, id) == [e EXCEPT !.msgid = id, !.modified = FALSE, !.fresh = TRUE]

LEMMA EntryConfirmed ==
    ASSUME NEW T, NEW C, NEW e, IsEntry(e, T, C), NEW id \in Nat, id > 0,
           e.iid[1] \in C, NEW f,
           f = Known(e, id) \/ f = Confirmed(e, id)
    PROVE  IsEntry(f, T, C) /\ f.iid = e.iid
<1>1. /\ f \in EntryRecord /\ f.iid = e.iid /\ f.msg = e.msg /\ f.text = e.text
      /\ f.msgid = id
  BY DEF IsEntry, EntryRecord, Known, Confirmed
<1>. QED
  BY <1>1 DEF IsEntry

LEMMA EntryMore ==
    ASSUME NEW T \in [Messages -> Nat], NEW U \in [Messages -> Nat], NEW C, NEW D,
           \A m \in Messages : T[m] <= U[m], C \subseteq D, NEW e, IsEntry(e, T, C)
    PROVE  IsEntry(e, U, D)
  BY DEF IsEntry, EntryRecord

LEMMA StoreKeys ==
    ASSUME NEW T, NEW C, NEW s, IsStore(s, T, C)
    PROVE  /\ Stores(s.sent) \in Seq(Keys) /\ IsQueue(s.sent)
           /\ Len(Stores(s.sent)) = Len(s.sent) /\ Len(s.sent) \in Nat
           /\ DOMAIN s.sent = 1..Len(s.sent)
           /\ DOMAIN Stores(s.sent) = 1..Len(s.sent)
           /\ \A i \in 1..Len(s.sent) : /\ s.sent[i] \in Elements(s.sent)
                                        /\ s.sent[i] \in EntryRecord
                                        /\ Stores(s.sent)[i] = s.sent[i].iid
<1>1. /\ s.sent \in [1..Len(s.sent) -> EntryRecord] /\ Len(s.sent) \in Nat
      /\ DOMAIN s.sent = 1..Len(s.sent)
  BY DEF IsStore
<1>2. \A e \in EntryRecord : e.iid \in Keys
  BY BoundsAssumption DEF EntryRecord, Keys, Messages
<1>3. Stores(s.sent) \in [1..Len(s.sent) -> Keys]
  BY <1>1, <1>2 DEF Stores
<1>4. s.sent \in [1..Len(s.sent) -> Elements(s.sent)]
  BY <1>1 DEF Elements
<1>5. IsQueue(s.sent) /\ Stores(s.sent) \in Seq(Keys)
  BY <1>1, <1>3, <1>4 DEF IsQueue
<1>6. Len(Stores(s.sent)) = Len(s.sent)
  BY <1>1, <1>3, <1>5
<1>. QED
  BY <1>1, <1>3, <1>4, <1>5, <1>6 DEF Stores

\* A store whose entries were changed in their places.
LEMMA StoreChanged ==
    ASSUME NEW T, NEW C, NEW s, IsStore(s, T, C), NEW r,
           {"sent", "deletes"} \subseteq DOMAIN r,
           r.sent \in [DOMAIN s.sent -> Elements(r.sent)],
           \A i \in DOMAIN s.sent :
              IsEntry(r.sent[i], T, C) /\ r.sent[i].iid = s.sent[i].iid
    PROVE  IsStore(r, T, C) /\ Stores(r.sent) = Stores(s.sent)
<1>1. DOMAIN s.sent = 1..Len(s.sent) /\ Len(s.sent) \in Nat
  BY StoreKeys
<1>2. \A i \in 1..Len(s.sent) : r.sent[i] \in EntryRecord
  BY <1>1 DEF IsEntry
<1>3. r.sent \in [1..Len(s.sent) -> EntryRecord] /\ DOMAIN r.sent = 1..Len(s.sent)
  BY <1>1, <1>2
<1>4. r.sent \in Seq(EntryRecord)
  BY <1>1, <1>3
<1>5. \A e \in Elements(r.sent) : IsEntry(e, T, C)
  BY <1>1, <1>3 DEF Elements
<1>6. Stores(r.sent) = Stores(s.sent)
  BY <1>1, <1>3 DEF Stores
<1>. QED
  BY <1>4, <1>5, <1>6 DEF IsStore

LEMMA StorePosted ==
    ASSUME NEW T, NEW C, NEW s, IsStore(s, T, C), NEW iid
    PROVE  /\ IsStore(UpdatePostTime(s, iid), T, C)
           /\ Stores(UpdatePostTime(s, iid).sent) = Stores(s.sent)
<1> DEFINE r == UpdatePostTime(s, iid)
<1>1. /\ {"sent", "deletes"} \subseteq DOMAIN r
      /\ r.sent = [i \in DOMAIN s.sent |->
                     IF s.sent[i].iid = iid THEN [s.sent[i] EXCEPT !.posted = TRUE]
                     ELSE s.sent[i]]
  BY DEF IsStore, UpdatePostTime, Update
<1> HIDE DEF r
<1>2. \A i \in DOMAIN s.sent : IsEntry(s.sent[i], T, C)
  BY DEF IsStore, Elements
<1>3. \A i \in DOMAIN s.sent : IsEntry(r.sent[i], T, C) /\ r.sent[i].iid = s.sent[i].iid
  <2>1. ASSUME NEW i \in DOMAIN s.sent
        PROVE  IsEntry(r.sent[i], T, C) /\ r.sent[i].iid = s.sent[i].iid
    <3>1. \/ r.sent[i] = s.sent[i]
          \/ r.sent[i] = [s.sent[i] EXCEPT !.posted = TRUE]
      BY <1>1
    <3>. QED
      BY <1>2, <3>1, EntryKept
  <2>. QED
    BY <2>1
<1>4. r.sent \in [DOMAIN s.sent -> Elements(r.sent)]
  BY <1>1 DEF Elements
<1>5. IsStore(r, T, C) /\ Stores(r.sent) = Stores(s.sent)
  <2>1. {"sent", "deletes"} \subseteq DOMAIN r
    BY <1>1
  <2>. QED
    BY <2>1, <1>3, <1>4, StoreChanged
<1>. QED
  BY <1>5 DEF r

LEMMA StoreUnposted ==
    ASSUME NEW T, NEW C, NEW s, IsStore(s, T, C), NEW r,
           r = Update(s, LAMBDA o : TRUE, LAMBDA o : [o EXCEPT !.posted = FALSE])
    PROVE  IsStore(r, T, C) /\ Stores(r.sent) = Stores(s.sent)
<1>1. /\ {"sent", "deletes"} \subseteq DOMAIN r
      /\ r.sent = [i \in DOMAIN s.sent |-> [s.sent[i] EXCEPT !.posted = FALSE]]
  BY DEF IsStore, Update
<1>2. \A i \in DOMAIN s.sent : IsEntry(s.sent[i], T, C)
  BY DEF IsStore, Elements
<1>3. \A i \in DOMAIN s.sent : IsEntry(r.sent[i], T, C) /\ r.sent[i].iid = s.sent[i].iid
  <2>1. ASSUME NEW i \in DOMAIN s.sent
        PROVE  IsEntry(r.sent[i], T, C) /\ r.sent[i].iid = s.sent[i].iid
    <3>1. \/ r.sent[i] = s.sent[i]
          \/ r.sent[i] = [s.sent[i] EXCEPT !.posted = FALSE]
      BY <1>1
    <3>. QED
      BY <1>2, <3>1, EntryKept
  <2>. QED
    BY <2>1
<1>4. r.sent \in [DOMAIN s.sent -> Elements(r.sent)]
  BY <1>1 DEF Elements
<1>. QED
  BY <1>1, <1>3, <1>4, StoreChanged

LEMMA StoreReplaced ==
    ASSUME NEW T, NEW C, NEW s, IsStore(s, T, C), NEW e, IsEntry(e, T, C)
    PROVE  /\ IsStore(UpdateMessageIfExist(s, e), T, C)
           /\ Stores(UpdateMessageIfExist(s, e).sent) = Stores(s.sent)
<1> DEFINE r == UpdateMessageIfExist(s, e)
<1>1. /\ {"sent", "deletes"} \subseteq DOMAIN r
      /\ r.sent = [i \in DOMAIN s.sent |-> IF s.sent[i].iid = e.iid THEN e ELSE s.sent[i]]
  BY DEF IsStore, UpdateMessageIfExist, Update
<1> HIDE DEF r
<1>2. \A i \in DOMAIN s.sent : IsEntry(s.sent[i], T, C)
  BY DEF IsStore, Elements
<1>3. \A i \in DOMAIN s.sent : IsEntry(r.sent[i], T, C) /\ r.sent[i].iid = s.sent[i].iid
  BY <1>1, <1>2
<1>4. r.sent \in [DOMAIN s.sent -> Elements(r.sent)]
  BY <1>1 DEF Elements
<1>5. IsStore(r, T, C) /\ Stores(r.sent) = Stores(s.sent)
  <2>1. {"sent", "deletes"} \subseteq DOMAIN r
    BY <1>1
  <2>. QED
    BY <2>1, <1>3, <1>4, StoreChanged
<1>. QED
  BY <1>5 DEF r

LEMMA StoreMarked ==
    ASSUME NEW T, NEW C, NEW s, IsStore(s, T, C), NEW id, NEW iid
    PROVE  /\ IsStore(InsertDeletedMessage(s, id, iid), T, C)
           /\ Stores(InsertDeletedMessage(s, id, iid).sent) = Stores(s.sent)
<1> DEFINE r == InsertDeletedMessage(s, id, iid)
           marks(o) == (id > 0 /\ o.msgid = id) \/ o.iid = iid
<1>1. /\ {"sent", "deletes"} \subseteq DOMAIN r
      /\ r.sent = [i \in DOMAIN s.sent |->
                     IF marks(s.sent[i]) THEN [s.sent[i] EXCEPT !.deleted = TRUE]
                     ELSE s.sent[i]]
  BY DEF IsStore, InsertDeletedMessage, Update
<1> HIDE DEF r, marks
<1>2. \A i \in DOMAIN s.sent : IsEntry(s.sent[i], T, C)
  BY DEF IsStore, Elements
<1>3. \A i \in DOMAIN s.sent : IsEntry(r.sent[i], T, C) /\ r.sent[i].iid = s.sent[i].iid
  <2>1. ASSUME NEW i \in DOMAIN s.sent
        PROVE  IsEntry(r.sent[i], T, C) /\ r.sent[i].iid = s.sent[i].iid
    <3>1. \/ r.sent[i] = s.sent[i]
          \/ r.sent[i] = [s.sent[i] EXCEPT !.deleted = TRUE]
      BY <1>1
    <3>. QED
      BY <1>2, <3>1, EntryKept
  <2>. QED
    BY <2>1
<1>4. r.sent \in [DOMAIN s.sent -> Elements(r.sent)]
  BY <1>1 DEF Elements
<1>5. IsStore(r, T, C) /\ Stores(r.sent) = Stores(s.sent)
  <2>1. {"sent", "deletes"} \subseteq DOMAIN r
    BY <1>1
  <2>. QED
    BY <2>1, <1>3, <1>4, StoreChanged
<1>. QED
  BY <1>5 DEF r

\* What the store keeps of a confirmed entry that was edited meanwhile.
KeepsConfirmed(s, r, iid, id) ==
    /\ {"sent", "deletes"} \subseteq DOMAIN r
    /\ r.sent \in [DOMAIN s.sent -> Elements(r.sent)]
    /\ \A i \in DOMAIN s.sent :
          \/ r.sent[i] = s.sent[i]
          \/ /\ s.sent[i].iid = iid
             /\ r.sent[i] = Known(s.sent[i], id) \/ r.sent[i] = Confirmed(s.sent[i], id)

LEMMA StoreConfirmed ==
    ASSUME NEW T, NEW C, NEW s, IsStore(s, T, C), NEW id \in Nat, id > 0,
           NEW iid, iid[1] \in C, NEW r, KeepsConfirmed(s, r, iid, id)
    PROVE  IsStore(r, T, C) /\ Stores(r.sent) = Stores(s.sent)
<1>1. \A i \in DOMAIN s.sent : IsEntry(s.sent[i], T, C)
  BY DEF IsStore, Elements
<1>2. ASSUME NEW i \in DOMAIN s.sent
      PROVE  IsEntry(r.sent[i], T, C) /\ r.sent[i].iid = s.sent[i].iid
  <2>1. CASE r.sent[i] = s.sent[i]
    BY <1>1, <2>1
  <2>2. CASE /\ s.sent[i].iid = iid
             /\ r.sent[i] = Known(s.sent[i], id) \/ r.sent[i] = Confirmed(s.sent[i], id)
    <3>1. IsEntry(s.sent[i], T, C) /\ s.sent[i].iid[1] \in C
      BY <1>1, <2>2
    <3>. QED
      BY <2>2, <3>1, EntryConfirmed
  <2>. QED
    BY <2>1, <2>2 DEF KeepsConfirmed
<1>3. /\ {"sent", "deletes"} \subseteq DOMAIN r
      /\ r.sent \in [DOMAIN s.sent -> Elements(r.sent)]
  BY DEF KeepsConfirmed
<1>. QED
  BY <1>2, <1>3, StoreChanged

LEMMA PlaceFound ==
    ASSUME NEW T, NEW C, NEW s, IsStore(s, T, C), NEW iid, Has(s, iid)
    PROVE  /\ Place(s, iid) \in 1..Len(s.sent)
           /\ Get(s, iid) = s.sent[Place(s, iid)] /\ Get(s, iid).iid = iid
           /\ IsEntry(Get(s, iid), T, C)
<1>1. DOMAIN s.sent = 1..Len(s.sent)
  BY StoreKeys
<1>2. Place(s, iid) \in DOMAIN s.sent /\ s.sent[Place(s, iid)].iid = iid
  BY DEF Has, Place
<1>. QED
  BY <1>1, <1>2, StoreKeys DEF Get, IsStore

\* One entry is taken out of the store.
LEMMA Discarded ==
    ASSUME NEW s, IsQueue(s.sent), {"sent", "deletes"} \subseteq DOMAIN s, NEW iid,
           Has(s, iid)
    PROVE  LET r == Discard(s, iid) IN
           /\ {"sent", "deletes"} \subseteq DOMAIN r /\ r.deletes = s.deletes
           /\ IsQueue(r.sent) /\ Elements(r.sent) \subseteq Elements(s.sent)
           /\ Len(r.sent) = Len(s.sent) - 1 /\ DOMAIN r.sent = 1..(Len(s.sent) - 1)
           /\ \A i \in 1..(Len(s.sent) - 1) :
                 r.sent[i] = s.sent[IF i < Place(s, iid) THEN i ELSE i + 1]
<1> DEFINE at == Place(s, iid)
           n == Len(s.sent)
           E == Elements(s.sent)
           q == SubSeq(s.sent, 1, at - 1)
           p == SubSeq(s.sent, at + 1, n)
           r == Discard(s, iid)
<1>1. n \in Nat /\ at \in 1..n /\ s.sent \in Seq(E)
  <2>1. n \in Nat /\ s.sent \in Seq(E) /\ DOMAIN s.sent = 1..n
    BY DEF IsQueue
  <2>2. at \in DOMAIN s.sent
    BY DEF Has, Place
  <2>. QED
    BY <2>1, <2>2
<1>2. {"sent", "deletes"} \subseteq DOMAIN r /\ r.sent = q \o p /\ r.deletes = s.deletes
  BY DEF Discard
<1> HIDE DEF E
<1>3. /\ q \in Seq(E) /\ Len(q) = at - 1
      /\ \A i \in 1..(at - 1) : q[i] = s.sent[i]
  BY <1>1
<1>4. /\ p \in Seq(E) /\ Len(p) = n - at
      /\ \A i \in 1..(n - at) : p[i] = s.sent[at + i]
  BY <1>1
<1> HIDE DEF q, p, r, at, n
<1>5. /\ r.sent \in Seq(E) /\ Len(r.sent) = n - 1
      /\ DOMAIN r.sent = 1..(n - 1)
      /\ \A i \in 1..(n - 1) : r.sent[i] = IF i < at THEN q[i] ELSE p[i - (at - 1)]
  <2>1. (q \o p) \in Seq(E) /\ Len(q \o p) = n - 1
    BY <1>1, <1>3, <1>4
  <2>2. \A i \in 1..(n - 1) : (q \o p)[i] = IF i < at THEN q[i] ELSE p[i - (at - 1)]
    BY <1>1, <1>3, <1>4
  <2>. QED
    BY <1>1, <1>2, <2>1, <2>2
<1>6. \A i \in 1..(n - 1) : r.sent[i] = s.sent[IF i < at THEN i ELSE i + 1]
  <2>1. ASSUME NEW i \in 1..(n - 1), i < at PROVE r.sent[i] = s.sent[i]
    BY <1>1, <1>3, <1>5, <2>1
  <2>2. ASSUME NEW i \in 1..(n - 1), ~(i < at) PROVE r.sent[i] = s.sent[i + 1]
    <3>1. i - (at - 1) \in 1..(n - at) /\ at + (i - (at - 1)) = i + 1
      BY <1>1, <2>2
    <3>. QED
      BY <1>4, <1>5, <2>2, <3>1
  <2>. QED
    BY <2>1, <2>2
<1>7. IsQueue(r.sent) /\ Elements(r.sent) \subseteq E
  <2>1. \A i \in 1..(n - 1) : r.sent[i] \in E /\ r.sent[i] \in Elements(r.sent)
    BY <1>5 DEF Elements
  <2>2. r.sent \in Seq(Elements(r.sent))
    BY <1>5, <2>1
  <2>. QED
    BY <1>5, <2>1, <2>2 DEF IsQueue, Elements
<1>. QED
  BY <1>2, <1>5, <1>6, <1>7 DEF r, n, at, E

LEMMA StoreDiscarded ==
    ASSUME NEW T, NEW C, NEW s, IsStore(s, T, C), NEW iid, Has(s, iid)
    PROVE  /\ IsStore(Discard(s, iid), T, C)
           /\ Trimmed(Stores(s.sent), Stores(Discard(s, iid).sent), iid)
<1> DEFINE at == Place(s, iid)
           n == Len(s.sent)
           r == Discard(s, iid)
<1>1. n \in Nat /\ at \in 1..n /\ s.sent \in Seq(EntryRecord) /\ s.sent[at].iid = iid
  <2>1. n \in Nat /\ s.sent \in Seq(EntryRecord)
    BY StoreKeys DEF IsStore
  <2>2. at \in 1..n /\ s.sent[at].iid = iid
    BY PlaceFound
  <2>. QED
    BY <2>1, <2>2
<1>5. /\ {"sent", "deletes"} \subseteq DOMAIN r /\ IsQueue(r.sent)
      /\ Len(r.sent) = n - 1 /\ DOMAIN r.sent = 1..(n - 1)
      /\ Elements(r.sent) \subseteq Elements(s.sent)
      /\ \A i \in 1..(n - 1) : r.sent[i] = s.sent[IF i < at THEN i ELSE i + 1]
  <2>1. IsQueue(s.sent) /\ {"sent", "deletes"} \subseteq DOMAIN s
    BY StoreKeys DEF IsStore
  <2>. QED
    BY <2>1, Discarded
<1> HIDE DEF r, at, n
<1>7. \A i \in 1..(n - 1) : (IF i < at THEN i ELSE i + 1) \in 1..n
  BY <1>1
<1>8. \A i \in 1..n : s.sent[i] \in Elements(s.sent) /\ Stores(s.sent)[i] = s.sent[i].iid
  BY StoreKeys DEF n
<1>9. IsStore(r, T, C)
  <2>1. Elements(s.sent) \subseteq EntryRecord
    BY <1>1 DEF Elements
  <2>2. r.sent \in Seq(EntryRecord)
    <3>1. r.sent \in Seq(Elements(r.sent)) /\ Elements(r.sent) \subseteq EntryRecord
      BY <1>5, <2>1 DEF IsQueue
    <3>2. \A X, Y : \A q \in Seq(X) : X \subseteq Y => q \in Seq(Y)
      OBVIOUS
    <3>. QED
      BY <3>1, <3>2
  <2>. QED
    BY <1>5, <2>2 DEF IsStore
<1>10. \A i \in 1..(n - 1) :
          Stores(r.sent)[i] = Stores(s.sent)[IF i < at THEN i ELSE i + 1]
  BY <1>5, <1>7, <1>8 DEF Stores
<1>11. /\ Stores(r.sent) \in Seq(Keys) /\ Len(Stores(r.sent)) = n - 1
       /\ Len(Stores(s.sent)) = n /\ at \in DOMAIN Stores(s.sent)
       /\ Stores(s.sent)[at] = iid
  <2>1. Stores(r.sent) \in Seq(Keys) /\ Len(Stores(r.sent)) = n - 1
    BY <1>5, <1>9, StoreKeys
  <2>2. Len(Stores(s.sent)) = n /\ DOMAIN Stores(s.sent) = 1..n
    BY StoreKeys DEF n
  <2>. QED
    BY <1>1, <1>8, <2>1, <2>2
<1>12. Trimmed(Stores(s.sent), Stores(r.sent), iid)
  BY <1>10, <1>11 DEF Trimmed
<1>. QED
  BY <1>9, <1>12 DEF r

\* insert_message of an entry that is new.
LEMMA StoreInserted ==
    ASSUME NEW T, NEW C, NEW s, IsStore(s, T, C), NEW e, IsEntry(e, T, C),
           ~In(Stores(s.sent), e.iid)
    PROVE  /\ IsStore(InsertMessage(s, e), T, C)
           /\ Stores(InsertMessage(s, e).sent) = Append(Stores(s.sent), e.iid)
<1> DEFINE r == InsertMessage(s, e)
           n == Len(s.sent)
<1>1. /\ DOMAIN s.sent = 1..n /\ DOMAIN Stores(s.sent) = 1..n /\ n \in Nat
      /\ \A i \in 1..n : Stores(s.sent)[i] = s.sent[i].iid
      /\ IsQueue(s.sent) /\ s.sent \in Seq(EntryRecord)
      /\ Stores(s.sent) \in Seq(Keys) /\ Len(Stores(s.sent)) = n
  <2>1. s.sent \in Seq(EntryRecord)
    BY DEF IsStore
  <2>. QED
    BY <2>1, StoreKeys
<1>2. ~Has(s, e.iid)
  BY <1>1 DEF Has, In
<1>3. {"sent", "deletes"} \subseteq DOMAIN r /\ r.sent = Append(s.sent, e)
  BY <1>2 DEF InsertMessage, IsStore
<1> HIDE DEF r, n
<1>4. e \in EntryRecord /\ e.iid \in Keys
  BY BoundsAssumption DEF IsEntry, EntryRecord, Keys, Messages
<1>5. /\ r.sent \in Seq(EntryRecord) /\ DOMAIN r.sent = 1..(n + 1)
      /\ r.sent[n + 1] = e /\ \A i \in 1..n : r.sent[i] = s.sent[i]
  BY <1>1, <1>3, <1>4
<1>6. Elements(r.sent) = Elements(s.sent) \cup {e}
  BY <1>1, <1>3, QueueAppend
<1>7. IsStore(r, T, C)
  BY <1>3, <1>5, <1>6 DEF IsStore
<1>8. Stores(r.sent) = Append(Stores(s.sent), e.iid)
  <2> DEFINE a == Append(Stores(s.sent), e.iid)
  <2>1. /\ a \in Seq(Keys) /\ DOMAIN a = 1..(n + 1) /\ a[n + 1] = e.iid
        /\ \A i \in 1..n : a[i] = Stores(s.sent)[i]
    BY <1>1, <1>4, KeyAppend
  <2>2. Stores(r.sent) \in Seq(Keys) /\ DOMAIN Stores(r.sent) = 1..(n + 1)
    BY <1>5, <1>7, StoreKeys DEF Stores
  <2> HIDE DEF a
  <2>3. \A i \in 1..(n + 1) : Stores(r.sent)[i] = a[i]
    BY <1>1, <1>5, <2>1 DEF Stores
  <2>4. Len(Stores(r.sent)) = n + 1 /\ Len(a) = n + 1
    BY <1>1, <2>1, <2>2
  <2>5. Stores(r.sent) = a
    <3> DEFINE b == Stores(r.sent)
    <3>1. b \in Seq(Keys) /\ a \in Seq(Keys) /\ Len(b) = n + 1 /\ Len(a) = n + 1
      BY <2>1, <2>2, <2>4
    <3>2. \A i \in 1..(n + 1) : b[i] = a[i]
      BY <2>3
    <3> HIDE DEF b
    <3>3. b = a
      BY <1>1, <3>1, <3>2
    <3>. QED
      BY <3>3 DEF b
  <2>. QED
    BY <2>5 DEF a
<1>. QED
  BY <1>7, <1>8 DEF r

\* remove: with _remove_if_modified for what the server refused, without for
\* what it confirmed.
LEMMA StoreRemoved ==
    ASSUME NEW T, NEW C, NEW s, IsStore(s, T, C), NEW force \in BOOLEAN, NEW iid,
           NEW id \in Nat, ~force => id > 0 /\ iid[1] \in C
    PROVE  /\ IsStore(Remove(s, force, iid, id), T, C)
           /\ Trimmed(Stores(s.sent), Stores(Remove(s, force, iid, id).sent), iid)
<1> DEFINE r == Remove(s, force, iid, id)
           marked == InsertDeletedMessage(s, id, iid)
           kept == Update(s, LAMBDA o : o.iid = iid,
                          LAMBDA o : [o EXCEPT !.msgid = id, !.modified = FALSE,
                                               !.fresh = TRUE])
<1>1. CASE ~Has(s, iid)
  BY <1>1 DEF Remove, Trimmed
<1>2. CASE Has(s, iid)
  <2>1. \/ r = Discard(marked, iid)
        \/ ~force /\ r = kept
        \/ r = Discard(s, iid)
    BY <1>2 DEF Remove
  <2>2. CASE r = Discard(marked, iid)
    <3>1. IsStore(marked, T, C) /\ Stores(marked.sent) = Stores(s.sent)
      BY StoreMarked
    <3> HIDE DEF marked
    <3>2. Has(marked, iid)
      <4>1. PICK i \in 1..Len(s.sent) : s.sent[i].iid = iid
        BY <1>2, StoreKeys DEF Has
      <4>2. /\ DOMAIN marked.sent = 1..Len(marked.sent)
            /\ Len(marked.sent) = Len(s.sent)
            /\ marked.sent[i].iid = s.sent[i].iid
        BY <3>1, <4>1, StoreKeys
      <4>. QED
        BY <4>1, <4>2 DEF Has
    <3>. QED
      BY <2>2, <3>1, <3>2, StoreDiscarded
  <2>3. CASE ~force /\ r = kept
    <3>1. KeepsConfirmed(s, kept, iid, id)
      <4>1. /\ {"sent", "deletes"} \subseteq DOMAIN kept
            /\ kept.sent = [i \in DOMAIN s.sent |->
                              IF s.sent[i].iid = iid
                              THEN [s.sent[i] EXCEPT !.msgid = id, !.modified = FALSE,
                                                     !.fresh = TRUE]
                              ELSE s.sent[i]]
        BY DEF Update, IsStore
      <4> HIDE DEF kept
      <4>2. kept.sent \in [DOMAIN s.sent -> Elements(kept.sent)]
        BY <4>1 DEF Elements
      <4>. QED
        BY <4>1, <4>2 DEF KeepsConfirmed, Confirmed
    <3>2. IsStore(kept, T, C) /\ Stores(kept.sent) = Stores(s.sent)
      BY <2>3, <3>1, StoreConfirmed
    <3>. QED
      BY <2>3, <3>2 DEF Trimmed
  <2>4. CASE r = Discard(s, iid)
    BY <1>2, <2>4, StoreDiscarded
  <2>. QED
    BY <2>1, <2>2, <2>3, <2>4
<1>. QED
  BY <1>1, <1>2

LEMMA SameKeysHas ==
    ASSUME NEW T, NEW C, NEW s, NEW r, IsStore(s, T, C), IsStore(r, T, C),
           Stores(r.sent) = Stores(s.sent), NEW iid, Has(s, iid)
    PROVE  Has(r, iid)
<1>1. PICK i \in 1..Len(s.sent) : s.sent[i].iid = iid
  BY StoreKeys DEF Has
<1>2. DOMAIN r.sent = 1..Len(r.sent) /\ Len(r.sent) = Len(s.sent)
  BY StoreKeys
<1>3. r.sent[i].iid = s.sent[i].iid
  BY <1>1, <1>2, StoreKeys
<1>. QED
  BY <1>1, <1>2, <1>3 DEF Has

LEMMA StoreImstate ==
    ASSUME NEW T, NEW C, NEW s, IsStore(s, T, C), NEW iid, NEW id \in Nat, id > 0,
           iid[1] \in C
    PROVE  /\ IsStore(UpdateWithImstate(s, iid, id), T, C)
           /\ Trimmed(Stores(s.sent), Stores(UpdateWithImstate(s, iid, id).sent), iid)
<1> DEFINE r == UpdateWithImstate(s, iid, id)
           known == Update(s, LAMBDA o : o.iid = iid, LAMBDA o : [o EXCEPT !.msgid = id])
           marked == InsertDeletedMessage(known, id, iid)
<1>1. CASE ~Has(s, iid)
  BY <1>1 DEF UpdateWithImstate, Trimmed
<1>2. CASE Has(s, iid)
  <2>1. \/ r = Discard(marked, iid)
        \/ r = known
        \/ r = Discard(known, iid)
    BY <1>2 DEF UpdateWithImstate
  <2>2. IsStore(known, T, C) /\ Stores(known.sent) = Stores(s.sent)
    <3>1. /\ {"sent", "deletes"} \subseteq DOMAIN known
          /\ known.sent = [i \in DOMAIN s.sent |->
                              IF s.sent[i].iid = iid THEN [s.sent[i] EXCEPT !.msgid = id]
                              ELSE s.sent[i]]
      BY DEF Update, IsStore
    <3> HIDE DEF known
    <3>2. known.sent \in [DOMAIN s.sent -> Elements(known.sent)]
      BY <3>1 DEF Elements
    <3>3. KeepsConfirmed(s, known, iid, id)
      BY <3>1, <3>2 DEF KeepsConfirmed, Known
    <3>. QED
      BY <3>3, StoreConfirmed
  <2> HIDE DEF known
  <2>3. IsStore(marked, T, C) /\ Stores(marked.sent) = Stores(s.sent)
    BY <2>2, StoreMarked
  <2> HIDE DEF marked
  <2>4. Has(known, iid) /\ Has(marked, iid)
    BY <1>2, <2>2, <2>3, SameKeysHas
  <2> HIDE DEF r
  <2>5. IsStore(r, T, C) /\ Trimmed(Stores(s.sent), Stores(r.sent), iid)
    <3>1. CASE r = known
      BY <2>2, <3>1 DEF Trimmed
    <3>2. CASE r = Discard(known, iid)
      BY <2>2, <2>4, <3>2, StoreDiscarded
    <3>3. CASE r = Discard(marked, iid)
      BY <2>3, <2>4, <3>3, StoreDiscarded
    <3>. QED
      BY <2>1, <3>1, <3>2, <3>3
  <2>. QED
    BY <2>5 DEF r
<1>. QED
  BY <1>1, <1>2

\* The loop's reference keeps its internal id.
LEMMA FollowFacts ==
    ASSUME NEW X, NEW T, NEW C, Follow(X), IsHeld(held, T, C), IsStore(store', T, C)
    PROVE  /\ IsHeld(held', T, C)
           /\ held' = None <=> held = None
           /\ held # None => held'.entry.iid = held.entry.iid
                             /\ held'.entry.msg = held.entry.msg
<1>1. DOMAIN None = {"nothing"}
  BY DEF None
<1>2. CASE held = None
  BY <1>2 DEF Follow, IsHeld
<1>3. CASE held # None
  <2>1. /\ {"entry", "shared"} \subseteq DOMAIN held /\ "nothing" \notin DOMAIN held
        /\ IsEntry(held.entry, T, C)
    BY <1>3 DEF IsHeld
  <2>2. DOMAIN held' = DOMAIN held
    BY <1>3 DEF Follow
  <2>3. held' # None
    BY <1>1, <2>1, <2>2
  <2>4. IsEntry(held'.entry, T, C) /\ held'.entry.iid = held.entry.iid
    <3>1. CASE held.shared /\ Has(store', held.entry.iid) /\ held.entry.iid \notin X
      <4>1. held'.entry = Get(store', held.entry.iid)
        BY <1>3, <2>1, <3>1 DEF Follow
      <4>. QED
        BY <3>1, <4>1, PlaceFound
    <3>2. CASE ~(held.shared /\ Has(store', held.entry.iid) /\ held.entry.iid \notin X)
      <4>1. held'.entry = held.entry
        BY <1>3, <2>1, <3>2 DEF Follow
      <4>. QED
        BY <2>1, <4>1
    <3>. QED
      BY <3>1, <3>2
  <2>5. held'.entry.msg = held.entry.msg
    BY <2>1, <2>4 DEF IsEntry
  <2>. QED
    BY <1>3, <2>1, <2>2, <2>3, <2>4, <2>5 DEF IsHeld
<1>. QED
  BY <1>2, <1>3

-----------------------------------------------------------------------------
(* Lemmas about the queues of commands, jobs and results.                  *)

LEMMA JobKeys ==
    ASSUME NEW T, NEW C, NEW R, NEW js, JobsOK(js, T, C, R)
    PROVE  Inserts(js) \in Seq(Keys) /\ Len(Inserts(js)) = Len(js)
           /\ Len(js) \in Nat /\ DOMAIN js = 1..Len(js)
           /\ \A j \in Elements(js) : KeyOfJob(j) \in Keys
<1>1. Len(js) \in Nat /\ DOMAIN js = 1..Len(js)
  BY DEF JobsOK, IsQueue
<1>2. \A j \in Elements(js) : KeyOfJob(j) \in Keys
  BY BoundsAssumption
     DEF JobsOK, IsJob, KeyOfJob, IsEntry, EntryRecord, Nothing, Keys, Messages
<1>3. Inserts(js) \in [1..Len(js) -> Keys]
  BY <1>1, <1>2 DEF Inserts, Elements
<1>4. Inserts(js) \in Seq(Keys)
  BY <1>1, <1>3
<1>. QED
  BY <1>1, <1>2, <1>3, <1>4

LEMMA CommandKeys ==
    ASSUME NEW T \in [Messages -> Nat], NEW C, NEW cs, CommandsOK(cs, T, C)
    PROVE  Typing(cs) \in Seq(Keys) /\ Len(Typing(cs)) = Len(cs)
           /\ Len(cs) \in Nat /\ DOMAIN cs = 1..Len(cs)
           /\ \A c \in Elements(cs) : KeyOfCommand(c) \in Keys
<1>1. Len(cs) \in Nat /\ DOMAIN cs = 1..Len(cs)
  BY DEF CommandsOK, IsQueue
<1>2. \A c \in Elements(cs) : KeyOfCommand(c) \in Keys
  BY BoundsAssumption DEF CommandsOK, IsCommand, KeyOfCommand, Nothing, Keys, Messages
<1>3. Typing(cs) \in [1..Len(cs) -> Keys]
  BY <1>1, <1>2 DEF Typing, Elements
<1>4. Typing(cs) \in Seq(Keys)
  BY <1>1, <1>3
<1>. QED
  BY <1>1, <1>2, <1>3, <1>4

\* Two sequences of keys with the same elements.
LEMMA SameKeys ==
    ASSUME NEW a \in Seq(Keys), NEW b \in Seq(Keys), Len(a) = Len(b),
           \A i \in 1..Len(a) : a[i] = b[i]
    PROVE  a = b
  OBVIOUS

LEMMA JobAdded ==
    ASSUME NEW T, NEW C, NEW R, NEW js, JobsOK(js, T, C, R), NEW j, IsJob(j, T, C, R)
    PROVE  /\ JobsOK(Append(js, j), T, C, R)
           /\ Elements(Append(js, j)) = Elements(js) \cup {j}
           /\ Inserts(Append(js, j)) = Append(Inserts(js), KeyOfJob(j))
           /\ RemovedBeforeNext(js) /\ (Drops(j) => \A c \in Elements(js) : c.op # "first")
              => RemovedBeforeNext(Append(js, j))
<1> DEFINE r == Append(js, j)
           n == Len(js)
<1>1. /\ IsQueue(r) /\ Elements(r) = Elements(js) \cup {j} /\ n \in Nat /\ Len(r) = n + 1
      /\ DOMAIN js = 1..n /\ DOMAIN r = 1..(n + 1) /\ r[n + 1] = j
      /\ \A i \in 1..n : r[i] = js[i]
  BY QueueAppend DEF JobsOK
<1> HIDE DEF r, n
<1>2. JobsOK(r, T, C, R)
  BY <1>1 DEF JobsOK
<1>3. Inserts(r) = Append(Inserts(js), KeyOfJob(j))
  <2> DEFINE a == Inserts(r)
             b == Append(Inserts(js), KeyOfJob(j))
  <2>1. /\ a \in Seq(Keys) /\ Len(a) = n + 1
        /\ Inserts(js) \in Seq(Keys) /\ Len(Inserts(js)) = n
        /\ KeyOfJob(j) \in Keys
    BY <1>1, <1>2, JobKeys DEF n
  <2>2. b \in Seq(Keys) /\ Len(b) = n + 1
    BY <2>1
  <2>3. ASSUME NEW i \in 1..(n + 1) PROVE a[i] = b[i]
    <3>1. a[i] = KeyOfJob(r[i])
      BY <1>1 DEF Inserts
    <3>2. i \in 1..n => Inserts(js)[i] = KeyOfJob(js[i])
      BY <1>1 DEF Inserts
    <3>3. b[i] = IF i \in 1..n THEN Inserts(js)[i] ELSE KeyOfJob(j)
      BY <1>1, <2>1, KeyAppend
    <3>. QED
      BY <1>1, <3>1, <3>2, <3>3
  <2> HIDE DEF a, b
  <2>4. a = b
    BY <2>1, <2>2, <2>3, SameKeys
  <2>. QED
    BY <2>4 DEF a, b
<1>4. ASSUME RemovedBeforeNext(js), Drops(j) => \A c \in Elements(js) : c.op # "first"
      PROVE  RemovedBeforeNext(r)
  <2>1. ASSUME NEW i \in DOMAIN r, NEW k \in DOMAIN r,
               r[i].op = "remove", r[i].force, k < i
        PROVE  r[k].op # "first"
    <3>1. k \in 1..n /\ r[k] = js[k] /\ js[k] \in Elements(js)
      BY <1>1, <2>1 DEF Elements
    <3>2. CASE i \in 1..n
      BY <1>1, <1>4, <2>1, <3>1, <3>2 DEF RemovedBeforeNext
    <3>3. CASE i = n + 1
      BY <1>1, <1>4, <2>1, <3>1, <3>3 DEF Drops
    <3>. QED
      BY <1>1, <3>2, <3>3
  <2>. QED
    BY <2>1 DEF RemovedBeforeNext
<1>. QED
  BY <1>1, <1>2, <1>3, <1>4 DEF r

LEMMA JobTaken ==
    ASSUME NEW T, NEW C, NEW R, NEW js, JobsOK(js, T, C, R), js # <<>>
    PROVE  /\ JobsOK(Tail(js), T, C, R) /\ IsJob(Head(js), T, C, R)
           /\ Elements(js) = Elements(Tail(js)) \cup {Head(js)}
<1>1. IsQueue(Tail(js)) /\ Elements(js) = Elements(Tail(js)) \cup {Head(js)}
  BY QueueTail DEF JobsOK
<1>. QED
  BY <1>1 DEF JobsOK

LEMMA JobLeft ==
    ASSUME NEW js, IsQueue(js), js # <<>>, RemovedBeforeNext(js)
    PROVE  /\ RemovedBeforeNext(Tail(js))
           /\ Head(js).op = "first" => \A c \in Elements(Tail(js)) : ~Drops(c)
<1> DEFINE r == Tail(js)
           n == Len(js)
<1>1. /\ n \in Nat \ {0} /\ DOMAIN js = 1..n /\ DOMAIN r = 1..(n - 1)
      /\ Head(js) = js[1] /\ \A i \in 1..(n - 1) : r[i] = js[i + 1]
  BY QueueTail
<1> HIDE DEF r, n
<1>2. RemovedBeforeNext(r)
  <2>1. ASSUME NEW i \in DOMAIN r, NEW k \in DOMAIN r,
               r[i].op = "remove", r[i].force, k < i
        PROVE  r[k].op # "first"
    <3>1. /\ i + 1 \in DOMAIN js /\ k + 1 \in DOMAIN js /\ k + 1 < i + 1
          /\ r[i] = js[i + 1] /\ r[k] = js[k + 1]
      BY <1>1, <2>1
    <3>. QED
      BY <2>1, <3>1 DEF RemovedBeforeNext
  <2>. QED
    BY <2>1 DEF RemovedBeforeNext
<1>3. ASSUME Head(js).op = "first", NEW c \in Elements(r)
      PROVE  ~Drops(c)
  <2>1. PICK i \in 1..(n - 1) : c = r[i]
    BY <1>1 DEF Elements
  <2>2. i + 1 \in DOMAIN js /\ 1 \in DOMAIN js /\ 1 < i + 1 /\ c = js[i + 1]
    BY <1>1, <2>1
  <2>. QED
    BY <1>1, <1>3, <2>2 DEF RemovedBeforeNext, Drops
<1>. QED
  BY <1>2, <1>3 DEF r

LEMMA JobKeysTaken ==
    ASSUME NEW T, NEW C, NEW R, NEW js, JobsOK(js, T, C, R), js # <<>>
    PROVE  /\ Inserts(js) # <<>> /\ Head(Inserts(js)) = KeyOfJob(Head(js))
           /\ Inserts(Tail(js)) = Tail(Inserts(js))
<1> DEFINE r == Tail(js)
           n == Len(js)
<1>1. /\ IsQueue(r) /\ Elements(js) = Elements(r) \cup {Head(js)}
      /\ n \in Nat \ {0} /\ Len(r) = n - 1
      /\ DOMAIN js = 1..n /\ DOMAIN r = 1..(n - 1) /\ Head(js) = js[1]
      /\ \A i \in 1..(n - 1) : r[i] = js[i + 1]
  BY QueueTail DEF JobsOK
<1> HIDE DEF r, n
<1>2. JobsOK(r, T, C, R) /\ IsJob(Head(js), T, C, R)
  BY <1>1 DEF JobsOK
<1>3. /\ Inserts(js) \in Seq(Keys) /\ Len(Inserts(js)) = n
      /\ Inserts(r) \in Seq(Keys) /\ Len(Inserts(r)) = n - 1
  BY <1>1, <1>2, JobKeys DEF n
<1>4. Inserts(js) # <<>> /\ Inserts(js)[1] = KeyOfJob(js[1])
  BY <1>1, <1>3 DEF Inserts
<1>5. Head(Inserts(js)) = KeyOfJob(Head(js))
  BY <1>1, <1>3, <1>4, KeyTail
<1>6. Inserts(r) = Tail(Inserts(js))
  <2> DEFINE a == Inserts(r)
             b == Tail(Inserts(js))
  <2>1. b \in Seq(Keys) /\ Len(b) = n - 1 /\ a \in Seq(Keys) /\ Len(a) = n - 1
    BY <1>1, <1>3, <1>4
  <2>2. ASSUME NEW i \in 1..(n - 1) PROVE a[i] = b[i]
    <3>1. a[i] = KeyOfJob(r[i]) /\ Inserts(js)[i + 1] = KeyOfJob(js[i + 1])
      BY <1>1 DEF Inserts
    <3>2. b[i] = Inserts(js)[i + 1]
      BY <1>1, <1>3, <1>4, KeyTail
    <3>. QED
      BY <1>1, <3>1, <3>2
  <2> HIDE DEF a, b
  <2>3. a = b
    BY <2>1, <2>2, SameKeys
  <2>. QED
    BY <2>3 DEF a, b
<1>. QED
  BY <1>4, <1>5, <1>6 DEF r

LEMMA NoJobs ==
    /\ \A T, C, R : JobsOK(<<>>, T, C, R)
    /\ \A C : ResultsOK(<<>>, C)
    /\ \A T, C : CommandsOK(<<>>, T, C)
    /\ Inserts(<<>>) = <<>> /\ Typing(<<>>) = <<>>
    /\ RemovedBeforeNext(<<>>)
<1>1. /\ \A T, C, R : JobsOK(<<>>, T, C, R)
      /\ \A C : ResultsOK(<<>>, C)
      /\ \A T, C : CommandsOK(<<>>, T, C)
  BY QueueEmpty DEF JobsOK, ResultsOK, CommandsOK
<1>2. Inserts(<<>>) = <<>> /\ Typing(<<>>) = <<>>
  BY DEF Inserts, Typing
<1>3. RemovedBeforeNext(<<>>)
  BY DEF RemovedBeforeNext
<1>. QED
  BY <1>1, <1>2, <1>3

LEMMA CommandAdded ==
    ASSUME NEW T \in [Messages -> Nat], NEW C, NEW cs, CommandsOK(cs, T, C),
           NEW c, IsCommand(c, T, C)
    PROVE  /\ CommandsOK(Append(cs, c), T, C)
           /\ Typing(Append(cs, c)) = Append(Typing(cs), KeyOfCommand(c))
           /\ KeyOfCommand(c) \in Keys
<1> DEFINE r == Append(cs, c)
           n == Len(cs)
<1>1. /\ IsQueue(r) /\ Elements(r) = Elements(cs) \cup {c} /\ n \in Nat /\ Len(r) = n + 1
      /\ DOMAIN cs = 1..n /\ DOMAIN r = 1..(n + 1) /\ r[n + 1] = c
      /\ \A i \in 1..n : r[i] = cs[i]
  BY QueueAppend DEF CommandsOK
<1> HIDE DEF r, n
<1>2. CommandsOK(r, T, C)
  BY <1>1 DEF CommandsOK
<1> DEFINE a == Typing(r)
           b == Append(Typing(cs), KeyOfCommand(c))
<1>3. /\ a \in Seq(Keys) /\ Len(a) = n + 1
      /\ Typing(cs) \in Seq(Keys) /\ Len(Typing(cs)) = n
      /\ KeyOfCommand(c) \in Keys
  BY <1>1, <1>2, CommandKeys DEF n
<1>4. b \in Seq(Keys) /\ Len(b) = n + 1
  BY <1>3
<1>5. ASSUME NEW i \in 1..(n + 1) PROVE a[i] = b[i]
  <2>1. a[i] = KeyOfCommand(r[i])
    BY <1>1 DEF Typing
  <2>2. i \in 1..n => Typing(cs)[i] = KeyOfCommand(cs[i])
    BY <1>1 DEF Typing
  <2>3. b[i] = IF i \in 1..n THEN Typing(cs)[i] ELSE KeyOfCommand(c)
    BY <1>1, <1>3, KeyAppend
  <2>. QED
    BY <1>1, <2>1, <2>2, <2>3
<1> HIDE DEF a, b
<1>6. a = b
  BY <1>3, <1>4, <1>5, SameKeys
<1>. QED
  BY <1>2, <1>3, <1>6 DEF r, a, b

LEMMA CommandTaken ==
    ASSUME NEW T \in [Messages -> Nat], NEW C, NEW cs, CommandsOK(cs, T, C), cs # <<>>
    PROVE  /\ CommandsOK(Tail(cs), T, C) /\ IsCommand(Head(cs), T, C)
           /\ Typing(cs) # <<>> /\ Head(Typing(cs)) = KeyOfCommand(Head(cs))
           /\ Typing(Tail(cs)) = Tail(Typing(cs))
<1> DEFINE r == Tail(cs)
           n == Len(cs)
<1>1. /\ IsQueue(r) /\ Elements(cs) = Elements(r) \cup {Head(cs)}
      /\ n \in Nat \ {0} /\ Len(r) = n - 1
      /\ DOMAIN cs = 1..n /\ DOMAIN r = 1..(n - 1) /\ Head(cs) = cs[1]
      /\ \A i \in 1..(n - 1) : r[i] = cs[i + 1]
  BY QueueTail DEF CommandsOK
<1> HIDE DEF r, n
<1>2. CommandsOK(r, T, C) /\ IsCommand(Head(cs), T, C)
  BY <1>1 DEF CommandsOK
<1>3. /\ Typing(cs) \in Seq(Keys) /\ Len(Typing(cs)) = n
      /\ Typing(r) \in Seq(Keys) /\ Len(Typing(r)) = n - 1
  BY <1>1, <1>2, CommandKeys DEF n
<1>4. Typing(cs) # <<>> /\ Typing(cs)[1] = KeyOfCommand(cs[1])
  BY <1>1, <1>3 DEF Typing
<1>5. Head(Typing(cs)) = KeyOfCommand(Head(cs))
  BY <1>1, <1>3, <1>4, KeyTail
<1> DEFINE a == Typing(r)
           b == Tail(Typing(cs))
<1>6. b \in Seq(Keys) /\ Len(b) = n - 1 /\ a \in Seq(Keys) /\ Len(a) = n - 1
  BY <1>1, <1>3, <1>4
<1>7. ASSUME NEW i \in 1..(n - 1) PROVE a[i] = b[i]
  <2>1. a[i] = KeyOfCommand(r[i]) /\ Typing(cs)[i + 1] = KeyOfCommand(cs[i + 1])
    BY <1>1 DEF Typing
  <2>2. b[i] = Typing(cs)[i + 1]
    BY <1>1, <1>3, <1>4, KeyTail
  <2>. QED
    BY <1>1, <2>1, <2>2
<1> HIDE DEF a, b
<1>8. a = b
  BY <1>6, <1>7, SameKeys
<1>. QED
  BY <1>2, <1>4, <1>5, <1>8 DEF r, a, b

LEMMA ResultAdded ==
    ASSUME NEW C, NEW rs, ResultsOK(rs, C), NEW r, IsResult(r, C)
    PROVE  ResultsOK(Append(rs, r), C) /\ Elements(Append(rs, r)) = Elements(rs) \cup {r}
  BY QueueAppend DEF ResultsOK

LEMMA ResultTaken ==
    ASSUME NEW C, NEW rs, ResultsOK(rs, C), rs # <<>>
    PROVE  /\ ResultsOK(Tail(rs), C) /\ IsResult(Head(rs), C)
           /\ Elements(rs) = Elements(Tail(rs)) \cup {Head(rs)}
<1>1. IsQueue(Tail(rs)) /\ Elements(rs) = Elements(Tail(rs)) \cup {Head(rs)}
  BY QueueTail DEF ResultsOK
<1>. QED
  BY <1>1 DEF ResultsOK

-----------------------------------------------------------------------------
(* Consequences of the invariant.                                          *)

Kinds == {"send", "confirm", "delete", "timer"}

LEMMA CountsAreNat ==
    ASSUME TypesOK
    PROVE  \A k \in Kinds : Steps(jobs, k) \in Nat /\ Steps(results, k) \in Nat
  BY OfFinite DEF TypesOK, JobsOK, ResultsOK

\* While the send loop is at one place it is at no other.
LEMMA OneStep ==
    ASSUME TypesOK, LoopsOK
    PROVE  /\ packet # None \/ timer \/ ~sending =>
              /\ \A c \in Elements(jobs) \cup Elements(results) :
                    Class(c) \notin {"send", "confirm"}
              /\ ~(packet # None /\ timer)
              /\ ~(packet # None /\ ~sending)
              /\ ~(timer /\ ~sending)
           /\ \A c \in Elements(jobs) : Class(c) \in {"send", "confirm"} =>
                 /\ \A r \in Elements(results) : Class(r) # "send"
                 /\ Steps(jobs, "send") + Steps(jobs, "confirm") = 1
                 /\ Steps(results, "send") = 0
           /\ \A r \in Elements(results) : Class(r) = "send" =>
                 /\ \A c \in Elements(jobs) : Class(c) \notin {"send", "confirm"}
                 /\ Steps(results, "send") = 1
                 /\ Steps(jobs, "send") = 0 /\ Steps(jobs, "confirm") = 0
<1>1. /\ Steps(jobs, "send") \in Nat /\ Steps(jobs, "confirm") \in Nat
      /\ Steps(results, "send") \in Nat
  BY CountsAreNat DEF Kinds
<1>2. IsQueue(jobs) /\ IsQueue(results)
  BY DEF TypesOK, JobsOK, ResultsOK
<1>3. /\ \A c \in Elements(jobs) : Class(c) = "send" => Steps(jobs, "send") >= 1
      /\ \A c \in Elements(jobs) : Class(c) = "confirm" => Steps(jobs, "confirm") >= 1
      /\ \A c \in Elements(results) : Class(c) = "send" => Steps(results, "send") >= 1
  BY <1>2, StepsFound
<1>4. \A c \in Elements(results) : Class(c) # "confirm"
  BY DEF TypesOK, ResultsOK, IsResult, ResultOps, Class
<1>5. sending \in BOOLEAN /\ timer \in BOOLEAN
  BY DEF TypesOK
<1>6. One(sending) = One(timer) + One(packet # None) + Steps(jobs, "send")
                     + Steps(jobs, "confirm") + Steps(results, "send")
  BY DEF LoopsOK, LoopCounts
<1>. QED
  BY <1>1, <1>3, <1>4, <1>5, <1>6 DEF One

-----------------------------------------------------------------------------
(* What a step of the archive's thread and a step of the core thread must  *)
(* keep.                                                                   *)

LEMMA QuietAdded ==
    ASSUME NEW T, NEW C, NEW R, NEW js, JobsOK(js, T, C, R), NEW j, IsJob(j, T, C, R),
           j.op # "insert", NEW S, NEW K, LineOK(S, Inserts(js), K)
    PROVE  /\ LineOK(S, Inserts(Append(js, j)), K)
           /\ Originals(S, Inserts(Append(js, j)), K) = Originals(S, Inserts(js), K)
<1>1. Inserts(Append(js, j)) = Append(Inserts(js), Nothing)
  BY JobAdded DEF KeyOfJob
<1>. QED
  BY <1>1, LineAppendNothing

LEMMA QuietTaken ==
    ASSUME NEW T, NEW C, NEW R, NEW js, JobsOK(js, T, C, R), js # <<>>,
           Head(js).op # "insert", NEW S, NEW K, LineOK(S, Inserts(js), K)
    PROVE  /\ LineOK(S, Inserts(Tail(js)), K)
           /\ Originals(S, Inserts(Tail(js)), K) = Originals(S, Inserts(js), K)
<1>1. /\ Inserts(js) # <<>> /\ Head(Inserts(js)) = KeyOfJob(Head(js))
      /\ Inserts(Tail(js)) = Tail(Inserts(js))
  BY JobKeysTaken
<1>2. KeyOfJob(Head(js)) = Nothing
  BY DEF KeyOfJob
<1>. QED
  BY <1>1, <1>2, LineTailNothing

LEMMA HeldKept ==
    ASSUME NEW h, NEW p, NEW js, NEW rs, NEW O, NEW C, HeldOK(h, p, js, rs, O, C),
           NEW h2, NEW js2, NEW rs2, NEW O2,
           h2 = None <=> h = None,
           h # None => h2.entry.iid = h.entry.iid /\ h2.entry.msg = h.entry.msg,
           Elements(js2) \subseteq Elements(js), RemovedBeforeNext(js2),
           \A c \in Elements(rs2) : \/ c \in Elements(rs)
                                    \/ /\ OnHeld(c) => h # None
                                       /\ Confirms(c) => h # None /\ h.entry.msg \in C,
           O2 \subseteq O, h # None => \A m \in O : m \in O2 \/ m \in C
    PROVE  HeldOK(h2, p, js2, rs2, O2, C)
<1>1. p # None => h2 # None /\ p.entry.iid = h2.entry.iid
  BY DEF HeldOK
<1>2. ASSUME NEW c \in Elements(js2) \cup Elements(rs2)
      PROVE  /\ OnHeld(c) => h2 # None
             /\ Confirms(c) => h2 # None /\ h2.entry.msg \in C
  BY <1>2 DEF HeldOK
<1>3. \A j \in Elements(js2) : Drops(j) => h2 = None
  BY DEF HeldOK
<1>4. h2 # None => h2.entry.msg \in O2 \cup C
  BY DEF HeldOK
<1>5. h2 # None /\ h2.entry.iid[2] = 1 => \A m \in O2 : h2.entry.msg <= m
  BY DEF HeldOK
<1>. QED
  BY <1>1, <1>2, <1>3, <1>4, <1>5 DEF HeldOK

LEMMA OrderKept ==
    ASSUME NEW order, NEW O, NEW C, NEW T, NEW G, OrderOK(order, O, C, T, G),
           NEW O2, NEW G2, O2 \subseteq O, G \subseteq G2,
           \A m \in O : m \in O2 \cup C \cup G2
    PROVE  OrderOK(order, O2, C, T, G2)
<1>1. \A m \in Messages : T[m] > 0 => m \in C \cup G2 \cup O2
  BY DEF OrderOK
<1>2. \A c \in C : \A m \in O2 \ C : c < m
  BY DEF OrderOK
<1>. QED
  BY <1>1, <1>2 DEF OrderOK

\* A step of a loop goes from the jobs to the results.
LEMMA LoopsMoved ==
    ASSUME NEW s, NEW t, NEW d, NEW p, NEW x, NEW js, IsQueue(js), js # <<>>,
           NEW rs, IsQueue(rs), LoopCounts(s, t, d, p, x, js, rs), NEW r,
           \/ Class(Head(js)) = "other" /\ Class(r) = "other"
           \/ Class(Head(js)) \in {"send", "confirm"} /\ Class(r) = "send"
           \/ Class(Head(js)) = "delete" /\ Class(r) = "delete"
    PROVE  LoopCounts(s, t, d, p, x, Tail(js), Append(rs, r))
<1> DEFINE a1 == Steps(js, "send")
           a2 == Steps(js, "confirm")
           a3 == Steps(js, "delete")
           b1 == Steps(rs, "send")
           b2 == Steps(rs, "delete")
           b3 == Steps(rs, "timer")
<1>1. a1 \in Nat /\ a2 \in Nat /\ a3 \in Nat /\ b1 \in Nat /\ b2 \in Nat /\ b3 \in Nat
  BY OfFinite
<1>2. /\ Steps(Tail(js), "send") = a1 - (IF Class(Head(js)) = "send" THEN 1 ELSE 0)
      /\ Steps(Tail(js), "confirm") = a2 - (IF Class(Head(js)) = "confirm" THEN 1 ELSE 0)
      /\ Steps(Tail(js), "delete") = a3 - (IF Class(Head(js)) = "delete" THEN 1 ELSE 0)
  BY TailSteps
<1>3. /\ Steps(Append(rs, r), "send") = b1 + (IF Class(r) = "send" THEN 1 ELSE 0)
      /\ Steps(Append(rs, r), "delete") = b2 + (IF Class(r) = "delete" THEN 1 ELSE 0)
      /\ Steps(Append(rs, r), "timer") = b3 + (IF Class(r) = "timer" THEN 1 ELSE 0)
  BY AppendSteps
<1>4. /\ One(s) = One(t) + One(p # None) + a1 + a2 + b1
      /\ One(d) = One(x # None) + a3 + b2 /\ b3 <= One(t)
  BY DEF LoopCounts
<1>5. One(t) \in Nat /\ One(p # None) \in Nat /\ One(x # None) \in Nat
  BY DEF One
<1> HIDE DEF a1, a2, a3, b1, b2, b3
<1> DEFINE c1 == Steps(Tail(js), "send")
           c2 == Steps(Tail(js), "confirm")
           c3 == Steps(Tail(js), "delete")
           d1 == Steps(Append(rs, r), "send")
           d2 == Steps(Append(rs, r), "delete")
           d3 == Steps(Append(rs, r), "timer")
           k == Class(Head(js))
           l == Class(r)
           e == One(p # None)
           f == One(x # None)
<1>6. /\ One(s) = One(t) + e + a1 + a2 + b1 /\ One(d) = f + a3 + b2 /\ b3 <= One(t)
      /\ One(t) \in Nat /\ e \in Nat /\ f \in Nat
      /\ c1 = a1 - (IF k = "send" THEN 1 ELSE 0) /\ c2 = a2 - (IF k = "confirm" THEN 1 ELSE 0)
      /\ c3 = a3 - (IF k = "delete" THEN 1 ELSE 0) /\ d1 = b1 + (IF l = "send" THEN 1 ELSE 0)
      /\ d2 = b2 + (IF l = "delete" THEN 1 ELSE 0) /\ d3 = b3 + (IF l = "timer" THEN 1 ELSE 0)
      /\ \/ k = "other" /\ l = "other"
         \/ k \in {"send", "confirm"} /\ l = "send"
         \/ k = "delete" /\ l = "delete"
  BY <1>2, <1>3, <1>4, <1>5
<1> HIDE DEF c1, c2, c3, d1, d2, d3, k, l, e, f
<1>7. One(s) = One(t) + e + c1 + c2 + d1 /\ One(d) = f + c3 + d2 /\ d3 <= One(t)
  <2>1. CASE l = "other"
    BY <1>1, <1>6, <2>1
  <2>2. CASE k = "send" /\ l = "send"
    <3>1. c1 = a1 - 1 /\ c2 = a2 /\ c3 = a3 /\ d1 = b1 + 1 /\ d2 = b2 /\ d3 = b3
      BY <1>1, <1>6, <2>2
    <3>. QED
      BY <1>1, <1>6, <3>1, SMTT(30)
  <2>3. CASE k = "confirm" /\ l = "send"
    <3>1. c1 = a1 /\ c2 = a2 - 1 /\ c3 = a3 /\ d1 = b1 + 1 /\ d2 = b2 /\ d3 = b3
      BY <1>1, <1>6, <2>3
    <3>. QED
      BY <1>1, <1>6, <3>1, SMTT(30)
  <2>4. CASE l = "delete"
    BY <1>1, <1>6, <2>4
  <2>. QED
    BY <1>6, <2>1, <2>2, <2>3, <2>4
<1>. QED
  BY <1>7 DEF LoopCounts, c1, c2, c3, d1, d2, d3, e, f

\* A job of no loop is taken.
LEMMA LoopsQuiet ==
    ASSUME NEW s, NEW t, NEW d, NEW p, NEW x, NEW js, IsQueue(js), js # <<>>,
           NEW rs, LoopCounts(s, t, d, p, x, js, rs), Class(Head(js)) = "other"
    PROVE  LoopCounts(s, t, d, p, x, Tail(js), rs)
<1>1. /\ Steps(js, "send") \in Nat /\ Steps(js, "confirm") \in Nat
      /\ Steps(js, "delete") \in Nat
  BY OfFinite
<1>2. /\ Steps(Tail(js), "send") = Steps(js, "send") - 0
      /\ Steps(Tail(js), "confirm") = Steps(js, "confirm") - 0
      /\ Steps(Tail(js), "delete") = Steps(js, "delete") - 0
  BY TailSteps
<1>3. /\ Steps(Tail(js), "send") = Steps(js, "send")
      /\ Steps(Tail(js), "confirm") = Steps(js, "confirm")
      /\ Steps(Tail(js), "delete") = Steps(js, "delete")
  BY <1>1, <1>2
<1>. QED
  BY <1>3 DEF LoopCounts

\* A job is taken and answered with r, or with nothing.
LEMMA ArchiveKeeps ==
    ASSUME IInv, jobs # <<>>, jobs' = Tail(jobs),
           UNCHANGED <<core, network, typed, rejected, lost>>,
           NEW r,
           \/ results' = results /\ Class(Head(jobs)) = "other"
           \/ /\ results' = Append(results, r) /\ IsResult(r, Created)
              /\ \/ Class(Head(jobs)) = "other" /\ Class(r) = "other"
                 \/ Class(Head(jobs)) \in {"send", "confirm"} /\ Class(r) = "send"
                 \/ Class(Head(jobs)) = "delete" /\ Class(r) = "delete"
              /\ OnHeld(r) => held # None
              /\ Confirms(r) => held # None /\ held.entry.msg \in Created,
           IsStore(store', typed, Created),
           LineOK(Stores(store'.sent), Inserts(jobs'), Typing(commands)),
           Pending' \subseteq Pending,
           \A m \in Pending : m \in Pending' \/ m \in Created \/ (held = None /\ m \in rejected),
           IsHeld(held', typed, Created), held' = None <=> held = None,
           held # None => /\ held'.entry.iid = held.entry.iid
                          /\ held'.entry.msg = held.entry.msg
    PROVE  IInv'
<1>1. /\ TypesOK /\ LoopsOK /\ HeldOK(held, packet, jobs, results, Pending, Created)
      /\ OrderOK(server.order, Pending, Created, typed, GivenUp)
  BY DEF IInv
<1>2. /\ commands' = commands /\ sending' = sending /\ timer' = timer
      /\ deleting' = deleting /\ shown' = shown /\ packet' = packet
      /\ deletion' = deletion /\ server' = server /\ typed' = typed
      /\ rejected' = rejected /\ lost' = lost
  BY DEF core, network
<1>3. Created' = Created /\ GivenUp' = GivenUp
  BY <1>2 DEF Created, GivenUp
<1>4. JobsOK(jobs, typed, Created, rejected) /\ ResultsOK(results, Created)
  BY <1>1 DEF TypesOK
<1>5. /\ JobsOK(jobs', typed, Created, rejected)
      /\ Elements(jobs) = Elements(jobs') \cup {Head(jobs)}
      /\ RemovedBeforeNext(jobs) => RemovedBeforeNext(jobs')
  <2>1. IsQueue(jobs)
    BY <1>4 DEF JobsOK
  <2>. QED
    BY <1>4, <2>1, JobTaken, JobLeft
<1>6. /\ ResultsOK(results', Created)
      /\ results' = results
         \/ /\ Elements(results') = Elements(results) \cup {r}
            /\ OnHeld(r) => held # None
            /\ Confirms(r) => held # None /\ held.entry.msg \in Created
  <2>1. CASE results' = results
    BY <1>4, <2>1
  <2>2. CASE /\ results' = Append(results, r) /\ IsResult(r, Created)
             /\ OnHeld(r) => held # None
             /\ Confirms(r) => held # None /\ held.entry.msg \in Created
    BY <1>4, <2>2, ResultAdded
  <2>. QED
    BY <2>1, <2>2
<1>7. TypesOK'
  <2>1. UserOK'
    BY <1>1, <1>2, <1>3 DEF TypesOK, UserOK
  <2>. QED
    BY <1>1, <1>2, <1>3, <1>5, <1>6, <2>1 DEF TypesOK
<1>8. LoopsOK'
  <2>1. IsQueue(jobs) /\ IsQueue(results)
    BY <1>4 DEF JobsOK, ResultsOK
  <2>2. LoopCounts(sending, timer, deleting, packet, deletion, jobs, results)
    BY <1>1 DEF LoopsOK
  <2>3. CASE results' = results /\ Class(Head(jobs)) = "other"
    BY <1>2, <2>1, <2>2, <2>3, LoopsQuiet DEF LoopsOK
  <2>4. CASE /\ results' = Append(results, r)
             /\ \/ Class(Head(jobs)) = "other" /\ Class(r) = "other"
                \/ Class(Head(jobs)) \in {"send", "confirm"} /\ Class(r) = "send"
                \/ Class(Head(jobs)) = "delete" /\ Class(r) = "delete"
    BY <1>2, <2>1, <2>2, <2>4, LoopsMoved DEF LoopsOK
  <2>. QED
    BY <2>3, <2>4
<1>9. HeldOK(held', packet, jobs', results', Pending', Created)
  <2>1. \A c \in Elements(results') : \/ c \in Elements(results)
                                      \/ /\ OnHeld(c) => held # None
                                         /\ Confirms(c) => held # None /\ held.entry.msg \in Created
    BY <1>6
  <2>2. RemovedBeforeNext(jobs')
    BY <1>1, <1>5 DEF HeldOK
  <2>3. Elements(jobs') \subseteq Elements(jobs)
    BY <1>5
  <2>. QED
    BY <1>1, <2>1, <2>2, <2>3, HeldKept
<1>10. OrderOK(server.order, Pending', Created, typed, GivenUp)
  <2>1. \A m \in Pending : m \in Pending' \cup Created \cup GivenUp
    BY DEF GivenUp
  <2>. QED
    BY <1>1, <2>1, OrderKept
<1>. QED
  BY <1>2, <1>3, <1>7, <1>8, <1>9, <1>10 DEF IInv, Line

\* The core thread handles a result, an answer or an event.
LEMMA CoreKeeps ==
    ASSUME IInv, UNCHANGED <<store, commands, server, typed, lost>>,
           rejected \subseteq rejected', sending' \in BOOLEAN, timer' \in BOOLEAN,
           deleting' \in BOOLEAN, shown' \in [Messages -> Nat],
           \A m \in Messages : shown'[m] > 0 => m \in Created,
           JobsOK(jobs', typed, Created, rejected'), ResultsOK(results', Created),
           IsHeld(held', typed, Created), IsPacket(packet', typed, Created),
           IsDeletion(deletion'),
           LineOK(Stores(store.sent), Inserts(jobs'), Typing(commands)),
           Originals(Stores(store.sent), Inserts(jobs'), Typing(commands)) = Pending,
           LoopsOK', HeldOK(held', packet', jobs', results', Pending, Created)
    PROVE  IInv'
<1>1. /\ TypesOK
      /\ OrderOK(server.order, Pending, Created, typed, GivenUp)
  BY DEF IInv
<1>2. Created' = Created /\ GivenUp \subseteq GivenUp'
  BY DEF Created, GivenUp
<1>3. TypesOK'
  <2>1. UserOK'
    BY <1>1, <1>2 DEF TypesOK, UserOK
  <2>. QED
    BY <1>1, <1>2, <2>1 DEF TypesOK
<1>4. Pending' = Pending /\ Line'
  BY DEF Pending, Line
<1>5. OrderOK(server.order, Pending, Created, typed, GivenUp')
  <2>1. \A m \in Pending : m \in Pending \cup Created \cup GivenUp'
    OBVIOUS
  <2>. QED
    BY <1>1, <1>2, <2>1, OrderKept
<1>. QED
  BY <1>2, <1>3, <1>4, <1>5 DEF IInv

LEMMA TypesMore ==
    ASSUME NEW T \in [Messages -> Nat], NEW U \in [Messages -> Nat], NEW C, NEW D,
           NEW R, NEW Q, \A m \in Messages : T[m] <= U[m], C \subseteq D, R \subseteq Q
    PROVE  /\ \A s : IsStore(s, T, C) => IsStore(s, U, D)
           /\ \A cs : CommandsOK(cs, T, C) => CommandsOK(cs, U, D)
           /\ \A js : JobsOK(js, T, C, R) => JobsOK(js, U, D, Q)
           /\ \A rs : ResultsOK(rs, C) => ResultsOK(rs, D)
           /\ \A h : IsHeld(h, T, C) => IsHeld(h, U, D)
           /\ \A p : IsPacket(p, T, C) => IsPacket(p, U, D)
<1>1. \A e : IsEntry(e, T, C) => IsEntry(e, U, D)
  BY EntryMore
<1>2. \A s : IsStore(s, T, C) => IsStore(s, U, D)
  BY <1>1 DEF IsStore
<1>3. ASSUME NEW c, IsCommand(c, T, C) PROVE IsCommand(c, U, D)
  <2>1. c.msg \in Messages /\ T[c.msg] \in Nat /\ U[c.msg] \in Nat /\ T[c.msg] <= U[c.msg]
    BY <1>3 DEF IsCommand
  <2>. QED
    BY <1>3, <2>1 DEF IsCommand
<1>4. \A cs : CommandsOK(cs, T, C) => CommandsOK(cs, U, D)
  BY <1>3 DEF CommandsOK
<1>5. ASSUME NEW j, IsJob(j, T, C, R) PROVE IsJob(j, U, D, Q)
  BY <1>1, <1>5 DEF IsJob
<1>6. \A js : JobsOK(js, T, C, R) => JobsOK(js, U, D, Q)
  BY <1>5 DEF JobsOK
<1>7. \A rs : ResultsOK(rs, C) => ResultsOK(rs, D)
  BY DEF ResultsOK, IsResult
<1>8. \A h : IsHeld(h, T, C) => IsHeld(h, U, D)
  BY <1>1 DEF IsHeld
<1>9. \A p : IsPacket(p, T, C) => IsPacket(p, U, D)
  BY <1>1 DEF IsPacket
<1>. QED
  BY <1>2, <1>4, <1>6, <1>7, <1>8, <1>9

-----------------------------------------------------------------------------
(* The archive's thread keeps the invariant.                               *)

\* A job is taken and nothing is answered.
LEMMA ArchiveSilent ==
    ASSUME IInv, jobs # <<>>, jobs' = Tail(jobs),
           UNCHANGED <<core, network, typed, rejected, lost>>,
           results' = results, Class(Head(jobs)) = "other",
           IsStore(store', typed, Created),
           LineOK(Stores(store'.sent), Inserts(jobs'), Typing(commands)),
           Pending' \subseteq Pending,
           \A m \in Pending : m \in Pending' \/ m \in Created \/ (held = None /\ m \in rejected),
           IsHeld(held', typed, Created), held' = None <=> held = None,
           held # None => /\ held'.entry.iid = held.entry.iid
                          /\ held'.entry.msg = held.entry.msg
    PROVE  IInv'
<1> DEFINE r == Job("first")
<1>1. Class(r) = "send"
  BY DEF Class, Job
<1> HIDE DEF r
<1>. QED
  BY <1>1, ArchiveKeeps

LEMMA JobFacts ==
    ASSUME IInv, NEW op, NextJob(op)
    PROVE  /\ jobs # <<>> /\ jobs' = Tail(jobs) /\ Head(jobs).op = op
           /\ IsJob(Head(jobs), typed, Created, rejected)
           /\ Head(jobs) \in Elements(jobs)
           /\ IsStore(store, typed, Created) /\ IsHeld(held, typed, Created)
           /\ LineOK(Stores(store.sent), Inserts(jobs), Typing(commands))
           /\ op # "insert" =>
                 /\ LineOK(Stores(store.sent), Inserts(jobs'), Typing(commands))
                 /\ Originals(Stores(store.sent), Inserts(jobs'), Typing(commands)) = Pending
<1>1. jobs # <<>> /\ jobs' = Tail(jobs) /\ Head(jobs).op = op
  BY DEF NextJob
<1>2. /\ JobsOK(jobs, typed, Created, rejected) /\ IsStore(store, typed, Created)
      /\ IsHeld(held, typed, Created)
      /\ LineOK(Stores(store.sent), Inserts(jobs), Typing(commands))
  BY DEF IInv, TypesOK, Line
<1>3. IsJob(Head(jobs), typed, Created, rejected) /\ Head(jobs) \in Elements(jobs)
  BY <1>1, <1>2, JobTaken
<1>4. ASSUME op # "insert"
      PROVE  /\ LineOK(Stores(store.sent), Inserts(jobs'), Typing(commands))
             /\ Originals(Stores(store.sent), Inserts(jobs'), Typing(commands)) = Pending
  BY <1>1, <1>2, <1>4, QuietTaken DEF Pending
<1>. QED
  BY <1>1, <1>2, <1>3, <1>4

\* The jobs that leave the store as it is.
LEMMA ArchiveReads ==
    ASSUME IInv, NEW op, NextJob(op), op # "insert", NEW r,
           UNCHANGED <<core, store, held, network, typed, rejected, lost>>,
           results' = Append(results, r), IsResult(r, Created),
           \/ Class(Head(jobs)) = "other" /\ Class(r) = "other"
           \/ Class(Head(jobs)) \in {"send", "confirm"} /\ Class(r) = "send"
           \/ Class(Head(jobs)) = "delete" /\ Class(r) = "delete",
           OnHeld(r) => held # None,
           Confirms(r) => held # None /\ held.entry.msg \in Created
    PROVE  IInv'
<1>1. /\ jobs # <<>> /\ jobs' = Tail(jobs) /\ IsStore(store, typed, Created)
      /\ IsHeld(held, typed, Created)
      /\ LineOK(Stores(store.sent), Inserts(jobs'), Typing(commands))
      /\ Originals(Stores(store.sent), Inserts(jobs'), Typing(commands)) = Pending
  BY JobFacts
<1>2. /\ commands' = commands /\ store' = store /\ held' = held
      /\ UNCHANGED <<core, network, typed, rejected, lost>>
  BY DEF core
<1>3. Pending' = Pending
  BY <1>1, <1>2 DEF Pending
<1>. QED
  BY <1>1, <1>2, <1>3, ArchiveKeeps

LEMMA KeepsRunHistory ==
    ASSUME IInv, RunHistory
    PROVE  IInv'
<1> DEFINE r == [op |-> "history", id |-> Head(jobs).id, text |-> Head(jobs).text]
<1>1. /\ NextJob("history") /\ results' = Append(results, r)
      /\ UNCHANGED <<core, store, held, network, typed, rejected, lost>>
  BY DEF RunHistory, Result, user
<1>2. Head(jobs).op = "history" /\ IsJob(Head(jobs), typed, Created, rejected)
      /\ Head(jobs) \in Elements(jobs)
  BY <1>1, JobFacts
<1>3. IsResult(r, Created)
  BY <1>2 DEF IsJob, IsResult, ResultOps
<1>4. Class(Head(jobs)) = "send" /\ Class(r) = "send" /\ ~OnHeld(r)
  BY <1>2 DEF Class, OnHeld
<1>5. held # None /\ held.entry.msg \in Created
  BY <1>2 DEF IInv, HeldOK, Confirms
<1> HIDE DEF r
<1>. QED
  BY <1>1, <1>3, <1>4, <1>5, ArchiveReads

LEMMA KeepsRunFind ==
    ASSUME IInv, RunFind
    PROVE  IInv'
<1> DEFINE r == [op |-> "found", msg |-> Head(jobs).msg, id |-> Head(jobs).id]
<1>1. /\ NextJob("find") /\ results' = Append(results, r)
      /\ UNCHANGED <<core, store, held, network, typed, rejected, lost>>
  BY DEF RunFind, Result, user
<1>2. Head(jobs).op = "find" /\ IsJob(Head(jobs), typed, Created, rejected)
  BY <1>1, JobFacts
<1>3. IsResult(r, Created)
  BY <1>2 DEF IsJob, IsResult, ResultOps
<1>4. Class(Head(jobs)) = "other" /\ Class(r) = "other" /\ ~OnHeld(r) /\ ~Confirms(r)
  BY <1>2 DEF Class, OnHeld, Confirms
<1> HIDE DEF r
<1>. QED
  BY <1>1, <1>3, <1>4, ArchiveReads

LEMMA KeepsRunFirstDelete ==
    ASSUME IInv, RunFirstDelete
    PROVE  IInv'
<1> DEFINE r == [op |-> "firstDelete",
                 id |-> IF store.deletes = <<>> THEN 0 ELSE Head(store.deletes)]
<1>1. /\ NextJob("firstDelete") /\ results' = Append(results, r)
      /\ UNCHANGED <<core, store, held, network, typed, rejected, lost>>
  BY DEF RunFirstDelete, Result, user
<1>2. Head(jobs).op = "firstDelete"
  BY <1>1, JobFacts
<1>3. IsResult(r, Created)
  BY DEF IsResult, ResultOps
<1>4. Class(Head(jobs)) = "delete" /\ Class(r) = "delete" /\ ~OnHeld(r) /\ ~Confirms(r)
  BY <1>2 DEF Class, OnHeld, Confirms
<1> HIDE DEF r
<1>. QED
  BY <1>1, <1>3, <1>4, ArchiveReads

LEMMA KeepsRunInsert ==
    ASSUME IInv, RunInsert
    PROVE  IInv'
<1> DEFINE e == Head(jobs).entry
           S == Stores(store.sent)
<1>1. /\ NextJob("insert") /\ store' = InsertMessage(store, e) /\ Follow({e.iid})
      /\ UNCHANGED <<core, results, network, typed, rejected, lost>>
  BY DEF RunInsert, user
<1>2. /\ jobs # <<>> /\ jobs' = Tail(jobs) /\ Head(jobs).op = "insert"
      /\ IsJob(Head(jobs), typed, Created, rejected)
      /\ IsStore(store, typed, Created) /\ IsHeld(held, typed, Created)
      /\ LineOK(S, Inserts(jobs), Typing(commands))
      /\ JobsOK(jobs, typed, Created, rejected)
  BY <1>1, JobFacts DEF IInv, TypesOK
<1>3. IsEntry(e, typed, Created)
  BY <1>2 DEF IsJob
<1>4. /\ Inserts(jobs) # <<>> /\ Head(Inserts(jobs)) = e.iid
      /\ Inserts(jobs') = Tail(Inserts(jobs))
  <2>1. KeyOfJob(Head(jobs)) = e.iid
    BY <1>2 DEF KeyOfJob
  <2>. QED
    BY <1>2, <2>1, JobKeysTaken
<1>5. e.iid # Nothing
  BY <1>3, BoundsAssumption DEF IsEntry, EntryRecord, Messages, Nothing
<1> HIDE DEF e, S
<1>6. /\ LineOK(Append(S, e.iid), Inserts(jobs'), Typing(commands))
      /\ Originals(Append(S, e.iid), Inserts(jobs'), Typing(commands)) = Pending
      /\ ~In(S, e.iid)
  BY <1>2, <1>4, <1>5, LineInsert DEF Pending, S
<1>7. IsStore(store', typed, Created) /\ Stores(store'.sent) = Append(S, e.iid)
  BY <1>1, <1>2, <1>3, <1>6, StoreInserted DEF S
<1>8. Pending' = Pending
  <2>1. commands' = commands
    BY <1>1 DEF core
  <2>. QED
    BY <1>6, <1>7, <2>1 DEF Pending
<1>9. /\ IsHeld(held', typed, Created) /\ (held' = None <=> held = None)
      /\ held # None => held'.entry.iid = held.entry.iid /\ held'.entry.msg = held.entry.msg
  BY <1>1, <1>2, <1>7, FollowFacts
<1>10. Class(Head(jobs)) = "other"
  BY <1>2 DEF Class
<1>. QED
  BY <1>1, <1>2, <1>6, <1>7, <1>8, <1>9, <1>10, ArchiveSilent

\* The jobs that change entries in their places or take one out.
LEMMA ArchiveWrites ==
    ASSUME IInv, NEW op, NextJob(op), op # "insert",
           UNCHANGED <<core, network, typed, rejected, lost>>,
           NEW r,
           \/ results' = results /\ Class(Head(jobs)) = "other"
           \/ /\ results' = Append(results, r) /\ IsResult(r, Created)
              /\ \/ Class(Head(jobs)) = "other" /\ Class(r) = "other"
                 \/ Class(Head(jobs)) \in {"send", "confirm"} /\ Class(r) = "send"
                 \/ Class(Head(jobs)) = "delete" /\ Class(r) = "delete"
              /\ OnHeld(r) => held # None
              /\ Confirms(r) => held # None /\ held.entry.msg \in Created,
           IsStore(store', typed, Created),
           NEW k, Trimmed(Stores(store.sent), Stores(store'.sent), k),
           \A m \in Messages : Original(m) = k =>
              m \in Created \/ (held = None /\ m \in rejected),
           NEW X, Follow(X)
    PROVE  IInv'
<1>1. /\ jobs # <<>> /\ jobs' = Tail(jobs) /\ IsHeld(held, typed, Created)
      /\ LineOK(Stores(store.sent), Inserts(jobs'), Typing(commands))
      /\ Originals(Stores(store.sent), Inserts(jobs'), Typing(commands)) = Pending
  BY JobFacts
<1>2. commands' = commands
  BY DEF core
<1>3. /\ LineOK(Stores(store'.sent), Inserts(jobs'), Typing(commands))
      /\ Pending' \subseteq Pending
      /\ \A m \in Pending : m \in Pending' \/ Original(m) = k
  BY <1>1, <1>2, LineTrim DEF Pending
<1>4. \A m \in Pending : m \in Pending' \/ m \in Created \/ (held = None /\ m \in rejected)
  BY <1>3 DEF Pending, Originals
<1>5. /\ IsHeld(held', typed, Created) /\ (held' = None <=> held = None)
      /\ held # None => held'.entry.iid = held.entry.iid /\ held'.entry.msg = held.entry.msg
  BY <1>1, FollowFacts
<1>. QED
  BY <1>1, <1>3, <1>4, <1>5, ArchiveKeeps

LEMMA KeepsRunReplace ==
    ASSUME IInv, RunReplace
    PROVE  IInv'
<1> DEFINE e == Head(jobs).entry
           r == Job("first")
<1>1. /\ NextJob("replace") /\ store' = UpdateMessageIfExist(store, e) /\ Follow({e.iid})
      /\ results' = results
      /\ UNCHANGED <<core, network, typed, rejected, lost>>
  BY DEF RunReplace
<1>2. /\ Head(jobs).op = "replace" /\ IsJob(Head(jobs), typed, Created, rejected)
      /\ IsStore(store, typed, Created)
  BY <1>1, JobFacts
<1>3. IsEntry(e, typed, Created)
  BY <1>2 DEF IsJob
<1>4. Class(Head(jobs)) = "other"
  BY <1>2 DEF Class
<1> HIDE DEF e, r
<1>5. IsStore(store', typed, Created) /\ Stores(store'.sent) = Stores(store.sent)
  BY <1>1, <1>2, <1>3, StoreReplaced
<1>6. Trimmed(Stores(store.sent), Stores(store'.sent), Nothing)
  BY <1>5 DEF Trimmed
<1>7. Class(r) = "send"
  BY DEF Class, Job, r
<1>. QED
  BY <1>1, <1>4, <1>5, <1>6, <1>7, NothingIsNoOriginal, ArchiveWrites

LEMMA KeepsRunStamp ==
    ASSUME IInv, RunStamp
    PROVE  IInv'
<1> DEFINE r == Job("stamped")
<1>1. /\ NextJob("stamp") /\ store' = UpdatePostTime(store, held.entry.iid) /\ Follow({})
      /\ results' = Append(results, r)
      /\ UNCHANGED <<core, network, typed, rejected, lost>>
  BY DEF RunStamp, Result, user
<1>2. /\ Head(jobs).op = "stamp" /\ IsStore(store, typed, Created)
      /\ Head(jobs) \in Elements(jobs)
  BY <1>1, JobFacts
<1>3. /\ IsResult(r, Created) /\ Class(r) = "send" /\ ~Confirms(r)
      /\ Class(Head(jobs)) = "send"
  BY <1>2 DEF IsResult, ResultOps, Job, Class, Confirms
<1>4. held # None
  BY <1>2 DEF IInv, HeldOK, OnHeld
<1>5. IsStore(store', typed, Created) /\ Stores(store'.sent) = Stores(store.sent)
  BY <1>1, <1>2, StorePosted
<1>6. Trimmed(Stores(store.sent), Stores(store'.sent), Nothing)
  BY <1>5 DEF Trimmed
<1> HIDE DEF r
<1>. QED
  BY <1>1, <1>3, <1>4, <1>5, <1>6, NothingIsNoOriginal, ArchiveWrites

LEMMA KeepsRunDelete ==
    ASSUME IInv, RunDelete
    PROVE  IInv'
<1> DEFINE r == Job("first")
           iid == Original(Head(jobs).msg)
           id == Head(jobs).id
<1>1. /\ NextJob("delete") /\ store' = InsertDeletedMessage(store, id, iid) /\ Follow({})
      /\ results' = results
      /\ UNCHANGED <<core, network, typed, rejected, lost>>
  BY DEF RunDelete
<1>2. Head(jobs).op = "delete" /\ IsStore(store, typed, Created)
  BY <1>1, JobFacts
<1>3. Class(Head(jobs)) = "other" /\ Class(r) = "send"
  BY <1>2 DEF Job, Class
<1> HIDE DEF r, iid, id
<1>4. IsStore(store', typed, Created) /\ Stores(store'.sent) = Stores(store.sent)
  BY <1>1, <1>2, StoreMarked
<1>5. Trimmed(Stores(store.sent), Stores(store'.sent), Nothing)
  BY <1>4 DEF Trimmed
<1>. QED
  BY <1>1, <1>3, <1>4, <1>5, NothingIsNoOriginal, ArchiveWrites

LEMMA KeepsRunUndelete ==
    ASSUME IInv, RunUndelete
    PROVE  IInv'
<1>1. /\ NextJob("undelete") /\ store' = RemoveDeletedMessage(store, Head(jobs).id)
      /\ UNCHANGED <<core, results, held, network, typed, rejected, lost>>
  BY DEF RunUndelete, user
<1>2. /\ jobs # <<>> /\ jobs' = Tail(jobs) /\ Head(jobs).op = "undelete"
      /\ IsStore(store, typed, Created) /\ IsHeld(held, typed, Created)
      /\ LineOK(Stores(store.sent), Inserts(jobs'), Typing(commands))
      /\ Originals(Stores(store.sent), Inserts(jobs'), Typing(commands)) = Pending
  BY <1>1, JobFacts
<1>3. Class(Head(jobs)) = "other"
  BY <1>2 DEF Class
<1>4. {"sent", "deletes"} \subseteq DOMAIN store' /\ store'.sent = store.sent
  BY <1>1, <1>2 DEF RemoveDeletedMessage, IsStore
<1>5. IsStore(store', typed, Created)
  BY <1>2, <1>4 DEF IsStore
<1>6. commands' = commands
  BY <1>1 DEF core
<1>7. Pending' = Pending
  BY <1>2, <1>4, <1>6 DEF Pending
<1>. QED
  BY <1>1, <1>2, <1>3, <1>4, <1>5, <1>7, ArchiveSilent

LEMMA KeepsRunRemove ==
    ASSUME IInv, RunRemove
    PROVE  IInv'
<1> DEFINE j == Head(jobs)
           r == Job("removed")
<1>1. /\ NextJob("remove") /\ store' = Remove(store, j.force, j.iid, j.id) /\ Follow({})
      /\ results' = IF j.loop THEN Append(results, r) ELSE results
      /\ UNCHANGED <<core, network, typed, rejected, lost>>
  BY DEF RunRemove
<1>2. /\ j.op = "remove" /\ IsStore(store, typed, Created) /\ j \in Elements(jobs)
      /\ IsJob(j, typed, Created, rejected)
  BY <1>1, JobFacts
<1>3. /\ j.force \in BOOLEAN /\ j.loop \in BOOLEAN /\ j.id \in Nat
      /\ ~j.force => j.id > 0 /\ j.iid[1] \in Created
      /\ j.force => j.iid[1] \in rejected
  BY <1>2 DEF IsJob
<1>4. /\ IsResult(r, Created) /\ Class(r) = "send" /\ ~Confirms(r) /\ ~OnHeld(r)
      /\ j.loop => Class(j) = "confirm"
      /\ ~j.loop => Class(j) = "other"
  BY <1>2 DEF IsResult, ResultOps, Job, Class, Confirms, OnHeld
<1>5. j.force => held = None
  BY <1>2 DEF IInv, HeldOK, Drops
<1> HIDE DEF r
<1>6. /\ IsStore(store', typed, Created)
      /\ Trimmed(Stores(store.sent), Stores(store'.sent), j.iid)
  BY <1>1, <1>2, <1>3, StoreRemoved
<1>7. \A m \in Messages : Original(m) = j.iid =>
         m \in Created \/ (held = None /\ m \in rejected)
  <2>1. \A m \in Messages : Original(m)[1] = m
    BY DEF Original
  <2>. QED
    BY <1>3, <1>5, <2>1
<1>8. \/ results' = results /\ Class(j) = "other"
      \/ results' = Append(results, r) /\ Class(j) = "confirm"
  BY <1>1, <1>3, <1>4
<1>. QED
  BY <1>1, <1>4, <1>6, <1>7, <1>8, ArchiveWrites

LEMMA KeepsRunImstate ==
    ASSUME IInv, RunImstate
    PROVE  IInv'
<1> DEFINE j == Head(jobs)
           r == [op |-> "imstate", msg |-> j.iid[1], id |-> j.id]
<1>1. /\ NextJob("imstate") /\ store' = UpdateWithImstate(store, j.iid, j.id)
      /\ Follow({}) /\ (results' = results \/ results' = Append(results, r))
      /\ UNCHANGED <<core, network, typed, rejected, lost>>
  BY DEF RunImstate
<1>2. /\ j.op = "imstate" /\ IsStore(store, typed, Created)
      /\ IsJob(j, typed, Created, rejected)
  BY <1>1, JobFacts
<1>3. j.iid[1] \in Created /\ j.id \in Nat \ {0}
  BY <1>2 DEF IsJob
<1>4. /\ IsResult(r, Created) /\ Class(r) = "other" /\ ~Confirms(r) /\ ~OnHeld(r)
      /\ Class(j) = "other"
  BY <1>2, <1>3 DEF IsResult, ResultOps, Class, Confirms, OnHeld
<1> HIDE DEF r
<1>5. /\ IsStore(store', typed, Created)
      /\ Trimmed(Stores(store.sent), Stores(store'.sent), j.iid)
  BY <1>1, <1>2, <1>3, StoreImstate
<1>6. \A m \in Messages : Original(m) = j.iid =>
         m \in Created \/ (held = None /\ m \in rejected)
  <2>1. \A m \in Messages : Original(m)[1] = m
    BY DEF Original
  <2>. QED
    BY <1>3, <2>1
<1>7. CASE results' = results
  BY <1>1, <1>4, <1>5, <1>6, <1>7, ArchiveWrites
<1>8. CASE results' = Append(results, r)
  BY <1>1, <1>4, <1>5, <1>6, <1>8, ArchiveWrites
<1>. QED
  BY <1>1, <1>7, <1>8

\* get_pending_message: the loop gets the first entry of the store.
\* While a step of the send loop is among the results, no other is queued.
LEMMA LoneResult ==
    ASSUME NEW s, NEW t, NEW d, NEW p, NEW x, NEW js, NEW rs, IsQueue(js), IsQueue(rs),
           LoopCounts(s, t, d, p, x, js, rs), NEW r \in Elements(rs), Class(r) = "send"
    PROVE  \A c \in Elements(js) : Class(c) \notin {"send", "confirm"}
<1>1. Steps(rs, "send") >= 1 /\ \A c \in Elements(js) : Steps(js, Class(c)) >= 1
  BY StepsFound
<1>2. Steps(js, "send") \in Nat /\ Steps(js, "confirm") \in Nat /\ Steps(rs, "send") \in Nat
  BY OfFinite
<1>. QED
  BY <1>1, <1>2 DEF LoopCounts, One

LEMMA KeepsRunFirst ==
    ASSUME IInv, RunFirst
    PROVE  IInv'
<1> DEFINE r == Job("first")
           h == [entry |-> Head(store.sent), shared |-> TRUE]
<1>1. /\ NextJob("first") /\ results' = Append(results, r)
      /\ held' = IF store.sent = <<>> THEN None ELSE h
      /\ UNCHANGED <<core, store, network, typed, rejected, lost>>
  BY DEF RunFirst, Result, user
<1>2. /\ jobs # <<>> /\ jobs' = Tail(jobs) /\ Head(jobs).op = "first"
      /\ Head(jobs) \in Elements(jobs)
      /\ IsStore(store, typed, Created)
      /\ LineOK(Stores(store.sent), Inserts(jobs), Typing(commands))
      /\ LineOK(Stores(store.sent), Inserts(jobs'), Typing(commands))
      /\ Originals(Stores(store.sent), Inserts(jobs'), Typing(commands)) = Pending
  BY <1>1, JobFacts
<1>3. /\ TypesOK /\ LoopsOK /\ HeldOK(held, packet, jobs, results, Pending, Created)
      /\ OrderOK(server.order, Pending, Created, typed, GivenUp)
  BY DEF IInv
<1>4. /\ IsResult(r, Created) /\ Class(r) = "send" /\ ~Confirms(r) /\ ~OnHeld(r)
      /\ Class(Head(jobs)) = "send"
  BY <1>2 DEF IsResult, ResultOps, Job, Class, Confirms, OnHeld
<1> HIDE DEF r
<1>5. /\ commands' = commands /\ sending' = sending /\ timer' = timer
      /\ deleting' = deleting /\ shown' = shown /\ packet' = packet
      /\ deletion' = deletion /\ server' = server /\ typed' = typed
      /\ rejected' = rejected /\ lost' = lost /\ store' = store
  BY <1>1 DEF core, network
<1>6. Created' = Created /\ GivenUp' = GivenUp /\ Pending' = Pending
  BY <1>2, <1>5 DEF Created, GivenUp, Pending
<1>7. /\ JobsOK(jobs, typed, Created, rejected) /\ ResultsOK(results, Created)
      /\ IsQueue(jobs) /\ IsQueue(results)
  BY <1>3 DEF TypesOK, JobsOK, ResultsOK
<1>8. /\ JobsOK(jobs', typed, Created, rejected)
      /\ Elements(jobs) = Elements(jobs') \cup {Head(jobs)}
  BY <1>2, <1>7, JobTaken
<1>9. RemovedBeforeNext(jobs') /\ \A c \in Elements(jobs') : ~Drops(c)
  BY <1>2, <1>3, <1>7, JobLeft DEF HeldOK
<1>10. ResultsOK(results', Created) /\ Elements(results') = Elements(results) \cup {r}
  BY <1>1, <1>4, <1>7, ResultAdded
<1>11. ASSUME store.sent # <<>>
       PROVE  /\ Head(store.sent) = store.sent[1] /\ IsEntry(h.entry, typed, Created)
              /\ Stores(store.sent) # <<>> /\ Stores(store.sent)[1] = h.entry.iid
  <2>1. /\ DOMAIN store.sent = 1..Len(store.sent) /\ Len(store.sent) \in Nat
        /\ store.sent \in Seq(EntryRecord)
    BY <1>2, StoreKeys DEF IsStore
  <2>2. Len(store.sent) # 0 /\ Head(store.sent) = store.sent[1]
    BY <1>11, <2>1
  <2>3. /\ store.sent[1] \in Elements(store.sent)
        /\ Stores(store.sent)[1] = store.sent[1].iid
        /\ Stores(store.sent) \in Seq(Keys) /\ Len(Stores(store.sent)) # 0
    BY <1>2, <2>1, <2>2, StoreKeys
  <2>4. Stores(store.sent) # <<>>
    BY <2>3
  <2>. QED
    BY <1>2, <2>2, <2>3, <2>4 DEF IsStore
<1>12. h # None
  <2>1. DOMAIN h = {"entry", "shared"} /\ DOMAIN None = {"nothing"}
    BY DEF None
  <2>. QED
    BY <2>1
<1>13. IsHeld(held', typed, Created)
  <2>1. {"entry", "shared"} \subseteq DOMAIN h /\ "nothing" \notin DOMAIN h
    OBVIOUS
  <2> HIDE DEF h
  <2>. QED
    BY <1>1, <1>11, <2>1 DEF IsHeld
<1>14. TypesOK'
  <2>1. UserOK'
    BY <1>3, <1>5, <1>6 DEF TypesOK, UserOK
  <2>. QED
    BY <1>2, <1>3, <1>5, <1>6, <1>8, <1>10, <1>13, <2>1 DEF TypesOK
<1>15. LoopsOK'
  <2>1. LoopCounts(sending, timer, deleting, packet, deletion, jobs', results')
    BY <1>1, <1>2, <1>3, <1>4, <1>7, LoopsMoved DEF LoopsOK
  <2>. QED
    BY <1>5, <2>1 DEF LoopsOK
<1>16. HeldOK(held', packet, jobs', results', Pending, Created)
  <2>1. /\ packet = None
        /\ \A c \in Elements(jobs') : Class(c) \notin {"send", "confirm"}
        /\ \A c \in Elements(results) : Class(c) # "send"
    <3>1. packet = None /\ \A c \in Elements(results) : Class(c) # "send"
      BY <1>2, <1>3, <1>4, OneStep
    <3>2. IsQueue(jobs') /\ IsQueue(results') /\ r \in Elements(results')
      BY <1>8, <1>10 DEF JobsOK, ResultsOK
    <3>. QED
      BY <1>4, <1>15, <3>1, <3>2, LoneResult DEF LoopsOK
  <2>2. \A c \in Elements(jobs') \cup Elements(results') : ~OnHeld(c) /\ ~Confirms(c)
    <3>1. \A c \in Elements(jobs') : ~OnHeld(c) /\ ~Confirms(c)
      BY <1>8, <2>1 DEF OnHeld, Confirms, Class, JobsOK, IsJob
    <3>2. \A c \in Elements(results) : ~OnHeld(c) /\ ~Confirms(c)
      BY <1>7, <2>1 DEF OnHeld, Confirms, Class, ResultsOK, IsResult, ResultOps
    <3>. QED
      BY <1>4, <1>10, <3>1, <3>2
  <2>3. CASE store.sent = <<>>
    BY <1>1, <1>9, <2>1, <2>2, <2>3 DEF HeldOK
  <2>4. CASE store.sent # <<>>
    <3>1. held' = h /\ IsEntry(h.entry, typed, Created)
      BY <1>1, <1>11, <2>4
    <3>2. /\ h.entry.msg \in Messages /\ h.entry.iid \in Messages \X Nat
          /\ h.entry.iid[1] = h.entry.msg
          /\ h.entry.iid[2] # 1 => h.entry.msg \in Created
      BY <3>1 DEF IsEntry, EntryRecord
    <3> HIDE DEF h
    <3>3. CASE h.entry.iid[2] = 1
      <4>1. Original(h.entry.msg) = h.entry.iid
        BY <3>2, <3>3 DEF Original
      <4>2. h.entry.msg \in Pending /\ \A m \in Pending : h.entry.msg <= m
        BY <1>2, <1>11, <2>4, <3>2, <4>1, LineFirst DEF Pending
      <4>. QED
        BY <1>9, <1>12, <2>1, <2>2, <3>1, <4>2 DEF HeldOK
    <3>4. CASE h.entry.iid[2] # 1
      BY <1>9, <1>12, <2>1, <2>2, <3>1, <3>2, <3>4 DEF HeldOK
    <3>. QED
      BY <3>3, <3>4
  <2>. QED
    BY <2>3, <2>4
<1>. QED
  BY <1>2, <1>3, <1>5, <1>6, <1>14, <1>15, <1>16 DEF IInv, Line

-----------------------------------------------------------------------------
(* What the core thread takes from the results and adds to the jobs.       *)

Sends(js, rs) == Steps(js, "send") + Steps(js, "confirm") + Steps(rs, "send")
Deletes(js, rs) == Steps(js, "delete") + Steps(rs, "delete")

LEMMA LoopSums ==
    ASSUME NEW s, NEW t, NEW d, NEW p, NEW x, NEW js, NEW rs, IsQueue(js), IsQueue(rs)
    PROVE  /\ Sends(js, rs) \in Nat /\ Deletes(js, rs) \in Nat
           /\ Steps(rs, "timer") \in Nat
           /\ LoopCounts(s, t, d, p, x, js, rs) <=>
                 /\ One(s) = One(t) + One(p # None) + Sends(js, rs)
                 /\ One(d) = One(x # None) + Deletes(js, rs)
                 /\ Steps(rs, "timer") <= One(t)
<1> DEFINE a1 == Steps(js, "send")
           a2 == Steps(js, "confirm")
           a3 == Steps(js, "delete")
           b1 == Steps(rs, "send")
           b2 == Steps(rs, "delete")
           b3 == Steps(rs, "timer")
<1>1. /\ a1 \in Nat /\ a2 \in Nat /\ a3 \in Nat /\ b1 \in Nat /\ b2 \in Nat /\ b3 \in Nat
      /\ One(t) \in Nat /\ One(p # None) \in Nat /\ One(x # None) \in Nat
  BY OfFinite DEF One
<1>2. Sends(js, rs) = a1 + a2 + b1 /\ Deletes(js, rs) = a3 + b2
  BY DEF Sends, Deletes
<1>3. LoopCounts(s, t, d, p, x, js, rs) <=>
         /\ One(s) = One(t) + One(p # None) + a1 + a2 + b1
         /\ One(d) = One(x # None) + a3 + b2
         /\ b3 <= One(t)
  BY DEF LoopCounts
<1> HIDE DEF a1, a2, a3, b1, b2, b3
<1>4. Sends(js, rs) \in Nat /\ Deletes(js, rs) \in Nat /\ b3 \in Nat
  BY <1>1, <1>2
<1>5. /\ One(t) + One(p # None) + Sends(js, rs) = One(t) + One(p # None) + a1 + a2 + b1
      /\ One(x # None) + Deletes(js, rs) = One(x # None) + a3 + b2
  BY <1>1, <1>2
<1>. QED
  BY <1>3, <1>4, <1>5 DEF b3

LEMMA SumsOfJob ==
    ASSUME NEW js, NEW rs, IsQueue(js), IsQueue(rs), NEW j
    PROVE  /\ Sends(Append(js, j), rs)
              = Sends(js, rs) + (IF Class(j) \in {"send", "confirm"} THEN 1 ELSE 0)
           /\ Deletes(Append(js, j), rs)
              = Deletes(js, rs) + (IF Class(j) = "delete" THEN 1 ELSE 0)
<1> DEFINE a1 == Steps(js, "send")
           a2 == Steps(js, "confirm")
           a3 == Steps(js, "delete")
           b1 == Steps(rs, "send")
           b2 == Steps(rs, "delete")
           r == Append(js, j)
<1>1. /\ a1 \in Nat /\ a2 \in Nat /\ a3 \in Nat /\ b1 \in Nat /\ b2 \in Nat
  BY OfFinite
<1>2. /\ Steps(r, "send") = a1 + (IF Class(j) = "send" THEN 1 ELSE 0)
      /\ Steps(r, "confirm") = a2 + (IF Class(j) = "confirm" THEN 1 ELSE 0)
      /\ Steps(r, "delete") = a3 + (IF Class(j) = "delete" THEN 1 ELSE 0)
  BY AppendSteps
<1>3. /\ Sends(js, rs) = a1 + a2 + b1 /\ Deletes(js, rs) = a3 + b2
      /\ Sends(r, rs) = Steps(r, "send") + Steps(r, "confirm") + b1
      /\ Deletes(r, rs) = Steps(r, "delete") + b2
  BY DEF Sends, Deletes
<1> HIDE DEF a1, a2, a3, b1, b2
<1>4. CASE Class(j) = "send"
  BY <1>1, <1>2, <1>3, <1>4
<1>5. CASE Class(j) = "confirm"
  BY <1>1, <1>2, <1>3, <1>5
<1>6. CASE Class(j) \notin {"send", "confirm"}
  BY <1>1, <1>2, <1>3, <1>6
<1>. QED
  BY <1>4, <1>5, <1>6

LEMMA SumsOfResult ==
    ASSUME NEW js, NEW rs, IsQueue(js), IsQueue(rs), NEW r
    PROVE  /\ Sends(js, Append(rs, r))
              = Sends(js, rs) + (IF Class(r) = "send" THEN 1 ELSE 0)
           /\ Deletes(js, Append(rs, r))
              = Deletes(js, rs) + (IF Class(r) = "delete" THEN 1 ELSE 0)
<1> DEFINE a1 == Steps(js, "send")
           a2 == Steps(js, "confirm")
           a3 == Steps(js, "delete")
           b1 == Steps(rs, "send")
           b2 == Steps(rs, "delete")
           q == Append(rs, r)
<1>1. /\ a1 \in Nat /\ a2 \in Nat /\ a3 \in Nat /\ b1 \in Nat /\ b2 \in Nat
  BY OfFinite
<1>2. /\ Steps(q, "send") = b1 + (IF Class(r) = "send" THEN 1 ELSE 0)
      /\ Steps(q, "delete") = b2 + (IF Class(r) = "delete" THEN 1 ELSE 0)
  BY AppendSteps
<1>3. /\ Sends(js, rs) = a1 + a2 + b1 /\ Deletes(js, rs) = a3 + b2
      /\ Sends(js, q) = a1 + a2 + Steps(q, "send")
      /\ Deletes(js, q) = a3 + Steps(q, "delete")
  BY DEF Sends, Deletes
<1> HIDE DEF a1, a2, a3, b1, b2
<1>. QED
  BY <1>1, <1>2, <1>3

LEMMA SumsLeft ==
    ASSUME NEW js, NEW rs, IsQueue(js), IsQueue(rs), rs # <<>>
    PROVE  /\ Sends(js, Tail(rs))
              = Sends(js, rs) - (IF Class(Head(rs)) = "send" THEN 1 ELSE 0)
           /\ Deletes(js, Tail(rs))
              = Deletes(js, rs) - (IF Class(Head(rs)) = "delete" THEN 1 ELSE 0)
           /\ Steps(Tail(rs), "timer")
              = Steps(rs, "timer") - (IF Class(Head(rs)) = "timer" THEN 1 ELSE 0)
<1> DEFINE a1 == Steps(js, "send")
           a2 == Steps(js, "confirm")
           a3 == Steps(js, "delete")
           b1 == Steps(rs, "send")
           b2 == Steps(rs, "delete")
           q == Tail(rs)
<1>1. /\ a1 \in Nat /\ a2 \in Nat /\ a3 \in Nat /\ b1 \in Nat /\ b2 \in Nat
  BY OfFinite
<1>2. /\ Steps(q, "send") = b1 - (IF Class(Head(rs)) = "send" THEN 1 ELSE 0)
      /\ Steps(q, "delete") = b2 - (IF Class(Head(rs)) = "delete" THEN 1 ELSE 0)
      /\ Steps(q, "timer") = Steps(rs, "timer")
                             - (IF Class(Head(rs)) = "timer" THEN 1 ELSE 0)
  BY TailSteps
<1>3. /\ Sends(js, rs) = a1 + a2 + b1 /\ Deletes(js, rs) = a3 + b2
      /\ Sends(js, q) = a1 + a2 + Steps(q, "send")
      /\ Deletes(js, q) = a3 + Steps(q, "delete")
  BY DEF Sends, Deletes
<1> HIDE DEF a1, a2, a3, b1, b2, q
<1>. QED
  BY <1>1, <1>2, <1>3 DEF q

\* Jobs that insert nothing, added to those that are there.
Queued(js, R) ==
    /\ JobsOK(js, typed, Created, R)
    /\ LineOK(Stores(store.sent), Inserts(js), Typing(commands))
    /\ Originals(Stores(store.sent), Inserts(js), Typing(commands)) = Pending

LEMMA QueuedFirst ==
    ASSUME IInv, NEW R, rejected \subseteq R
    PROVE  /\ Queued(jobs, R) /\ RemovedBeforeNext(jobs)
           /\ ResultsOK(results, Created) /\ IsQueue(jobs) /\ IsQueue(results)
<1>1. /\ typed \in [Messages -> Nat] /\ JobsOK(jobs, typed, Created, rejected)
      /\ ResultsOK(results, Created)
      /\ LineOK(Stores(store.sent), Inserts(jobs), Typing(commands))
      /\ RemovedBeforeNext(jobs)
  BY DEF IInv, TypesOK, UserOK, Line, HeldOK
<1>2. \A m \in Messages : typed[m] <= typed[m]
  BY <1>1
<1>3. JobsOK(jobs, typed, Created, R)
  BY <1>1, <1>2, TypesMore
<1>. QED
  BY <1>1, <1>3 DEF Queued, Pending, JobsOK, ResultsOK

LEMMA QueuedNext ==
    ASSUME NEW R, NEW js, Queued(js, R), NEW j, IsJob(j, typed, Created, R),
           j.op # "insert"
    PROVE  /\ Queued(Append(js, j), R) /\ IsQueue(Append(js, j))
           /\ Elements(Append(js, j)) = Elements(js) \cup {j}
           /\ RemovedBeforeNext(js) /\ (Drops(j) => \A c \in Elements(js) : c.op # "first")
              => RemovedBeforeNext(Append(js, j))
<1>1. /\ JobsOK(js, typed, Created, R)
      /\ LineOK(Stores(store.sent), Inserts(js), Typing(commands))
      /\ Originals(Stores(store.sent), Inserts(js), Typing(commands)) = Pending
  BY DEF Queued
<1>2. /\ JobsOK(Append(js, j), typed, Created, R)
      /\ Elements(Append(js, j)) = Elements(js) \cup {j}
      /\ RemovedBeforeNext(js) /\ (Drops(j) => \A c \in Elements(js) : c.op # "first")
         => RemovedBeforeNext(Append(js, j))
  BY <1>1, JobAdded
<1>3. /\ LineOK(Stores(store.sent), Inserts(Append(js, j)), Typing(commands))
      /\ Originals(Stores(store.sent), Inserts(Append(js, j)), Typing(commands)) = Pending
  BY <1>1, QuietAdded
<1>. QED
  BY <1>2, <1>3 DEF Queued, JobsOK

\* The loop still holds its entry.
LEMMA HeldStays ==
    ASSUME NEW h, NEW p, NEW js, NEW rs, NEW O, NEW C, HeldOK(h, p, js, rs, O, C),
           NEW p2, p2 # None => h # None /\ p2.entry.iid = h.entry.iid,
           NEW js2, RemovedBeforeNext(js2),
           \A c \in Elements(js2) : \/ c \in Elements(js)
                                    \/ /\ OnHeld(c) => h # None
                                       /\ Confirms(c) => h # None /\ h.entry.msg \in C
                                       /\ Drops(c) => h = None,
           NEW rs2,
           \A c \in Elements(rs2) : \/ c \in Elements(rs)
                                    \/ /\ OnHeld(c) => h # None
                                       /\ Confirms(c) => h # None /\ h.entry.msg \in C
    PROVE  HeldOK(h, p2, js2, rs2, O, C)
<1>1. ASSUME NEW c \in Elements(js2) \cup Elements(rs2)
      PROVE  /\ OnHeld(c) => h # None
             /\ Confirms(c) => h # None /\ h.entry.msg \in C
  BY <1>1 DEF HeldOK
<1>2. \A j \in Elements(js2) : Drops(j) => h = None
  BY DEF HeldOK
<1>3. /\ h # None => h.entry.msg \in O \cup C
      /\ h # None /\ h.entry.iid[2] = 1 => \A m \in O : h.entry.msg <= m
  BY DEF HeldOK
<1>. QED
  BY <1>1, <1>2, <1>3 DEF HeldOK

\* The loop lets its entry go.
LEMMA HeldLeft ==
    ASSUME NEW js, NEW T, NEW C, NEW R, JobsOK(js, T, C, R), RemovedBeforeNext(js),
           NEW rs, ResultsOK(rs, C),
           \A c \in Elements(js) :
              Class(c) \notin {"send", "confirm"} \/ c.op = "first",
           \A c \in Elements(rs) : Class(c) # "send",
           NEW O
    PROVE  HeldOK(None, None, js, rs, O, C)
<1>1. \A c \in Elements(js) : ~OnHeld(c) /\ ~Confirms(c)
  BY DEF OnHeld, Confirms, Class, JobsOK, IsJob
<1>2. \A c \in Elements(rs) : ~OnHeld(c) /\ ~Confirms(c)
  BY DEF OnHeld, Confirms, Class, ResultsOK, IsResult, ResultOps
<1>. QED
  BY <1>1, <1>2 DEF HeldOK

-----------------------------------------------------------------------------
(* The core thread handles results.                                        *)

ShownOK(s) == s \in [Messages -> Nat] /\ \A m \in Messages : s[m] > 0 => m \in Created

LEMMA CoreFacts ==
    ASSUME IInv
    PROVE  /\ TypesOK /\ LoopsOK
           /\ HeldOK(held, packet, jobs, results, Pending, Created)
           /\ sending \in BOOLEAN /\ timer \in BOOLEAN /\ deleting \in BOOLEAN
           /\ ShownOK(shown) /\ Created \subseteq Messages
           /\ IsHeld(held, typed, Created) /\ IsPacket(packet, typed, Created)
           /\ IsDeletion(deletion)
           /\ server.order \in Seq(Messages) /\ typed \in [Messages -> Nat]
<1>1. TypesOK /\ LoopsOK /\ HeldOK(held, packet, jobs, results, Pending, Created)
  BY DEF IInv
<1>2. UserOK /\ server.order \in Seq(Messages)
  BY <1>1 DEF TypesOK, UserOK
<1>3. Created \subseteq Messages
  BY <1>2 DEF Created
<1>. QED
  BY <1>1, <1>2, <1>3 DEF TypesOK, UserOK, ShownOK

LEMMA ShownSet ==
    ASSUME ShownOK(shown), NEW m \in Messages, m \in Created, NEW i \in Nat,
           shown' = [shown EXCEPT ![m] = i]
    PROVE  ShownOK(shown')
  BY DEF ShownOK

LEMMA CoreStep ==
    ASSUME IInv, UNCHANGED <<store, commands, server, typed, lost>>,
           rejected \subseteq rejected', sending' \in BOOLEAN, timer' \in BOOLEAN,
           deleting' \in BOOLEAN, ShownOK(shown'),
           Queued(jobs', rejected'), ResultsOK(results', Created),
           held' = held \/ held' = None,
           packet' = packet \/ packet' = None,
           deletion' = deletion \/ deletion' = None,
           LoopCounts(sending', timer', deleting', packet', deletion', jobs', results'),
           HeldOK(held', packet', jobs', results', Pending, Created)
    PROVE  IInv'
<1>1. /\ IsHeld(held', typed, Created) /\ IsPacket(packet', typed, Created)
      /\ IsDeletion(deletion')
  BY CoreFacts DEF IsHeld, IsPacket, IsDeletion
<1>2. /\ shown' \in [Messages -> Nat]
      /\ \A m \in Messages : shown'[m] > 0 => m \in Created
  BY DEF ShownOK
<1>3. /\ JobsOK(jobs', typed, Created, rejected')
      /\ LineOK(Stores(store.sent), Inserts(jobs'), Typing(commands))
      /\ Originals(Stores(store.sent), Inserts(jobs'), Typing(commands)) = Pending
  BY DEF Queued
<1>4. LoopsOK'
  BY DEF LoopsOK
<1>. QED
  BY <1>1, <1>2, <1>3, <1>4, CoreKeeps

LEMMA ResultFacts ==
    ASSUME IInv, NEW op, NextResult(op)
    PROVE  /\ results # <<>> /\ results' = Tail(results) /\ Head(results).op = op
           /\ IsResult(Head(results), Created) /\ Head(results) \in Elements(results)
           /\ Elements(results') \subseteq Elements(results)
           /\ ResultsOK(results', Created) /\ IsQueue(results')
<1>1. results # <<>> /\ results' = Tail(results) /\ Head(results).op = op
  BY DEF NextResult
<1>2. ResultsOK(results, Created)
  BY DEF IInv, TypesOK
<1>. QED
  BY <1>1, <1>2, ResultTaken DEF ResultsOK

\* Where the loops are, in numbers.
LEMMA LoopFacts ==
    ASSUME IInv
    PROVE  /\ One(sending) = One(timer) + One(packet # None) + Sends(jobs, results)
           /\ One(deleting) = One(deletion # None) + Deletes(jobs, results)
           /\ Steps(results, "timer") <= One(timer)
           /\ Sends(jobs, results) \in Nat /\ Deletes(jobs, results) \in Nat
           /\ Steps(results, "timer") \in Nat
<1>1. IsQueue(jobs) /\ IsQueue(results)
  BY QueuedFirst
<1>2. LoopCounts(sending, timer, deleting, packet, deletion, jobs, results)
  BY DEF IInv, LoopsOK
<1>. QED
  BY <1>1, <1>2, LoopSums

\* A step of the send loop has come back: it is the only one.
LEMMA SendResult ==
    ASSUME IInv, NEW op, NextResult(op), op \in {"first", "stamped", "history", "removed"}
    PROVE  /\ sending = TRUE /\ timer = FALSE /\ packet = None
           /\ \A c \in Elements(jobs) : Class(c) \notin {"send", "confirm"}
           /\ \A c \in Elements(results') : Class(c) # "send"
           /\ Sends(jobs, results') = 0
           /\ Deletes(jobs, results') = Deletes(jobs, results)
           /\ Steps(results', "timer") = 0
<1>1. /\ results # <<>> /\ results' = Tail(results) /\ Class(Head(results)) = "send"
      /\ Head(results) \in Elements(results) /\ IsQueue(results')
  BY ResultFacts DEF Class
<1>2. TypesOK /\ LoopsOK /\ IsQueue(jobs) /\ IsQueue(results) /\ sending \in BOOLEAN
      /\ timer \in BOOLEAN
  BY DEF IInv, TypesOK, JobsOK, ResultsOK
<1>3. /\ Steps(results, "send") = 1 /\ packet = None /\ ~timer /\ sending
      /\ \A c \in Elements(jobs) : Class(c) \notin {"send", "confirm"}
      /\ Steps(jobs, "send") = 0 /\ Steps(jobs, "confirm") = 0
  BY <1>1, <1>2, OneStep
<1>4. Steps(results', "send") = 0
  BY <1>1, <1>2, <1>3, TailSteps
<1>5. ASSUME NEW c \in Elements(results'), Class(c) = "send" PROVE FALSE
  BY <1>1, <1>4, <1>5, StepsFound
<1>6. Sends(jobs, results') = 0
  BY <1>3, <1>4 DEF Sends
<1>7. /\ Deletes(jobs, results') = Deletes(jobs, results) - 0
      /\ Steps(results', "timer") = Steps(results, "timer") - 0
  BY <1>1, <1>2, SumsLeft
<1>8. Steps(results, "timer") = 0 /\ Deletes(jobs, results) \in Nat
  BY <1>3, LoopFacts DEF One
<1>9. Deletes(jobs, results') = Deletes(jobs, results) /\ Steps(results', "timer") = 0
  BY <1>7, <1>8
<1>. QED
  BY <1>2, <1>3, <1>5, <1>6, <1>9

LEMMA KeepsSendLoopEnds ==
    ASSUME IInv, SendLoopEnds
    PROVE  IInv'
<1>1. /\ NextResult("first") /\ held = None /\ sending' = FALSE /\ deleting' = deleting
      /\ timer' = timer /\ shown' = shown /\ held' = held /\ packet' = packet
      /\ deletion' = deletion /\ jobs' = jobs /\ rejected' = rejected
      /\ UNCHANGED <<store, commands, server, typed, lost>>
  BY DEF SendLoopEnds, network, user
<1>2. Queued(jobs, rejected) /\ RemovedBeforeNext(jobs) /\ IsQueue(jobs) /\ IsQueue(results)
  BY QueuedFirst
<1>3. /\ results # <<>> /\ results' = Tail(results) /\ Head(results).op = "first"
      /\ ResultsOK(results', Created) /\ IsQueue(results')
      /\ Elements(results') \subseteq Elements(results)
  BY <1>1, ResultFacts
<1>4. LoopCounts(sending', timer', deleting', packet', deletion', jobs', results')
  <2>1. /\ sending' = FALSE /\ timer' = FALSE /\ packet' = None
        /\ Sends(jobs', results') = 0 /\ Steps(results', "timer") = 0
        /\ Deletes(jobs', results') = Deletes(jobs, results)
    BY <1>1, SendResult
  <2>2. One(deleting') = One(deletion' # None) + Deletes(jobs', results')
    BY <1>1, <2>1, LoopFacts
  <2>3. One(sending') = 0 /\ One(timer') = 0 /\ One(packet' # None) = 0
    BY <2>1 DEF One
  <2>. QED
    BY <1>1, <1>2, <1>3, <2>1, <2>2, <2>3, LoopSums
<1>5. HeldOK(held', packet', jobs', results', Pending, Created)
  BY <1>1, <1>2, <1>3, CoreFacts, HeldStays DEF HeldOK
<1>. QED
  BY <1>1, <1>2, <1>3, <1>4, <1>5, CoreFacts, CoreStep

LEMMA KeepsStartTimer ==
    ASSUME IInv, StartTimer
    PROVE  IInv'
<1>1. /\ NextResult("first") /\ timer' = TRUE /\ sending' = sending
      /\ deleting' = deleting /\ shown' = shown /\ held' = held /\ packet' = packet
      /\ deletion' = deletion /\ jobs' = jobs /\ rejected' = rejected
      /\ UNCHANGED <<store, commands, server, typed, lost>>
  BY DEF StartTimer, network, user
<1>2. Queued(jobs, rejected) /\ RemovedBeforeNext(jobs) /\ IsQueue(jobs) /\ IsQueue(results)
  BY QueuedFirst
<1>3. /\ ResultsOK(results', Created) /\ IsQueue(results')
      /\ Elements(results') \subseteq Elements(results)
  BY <1>1, ResultFacts
<1>4. LoopCounts(sending', timer', deleting', packet', deletion', jobs', results')
  <2>1. /\ sending' = TRUE /\ timer' = TRUE /\ packet' = None
        /\ Sends(jobs', results') = 0 /\ Steps(results', "timer") = 0
        /\ Deletes(jobs', results') = Deletes(jobs, results)
    BY <1>1, SendResult
  <2>2. One(deleting') = One(deletion' # None) + Deletes(jobs', results')
    BY <1>1, <2>1, LoopFacts
  <2>3. One(sending') = 1 /\ One(timer') = 1 /\ One(packet' # None) = 0
    BY <2>1 DEF One
  <2>4. /\ One(sending') = One(timer') + One(packet' # None) + Sends(jobs', results')
        /\ Steps(results', "timer") <= One(timer')
    BY <2>1, <2>3
  <2>. QED
    BY <1>1, <1>2, <1>3, <2>2, <2>4, LoopSums
<1>5. HeldOK(held', packet', jobs', results', Pending, Created)
  BY <1>1, <1>2, <1>3, CoreFacts, HeldStays DEF HeldOK
<1>. QED
  BY <1>1, <1>2, <1>3, <1>4, <1>5, CoreFacts, CoreStep

\* The scheduler posts the timer's function once.
LEMMA KeepsTimerDue ==
    ASSUME IInv, TimerDue
    PROVE  IInv'
<1> DEFINE r == Job("timer")
<1>1. /\ timer = TRUE /\ results' = Append(results, r)
      /\ \A i \in DOMAIN results : results[i].op # "timer"
      /\ timer' = timer /\ sending' = sending
      /\ deleting' = deleting /\ shown' = shown /\ held' = held /\ packet' = packet
      /\ deletion' = deletion /\ jobs' = jobs /\ rejected' = rejected
      /\ UNCHANGED <<store, commands, server, typed, lost>>
  BY CoreFacts DEF TimerDue, Result, core, network, user
<1>2. /\ Queued(jobs, rejected) /\ RemovedBeforeNext(jobs) /\ IsQueue(jobs)
      /\ IsQueue(results) /\ ResultsOK(results, Created)
  BY QueuedFirst
<1>3. IsResult(r, Created) /\ Class(r) = "timer" /\ ~OnHeld(r) /\ ~Confirms(r)
  BY DEF Job, IsResult, ResultOps, Class, OnHeld, Confirms
<1> HIDE DEF r
<1>4. /\ ResultsOK(results', Created) /\ IsQueue(results')
      /\ Elements(results') = Elements(results) \cup {r}
  BY <1>1, <1>2, <1>3, ResultAdded DEF ResultsOK
<1>5. LoopCounts(sending', timer', deleting', packet', deletion', jobs', results')
  <2>1. \A c \in Elements(results) : Class(c) # "timer"
    BY <1>1, <1>2 DEF Elements, Class, ResultsOK, IsResult, ResultOps
  <2>2. Steps(results, "timer") = 0
    BY <1>2, <2>1, StepsNone
  <2>3. /\ Steps(results', "timer") = 1
        /\ Sends(jobs, results') = Sends(jobs, results) + 0
        /\ Deletes(jobs, results') = Deletes(jobs, results) + 0
    BY <1>1, <1>2, <1>3, <2>2, AppendSteps, SumsOfResult
  <2>4. One(timer) = 1
    BY <1>1 DEF One
  <2>5. /\ One(sending) = One(timer) + One(packet # None) + Sends(jobs, results')
        /\ One(deleting) = One(deletion # None) + Deletes(jobs, results')
        /\ Steps(results', "timer") <= One(timer)
    BY <2>3, <2>4, LoopFacts
  <2>. QED
    BY <1>1, <1>2, <1>4, <2>5, LoopSums
<1>6. HeldOK(held', packet', jobs', results', Pending, Created)
  BY <1>1, <1>2, <1>3, <1>4, CoreFacts, HeldStays DEF HeldOK
<1>. QED
  BY <1>1, <1>2, <1>4, <1>5, <1>6, CoreFacts, CoreStep

LEMMA FirstJob ==
    ASSUME NEW op \in {"first", "firstDelete"}
    PROVE  /\ \A T, C, R : IsJob(Job(op), T, C, R)
           /\ Job(op).op = op /\ ~OnHeld(Job(op)) /\ ~Confirms(Job(op)) /\ ~Drops(Job(op))
           /\ Class(Job(op)) = IF op = "first" THEN "send" ELSE "delete"
  BY DEF Job, IsJob, JobOps, OnHeld, Confirms, Drops, Class

\* The send loop goes on: its next step is queued behind js, what was queued
\* and perhaps more.
LEMMA LoopGoesOn ==
    ASSUME IInv, UNCHANGED <<store, commands, server, typed, lost, rejected, deleting, deletion>>,
           ShownOK(shown'), sending' = TRUE, timer' = FALSE, packet' = None,
           ResultsOK(results', Created), Elements(results') \subseteq Elements(results),
           NEW js, Queued(js, rejected), RemovedBeforeNext(js), Sends(js, results') = 0,
           Deletes(js, results') = Deletes(jobs, results), Steps(results', "timer") = 0,
           NEW j, jobs' = js \o <<j>> \/ jobs' = Append(js, j),
           IsJob(j, typed, Created, rejected), ~Drops(j), Class(j) \in {"send", "confirm"},
           \/ /\ held' = held /\ js = jobs /\ held # None
              /\ Confirms(j) => held.entry.msg \in Created
           \/ /\ held' = None /\ j.op = "first"
              /\ \A c \in Elements(js) : Class(c) \notin {"send", "confirm"}
              /\ \A c \in Elements(results') : Class(c) # "send"
    PROVE  IInv'
<1>1. JobsOK(js, typed, Created, rejected) /\ IsQueue(js) /\ IsQueue(results')
  BY DEF Queued, JobsOK, ResultsOK
<1>2. jobs' = Append(js, j) /\ j.op # "insert"
  BY <1>1, Concatenations DEF Class
<1>3. /\ Queued(jobs', rejected) /\ IsQueue(jobs') /\ RemovedBeforeNext(jobs')
      /\ Elements(jobs') = Elements(js) \cup {j}
  BY <1>2, QueuedNext
<1>4. LoopCounts(sending', timer', deleting', packet', deletion', jobs', results')
  <2>1. Class(j) # "delete"
    OBVIOUS
  <2>2. /\ Sends(jobs', results') = Sends(js, results') + 1
        /\ Deletes(jobs', results') = Deletes(js, results') + 0
    BY <1>1, <1>2, <2>1, SumsOfJob
  <2>3. One(sending') = 1 /\ One(timer') = 0 /\ One(packet' # None) = 0
    BY DEF One
  <2>4. /\ One(deleting') = One(deletion' # None) + Deletes(jobs', results')
        /\ One(sending') = One(timer') + One(packet' # None) + Sends(jobs', results')
        /\ Steps(results', "timer") <= One(timer')
    BY <2>2, <2>3, LoopFacts
  <2>. QED
    BY <1>1, <1>3, <2>4, LoopSums
<1>5. HeldOK(held', packet', jobs', results', Pending, Created)
  <2>1. CASE held' = held /\ js = jobs /\ held # None /\ (Confirms(j) => held.entry.msg \in Created)
    <3>1. HeldOK(held, packet, jobs, results, Pending, Created)
      BY CoreFacts
    <3>2. \A c \in Elements(jobs') : \/ c \in Elements(jobs)
                                     \/ ~Drops(c) /\ (Confirms(c) => held.entry.msg \in Created)
      BY <1>3, <2>1
    <3>3. packet' # None => held # None /\ packet'.entry.iid = held.entry.iid
      OBVIOUS
    <3>4. /\ \A c \in Elements(jobs') : \/ c \in Elements(jobs)
                                        \/ /\ OnHeld(c) => held # None
                                           /\ Confirms(c) => held # None /\ held.entry.msg \in Created
                                           /\ Drops(c) => held = None
          /\ \A c \in Elements(results') : c \in Elements(results)
      BY <2>1, <3>2
    <3>5. HeldOK(held, packet', jobs', results', Pending, Created)
      BY <1>3, <3>1, <3>3, <3>4, HeldStays
    <3>. QED
      BY <2>1, <3>5
  <2>2. CASE /\ held' = None /\ j.op = "first"
             /\ \A c \in Elements(js) : Class(c) \notin {"send", "confirm"}
             /\ \A c \in Elements(results') : Class(c) # "send"
    <3>1. HeldOK(None, None, jobs', results', Pending, Created)
      BY <1>3, <2>2, HeldLeft DEF Queued
    <3>. QED
      BY <2>2, <3>1
  <2>. QED
    BY <2>1, <2>2
<1>. QED
  BY <1>3, <1>4, <1>5, CoreFacts, CoreStep

\* A step that leaves the entry the loop holds alone.
LEMMA QuietStep ==
    ASSUME IInv, UNCHANGED <<store, commands, server, typed, lost, rejected, held, packet, timer>>,
           ShownOK(shown'), ResultsOK(results', Created),
           Elements(results') \subseteq Elements(results),
           Steps(results', "timer") <= Steps(results, "timer"),
           Queued(jobs', rejected), RemovedBeforeNext(jobs'),
           \A c \in Elements(jobs') : \/ c \in Elements(jobs)
                                      \/ ~OnHeld(c) /\ ~Drops(c) /\ ~Confirms(c),
           sending' \in BOOLEAN, deleting' \in BOOLEAN, deletion' \in {deletion, None},
           NEW a \in Nat, One(sending') = One(sending) + a,
           Sends(jobs', results') = Sends(jobs, results) + a,
           NEW b \in Nat, One(deleting') = One(deleting) + b,
           One(deletion' # None) + Deletes(jobs', results')
             = One(deletion # None) + Deletes(jobs, results) + b
    PROVE  IInv'
<1>1. IsQueue(jobs') /\ IsQueue(results')
  BY DEF Queued, JobsOK, ResultsOK
<1>2. /\ \A x : One(x) \in Nat
      /\ Sends(jobs', results') \in Nat /\ Deletes(jobs', results') \in Nat
      /\ Steps(results', "timer") \in Nat
  BY <1>1, LoopSums DEF One
<1>3. One(deleting') = One(deletion' # None) + Deletes(jobs', results')
  BY <1>2, LoopFacts
<1>4. One(sending') = One(timer) + One(packet # None) + Sends(jobs', results')
  BY <1>2, LoopFacts
<1>5. Steps(results', "timer") <= One(timer)
  BY <1>1, <1>2, LoopFacts
<1>6. LoopCounts(sending', timer, deleting', packet, deletion', jobs', results')
  BY <1>1, <1>3, <1>4, <1>5, LoopSums
<1>7. HeldOK(held, packet, jobs, results, Pending, Created)
  BY CoreFacts
<1>8. packet # None => held # None /\ packet.entry.iid = held.entry.iid
  BY <1>7 DEF HeldOK
<1>9. HeldOK(held, packet, jobs', results', Pending, Created)
  <2>1. ASSUME NEW c \in Elements(jobs'), c \notin Elements(jobs)
        PROVE  ~OnHeld(c) /\ ~Drops(c) /\ ~Confirms(c)
    BY <2>1
  <2>2. \A c \in Elements(results') : c \in Elements(results)
    OBVIOUS
  <2>. QED
    BY <1>7, <1>8, <2>1, <2>2, HeldStays
<1>10. /\ LoopCounts(sending', timer', deleting', packet', deletion', jobs', results')
       /\ HeldOK(held', packet', jobs', results', Pending, Created)
       /\ timer' \in BOOLEAN
  BY <1>6, <1>9, CoreFacts
<1>. QED
  BY <1>10, CoreStep

\* The timer has fired, and the loop goes on.
LEMMA KeepsOnTimer ==
    ASSUME IInv, OnTimer
    PROVE  IInv'
<1>1. /\ NextResult("timer") /\ timer' = FALSE /\ sending' = sending /\ held' = None
      /\ jobs' = jobs \o <<Job("first")>> /\ packet' = packet
      /\ UNCHANGED <<store, commands, server, typed, lost, rejected, shown, deleting, deletion>>
  BY DEF OnTimer, Queue, network, user
<1>2. /\ results # <<>> /\ results' = Tail(results) /\ Head(results).op = "timer"
      /\ Head(results) \in Elements(results) /\ ResultsOK(results', Created)
      /\ Elements(results') \subseteq Elements(results)
  BY <1>1, ResultFacts
<1>3. Class(Head(results)) = "timer"
  BY <1>2 DEF Class
<1>4. Queued(jobs, rejected) /\ RemovedBeforeNext(jobs) /\ IsQueue(jobs) /\ IsQueue(results)
  BY QueuedFirst
<1>5. timer = TRUE /\ Steps(results, "timer") = 1
  <2>1. Steps(results, "timer") >= 1
    BY <1>2, <1>3, <1>4, StepsFound
  <2>. QED
    BY <2>1, CoreFacts, LoopFacts DEF One
<1>6. /\ packet = None /\ \A c \in Elements(jobs) : Class(c) \notin {"send", "confirm"}
      /\ \A c \in Elements(results) : Class(c) # "send"
      /\ sending = TRUE
  BY <1>5, CoreFacts, OneStep
<1>7. /\ Sends(jobs, results') = 0 /\ Deletes(jobs, results') = Deletes(jobs, results)
      /\ Steps(results', "timer") = 0
  <2>1. One(sending) = 1 /\ One(timer) = 1 /\ One(packet # None) = 0
    BY <1>5, <1>6 DEF One
  <2>2. /\ Sends(jobs, results') = Sends(jobs, results) - 0
        /\ Deletes(jobs, results') = Deletes(jobs, results) - 0
        /\ Steps(results', "timer") = Steps(results, "timer") - 1
    BY <1>2, <1>3, <1>4, SumsLeft
  <2>. QED
    BY <1>5, <2>1, <2>2, LoopFacts
<1>. QED
  BY <1>1, <1>2, <1>4, <1>5, <1>6, <1>7, FirstJob, CoreFacts, LoopGoesOn

LEMMA KeepsStampPostTime ==
    ASSUME IInv, StampPostTime
    PROVE  IInv'
<1> DEFINE j == Job("stamp")
<1>1. /\ NextResult("first") /\ held # None /\ timer' = timer /\ sending' = sending
      /\ held' = held /\ jobs' = jobs \o <<j>> /\ packet' = packet
      /\ UNCHANGED <<store, commands, server, typed, lost, rejected, shown, deleting, deletion>>
  BY DEF StampPostTime, Queue, core, network, user
<1>2. /\ IsJob(j, typed, Created, rejected) /\ ~Drops(j) /\ ~Confirms(j) /\ Class(j) = "send"
  BY DEF Job, IsJob, JobOps, Drops, Confirms, Class
<1> HIDE DEF j
<1>. QED
  BY <1>1, <1>2, ResultFacts, SendResult, QueuedFirst, CoreFacts, LoopGoesOn

\* The request is made from the entry the loop holds.
LEMMA KeepsSendPendingMessage ==
    ASSUME IInv, SendPendingMessage
    PROVE  IInv'
<1> DEFINE p == [entry |-> held.entry, handled |-> FALSE]
<1>1. /\ NextResult("stamped") /\ packet' = p /\ timer' = timer /\ sending' = sending
      /\ held' = held /\ jobs' = jobs
      /\ deleting' = deleting /\ shown' = shown
      /\ deletion' = deletion /\ rejected' = rejected
      /\ UNCHANGED <<store, commands, server, typed, lost>>
  BY DEF SendPendingMessage, core, user
<1>2. /\ Queued(jobs, rejected) /\ RemovedBeforeNext(jobs) /\ IsQueue(jobs)
      /\ IsQueue(results)
  BY QueuedFirst
<1>3. /\ results # <<>> /\ Head(results).op = "stamped"
      /\ Head(results) \in Elements(results)
      /\ ResultsOK(results', Created) /\ IsQueue(results')
      /\ Elements(results') \subseteq Elements(results)
  BY <1>1, ResultFacts
<1>4. held # None
  BY <1>3, CoreFacts DEF HeldOK, OnHeld
<1>5. /\ p # None /\ p.entry = held.entry /\ IsPacket(p, typed, Created)
  <2>1. DOMAIN p = {"entry", "handled"} /\ DOMAIN None = {"nothing"}
    BY DEF None
  <2>2. p.entry = held.entry /\ p.handled = FALSE
    OBVIOUS
  <2> HIDE DEF p
  <2>3. IsEntry(held.entry, typed, Created)
    BY <1>4, CoreFacts DEF IsHeld
  <2>. QED
    BY <2>1, <2>2, <2>3 DEF IsPacket
<1> HIDE DEF p
<1>6. LoopCounts(sending', timer', deleting', packet', deletion', jobs', results')
  <2>1. /\ sending' = TRUE /\ timer' = FALSE /\ packet' # None
        /\ Sends(jobs', results') = 0 /\ Steps(results', "timer") = 0
        /\ Deletes(jobs', results') = Deletes(jobs, results)
    BY <1>1, <1>5, SendResult
  <2>2. One(deleting') = One(deletion' # None) + Deletes(jobs', results')
    BY <1>1, <2>1, LoopFacts
  <2>3. One(sending') = 1 /\ One(timer') = 0 /\ One(packet' # None) = 1
    BY <2>1 DEF One
  <2>4. /\ One(sending') = One(timer') + One(packet' # None) + Sends(jobs', results')
        /\ Steps(results', "timer") <= One(timer')
    BY <2>1, <2>3
  <2>. QED
    BY <1>1, <1>2, <1>3, <2>2, <2>4, LoopSums
<1>7. HeldOK(held', packet', jobs', results', Pending, Created)
  BY <1>1, <1>2, <1>3, <1>4, <1>5, CoreFacts, HeldStays
<1>8. /\ LoopsOK'
      /\ LineOK(Stores(store.sent), Inserts(jobs'), Typing(commands))
      /\ Originals(Stores(store.sent), Inserts(jobs'), Typing(commands)) = Pending
      /\ JobsOK(jobs', typed, Created, rejected')
      /\ IsPacket(packet', typed, Created) /\ IsHeld(held', typed, Created)
      /\ IsDeletion(deletion')
      /\ shown' \in [Messages -> Nat]
      /\ \A m \in Messages : shown'[m] > 0 => m \in Created
  BY <1>1, <1>2, <1>5, <1>6, CoreFacts DEF LoopsOK, Queued, ShownOK
<1>. QED
  BY <1>1, <1>3, <1>7, <1>8, CoreFacts, CoreKeeps

\* The answer went to the history, and the entry is to be removed.
LEMMA KeepsOnHistoryUpdated ==
    ASSUME IInv, OnHistoryUpdated
    PROVE  IInv'
<1> DEFINE r == Head(results)
           j == [op |-> "remove", force |-> FALSE, loop |-> TRUE, text |-> r.text,
                 iid |-> held.entry.iid, id |-> r.id]
<1>1. /\ NextResult("history") /\ timer' = timer /\ sending' = sending
      /\ held' = held /\ jobs' = jobs \o <<j>> /\ packet' = packet
      /\ shown' = [shown EXCEPT ![held.entry.msg] = r.id]
      /\ UNCHANGED <<store, commands, server, typed, lost, rejected, deleting, deletion>>
  BY DEF OnHistoryUpdated, Queue, network, user
<1>2. /\ r.op = "history" /\ r \in Elements(results) /\ r.id \in Nat \ {0}
      /\ ResultsOK(results', Created) /\ Elements(results') \subseteq Elements(results)
  BY <1>1, ResultFacts DEF IsResult
<1>3. held # None /\ held.entry.msg \in Created
  BY <1>2, CoreFacts DEF HeldOK, Confirms
<1>4. IsEntry(held.entry, typed, Created)
  BY <1>3, CoreFacts DEF IsHeld
<1>5. IsJob(j, typed, Created, rejected) /\ ~Drops(j) /\ Class(j) = "confirm"
  <2>1. held.entry.iid \in Messages \X Nat /\ held.entry.iid[1] = held.entry.msg
    BY <1>4 DEF IsEntry, EntryRecord
  <2>. QED
    BY <1>2, <1>3, <2>1 DEF IsJob, JobOps, Drops, Class
<1>6. ShownOK(shown')
  BY <1>1, <1>2, <1>3, CoreFacts, ShownSet
<1> HIDE DEF j
<1>. QED
  BY <1>1, <1>2, <1>3, <1>5, <1>6, SendResult, QueuedFirst, LoopGoesOn

\* The entry was removed, and the loop takes the next one.
LEMMA KeepsOnRemoved ==
    ASSUME IInv, OnRemoved
    PROVE  IInv'
<1>1. /\ NextResult("removed") /\ timer' = timer /\ sending' = sending
      /\ held' = None /\ jobs' = jobs \o <<Job("first")>> /\ packet' = packet
      /\ UNCHANGED <<store, commands, server, typed, lost, rejected, shown, deleting, deletion>>
  BY DEF OnRemoved, Queue, core, network, user
<1>. QED
  BY <1>1, FirstJob, ResultFacts, SendResult, QueuedFirst, CoreFacts, LoopGoesOn

LEMMA KeepsOnImstateDone ==
    ASSUME IInv, OnImstateDone
    PROVE  IInv'
<1> DEFINE r == Head(results)
<1>1. /\ NextResult("imstate") /\ timer' = timer /\ sending' = sending
      /\ held' = held /\ jobs' = jobs
      /\ deleting' = deleting /\ packet' = packet
      /\ shown' = [shown EXCEPT ![r.msg] = r.id]
      /\ deletion' = deletion /\ rejected' = rejected
      /\ UNCHANGED <<store, commands, server, typed, lost>>
  BY DEF OnImstateDone, network, user
<1>2. /\ Queued(jobs, rejected) /\ RemovedBeforeNext(jobs) /\ IsQueue(jobs)
      /\ IsQueue(results)
  BY QueuedFirst
<1>3. /\ results # <<>> /\ results' = Tail(results)
      /\ r.op = "imstate" /\ r.id \in Nat \ {0} /\ r.msg \in Created
      /\ ResultsOK(results', Created) /\ IsQueue(results')
      /\ Elements(results') \subseteq Elements(results)
  BY <1>1, ResultFacts DEF IsResult
<1>4. LoopCounts(sending', timer', deleting', packet', deletion', jobs', results')
  <2>1. Class(r) = "other"
    BY <1>3 DEF Class
  <2>2. /\ Sends(jobs, results') = Sends(jobs, results) - 0
        /\ Deletes(jobs, results') = Deletes(jobs, results) - 0
        /\ Steps(results', "timer") = Steps(results, "timer") - 0
    BY <1>2, <1>3, <2>1, SumsLeft
  <2>3. /\ One(sending') = One(timer') + One(packet' # None) + Sends(jobs', results')
        /\ One(deleting') = One(deletion' # None) + Deletes(jobs', results')
        /\ Steps(results', "timer") <= One(timer')
    BY <1>1, <2>2, LoopFacts
  <2>. QED
    BY <1>1, <1>2, <1>3, <2>3, LoopSums
<1>5. HeldOK(held', packet', jobs', results', Pending, Created)
  BY <1>1, <1>2, <1>3, CoreFacts, HeldStays DEF HeldOK
<1>6. ShownOK(shown')
  BY <1>1, <1>3, CoreFacts, ShownSet
<1>. QED
  BY <1>1, <1>2, <1>3, <1>4, <1>5, <1>6, CoreFacts, CoreStep

-----------------------------------------------------------------------------
(* The answers of the server.                                              *)

LEMMA PacketFacts ==
    ASSUME IInv, packet # None
    PROVE  /\ held # None /\ IsEntry(held.entry, typed, Created)
           /\ IsEntry(packet.entry, typed, Created) /\ packet.handled \in BOOLEAN
           /\ held.entry.iid = packet.entry.iid /\ held.entry.msg = packet.entry.msg
           /\ packet.entry.msg \in Messages
           /\ packet.handled => packet.entry.msg \in Created
           /\ \A c \in Elements(jobs) : Class(c) \notin {"send", "confirm"} /\ c.op # "first"
           /\ \A c \in Elements(results) : Class(c) # "send"
           /\ Sends(jobs, results) = 0 /\ sending = TRUE /\ timer = FALSE
           /\ Steps(results, "timer") = 0
<1>1. held # None /\ packet.entry.iid = held.entry.iid
  BY CoreFacts DEF HeldOK
<1>2. /\ IsEntry(held.entry, typed, Created) /\ IsEntry(packet.entry, typed, Created)
      /\ packet.handled \in BOOLEAN
      /\ packet.handled => packet.entry.msg \in Created
  BY <1>1, CoreFacts DEF IsHeld, IsPacket
<1>3. held.entry.msg = packet.entry.msg /\ packet.entry.msg \in Messages
  BY <1>1, <1>2 DEF IsEntry, EntryRecord
<1>4. /\ \A c \in Elements(jobs) : Class(c) \notin {"send", "confirm"}
      /\ \A c \in Elements(results) : Class(c) # "send"
      /\ sending = TRUE /\ timer = FALSE
  BY CoreFacts, OneStep
<1>5. Sends(jobs, results) = 0 /\ Steps(results, "timer") = 0
  <2>1. One(sending) = 1 /\ One(timer) = 0 /\ One(packet # None) = 1
    BY <1>4 DEF One
  <2>. QED
    BY <2>1, LoopFacts
<1>6. \A c \in Elements(jobs) : c.op # "first"
  BY <1>4 DEF Class
<1>. QED
  BY <1>1, <1>2, <1>3, <1>4, <1>5, <1>6

\* The server numbers messages as it creates them.
LEMMA MsgIdFacts ==
    ASSUME IInv, NEW m \in Created
    PROVE  MsgId(m) \in Nat \ {0}
<1>1. server.order \in Seq(Messages)
  BY CoreFacts
<1>2. \E i \in DOMAIN server.order : server.order[i] = m
  BY DEF Created
<1>3. MsgId(m) \in DOMAIN server.order
  BY <1>2 DEF MsgId
<1>. QED
  BY <1>1, <1>3

LEMMA KeepsOnSent ==
    ASSUME IInv, OnSent
    PROVE  IInv'
<1> DEFINE m == packet.entry.msg
           j == [op |-> "history", id |-> MsgId(m), text |-> server.text[m]]
<1>1. /\ packet # None /\ packet.handled /\ timer' = timer /\ sending' = sending
      /\ held' = held /\ jobs' = jobs \o <<j>> /\ results' = results /\ packet' = None
      /\ UNCHANGED <<store, commands, server, typed, lost, rejected, shown, deleting, deletion>>
  BY DEF OnSent, Queue, core, user
<1>2. held # None /\ held.entry.msg \in Created /\ m \in Created
  BY <1>1, PacketFacts
<1>3. IsJob(j, typed, Created, rejected) /\ ~Drops(j) /\ Class(j) = "send"
  BY <1>2, MsgIdFacts DEF IsJob, JobOps, Drops, Class
<1> HIDE DEF j, m
<1>. QED
  BY <1>1, <1>2, <1>3, PacketFacts, QueuedFirst, CoreFacts, LoopGoesOn

LEMMA KeepsOnAccepted ==
    ASSUME IInv, OnAccepted
    PROVE  IInv'
<1> DEFINE i == [op |-> "replace", edit |-> FALSE, entry |-> held.entry]
           j == Job("first")
           js == Append(jobs, i)
<1>1. /\ packet # None /\ timer' = timer /\ sending' = sending
      /\ held' = None /\ jobs' = jobs \o <<i, j>> /\ results' = results /\ packet' = None
      /\ UNCHANGED <<store, commands, server, typed, lost, rejected, shown, deleting, deletion>>
  BY DEF OnAccepted, Queue, core, user
<1>2. /\ Queued(jobs, rejected) /\ RemovedBeforeNext(jobs) /\ IsQueue(jobs)
      /\ IsQueue(results) /\ ResultsOK(results, Created)
  BY QueuedFirst
<1>3. IsEntry(held.entry, typed, Created)
  BY <1>1, PacketFacts
<1>4. /\ IsJob(i, typed, Created, rejected) /\ i.op = "replace" /\ ~Drops(i)
      /\ Class(i) = "other"
  BY <1>3 DEF IsJob, JobOps, Drops, Class
<1>5. /\ IsJob(j, typed, Created, rejected) /\ j.op = "first" /\ ~Drops(j)
      /\ Class(j) = "send"
  BY FirstJob
<1> HIDE DEF i, j
<1>6. jobs' = Append(js, j)
  BY <1>1, <1>2, Concatenations
<1>7. /\ Queued(js, rejected) /\ RemovedBeforeNext(js)
      /\ Elements(js) = Elements(jobs) \cup {i}
  BY <1>2, <1>4, QueuedNext
<1>8. /\ Sends(js, results) = Sends(jobs, results) + 0
      /\ Deletes(js, results) = Deletes(jobs, results) + 0
  BY <1>2, <1>4, SumsOfJob
<1> HIDE DEF js
<1>9. /\ sending = TRUE /\ timer = FALSE /\ Steps(results, "timer") = 0
      /\ Sends(js, results) = 0 /\ Deletes(js, results) = Deletes(jobs, results)
      /\ \A c \in Elements(js) : Class(c) \notin {"send", "confirm"}
      /\ \A c \in Elements(results) : Class(c) # "send"
  BY <1>1, <1>4, <1>7, <1>8, PacketFacts, LoopFacts
<1>. QED
  BY <1>1, <1>2, <1>5, <1>6, <1>7, <1>9, CoreFacts, LoopGoesOn

\* The server has answered, and the loop stops.
LEMMA LoopStops ==
    ASSUME IInv, packet # None, packet' = None, held' = None, sending' = FALSE,
           UNCHANGED <<store, commands, server, typed, lost, results, timer, deleting,
                       shown, deletion>>,
           rejected \subseteq rejected', Queued(jobs', rejected'), RemovedBeforeNext(jobs'),
           \A c \in Elements(jobs') : Class(c) \notin {"send", "confirm"},
           Sends(jobs', results) = 0, Deletes(jobs', results) = Deletes(jobs, results)
    PROVE  IInv'
<1>1. /\ JobsOK(jobs', typed, Created, rejected') /\ IsQueue(jobs') /\ IsQueue(results)
      /\ ResultsOK(results, Created)
  BY QueuedFirst DEF Queued, JobsOK
<1>2. LoopCounts(sending', timer', deleting', packet', deletion', jobs', results')
  <2>1. timer = FALSE /\ Steps(results, "timer") = 0
    BY PacketFacts
  <2>2. One(sending') = 0 /\ One(timer) = 0 /\ One(packet' # None) = 0
    BY <2>1 DEF One
  <2>3. /\ One(deleting) = One(deletion # None) + Deletes(jobs', results)
        /\ One(sending') = One(timer) + One(packet' # None) + Sends(jobs', results)
        /\ Steps(results, "timer") <= One(timer)
    BY <2>1, <2>2, LoopFacts
  <2>. QED
    BY <1>1, <2>3, LoopSums
<1>3. HeldOK(None, None, jobs', results, Pending, Created)
  <2>1. \A c \in Elements(results) : Class(c) # "send"
    BY PacketFacts
  <2>. QED
    BY <1>1, <2>1, HeldLeft
<1>. QED
  BY <1>1, <1>2, <1>3, CoreFacts, CoreStep

LEMMA KeepsOnSendFailed ==
    ASSUME IInv, OnSendFailed
    PROVE  IInv'
<1>1. /\ packet # None /\ timer' = timer /\ sending' = FALSE
      /\ held' = None /\ jobs' = jobs /\ results' = results
      /\ deleting' = deleting /\ shown' = shown /\ packet' = None
      /\ deletion' = deletion /\ rejected' = rejected
      /\ UNCHANGED <<store, commands, server, typed, lost>>
  BY DEF OnSendFailed, user
<1>2. /\ Queued(jobs, rejected) /\ RemovedBeforeNext(jobs) /\ IsQueue(jobs)
      /\ IsQueue(results) /\ ResultsOK(results, Created)
  BY QueuedFirst
<1>3. /\ Sends(jobs, results) = 0
      /\ \A c \in Elements(jobs) : Class(c) \notin {"send", "confirm"}
  BY <1>1, PacketFacts
<1>. QED
  BY <1>1, <1>2, <1>3, LoopStops

\* The entry the server refused is dropped.
LEMMA KeepsOnRejected ==
    ASSUME IInv, OnRejected
    PROVE  IInv'
<1> DEFINE j == [op |-> "remove", force |-> TRUE, loop |-> FALSE,
                 text |-> server.text[packet.entry.msg],
                 iid |-> held.entry.iid, id |-> held.entry.msgid]
           R == rejected \cup {packet.entry.msg}
<1>1. /\ packet # None /\ timer' = timer /\ sending' = FALSE
      /\ held' = None /\ jobs' = jobs \o <<j>> /\ results' = results
      /\ deleting' = deleting /\ shown' = shown /\ packet' = None
      /\ deletion' = deletion /\ rejected' = R
      /\ UNCHANGED <<store, commands, server, typed, lost>>
  BY DEF OnRejected, Queue
<1>2. /\ rejected \subseteq R /\ Queued(jobs, R) /\ RemovedBeforeNext(jobs)
      /\ IsQueue(jobs) /\ IsQueue(results) /\ ResultsOK(results, Created)
  BY QueuedFirst
<1>3. /\ IsEntry(held.entry, typed, Created) /\ held.entry.msg \in R
      /\ \A c \in Elements(jobs) : c.op # "first"
  BY <1>1, PacketFacts
<1>4. /\ IsJob(j, typed, Created, R) /\ j.op = "remove" /\ Class(j) = "other"
  <2>1. /\ held.entry.iid \in Messages \X Nat /\ held.entry.iid[1] = held.entry.msg
        /\ held.entry.msgid \in Nat
    BY <1>3 DEF IsEntry, EntryRecord
  <2> HIDE DEF R
  <2>. QED
    BY <1>3, <2>1 DEF IsJob, JobOps, Class
<1> HIDE DEF j, R
<1>5. jobs' = Append(jobs, j)
  BY <1>1, <1>2, Concatenations
<1>6. /\ Queued(jobs', R) /\ IsQueue(jobs') /\ RemovedBeforeNext(jobs')
      /\ Elements(jobs') = Elements(jobs) \cup {j}
  BY <1>2, <1>3, <1>4, <1>5, QueuedNext
<1>7. /\ Sends(jobs', results) = Sends(jobs, results) + 0
      /\ Deletes(jobs', results) = Deletes(jobs, results) + 0
  BY <1>2, <1>4, <1>5, SumsOfJob
<1>8. /\ Sends(jobs', results) = 0 /\ Deletes(jobs', results) = Deletes(jobs, results)
      /\ \A c \in Elements(jobs') : Class(c) \notin {"send", "confirm"}
  BY <1>1, <1>4, <1>6, <1>7, PacketFacts, LoopFacts
<1>. QED
  BY <1>1, <1>2, <1>6, <1>8, LoopStops

-----------------------------------------------------------------------------
(* Starting a loop that may be active.                                     *)

FirstAdded(js, active, op) == IF active THEN js ELSE Append(js, Job(op))

LEMMA FirstIfAdds ==
    ASSUME NEW js, IsQueue(js), NEW active \in BOOLEAN, NEW op
    PROVE  /\ js \o FirstIf(active, op) = FirstAdded(js, active, op)
           /\ \A a : js \o (<<a>> \o FirstIf(active, op)) = FirstAdded(Append(js, a), active, op)
<1>1. CASE active
  <2>1. FirstIf(active, op) = <<>> /\ \A q : FirstAdded(q, active, op) = q
    BY <1>1 DEF FirstIf, FirstAdded
  <2>2. ASSUME NEW a PROVE <<a>> \o FirstIf(active, op) = <<a>>
    BY <2>1
  <2>3. js \o <<>> = js /\ \A a : js \o <<a>> = Append(js, a)
    BY Concatenations
  <2>4. ASSUME NEW a PROVE js \o (<<a>> \o FirstIf(active, op)) = Append(js, a)
    BY <2>2, <2>3
  <2>. QED
    BY <2>1, <2>3, <2>4
<1>2. CASE ~active
  <2> DEFINE j == Job(op)
  <2>1. FirstIf(active, op) = <<j>> /\ \A q : FirstAdded(q, active, op) = Append(q, j)
    BY <1>2 DEF FirstIf, FirstAdded
  <2> HIDE DEF j
  <2>2. ASSUME NEW a PROVE js \o (<<a>> \o FirstIf(active, op)) = Append(Append(js, a), j)
    <3> DEFINE V == Elements(js) \cup {a, j}
    <3>1. js \in Seq(V) /\ <<a>> \in Seq(V) /\ <<j>> \in Seq(V)
      BY DEF IsQueue
    <3>2. js \o (<<a>> \o <<j>>) = (js \o <<a>>) \o <<j>>
      <4> DEFINE p == <<a>>
                 q == <<j>>
      <4>1. p \in Seq(V) /\ q \in Seq(V) /\ js \in Seq(V)
        BY <3>1
      <4> HIDE DEF p, q, V
      <4>2. js \o (p \o q) = (js \o p) \o q
        BY <4>1
      <4>. QED
        BY <4>2 DEF p, q
    <3>3. js \o <<a>> = Append(js, a) /\ IsQueue(Append(js, a))
      BY Concatenations, QueueAppend
    <3>4. Append(js, a) \o <<j>> = Append(Append(js, a), j)
      BY <3>3, Concatenations
    <3>. QED
      BY <2>1, <3>2, <3>3, <3>4
  <2>3. js \o <<j>> = Append(js, j)
    BY Concatenations
  <2>. QED
    BY <2>1, <2>2, <2>3
<1>. QED
  BY <1>1, <1>2

LEMMA FirstIfSums ==
    ASSUME NEW js, NEW rs, IsQueue(js), IsQueue(rs), NEW active \in BOOLEAN
    PROVE  /\ Sends(FirstAdded(js, active, "first"), rs) = Sends(js, rs) + One(~active)
           /\ Deletes(FirstAdded(js, active, "first"), rs) = Deletes(js, rs)
           /\ Sends(FirstAdded(js, active, "firstDelete"), rs) = Sends(js, rs)
           /\ Deletes(FirstAdded(js, active, "firstDelete"), rs)
              = Deletes(js, rs) + One(~active)
<1>1. Sends(js, rs) \in Nat /\ Deletes(js, rs) \in Nat
  BY LoopSums
<1>2. CASE active
  <2>1. One(~active) = 0 /\ \A op : FirstAdded(js, active, op) = js
    BY <1>2 DEF One, FirstAdded
  <2>. QED
    BY <1>1, <2>1
<1>3. CASE ~active
  <2> DEFINE f == Append(js, Job("first"))
             g == Append(js, Job("firstDelete"))
  <2>1. /\ One(~active) = 1 /\ FirstAdded(js, active, "first") = f
        /\ FirstAdded(js, active, "firstDelete") = g
    BY <1>3 DEF One, FirstAdded
  <2>2. Class(Job("first")) = "send" /\ Class(Job("firstDelete")) = "delete"
    BY FirstJob
  <2>3. /\ Sends(f, rs) = Sends(js, rs) + 1 /\ Deletes(f, rs) = Deletes(js, rs) + 0
        /\ Sends(g, rs) = Sends(js, rs) + 0 /\ Deletes(g, rs) = Deletes(js, rs) + 1
    BY <2>2, SumsOfJob
  <2> HIDE DEF f, g
  <2>4. Deletes(f, rs) = Deletes(js, rs) /\ Sends(g, rs) = Sends(js, rs)
    BY <1>1, <2>3
  <2>. QED
    BY <2>1, <2>3, <2>4
<1>. QED
  BY <1>2, <1>3

LEMMA FirstIfKeeps ==
    ASSUME NEW T, NEW C, NEW R, NEW js, JobsOK(js, T, C, R),
           NEW active \in BOOLEAN, NEW op \in {"first", "firstDelete"}
    PROVE  /\ JobsOK(FirstAdded(js, active, op), T, C, R)
           /\ RemovedBeforeNext(js) => RemovedBeforeNext(FirstAdded(js, active, op))
           /\ Elements(FirstAdded(js, active, op)) \subseteq Elements(js) \cup {Job(op)}
<1>1. IsJob(Job(op), T, C, R) /\ ~Drops(Job(op))
  BY FirstJob
<1>2. /\ JobsOK(Append(js, Job(op)), T, C, R)
      /\ Elements(Append(js, Job(op))) = Elements(js) \cup {Job(op)}
      /\ RemovedBeforeNext(js) => RemovedBeforeNext(Append(js, Job(op)))
  BY <1>1, JobAdded
<1>. QED
  BY <1>2 DEF FirstAdded

LEMMA FirstIfLine ==
    ASSUME NEW T, NEW C, NEW R, NEW js, JobsOK(js, T, C, R),
           NEW active \in BOOLEAN, NEW op \in {"first", "firstDelete"},
           NEW S, NEW K, LineOK(S, Inserts(js), K)
    PROVE  /\ LineOK(S, Inserts(FirstAdded(js, active, op)), K)
           /\ Originals(S, Inserts(FirstAdded(js, active, op)), K)
              = Originals(S, Inserts(js), K)
<1>1. IsJob(Job(op), T, C, R) /\ Job(op).op # "insert"
  BY FirstJob
<1>2. /\ LineOK(S, Inserts(Append(js, Job(op))), K)
      /\ Originals(S, Inserts(Append(js, Job(op))), K) = Originals(S, Inserts(js), K)
  BY <1>1, QuietAdded
<1>. QED
  BY <1>2 DEF FirstAdded

LEMMA FirstIfQueued ==
    ASSUME NEW R, NEW js, Queued(js, R),
           NEW active \in BOOLEAN, NEW op \in {"first", "firstDelete"}
    PROVE  /\ Queued(FirstAdded(js, active, op), R) /\ IsQueue(FirstAdded(js, active, op))
           /\ RemovedBeforeNext(js) => RemovedBeforeNext(FirstAdded(js, active, op))
           /\ Elements(FirstAdded(js, active, op)) \subseteq Elements(js) \cup {Job(op)}
<1> DEFINE r == FirstAdded(js, active, op)
<1>1. /\ JobsOK(js, typed, Created, R)
      /\ LineOK(Stores(store.sent), Inserts(js), Typing(commands))
      /\ Originals(Stores(store.sent), Inserts(js), Typing(commands)) = Pending
  BY DEF Queued
<1>2. /\ JobsOK(r, typed, Created, R)
      /\ RemovedBeforeNext(js) => RemovedBeforeNext(r)
      /\ Elements(r) \subseteq Elements(js) \cup {Job(op)}
  BY <1>1, FirstIfKeeps
<1>3. /\ LineOK(Stores(store.sent), Inserts(r), Typing(commands))
      /\ Originals(Stores(store.sent), Inserts(r), Typing(commands)) = Pending
  BY <1>1, FirstIfLine
<1> HIDE DEF r
<1>. QED
  BY <1>2, <1>3 DEF Queued, JobsOK, r

\* A loop that starts is one step, a loop that is active none.
LEMMA LoopsStarted ==
    ASSUME NEW s \in BOOLEAN
    PROVE  One(TRUE) = One(s) + One(~s) /\ One(s) \in Nat /\ One(~s) \in Nat
  BY DEF One

LEMMA KeepsResume ==
    ASSUME IInv, Resume
    PROVE  IInv'
<1> DEFINE js == FirstAdded(jobs, sending, "first")
<1>1. /\ sending' = TRUE /\ deleting' = TRUE /\ timer' = timer
      /\ jobs' = jobs \o (FirstIf(sending, "first") \o FirstIf(deleting, "firstDelete"))
      /\ held' = held /\ results' = results /\ shown' = shown /\ packet' = packet
      /\ deletion' = deletion /\ rejected' = rejected
      /\ UNCHANGED <<store, commands, server, typed, lost>>
  BY DEF Resume, Queue, network, user
<1>2. /\ Queued(jobs, rejected) /\ RemovedBeforeNext(jobs)
      /\ IsQueue(jobs) /\ IsQueue(results) /\ ResultsOK(results, Created)
  BY QueuedFirst
<1>3. sending \in BOOLEAN /\ deleting \in BOOLEAN
  BY CoreFacts
<1>4. /\ Queued(js, rejected) /\ RemovedBeforeNext(js) /\ IsQueue(js)
      /\ Elements(js) \subseteq Elements(jobs) \cup {Job("first")}
  BY <1>2, <1>3, FirstIfQueued
<1>5. jobs' = FirstAdded(js, deleting, "firstDelete")
  <2> DEFINE q == FirstIf(deleting, "firstDelete")
  <2>1. CASE sending
    <3>1. FirstIf(sending, "first") = <<>> /\ js = jobs
      BY <2>1 DEF FirstIf, FirstAdded
    <3>2. <<>> \o q = q
      <4>1. q = <<>> \/ q = <<Job("firstDelete")>>
        BY DEF FirstIf
      <4> HIDE DEF q
      <4>2. <<>> \o <<>> = <<>> /\ \A c : <<>> \o <<c>> = Append(<<>>, c)
        BY QueueEmpty, Concatenations
      <4>. QED
        BY <4>1, <4>2
    <3>3. jobs' = jobs \o q
      BY <1>1, <3>1, <3>2
    <3>. QED
      BY <1>2, <1>3, <3>1, <3>3, FirstIfAdds
  <2>2. CASE ~sending
    <3> DEFINE j == Job("first")
    <3>1. FirstIf(sending, "first") = <<j>> /\ js = Append(jobs, j)
      BY <2>2 DEF FirstIf, FirstAdded
    <3>2. jobs' = jobs \o (<<j>> \o q)
      BY <1>1, <3>1
    <3> HIDE DEF j, js
    <3>3. jobs' = FirstAdded(Append(jobs, j), deleting, "firstDelete")
      BY <1>2, <1>3, <3>2, FirstIfAdds
    <3>. QED
      BY <3>1, <3>3
  <2>. QED
    BY <1>3, <2>1, <2>2
<1>6. /\ Sends(js, results) = Sends(jobs, results) + One(~sending)
      /\ Deletes(js, results) = Deletes(jobs, results)
  BY <1>2, <1>3, FirstIfSums
<1> HIDE DEF js
<1>7. /\ Queued(jobs', rejected) /\ RemovedBeforeNext(jobs') /\ IsQueue(jobs')
      /\ Elements(jobs') \subseteq Elements(js) \cup {Job("firstDelete")}
  BY <1>3, <1>4, <1>5, FirstIfQueued
<1>8. /\ Sends(jobs', results) = Sends(jobs, results) + One(~sending)
      /\ Deletes(jobs', results) = Deletes(jobs, results) + One(~deleting)
  BY <1>2, <1>3, <1>4, <1>5, <1>6, FirstIfSums
<1>9. /\ One(sending') = One(sending) + One(~sending) /\ One(~sending) \in Nat
      /\ One(deleting') = One(deleting) + One(~deleting) /\ One(~deleting) \in Nat
      /\ One(deletion # None) \in Nat
  BY <1>1, <1>3, LoopsStarted DEF One
<1>10. /\ One(deletion' # None) + Deletes(jobs', results')
            = One(deletion # None) + Deletes(jobs, results) + One(~deleting)
       /\ Steps(results', "timer") <= Steps(results, "timer")
  BY <1>1, <1>8, <1>9, LoopFacts
<1>11. \A c \in Elements(jobs') : \/ c \in Elements(jobs)
                                  \/ ~OnHeld(c) /\ ~Drops(c) /\ ~Confirms(c)
  BY <1>4, <1>7, FirstJob
<1>. QED
  BY <1>1, <1>2, <1>7, <1>8, <1>9, <1>10, <1>11, CoreFacts, QuietStep

-----------------------------------------------------------------------------
(* The delete loop.                                                        *)

LEMMA DeletionFacts ==
    ASSUME IInv, deletion # None
    PROVE  deleting = TRUE /\ Deletes(jobs, results) = 0
<1>1. One(deletion # None) = 1
  BY DEF One
<1>. QED
  BY <1>1, CoreFacts, LoopFacts DEF One

LEMMA DeleteResult ==
    ASSUME IInv, NextResult("firstDelete")
    PROVE  /\ deleting = TRUE /\ deletion = None
           /\ Sends(jobs, results') = Sends(jobs, results)
           /\ Deletes(jobs, results') = 0
           /\ Steps(results', "timer") = Steps(results, "timer")
<1>1. /\ results # <<>> /\ results' = Tail(results) /\ Head(results).op = "firstDelete"
      /\ Head(results) \in Elements(results)
  BY ResultFacts
<1>2. Class(Head(results)) = "delete"
  BY <1>1 DEF Class
<1>3. IsQueue(jobs) /\ IsQueue(results)
  BY QueuedFirst
<1>4. Steps(results, "delete") >= 1 /\ Steps(results, "delete") \in Nat
      /\ Steps(jobs, "delete") \in Nat
  BY <1>1, <1>2, <1>3, StepsFound, OfFinite
<1>5. Deletes(jobs, results) >= 1
  BY <1>4 DEF Deletes
<1>6. /\ Sends(jobs, results') = Sends(jobs, results) - 0
      /\ Deletes(jobs, results') = Deletes(jobs, results) - 1
      /\ Steps(results', "timer") = Steps(results, "timer") - 0
  BY <1>1, <1>2, <1>3, SumsLeft
<1>7. One(deleting) \in {0, 1} /\ One(deletion # None) \in {0, 1}
  BY DEF One
<1>8. One(deleting) = 1 /\ One(deletion # None) = 0 /\ Deletes(jobs, results) = 1
  BY <1>5, <1>7, LoopFacts
<1>9. deleting = TRUE /\ deletion = None
  BY <1>8, CoreFacts DEF One
<1>. QED
  BY <1>6, <1>8, <1>9, LoopFacts

LEMMA KeepsDeleteLoopEnds ==
    ASSUME IInv, DeleteLoopEnds
    PROVE  IInv'
<1>1. /\ NextResult("firstDelete") /\ deleting' = FALSE /\ timer' = timer
      /\ sending' = sending /\ held' = held /\ jobs' = jobs
      /\ shown' = shown /\ packet' = packet
      /\ deletion' = deletion /\ rejected' = rejected
      /\ UNCHANGED <<store, commands, server, typed, lost>>
  BY DEF DeleteLoopEnds, network, user
<1>2. /\ Queued(jobs, rejected) /\ RemovedBeforeNext(jobs) /\ IsQueue(jobs)
      /\ IsQueue(results)
  BY QueuedFirst
<1>3. /\ ResultsOK(results', Created) /\ IsQueue(results')
      /\ Elements(results') \subseteq Elements(results)
  BY <1>1, ResultFacts
<1>4. LoopCounts(sending', timer', deleting', packet', deletion', jobs', results')
  <2>1. One(deleting') = 0 /\ One(deletion' # None) = 0
    BY <1>1, DeleteResult DEF One
  <2>2. /\ One(sending') = One(timer') + One(packet' # None) + Sends(jobs', results')
        /\ One(deleting') = One(deletion' # None) + Deletes(jobs', results')
        /\ Steps(results', "timer") <= One(timer')
    BY <1>1, <2>1, LoopFacts, DeleteResult
  <2>. QED
    BY <1>1, <1>2, <1>3, <2>2, LoopSums
<1>5. HeldOK(held', packet', jobs', results', Pending, Created)
  BY <1>1, <1>2, <1>3, CoreFacts, HeldStays DEF HeldOK
<1>. QED
  BY <1>1, <1>2, <1>3, <1>4, <1>5, CoreFacts, CoreStep

LEMMA KeepsSendDeletion ==
    ASSUME IInv, SendDeletion
    PROVE  IInv'
<1> DEFINE x == [id |-> Head(results).id, handled |-> FALSE]
<1>1. /\ NextResult("firstDelete") /\ deleting' = deleting /\ timer' = timer
      /\ sending' = sending /\ held' = held /\ jobs' = jobs
      /\ shown' = shown /\ packet' = packet
      /\ deletion' = x /\ rejected' = rejected
      /\ UNCHANGED <<store, commands, server, typed, lost>>
  BY DEF SendDeletion, core, user
<1>2. /\ Queued(jobs, rejected) /\ RemovedBeforeNext(jobs) /\ IsQueue(jobs)
      /\ IsQueue(results)
  BY QueuedFirst
<1>3. /\ ResultsOK(results', Created) /\ IsQueue(results')
      /\ Elements(results') \subseteq Elements(results)
  BY <1>1, ResultFacts
<1>4. x # None /\ IsDeletion(x)
  <2>1. DOMAIN x = {"id", "handled"} /\ DOMAIN None = {"nothing"}
    BY DEF None
  <2> HIDE DEF x
  <2>. QED
    BY <2>1 DEF IsDeletion
<1> HIDE DEF x
<1>5. LoopCounts(sending', timer', deleting', packet', deletion', jobs', results')
  <2>1. One(deleting') = 1 /\ One(deletion' # None) = 1
    BY <1>1, <1>4, DeleteResult DEF One
  <2>2. /\ One(sending') = One(timer') + One(packet' # None) + Sends(jobs', results')
        /\ One(deleting') = One(deletion' # None) + Deletes(jobs', results')
        /\ Steps(results', "timer") <= One(timer')
    BY <1>1, <2>1, LoopFacts, DeleteResult
  <2>. QED
    BY <1>1, <1>2, <1>3, <2>2, LoopSums
<1>6. HeldOK(held', packet', jobs', results', Pending, Created)
  BY <1>1, <1>2, <1>3, CoreFacts, HeldStays DEF HeldOK
<1>7. /\ LoopsOK'
      /\ LineOK(Stores(store.sent), Inserts(jobs'), Typing(commands))
      /\ Originals(Stores(store.sent), Inserts(jobs'), Typing(commands)) = Pending
      /\ JobsOK(jobs', typed, Created, rejected')
      /\ IsPacket(packet', typed, Created) /\ IsHeld(held', typed, Created)
      /\ IsDeletion(deletion')
      /\ shown' \in [Messages -> Nat]
      /\ \A m \in Messages : shown'[m] > 0 => m \in Created
  BY <1>1, <1>2, <1>4, <1>5, CoreFacts DEF LoopsOK, Queued, ShownOK
<1>. QED
  BY <1>1, <1>3, <1>6, <1>7, CoreFacts, CoreKeeps

\* The deletion is done, and the loop takes the next one.
DeletionDone ==
    /\ deletion # None /\ deletion' = None
    /\ jobs' = jobs \o <<[op |-> "undelete", id |-> deletion.id], Job("firstDelete")>>
    /\ UNCHANGED <<core, results, store, held, packet, server, typed, rejected, lost>>

LEMMA KeepsDeletionDone ==
    ASSUME IInv, DeletionDone
    PROVE  IInv'
<1> DEFINE i == [op |-> "undelete", id |-> deletion.id]
           j == Job("firstDelete")
           js == Append(jobs, i)
<1>1. /\ deleting' = deleting /\ timer' = timer /\ results' = results
      /\ sending' = sending /\ held' = held /\ jobs' = jobs \o <<i, j>>
      /\ shown' = shown /\ packet' = packet
      /\ deletion' = None /\ rejected' = rejected
      /\ UNCHANGED <<store, commands, server, typed, lost>>
      /\ deletion # None
  BY DEF core, DeletionDone
<1>2. /\ Queued(jobs, rejected) /\ RemovedBeforeNext(jobs) /\ IsQueue(jobs)
      /\ IsQueue(results) /\ ResultsOK(results, Created)
  BY QueuedFirst
<1>3. /\ IsJob(i, typed, Created, rejected) /\ i.op = "undelete" /\ ~Drops(i)
      /\ ~OnHeld(i) /\ ~Confirms(i) /\ Class(i) = "other"
  BY DEF IsJob, JobOps, Drops, OnHeld, Confirms, Class
<1>4. /\ IsJob(j, typed, Created, rejected) /\ j.op = "firstDelete" /\ ~Drops(j)
      /\ ~OnHeld(j) /\ ~Confirms(j) /\ Class(j) = "delete"
  BY FirstJob
<1> HIDE DEF i, j
<1>5. jobs' = Append(js, j)
  BY <1>1, <1>2, Concatenations
<1>6. /\ Queued(js, rejected) /\ IsQueue(js) /\ RemovedBeforeNext(js)
      /\ Elements(js) = Elements(jobs) \cup {i}
  BY <1>2, <1>3, QueuedNext
<1>7. /\ Sends(js, results) = Sends(jobs, results) + 0
      /\ Deletes(js, results) = Deletes(jobs, results) + 0
  BY <1>2, <1>3, SumsOfJob
<1> HIDE DEF js
<1>8. /\ Queued(jobs', rejected) /\ IsQueue(jobs') /\ RemovedBeforeNext(jobs')
      /\ Elements(jobs') = Elements(js) \cup {j}
  BY <1>4, <1>5, <1>6, QueuedNext
<1>9. /\ Sends(jobs', results) = Sends(js, results) + 0
      /\ Deletes(jobs', results) = Deletes(js, results) + 1
  BY <1>2, <1>4, <1>5, <1>6, SumsOfJob
<1>10. /\ One(deletion' # None) + Deletes(jobs', results')
            = One(deletion # None) + Deletes(jobs, results) + 0
       /\ Sends(jobs', results') = Sends(jobs, results) + 0
       /\ One(sending') = One(sending) + 0 /\ One(deleting') = One(deleting) + 0
       /\ Steps(results', "timer") <= Steps(results, "timer")
  BY <1>1, <1>7, <1>9, LoopFacts DEF One
<1>11. \A c \in Elements(jobs') : \/ c \in Elements(jobs)
                                  \/ ~OnHeld(c) /\ ~Drops(c) /\ ~Confirms(c)
  BY <1>3, <1>4, <1>6, <1>8
<1>. QED
  BY <1>1, <1>2, <1>8, <1>9, <1>10, <1>11, CoreFacts, QuietStep

LEMMA KeepsOnDeleted == IInv /\ OnDeleted => IInv'
<1>1. OnDeleted => DeletionDone
  BY DEF OnDeleted, Queue, user, DeletionDone
<1>. QED
  BY <1>1, KeepsDeletionDone

LEMMA KeepsOnDeleteRefused == IInv /\ OnDeleteRefused => IInv'
<1>1. OnDeleteRefused => DeletionDone
  BY DEF OnDeleteRefused, Queue, DeletionDone
<1>. QED
  BY <1>1, KeepsDeletionDone

LEMMA KeepsOnDeleteFailed ==
    ASSUME IInv, OnDeleteFailed
    PROVE  IInv'
<1>1. /\ deletion # None /\ deletion' = None /\ deleting' = FALSE
      /\ timer' = timer /\ results' = results
      /\ sending' = sending /\ held' = held /\ jobs' = jobs
      /\ shown' = shown /\ packet' = packet /\ rejected' = rejected
      /\ UNCHANGED <<store, commands, server, typed, lost>>
  BY DEF OnDeleteFailed, user
<1>2. /\ Queued(jobs, rejected) /\ RemovedBeforeNext(jobs) /\ IsQueue(jobs)
      /\ IsQueue(results) /\ ResultsOK(results, Created)
  BY QueuedFirst
<1>3. LoopCounts(sending', timer', deleting', packet', deletion', jobs', results')
  <2>1. One(deleting') = 0 /\ One(deletion' # None) = 0
    BY <1>1 DEF One
  <2>2. /\ One(sending') = One(timer') + One(packet' # None) + Sends(jobs', results')
        /\ One(deleting') = One(deletion' # None) + Deletes(jobs', results')
        /\ Steps(results', "timer") <= One(timer')
    BY <1>1, <2>1, LoopFacts, DeletionFacts
  <2>. QED
    BY <1>1, <1>2, <2>2, LoopSums
<1>4. HeldOK(held', packet', jobs', results', Pending, Created)
  BY <1>1, CoreFacts
<1>. QED
  BY <1>1, <1>2, <1>3, <1>4, CoreFacts, CoreStep

LEMMA KeepsOnFound ==
    ASSUME IInv, OnFound
    PROVE  IInv'
<1> DEFINE r == Head(results)
           i == [op |-> "delete", msg |-> r.msg, id |-> r.id]
           js == Append(jobs, i)
<1>1. /\ NextResult("found") /\ deleting' = TRUE /\ timer' = timer
      /\ sending' = sending /\ held' = held
      /\ jobs' = jobs \o (<<i>> \o FirstIf(deleting, "firstDelete"))
      /\ shown' = shown /\ packet' = packet /\ deletion' = deletion
      /\ rejected' = rejected
      /\ UNCHANGED <<store, commands, server, typed, lost>>
  BY DEF OnFound, Queue, network, user
<1>2. /\ Queued(jobs, rejected) /\ RemovedBeforeNext(jobs) /\ IsQueue(jobs)
      /\ IsQueue(results) /\ deleting \in BOOLEAN
  BY QueuedFirst, CoreFacts
<1>3. /\ results # <<>> /\ results' = Tail(results) /\ r.op = "found"
      /\ r.msg \in Messages /\ r.id \in Nat
      /\ ResultsOK(results', Created) /\ IsQueue(results')
      /\ Elements(results') \subseteq Elements(results)
  BY <1>1, ResultFacts DEF IsResult
<1>4. /\ IsJob(i, typed, Created, rejected) /\ i.op = "delete" /\ ~Drops(i)
      /\ ~OnHeld(i) /\ ~Confirms(i) /\ Class(i) = "other"
  BY <1>3 DEF IsJob, JobOps, Drops, OnHeld, Confirms, Class
<1>5. Class(r) = "other"
  BY <1>3 DEF Class
<1> HIDE DEF i
<1>6. jobs' = FirstAdded(js, deleting, "firstDelete")
  BY <1>1, <1>2, FirstIfAdds
<1>7. /\ Queued(js, rejected) /\ IsQueue(js) /\ RemovedBeforeNext(js)
      /\ Elements(js) = Elements(jobs) \cup {i}
  BY <1>2, <1>4, QueuedNext
<1>8. /\ Sends(js, results') = Sends(jobs, results') + 0
      /\ Deletes(js, results') = Deletes(jobs, results') + 0
  BY <1>2, <1>3, <1>4, SumsOfJob
<1> HIDE DEF js
<1>9. /\ Queued(jobs', rejected) /\ RemovedBeforeNext(jobs') /\ IsQueue(jobs')
      /\ Elements(jobs') \subseteq Elements(js) \cup {Job("firstDelete")}
  BY <1>2, <1>6, <1>7, FirstIfQueued
<1>10. /\ Sends(jobs, results') = Sends(jobs, results)
       /\ Deletes(jobs, results') = Deletes(jobs, results)
       /\ Steps(results', "timer") = Steps(results, "timer")
  BY <1>2, <1>3, <1>5, SumsLeft, LoopFacts
<1>11. /\ One(TRUE) = One(deleting) + One(~deleting) /\ One(~deleting) \in Nat
       /\ One(deletion # None) \in Nat /\ One(sending) = One(sending) + 0
  BY <1>2, LoopsStarted DEF One
<1>12. /\ Sends(jobs', results') = Sends(jobs, results) + 0
       /\ Deletes(jobs', results') = Deletes(jobs, results) + One(~deleting)
  BY <1>2, <1>3, <1>6, <1>7, <1>8, <1>10, <1>11, FirstIfSums, LoopFacts
<1>13. /\ One(deletion' # None) + Deletes(jobs', results')
            = One(deletion # None) + Deletes(jobs, results) + One(~deleting)
       /\ Steps(results', "timer") <= Steps(results, "timer")
  BY <1>1, <1>10, <1>11, <1>12, LoopFacts
<1>14. \A c \in Elements(jobs') : \/ c \in Elements(jobs)
                                  \/ ~OnHeld(c) /\ ~Drops(c) /\ ~Confirms(c)
  BY <1>4, <1>7, <1>9, FirstJob
<1>. QED
  BY <1>1, <1>3, <1>9, <1>11, <1>12, <1>13, <1>14, CoreFacts, QuietStep

-----------------------------------------------------------------------------
(* Events of the server.                                                   *)

\* The core thread queues a job that is of no loop.
LEMMA KeepsQuietJob ==
    ASSUME IInv, NEW j, IsJob(j, typed, Created, rejected), Class(j) = "other",
           j.op # "insert", ~Drops(j), ~OnHeld(j), ~Confirms(j),
           jobs' = Append(jobs, j), ShownOK(shown'),
           UNCHANGED <<commands, results, store, sending, timer, held, packet, deletion,
                       server, deleting, typed, rejected, lost>>
    PROVE  IInv'
<1>1. /\ Queued(jobs, rejected) /\ RemovedBeforeNext(jobs) /\ IsQueue(jobs)
      /\ IsQueue(results) /\ ResultsOK(results, Created)
  BY QueuedFirst
<1>2. /\ Queued(jobs', rejected) /\ IsQueue(jobs') /\ RemovedBeforeNext(jobs')
      /\ Elements(jobs') = Elements(jobs) \cup {j}
  BY <1>1, QueuedNext
<1>3. \A c \in Elements(jobs') : \/ c \in Elements(jobs)
                                 \/ ~OnHeld(c) /\ ~Drops(c) /\ ~Confirms(c)
  BY <1>2
<1>4. /\ Sends(jobs', results') = Sends(jobs, results) + 0
      /\ Deletes(jobs', results') = Deletes(jobs, results) + 0
  BY <1>1, SumsOfJob
<1>5. /\ One(sending) = One(sending) + 0 /\ One(deleting) = One(deleting) + 0
      /\ One(deletion # None) + Deletes(jobs', results')
           = One(deletion # None) + Deletes(jobs, results) + 0
      /\ Steps(results', "timer") <= Steps(results, "timer")
  BY <1>4, LoopFacts DEF One
<1>. QED
  BY <1>1, <1>2, <1>3, <1>4, <1>5, CoreFacts, QuietStep

LEMMA KeepsOnEventImstate ==
    ASSUME NEW m \in Messages, IInv, OnEventImstate(m)
    PROVE  IInv'
<1> DEFINE j == [op |-> "imstate", text |-> server.text[m], iid |-> Original(m),
                 id |-> MsgId(m)]
<1>1. /\ m \in Created /\ jobs' = jobs \o <<j>> /\ shown' = shown
      /\ UNCHANGED <<commands, results, store, sending, timer, held, packet, deletion,
                     server, deleting, typed, rejected, lost>>
  BY DEF OnEventImstate, Queue, core, user
<1>2. Original(m) \in Messages \X Nat /\ Original(m)[1] = m
  BY DEF Original
<1>3. /\ IsJob(j, typed, Created, rejected) /\ Class(j) = "other" /\ j.op = "imstate"
      /\ ~Drops(j) /\ ~OnHeld(j) /\ ~Confirms(j)
  BY <1>1, <1>2, MsgIdFacts DEF IsJob, JobOps, Class, Drops, OnHeld, Confirms
<1> HIDE DEF j
<1>4. jobs' = Append(jobs, j)
  BY <1>1, QueuedFirst, Concatenations
<1>5. ShownOK(shown')
  BY <1>1, CoreFacts
<1>. QED
  BY <1>1, <1>3, <1>4, <1>5, KeepsQuietJob

LEMMA KeepsOnServerMessage ==
    ASSUME NEW m \in Messages, IInv, OnServerMessage(m)
    PROVE  IInv'
<1> DEFINE j == [op |-> "remove", force |-> FALSE, loop |-> FALSE,
                 text |-> server.text[m], iid |-> Original(m), id |-> MsgId(m)]
<1>1. /\ m \in Created /\ jobs' = jobs \o <<j>>
      /\ shown' = [shown EXCEPT ![m] = MsgId(m)]
      /\ UNCHANGED <<commands, results, store, sending, timer, held, packet, deletion,
                     server, deleting, typed, rejected, lost>>
  BY DEF OnServerMessage, Queue, user
<1>2. Original(m) \in Messages \X Nat /\ Original(m)[1] = m
  BY DEF Original
<1>3. /\ IsJob(j, typed, Created, rejected) /\ Class(j) = "other" /\ j.op = "remove"
      /\ ~Drops(j) /\ ~OnHeld(j) /\ ~Confirms(j)
  BY <1>1, <1>2, MsgIdFacts DEF IsJob, JobOps, Class, Drops, OnHeld, Confirms
<1> HIDE DEF j
<1>4. jobs' = Append(jobs, j)
  BY <1>1, QueuedFirst, Concatenations
<1>5. ShownOK(shown')
  BY <1>1, CoreFacts, MsgIdFacts, ShownSet
<1>. QED
  BY <1>1, <1>3, <1>4, <1>5, KeepsQuietJob

-----------------------------------------------------------------------------
(* The core thread handles commands.                                       *)

LEMMA CommandFacts ==
    ASSUME IInv, NEW do, NextCommand(do)
    PROVE  /\ commands # <<>> /\ commands' = Tail(commands) /\ Head(commands).do = do
           /\ IsCommand(Head(commands), typed, Created)
           /\ CommandsOK(commands', typed, Created)
           /\ Typing(commands) # <<>> /\ Head(Typing(commands)) = KeyOfCommand(Head(commands))
           /\ Typing(commands') = Tail(Typing(commands))
<1>1. commands # <<>> /\ commands' = Tail(commands) /\ Head(commands).do = do
  BY DEF NextCommand
<1>2. CommandsOK(commands, typed, Created) /\ typed \in [Messages -> Nat]
  BY CoreFacts DEF TypesOK
<1>. QED
  BY <1>1, <1>2, CommandTaken

\* js is what the jobs become before the loop is started if it has to be.
LEMMA CommandKeeps ==
    ASSUME IInv, CommandsOK(commands', typed, Created), sending' \in BOOLEAN,
           UNCHANGED <<results, store, timer, held, packet, deletion, server, deleting,
                       shown, typed, rejected, lost>>,
           JobsOK(jobs', typed, Created, rejected), RemovedBeforeNext(jobs'),
           LineOK(Stores(store.sent), Inserts(jobs'), Typing(commands')),
           Originals(Stores(store.sent), Inserts(jobs'), Typing(commands')) = Pending,
           LoopCounts(sending', timer, deleting, packet, deletion, jobs', results),
           \A c \in Elements(jobs') : c \in Elements(jobs)
                                      \/ (~OnHeld(c) /\ ~Drops(c) /\ ~Confirms(c))
    PROVE  IInv'
<1>1. Created' = Created /\ GivenUp' = GivenUp /\ Pending' = Pending
  BY DEF Created, GivenUp, Pending
<1>2. TypesOK'
  <2>1. TypesOK
    BY CoreFacts
  <2>2. UserOK'
    BY <1>1, <2>1 DEF TypesOK, UserOK
  <2>. QED
    BY <1>1, <2>1, <2>2 DEF TypesOK
<1>3. Line' /\ LoopsOK'
  BY DEF Line, LoopsOK
<1>4. HeldOK(held, packet, jobs', results, Pending, Created)
  <2>1. HeldOK(held, packet, jobs, results, Pending, Created)
    BY CoreFacts
  <2>2. packet # None => held # None /\ packet.entry.iid = held.entry.iid
    BY <2>1 DEF HeldOK
  <2>. QED
    BY <2>1, <2>2, HeldStays
<1>5. OrderOK(server.order, Pending, Created, typed, GivenUp)
  BY DEF IInv
<1>. QED
  BY <1>1, <1>2, <1>3, <1>4, <1>5 DEF IInv

LEMMA KeepsDeleteArchiveMessage ==
    ASSUME IInv, DeleteArchiveMessage
    PROVE  IInv'
<1> DEFINE c == Head(commands)
           j == [op |-> "find", msg |-> c.msg, id |-> c.id]
           S == Stores(store.sent)
<1>1. /\ NextCommand("delete") /\ jobs' = jobs \o <<j>> /\ sending' = sending
      /\ UNCHANGED <<results, store, timer, held, packet, deletion, server, deleting,
                     shown, typed, rejected, lost>>
  BY DEF DeleteArchiveMessage, Queue, network, user
<1>2. /\ Queued(jobs, rejected) /\ RemovedBeforeNext(jobs) /\ IsQueue(jobs)
      /\ IsQueue(results)
  BY QueuedFirst
<1>3. /\ c.do = "delete" /\ IsCommand(c, typed, Created)
      /\ CommandsOK(commands', typed, Created)
      /\ Typing(commands) # <<>> /\ Head(Typing(commands)) = KeyOfCommand(c)
      /\ Typing(commands') = Tail(Typing(commands))
  BY <1>1, CommandFacts
<1>4. /\ IsJob(j, typed, Created, rejected) /\ Class(j) = "other" /\ j.op = "find"
      /\ ~Drops(j) /\ ~OnHeld(j) /\ ~Confirms(j)
  BY <1>3 DEF IsCommand, IsJob, JobOps, Class, Drops, OnHeld, Confirms
<1>5. KeyOfCommand(c) = Nothing
  BY <1>3 DEF KeyOfCommand
<1> HIDE DEF c, j
<1>6. jobs' = Append(jobs, j)
  BY <1>1, <1>2, Concatenations
<1>7. JobsOK(jobs, typed, Created, rejected) /\ LineOK(S, Inserts(jobs), Typing(commands))
      /\ Originals(S, Inserts(jobs), Typing(commands)) = Pending
  BY <1>2 DEF Queued
<1>8. /\ JobsOK(jobs', typed, Created, rejected) /\ RemovedBeforeNext(jobs')
      /\ Elements(jobs') = Elements(jobs) \cup {j} /\ IsQueue(jobs')
  <2>1. /\ JobsOK(jobs', typed, Created, rejected) /\ RemovedBeforeNext(jobs')
        /\ Elements(jobs') = Elements(jobs) \cup {j}
    BY <1>2, <1>4, <1>6, <1>7, JobAdded
  <2>. QED
    BY <2>1 DEF JobsOK
<1>9. /\ LineOK(S, Inserts(jobs), Typing(commands'))
      /\ Originals(S, Inserts(jobs), Typing(commands')) = Pending
  BY <1>3, <1>5, <1>7, LineCommandDone, NothingIsNoOriginal
<1>10. /\ LineOK(S, Inserts(jobs'), Typing(commands'))
       /\ Originals(S, Inserts(jobs'), Typing(commands')) = Pending
  BY <1>4, <1>6, <1>7, <1>9, QuietAdded
<1>11. LoopCounts(sending, timer, deleting, packet, deletion, jobs', results)
  <2>1. /\ Sends(jobs', results) = Sends(jobs, results) + 0
        /\ Deletes(jobs', results) = Deletes(jobs, results) + 0
    BY <1>2, <1>4, <1>6, SumsOfJob
  <2>2. /\ Sends(jobs', results) = Sends(jobs, results)
        /\ Deletes(jobs', results) = Deletes(jobs, results)
    BY <2>1, LoopFacts
  <2>. QED
    BY <1>2, <1>8, <2>2, LoopFacts, LoopSums
<1> HIDE DEF S
<1>. QED
  BY <1>1, <1>3, <1>4, <1>8, <1>10, <1>11, CoreFacts, CommandKeeps DEF S

\* The send loop is started, if it is not active.
LEMMA LoopStarts ==
    ASSUME IInv, NEW js, IsQueue(js),
           Sends(js, results) = Sends(jobs, results) + 0,
           Deletes(js, results) = Deletes(jobs, results) + 0,
           NEW ks, ks = FirstAdded(js, sending, "first")
    PROVE  LoopCounts(TRUE, timer, deleting, packet, deletion, ks, results)
<1>1. IsQueue(results) /\ sending \in BOOLEAN
  BY QueuedFirst, CoreFacts
<1>2. IsQueue(ks)
  BY <1>1, QueueAppend DEF FirstAdded
<1>3. /\ Sends(jobs, results) \in Nat /\ Deletes(jobs, results) \in Nat
      /\ One(sending) = One(timer) + One(packet # None) + Sends(jobs, results)
      /\ One(deleting) = One(deletion # None) + Deletes(jobs, results)
      /\ Steps(results, "timer") <= One(timer)
  BY LoopFacts
<1>4. /\ Sends(ks, results) = Sends(js, results) + One(~sending)
      /\ Deletes(ks, results) = Deletes(js, results)
  BY <1>1, FirstIfSums
<1> DEFINE a == One(TRUE)
           d == One(sending)
           e == One(~sending)
           f == One(timer)
           g == One(packet # None)
           u == Sends(jobs, results)
           v == Deletes(jobs, results)
           w == Sends(ks, results)
           x == Deletes(ks, results)
<1>5. /\ a = d + e /\ e \in Nat /\ f \in Nat /\ g \in Nat /\ u \in Nat /\ v \in Nat
      /\ d = f + g + u
  BY <1>1, <1>3, LoopsStarted DEF One
<1>6. w = (u + 0) + e /\ x = v + 0
  BY <1>4
<1> HIDE DEF a, d, e, f, g, u, v, w, x
<1>7. a = f + g + w /\ x = v
  BY <1>5, <1>6
<1>8. /\ One(TRUE) = One(timer) + One(packet # None) + Sends(ks, results)
      /\ One(deleting) = One(deletion # None) + Deletes(ks, results)
  BY <1>3, <1>7 DEF a, f, g, w, v, x
<1>. QED
  BY <1>1, <1>2, <1>3, <1>8, LoopSums

\* A command that queues one job and starts the send loop.
LEMMA CommandStarts ==
    ASSUME IInv, CommandsOK(commands', typed, Created),
           UNCHANGED <<results, store, timer, held, packet, deletion, server, deleting,
                       shown, typed, rejected, lost>>,
           NEW i, IsJob(i, typed, Created, rejected), Class(i) = "other",
           ~Drops(i), ~OnHeld(i), ~Confirms(i),
           LineOK(Stores(store.sent), Inserts(Append(jobs, i)), Typing(commands')),
           Originals(Stores(store.sent), Inserts(Append(jobs, i)), Typing(commands')) = Pending,
           jobs' = FirstAdded(Append(jobs, i), sending, "first"), sending' = TRUE
    PROVE  IInv'
<1> DEFINE js == Append(jobs, i)
           S == Stores(store.sent)
<1>1. /\ JobsOK(jobs, typed, Created, rejected) /\ RemovedBeforeNext(jobs)
      /\ IsQueue(jobs) /\ IsQueue(results) /\ sending \in BOOLEAN
  BY QueuedFirst, CoreFacts DEF Queued
<1>2. /\ JobsOK(js, typed, Created, rejected) /\ RemovedBeforeNext(js)
      /\ Elements(js) = Elements(jobs) \cup {i}
  BY <1>1, JobAdded
<1>3. IsQueue(js)
  BY <1>2 DEF JobsOK
<1>4. /\ Sends(js, results) = Sends(jobs, results) + 0
      /\ Deletes(js, results) = Deletes(jobs, results) + 0
  BY <1>1, SumsOfJob
<1>5. /\ LineOK(S, Inserts(js), Typing(commands'))
      /\ Originals(S, Inserts(js), Typing(commands')) = Pending
      /\ jobs' = FirstAdded(js, sending, "first")
  OBVIOUS
<1> HIDE DEF js
<1>6. /\ JobsOK(jobs', typed, Created, rejected) /\ RemovedBeforeNext(jobs')
      /\ Elements(jobs') \subseteq Elements(js) \cup {Job("first")}
  BY <1>1, <1>2, <1>5, FirstIfKeeps
<1>7. /\ LineOK(S, Inserts(jobs'), Typing(commands'))
      /\ Originals(S, Inserts(jobs'), Typing(commands')) = Pending
  BY <1>1, <1>2, <1>5, FirstIfLine
<1>8. LoopCounts(TRUE, timer, deleting, packet, deletion, jobs', results)
  BY <1>3, <1>4, <1>5, LoopStarts
<1>9. \A c \in Elements(jobs') : c \in Elements(jobs)
                                 \/ (~OnHeld(c) /\ ~Drops(c) /\ ~Confirms(c))
  BY <1>2, <1>6, FirstJob
<1>. QED
  BY <1>6, <1>7, <1>8, <1>9, CommandKeeps DEF S

\* What the entry of a command is.
LEMMA EntryOfOriginal ==
    ASSUME NEW T \in [Messages -> Nat], NEW C, NEW m \in Messages, NEW v \in 1..T[m],
           NEW b \in BOOLEAN
    PROVE  IsEntry(Entry(m, Original(m), v, 0, b), T, C)
<1> DEFINE e == Entry(m, Original(m), v, 0, b)
<1>1. /\ e.msg = m /\ e.iid = Original(m) /\ e.text = v /\ e.msgid = 0 /\ e.fresh = FALSE
  BY DEF Entry
<1>2. /\ Original(m) \in Messages \X Nat /\ Original(m)[1] = m /\ Original(m)[2] = 1
      /\ 1 \in 1..T[m] /\ v \in Nat
  BY DEF Original
<1>3. e \in EntryRecord
  BY <1>2 DEF Entry, EntryRecord
<1> HIDE DEF e
<1>4. IsEntry(e, T, C)
  BY <1>1, <1>2, <1>3 DEF IsEntry
<1>. QED
  BY <1>4 DEF e

LEMMA EntryOfEdit ==
    ASSUME NEW T \in [Messages -> Nat], NEW C, NEW m \in Messages, NEW v \in 1..T[m],
           NEW id \in Nat, id > 0, m \in C
    PROVE  IsEntry(Entry(m, <<m, v>>, v, id, FALSE), T, C)
<1> DEFINE e == Entry(m, <<m, v>>, v, id, FALSE)
<1>1. /\ e.msg = m /\ e.iid = <<m, v>> /\ e.text = v /\ e.msgid = id /\ e.fresh = FALSE
  BY DEF Entry
<1>2. <<m, v>> \in Messages \X Nat /\ <<m, v>>[1] = m /\ <<m, v>>[2] = v /\ v \in Nat
  OBVIOUS
<1>3. e \in EntryRecord
  BY <1>2 DEF Entry, EntryRecord
<1> HIDE DEF e
<1>4. IsEntry(e, T, C)
  BY <1>1, <1>2, <1>3 DEF IsEntry
<1>. QED
  BY <1>4 DEF e

LEMMA KeepsSendMessageToContact ==
    ASSUME IInv, SendMessageToContact
    PROVE  IInv'
<1> DEFINE c == Head(commands)
           e == Entry(c.msg, Original(c.msg), 1, 0, FALSE)
           i == [op |-> "insert", entry |-> e]
           S == Stores(store.sent)
<1>1. /\ NextCommand("send") /\ sending' = TRUE
      /\ jobs' = jobs \o (<<i>> \o FirstIf(sending, "first"))
      /\ UNCHANGED <<results, store, timer, held, packet, deletion, server, deleting,
                     shown, typed, rejected, lost>>
  BY DEF SendMessageToContact, Queue, network, user
<1>2. /\ Queued(jobs, rejected) /\ IsQueue(jobs) /\ sending \in BOOLEAN
      /\ typed \in [Messages -> Nat]
  BY QueuedFirst, CoreFacts
<1>3. /\ c.do = "send" /\ IsCommand(c, typed, Created)
      /\ CommandsOK(commands', typed, Created)
      /\ Typing(commands) # <<>> /\ Head(Typing(commands)) = KeyOfCommand(c)
      /\ Typing(commands') = Tail(Typing(commands))
  BY <1>1, CommandFacts
<1>4. c.msg \in Messages /\ c.version = 1 /\ 1 \in 1..typed[c.msg]
  BY <1>2, <1>3 DEF IsCommand
<1>5. IsEntry(e, typed, Created) /\ e.iid = Original(c.msg) /\ e.msgid = 0
  <2> HIDE DEF c
  <2>1. IsEntry(Entry(c.msg, Original(c.msg), 1, 0, FALSE), typed, Created)
    BY <1>2, <1>4, EntryOfOriginal
  <2>. QED
    BY <2>1 DEF Entry
<1>6. KeyOfCommand(c) = Original(c.msg)
  BY <1>3, <1>4 DEF KeyOfCommand, Original
<1> HIDE DEF c, e
<1>7. /\ IsJob(i, typed, Created, rejected) /\ Class(i) = "other"
      /\ ~Drops(i) /\ ~OnHeld(i) /\ ~Confirms(i) /\ KeyOfJob(i) = e.iid
  BY <1>5 DEF IsJob, JobOps, Class, Drops, OnHeld, Confirms, KeyOfJob
<1> HIDE DEF i
<1>8. jobs' = FirstAdded(Append(jobs, i), sending, "first")
  BY <1>1, <1>2, FirstIfAdds
<1>9. Inserts(Append(jobs, i)) = Append(Inserts(jobs), Head(Typing(commands)))
  BY <1>2, <1>3, <1>5, <1>6, <1>7, JobAdded DEF Queued
<1>10. /\ LineOK(S, Inserts(Append(jobs, i)), Typing(commands'))
       /\ Originals(S, Inserts(Append(jobs, i)), Typing(commands')) = Pending
  BY <1>2, <1>3, <1>9, LineCommand DEF Queued
<1>. QED
  BY <1>1, <1>3, <1>7, <1>8, <1>10, CommandStarts

LEMMA KeepsUpdateMessageToContact ==
    ASSUME IInv, UpdateMessageToContact
    PROVE  IInv'
<1> DEFINE c == Head(commands)
           e == Entry(c.msg, Original(c.msg), c.version, 0, TRUE)
           f == Entry(c.msg, <<c.msg, c.version>>, c.version, c.id, FALSE)
           i == IF c.id = 0 THEN [op |-> "replace", edit |-> TRUE, entry |-> e]
                ELSE [op |-> "insert", entry |-> f]
           S == Stores(store.sent)
<1>1. /\ NextCommand("edit") /\ sending' = TRUE
      /\ jobs' = jobs \o (<<i>> \o FirstIf(sending, "first"))
      /\ UNCHANGED <<results, store, timer, held, packet, deletion, server, deleting,
                     shown, typed, rejected, lost>>
  BY DEF UpdateMessageToContact, Queue, network, user
<1>2. /\ Queued(jobs, rejected) /\ IsQueue(jobs) /\ sending \in BOOLEAN
      /\ typed \in [Messages -> Nat]
  BY QueuedFirst, CoreFacts
<1>3. /\ c.do = "edit" /\ IsCommand(c, typed, Created)
      /\ CommandsOK(commands', typed, Created)
      /\ Typing(commands) # <<>> /\ Head(Typing(commands)) = KeyOfCommand(c)
      /\ Typing(commands') = Tail(Typing(commands))
  BY <1>1, CommandFacts
<1>4. /\ c.msg \in Messages /\ c.version \in 2..typed[c.msg] /\ c.id \in Nat
      /\ c.id > 0 => c.msg \in Created
      /\ c.version \in 1..typed[c.msg] /\ c.version # 1
  BY <1>2, <1>3 DEF IsCommand
<1>5. /\ IsEntry(e, typed, Created)
      /\ c.id # 0 => IsEntry(f, typed, Created)
      /\ f.iid = <<c.msg, c.version>> /\ f.iid[2] # 1
  <2> HIDE DEF c
  <2>1. IsEntry(Entry(c.msg, Original(c.msg), c.version, 0, TRUE), typed, Created)
    BY <1>2, <1>4, EntryOfOriginal
  <2>2. ASSUME c.id # 0
        PROVE IsEntry(Entry(c.msg, <<c.msg, c.version>>, c.version, c.id, FALSE),
                      typed, Created)
    <3>1. c.id > 0 /\ c.msg \in Created
      BY <1>4, <2>2
    <3>. QED
      BY <1>2, <1>4, <3>1, EntryOfEdit
  <2>3. f.iid = <<c.msg, c.version>>
    BY DEF Entry
  <2>4. f.iid[2] = c.version /\ c.version # 1
    <3> HIDE DEF f
    <3>. QED
      BY <1>4, <2>3
  <2>. QED
    BY <2>1, <2>2, <2>3, <2>4
<1>6. KeyOfCommand(c) = f.iid
  <2> HIDE DEF c, f
  <2>. QED
    BY <1>3, <1>5 DEF KeyOfCommand
<1>7. \A m \in Messages : Original(m) # f.iid
  <2> HIDE DEF f
  <2>1. \A m : Original(m)[2] = 1
    BY DEF Original
  <2>. QED
    BY <1>5, <2>1
<1> HIDE DEF c, e, f
<1>8. /\ IsJob(i, typed, Created, rejected) /\ Class(i) = "other"
      /\ ~Drops(i) /\ ~OnHeld(i) /\ ~Confirms(i)
  <2>1. CASE c.id = 0
    BY <1>5, <2>1 DEF IsJob, JobOps, Class, Drops, OnHeld, Confirms
  <2>2. CASE c.id # 0
    BY <1>5, <2>2 DEF IsJob, JobOps, Class, Drops, OnHeld, Confirms
  <2>. QED
    BY <2>1, <2>2
<1>9. KeyOfJob(i) = IF c.id = 0 THEN Nothing ELSE f.iid
  BY DEF KeyOfJob
<1> HIDE DEF i
<1>10. jobs' = FirstAdded(Append(jobs, i), sending, "first")
  BY <1>1, <1>2, FirstIfAdds
<1>11. Inserts(Append(jobs, i)) = Append(Inserts(jobs), KeyOfJob(i))
  BY <1>2, <1>8, JobAdded DEF Queued
<1>12. /\ LineOK(S, Inserts(Append(jobs, i)), Typing(commands'))
       /\ Originals(S, Inserts(Append(jobs, i)), Typing(commands')) = Pending
  <2>1. LineOK(S, Inserts(jobs), Typing(commands))
        /\ Originals(S, Inserts(jobs), Typing(commands)) = Pending
    BY <1>2 DEF Queued
  <2>2. CASE c.id = 0
    <3>1. /\ LineOK(S, Inserts(jobs), Typing(commands'))
          /\ Originals(S, Inserts(jobs), Typing(commands')) = Pending
      BY <1>3, <1>6, <1>7, <2>1, LineCommandDone
    <3>. QED
      BY <1>9, <1>11, <2>2, <3>1, LineAppendNothing
  <2>3. CASE c.id # 0
    BY <1>3, <1>6, <1>9, <1>11, <2>1, <2>3, LineCommand
  <2>. QED
    BY <2>2, <2>3
<1>. QED
  BY <1>1, <1>3, <1>8, <1>10, <1>12, CommandStarts

-----------------------------------------------------------------------------
(* The user gives commands.                                                *)

\* A key of the line is of a version that was typed.
LEMMA LineTyped ==
    ASSUME IInv, NEW x,
           \/ In(Stores(store.sent), x) \/ In(Inserts(jobs), x) \/ In(Typing(commands), x)
    PROVE  x = Nothing \/ (x[1] \in Messages /\ x[2] \in 1..typed[x[1]])
<1>1. /\ IsStore(store, typed, Created) /\ CommandsOK(commands, typed, Created)
      /\ JobsOK(jobs, typed, Created, rejected) /\ typed \in [Messages -> Nat]
  BY CoreFacts DEF TypesOK
<1>2. \A e : IsEntry(e, typed, Created) =>
                e.iid[1] \in Messages /\ e.iid[2] \in 1..typed[e.iid[1]]
  BY DEF IsEntry, EntryRecord
<1>3. CASE In(Stores(store.sent), x)
  <2>1. PICK i \in DOMAIN store.sent : x = store.sent[i].iid
    BY <1>3 DEF In, Stores
  <2>2. IsEntry(store.sent[i], typed, Created)
    BY <1>1, <2>1 DEF IsStore, Elements
  <2>. QED
    BY <1>2, <2>1, <2>2
<1>4. CASE In(Inserts(jobs), x)
  <2>1. PICK i \in DOMAIN jobs : x = KeyOfJob(jobs[i])
    BY <1>4 DEF In, Inserts
  <2>2. IsJob(jobs[i], typed, Created, rejected)
    BY <1>1, <2>1 DEF JobsOK, Elements
  <2>3. jobs[i].op = "insert" => IsEntry(jobs[i].entry, typed, Created)
    BY <2>2 DEF IsJob
  <2>. QED
    BY <1>2, <2>1, <2>3 DEF KeyOfJob
<1>5. CASE In(Typing(commands), x)
  <2>1. PICK i \in DOMAIN commands : x = KeyOfCommand(commands[i])
    BY <1>5 DEF In, Typing
  <2>2. IsCommand(commands[i], typed, Created)
    BY <1>1, <2>1 DEF CommandsOK, Elements
  <2> DEFINE c == commands[i]
  <2>3. /\ c.do \in {"send", "edit", "delete"} /\ c.msg \in Messages
        /\ typed[c.msg] \in Nat
        /\ c.do = "send" => c.version = 1 /\ typed[c.msg] > 0
        /\ c.do = "edit" => c.version \in 2..typed[c.msg]
    BY <1>1, <2>2 DEF IsCommand
  <2>4. c.do # "delete" => c.version \in 1..typed[c.msg]
    BY <2>3
  <2>5. x = IF c.do = "delete" THEN Nothing ELSE <<c.msg, c.version>>
    BY <2>1 DEF KeyOfCommand
  <2> HIDE DEF c
  <2>. QED
    BY <2>3, <2>4, <2>5
<1>. QED
  BY <1>3, <1>4, <1>5

\* New messages are typed after all others.
NewOriginals(N, T) ==
    /\ \A m \in N : /\ m \in Messages /\ T[m] > 0
                    /\ \A k \in Messages : typed[k] > 0 => k < m
    /\ \A m \in Messages : T[m] > 0 => typed[m] > 0 \/ m \in N
    /\ \A m, k \in Messages : k < m /\ T[m] > 0 => T[k] > 0

LEMMA UserKeeps ==
    ASSUME IInv, typed' \in [Messages -> Nat], \A m \in Messages : typed[m] <= typed'[m],
           NEW c, IsCommand(c, typed', Created), commands' = Append(commands, c),
           NEW N, NewOriginals(N, typed'),
           LineOK(Stores(store.sent), Inserts(jobs), Append(Typing(commands), KeyOfCommand(c))),
           Originals(Stores(store.sent), Inserts(jobs),
                     Append(Typing(commands), KeyOfCommand(c))) = Pending \cup N,
           UNCHANGED <<jobs, results, store, sending, timer, held, packet, deletion, server,
                       deleting, shown, rejected, lost>>
    PROVE  IInv'
<1>1. Created' = Created /\ GivenUp' = GivenUp
  BY DEF Created, GivenUp
<1>2. /\ TypesOK /\ UserOK /\ typed \in [Messages -> Nat]
      /\ HeldOK(held, packet, jobs, results, Pending, Created)
  BY CoreFacts DEF TypesOK
<1>3. /\ IsStore(store, typed', Created) /\ CommandsOK(commands, typed', Created)
      /\ JobsOK(jobs, typed', Created, rejected) /\ ResultsOK(results, Created)
      /\ IsHeld(held, typed', Created) /\ IsPacket(packet, typed', Created)
  BY <1>2, TypesMore DEF TypesOK
<1>4. /\ CommandsOK(commands', typed', Created)
      /\ Typing(commands') = Append(Typing(commands), KeyOfCommand(c))
  BY <1>3, CommandAdded
<1>5. Pending' = Pending \cup N /\ Line'
  BY <1>4 DEF Pending, Line
<1>6. UserOK'
  <2>1. \A m \in Created : typed'[m] > 0
    <3>1. \A m \in Created : m \in Messages /\ typed[m] > 0
      BY <1>2, CoreFacts DEF UserOK
    <3>. QED
      BY <1>2, <3>1
  <2>2. \A m, k \in Messages : k < m /\ typed'[m] > 0 => typed'[k] > 0
    BY DEF NewOriginals
  <2>. QED
    BY <1>1, <1>2, <2>1, <2>2 DEF UserOK
<1>7. TypesOK'
  BY <1>1, <1>2, <1>3, <1>4, <1>6 DEF TypesOK
<1>8. LoopsOK'
  BY CoreFacts DEF LoopsOK
<1>9. HeldOK(held, packet, jobs, results, Pending \cup N, Created)
  <2>1. ASSUME held # None, NEW m \in N PROVE held.entry.msg <= m
    <3>1. IsEntry(held.entry, typed, Created)
      BY <1>2, <2>1 DEF TypesOK, IsHeld
    <3>2. held.entry.msg \in Messages /\ typed[held.entry.msg] \in Nat
          /\ held.entry.text \in 1..typed[held.entry.msg]
      BY <1>2, <3>1 DEF IsEntry, EntryRecord
    <3>3. typed[held.entry.msg] > 0
      BY <3>2
    <3>4. held.entry.msg < m /\ m \in Messages
      BY <3>2, <3>3 DEF NewOriginals
    <3>. QED
      BY <3>2, <3>4, BoundsAssumption DEF Messages
  <2>. QED
    BY <1>2, <2>1 DEF HeldOK
<1>10. OrderOK(server.order, Pending \cup N, Created, typed', GivenUp)
  <2>1. OrderOK(server.order, Pending, Created, typed, GivenUp)
    BY DEF IInv
  <2>2. ASSUME NEW k \in Created, NEW m \in (Pending \cup N) \ Created PROVE k < m
    <3>1. k \in Messages /\ typed[k] > 0
      BY <1>2, CoreFacts DEF UserOK
    <3>. QED
      BY <2>1, <2>2, <3>1 DEF OrderOK, NewOriginals
  <2>3. ASSUME NEW m \in Messages, typed'[m] > 0
        PROVE m \in Created \cup GivenUp \cup (Pending \cup N)
    BY <2>1, <2>3 DEF OrderOK, NewOriginals
  <2>. QED
    BY <2>1, <2>2, <2>3 DEF OrderOK
<1>. QED
  BY <1>1, <1>5, <1>7, <1>8, <1>9, <1>10 DEF IInv

\* The command the user gives.
Given(c, do, m, v) ==
    /\ commands' = Append(commands, c)
    /\ {"do", "msg", "id", "version"} \subseteq DOMAIN c
    /\ c.do = do /\ c.msg = m /\ c.version = v /\ c.id \in Nat
    /\ c.id > 0 => m \in Created

LEMMA CommandGiven ==
    ASSUME IInv, NEW do, NEW m \in Messages, NEW v, Command(do, m, v)
    PROVE  \E c : Given(c, do, m, v)
<1> DEFINE c == [do |-> do, msg |-> m, id |-> shown[m], version |-> v]
<1>1. shown[m] \in Nat /\ (shown[m] > 0 => m \in Created)
  BY CoreFacts DEF ShownOK
<1>2. commands' = Append(commands, c)
  BY DEF Command
<1>3. /\ {"do", "msg", "id", "version"} \subseteq DOMAIN c
      /\ c.do = do /\ c.msg = m /\ c.version = v /\ c.id = shown[m]
  OBVIOUS
<1> HIDE DEF c
<1>. QED
  BY <1>1, <1>2, <1>3 DEF Given

LEMMA KeepsType ==
    ASSUME NEW m \in Messages, IInv, Type(m)
    PROVE  IInv'
<1> DEFINE S == Stores(store.sent)
           J == Inserts(jobs)
           C == Typing(commands)
<1>1. /\ typed[m] = 0 /\ \A k \in Messages : k < m => typed[k] > 0
      /\ typed' = [typed EXCEPT ![m] = 1] /\ Command("send", m, 1)
      /\ UNCHANGED <<jobs, results, store, sending, timer, held, packet, deletion, server,
                     deleting, shown, rejected, lost>>
  BY DEF Type, network
<1>2. /\ typed \in [Messages -> Nat] /\ UserOK /\ m \in Nat
      /\ \A k \in Messages : k \in Nat
  BY CoreFacts, BoundsAssumption DEF TypesOK, Messages
<1>3. /\ typed' \in [Messages -> Nat] /\ typed'[m] = 1
      /\ \A k \in Messages : k # m => typed'[k] = typed[k]
  BY <1>1, <1>2
<1>4. PICK c : Given(c, "send", m, 1)
  BY <1>1, CommandGiven
<1>5. IsCommand(c, typed', Created) /\ KeyOfCommand(c) = Original(m)
  BY <1>3, <1>4 DEF Given, IsCommand, KeyOfCommand, Original
<1>6. \A k \in Messages : typed[k] > 0 => k < m
  BY <1>1, <1>2 DEF UserOK
<1>7. NewOriginals({m}, typed')
  <2>1. \A k \in Messages : typed[k] > 0 => typed'[k] > 0
    BY <1>2, <1>3
  <2>2. ASSUME NEW k \in Messages, NEW n \in Messages, n < k, typed'[k] > 0
        PROVE typed'[n] > 0
    <3>1. CASE k = m
      BY <1>1, <2>1, <2>2, <3>1
    <3>2. CASE k # m
      BY <1>2, <1>3, <2>1, <2>2, <3>2 DEF UserOK
    <3>. QED
      BY <3>1, <3>2
  <2>. QED
    BY <1>1, <1>3, <1>6, <2>2 DEF NewOriginals
<1>8. ASSUME NEW x, In(S, x) \/ In(J, x) \/ In(C, x) PROVE Precedes(x, Original(m))
  <2>1. CASE x = Nothing
    BY <2>1 DEF Precedes
  <2>2. CASE x # Nothing
    <3>1. x[1] \in Messages /\ x[2] \in 1..typed[x[1]] /\ typed[x[1]] \in Nat
      BY <1>2, <1>8, <2>2, LineTyped
    <3>2. typed[x[1]] > 0
      BY <3>1
    <3>3. x[1] < m
      BY <1>6, <3>1, <3>2
    <3>4. Original(m)[1] = m
      BY DEF Original
    <3>. QED
      BY <1>1, <3>2, <3>3, <3>4 DEF Precedes
  <2>. QED
    BY <2>1, <2>2
<1>9. LineOK(S, J, C) /\ Pending = Originals(S, J, C)
  BY DEF IInv, Line, Pending
<1> HIDE DEF S, J, C
<1>10. Original(m) \in Keys
  BY <1>2 DEF Original, Keys
<1>11. /\ LineOK(S, J, Append(C, Original(m)))
       /\ Originals(S, J, Append(C, Original(m)))
          = Pending \cup {k \in Messages : Original(k) = Original(m)}
  BY <1>8, <1>9, <1>10, LineType
<1>12. {k \in Messages : Original(k) = Original(m)} = {m}
  BY DEF Original
<1>13. \A k \in Messages : typed[k] <= typed'[k]
  BY <1>1, <1>2, <1>3
<1>14. /\ LineOK(S, J, Append(C, KeyOfCommand(c)))
       /\ Originals(S, J, Append(C, KeyOfCommand(c))) = Pending \cup {m}
  BY <1>5, <1>11, <1>12
<1>. QED
  BY <1>1, <1>3, <1>4, <1>5, <1>7, <1>13, <1>14, UserKeeps DEF Given, S, J, C

LEMMA KeepsEdit ==
    ASSUME NEW m \in Messages, IInv, Edit(m)
    PROVE  IInv'
<1> DEFINE S == Stores(store.sent)
           J == Inserts(jobs)
           C == Typing(commands)
           k == <<m, typed[m] + 1>>
<1>1. /\ typed[m] > 0 /\ typed' = [typed EXCEPT ![m] = typed[m] + 1]
      /\ Command("edit", m, typed[m] + 1)
      /\ UNCHANGED <<jobs, results, store, sending, timer, held, packet, deletion, server,
                     deleting, shown, rejected, lost>>
  BY CoreFacts DEF Edit, network
<1>2. /\ typed \in [Messages -> Nat] /\ UserOK /\ m \in Nat
  BY CoreFacts, BoundsAssumption DEF TypesOK, Messages
<1>3. /\ typed' \in [Messages -> Nat] /\ typed'[m] = typed[m] + 1 /\ typed[m] \in Nat
      /\ \A n \in Messages : n # m => typed'[n] = typed[n]
  BY <1>1, <1>2
<1>4. PICK c : Given(c, "edit", m, typed[m] + 1)
  <2>1. Command("edit", m, typed[m] + 1)
    BY <1>1
  <2>. QED
    BY <2>1, CommandGiven
<1>5. IsCommand(c, typed', Created) /\ KeyOfCommand(c) = k
  <2>1. c.version \in 2..typed'[m]
    BY <1>1, <1>3, <1>4 DEF Given
  <2>. QED
    BY <1>4, <2>1 DEF Given, IsCommand, KeyOfCommand
<1>6. NewOriginals({}, typed')
  <2>1. \A n \in Messages : typed'[n] > 0 <=> typed[n] > 0
    BY <1>1, <1>2, <1>3
  <2>. QED
    BY <1>2, <2>1 DEF NewOriginals, UserOK
<1>7. k \in Keys /\ k[1] = m /\ k[2] = typed[m] + 1 /\ k[2] # 1
  BY <1>1, <1>2, <1>3 DEF Keys
<1> HIDE DEF k
<1>8. ASSUME NEW x, In(S, x) \/ In(J, x) \/ In(C, x) PROVE Precedes(x, k)
  <2>1. CASE x = Nothing
    BY <2>1 DEF Precedes
  <2>2. CASE x # Nothing
    <3>1. x[1] \in Messages /\ x[2] \in 1..typed[x[1]]
      BY <1>8, <2>2, LineTyped
    <3>2. x # k
      BY <1>3, <1>7, <3>1
    <3>. QED
      BY <1>7, <3>2 DEF Precedes
  <2>. QED
    BY <2>1, <2>2
<1>9. LineOK(S, J, C) /\ Pending = Originals(S, J, C)
  BY DEF IInv, Line, Pending
<1> HIDE DEF S, J, C
<1>10. /\ LineOK(S, J, Append(C, k))
       /\ Originals(S, J, Append(C, k)) = Pending \cup {n \in Messages : Original(n) = k}
  BY <1>7, <1>8, <1>9, LineType
<1>11. {n \in Messages : Original(n) = k} = {}
  <2>1. \A n : Original(n)[2] = 1
    BY DEF Original
  <2>. QED
    BY <1>7, <2>1
<1>12. \A n \in Messages : typed[n] <= typed'[n]
  BY <1>2, <1>3
<1>13. /\ LineOK(S, J, Append(C, KeyOfCommand(c)))
       /\ Originals(S, J, Append(C, KeyOfCommand(c))) = Pending \cup {}
  BY <1>5, <1>10, <1>11
<1>. QED
  BY <1>1, <1>3, <1>4, <1>5, <1>6, <1>12, <1>13, UserKeeps DEF Given, S, J, C

LEMMA KeepsErase ==
    ASSUME NEW m \in Messages, IInv, Erase(m)
    PROVE  IInv'
<1> DEFINE S == Stores(store.sent)
           J == Inserts(jobs)
           C == Typing(commands)
<1>1. /\ typed' = typed /\ Command("delete", m, 0)
      /\ UNCHANGED <<jobs, results, store, sending, timer, held, packet, deletion, server,
                     deleting, shown, rejected, lost>>
  BY DEF Erase, network
<1>2. /\ typed \in [Messages -> Nat] /\ UserOK
  BY CoreFacts DEF TypesOK
<1>3. PICK c : Given(c, "delete", m, 0)
  <2>1. Command("delete", m, 0)
    BY <1>1
  <2>. QED
    BY <2>1, CommandGiven
<1>4. IsCommand(c, typed', Created) /\ KeyOfCommand(c) = Nothing
  BY <1>3 DEF Given, IsCommand, KeyOfCommand
<1>5. NewOriginals({}, typed')
  BY <1>1, <1>2 DEF NewOriginals, UserOK
<1>6. \A x : Precedes(x, Nothing)
  BY DEF Precedes
<1>7. LineOK(S, J, C) /\ Pending = Originals(S, J, C) /\ Nothing \in Keys
  BY DEF IInv, Line, Pending, Nothing, Keys
<1> HIDE DEF S, J, C
<1>8. /\ LineOK(S, J, Append(C, Nothing))
      /\ Originals(S, J, Append(C, Nothing))
         = Pending \cup {n \in Messages : Original(n) = Nothing}
  BY <1>6, <1>7, LineType
<1>9. {n \in Messages : Original(n) = Nothing} = {}
  BY NothingIsNoOriginal
<1>10. \A n \in Messages : typed[n] <= typed'[n]
  BY <1>1, <1>2
<1>11. /\ LineOK(S, J, Append(C, KeyOfCommand(c)))
       /\ Originals(S, J, Append(C, KeyOfCommand(c))) = Pending \cup {}
  BY <1>4, <1>8, <1>9
<1>. QED
  BY <1>1, <1>2, <1>3, <1>4, <1>5, <1>10, <1>11, UserKeeps DEF Given, S, J, C

-----------------------------------------------------------------------------
(* The server.                                                             *)

\* The request that is in the network has been handled.
PacketHandled ==
    /\ packet' = [packet EXCEPT !.handled = TRUE]
    /\ UNCHANGED <<core, jobs, results, store, held, deletion, user>>

\* What the server's list of messages may become.
OrderGrows ==
    /\ {"order", "text", "deleted"} \subseteq DOMAIN server'
    /\ server'.order \in Seq(Messages)
    /\ Created \subseteq Created' /\ packet.entry.msg \in Created'
    /\ \A m \in Created' : typed[m] > 0
    /\ \A i, j \in DOMAIN server'.order : i < j => server'.order[i] < server'.order[j]
    /\ \A c \in Created' : \A m \in Pending \ Created' : c < m

LEMMA HandledKeeps ==
    ASSUME IInv, packet # None, PacketHandled, OrderGrows
    PROVE  IInv'
<1>1. /\ packet' = [packet EXCEPT !.handled = TRUE]
      /\ UNCHANGED <<jobs, results, store, held, deletion, commands, sending, timer,
                     deleting, shown, typed, rejected, lost>>
  BY DEF PacketHandled, core, user
<1>2. /\ TypesOK /\ UserOK /\ HeldOK(held, packet, jobs, results, Pending, Created)
      /\ typed \in [Messages -> Nat] /\ IsPacket(packet, typed, Created)
  BY CoreFacts DEF TypesOK
<1>3. /\ packet'.entry = packet.entry /\ packet'.handled = TRUE
      /\ {"entry", "handled"} \subseteq DOMAIN packet'
      /\ "nothing" \notin DOMAIN packet'
  BY <1>1, <1>2 DEF IsPacket
<1>4. packet' # None
  <2>1. "nothing" \in DOMAIN None
    BY DEF None
  <2>. QED
    BY <1>3, <2>1
<1>5. Pending' = Pending /\ GivenUp' = GivenUp
  BY <1>1 DEF Pending, GivenUp
<1>6. /\ Created \subseteq Created' /\ packet.entry.msg \in Created'
      /\ \A m \in Messages : typed[m] <= typed[m]
  BY <1>2 DEF OrderGrows
<1>7. UserOK'
  <2>1. \A m \in Messages : shown[m] > 0 => m \in Created'
    BY <1>2, <1>6 DEF UserOK
  <2>. QED
    BY <1>1, <1>2, <2>1 DEF UserOK, OrderGrows
<1>8. TypesOK'
  <2>1. /\ IsStore(store, typed, Created') /\ CommandsOK(commands, typed, Created')
        /\ JobsOK(jobs, typed, Created', rejected) /\ ResultsOK(results, Created')
        /\ IsHeld(held, typed, Created') /\ IsPacket(packet, typed, Created')
    BY <1>2, <1>6, TypesMore DEF TypesOK
  <2>2. IsPacket(packet', typed, Created')
    <3>1. IsEntry(packet.entry, typed, Created')
      BY <2>1 DEF IsPacket
    <3>. QED
      BY <1>3, <1>6, <3>1 DEF IsPacket
  <2>. QED
    BY <1>1, <1>2, <1>7, <2>1, <2>2 DEF TypesOK
<1>9. Line' /\ LoopsOK'
  <2>1. One(packet' # None) = One(packet # None)
    BY <1>4 DEF One
  <2>. QED
    BY <1>1, <2>1 DEF IInv, Line, LoopsOK, LoopCounts
<1>10. HeldOK(held, packet', jobs, results, Pending, Created')
  BY <1>2, <1>3, <1>6 DEF HeldOK
<1>11. OrderOK(server'.order, Pending, Created', typed, GivenUp)
  <2>1. OrderOK(server.order, Pending, Created, typed, GivenUp)
    BY DEF IInv
  <2>2. \A m \in Messages : typed[m] > 0 => m \in Created' \cup GivenUp \cup Pending
    BY <1>6, <2>1 DEF OrderOK
  <2>. QED
    BY <2>2 DEF OrderGrows, OrderOK
<1>. QED
  BY <1>1, <1>5, <1>8, <1>9, <1>10, <1>11 DEF IInv

LEMMA KeepsServerHandles ==
    ASSUME IInv, ServerHandles
    PROVE  IInv'
<1> DEFINE e == packet.entry
           o == server.order
<1>1. packet # None /\ packet.handled # TRUE /\ PacketHandled
  BY DEF ServerHandles, PacketHandled
<1>2. server' = IF e.msgid > 0
                THEN [server EXCEPT !.text[server.order[e.msgid]] = e.text]
                ELSE IF e.msg \in Created /\ ~e.fresh THEN server
                ELSE [server EXCEPT !.order = Append(@, e.msg), !.text[e.msg] = e.text]
  BY DEF ServerHandles
<1>3. /\ held # None /\ IsEntry(e, typed, Created) /\ e.msg \in Messages
      /\ held.entry.iid = e.iid /\ held.entry.msg = e.msg
  BY <1>1, PacketFacts
<1>4. /\ UserOK /\ o \in Seq(Messages) /\ typed \in [Messages -> Nat]
      /\ HeldOK(held, packet, jobs, results, Pending, Created)
      /\ {"order", "text", "deleted"} \subseteq DOMAIN server
      /\ \A m \in Created : typed[m] > 0
      /\ Created \subseteq Messages
  BY CoreFacts DEF TypesOK, UserOK
<1>5. OrderOK(o, Pending, Created, typed, GivenUp)
  BY DEF IInv
<1>6. /\ e.msgid \in Nat /\ (e.msgid > 0 => e.msg \in Created)
      /\ (e.iid[2] # 1 \/ e.fresh => e.msgid > 0) /\ typed[e.msg] > 0
      /\ e.fresh \in BOOLEAN
  <2>1. typed[e.msg] \in Nat /\ e.iid[2] \in 1..typed[e.msg]
    BY <1>3, <1>4 DEF IsEntry
  <2>. QED
    BY <1>3, <2>1 DEF IsEntry, EntryRecord
<1>7. ASSUME server'.order = o, DOMAIN server' = DOMAIN server, e.msg \in Created
      PROVE OrderGrows
  <2>1. Created' = Created
    BY <1>7 DEF Created
  <2>. QED
    BY <1>4, <1>5, <1>7, <2>1 DEF OrderGrows, OrderOK
<1>8. CASE e.msgid > 0
  <2>1. server' = [server EXCEPT !.text[server.order[e.msgid]] = e.text]
    BY <1>2, <1>8
  <2>2. server'.order = o /\ DOMAIN server' = DOMAIN server
    BY <1>4, <2>1
  <2>. QED
    BY <1>1, <1>6, <1>7, <1>8, <2>2, HandledKeeps
<1>9. CASE ~(e.msgid > 0) /\ e.msg \in Created
  <2>1. server' = server
    BY <1>2, <1>6, <1>9
  <2>. QED
    BY <1>1, <1>7, <1>9, <2>1, HandledKeeps
<1>10. CASE ~(e.msgid > 0) /\ e.msg \notin Created
  <2>1. server' = [server EXCEPT !.order = Append(@, e.msg), !.text[e.msg] = e.text]
    BY <1>2, <1>10
  <2>2. server'.order = Append(o, e.msg) /\ DOMAIN server' = DOMAIN server
    BY <1>4, <2>1
  <2>3. /\ server'.order \in Seq(Messages) /\ DOMAIN o = 1..Len(o) /\ Len(o) \in Nat
        /\ DOMAIN server'.order = 1..(Len(o) + 1)
        /\ server'.order[Len(o) + 1] = e.msg
        /\ \A i \in 1..Len(o) : server'.order[i] = o[i]
    <3>1. e.msg \in Messages /\ server'.order = Append(o, e.msg) /\ o \in Seq(Messages)
      BY <1>3, <1>4, <2>2
    <3> HIDE DEF e, o
    <3>. QED
      BY <3>1
  <2> HIDE DEF e
  <2>4. Created = {o[i] : i \in 1..Len(o)}
    BY <2>3 DEF Created
  <2>5. Created' = Created \cup {e.msg}
    <3>1. Created' = {server'.order[i] : i \in 1..(Len(o) + 1)}
      BY <2>3 DEF Created
    <3> HIDE DEF o
    <3>. QED
      BY <2>3, <2>4, <3>1
  <2>6. held.entry.iid[2] = 1 /\ e.msg \in Pending
    BY <1>3, <1>4, <1>6, <1>10 DEF HeldOK
  <2>7. \A m \in Pending : e.msg <= m
    BY <1>3, <1>4, <2>6 DEF HeldOK
  <2>8. \A c \in Created : c < e.msg
    BY <1>5, <1>10, <2>6 DEF OrderOK
  <2>9. \A i, j \in DOMAIN server'.order : i < j => server'.order[i] < server'.order[j]
    <3>1. ASSUME NEW i \in 1..(Len(o) + 1), NEW j \in 1..(Len(o) + 1), i < j
          PROVE server'.order[i] < server'.order[j]
      <4>1. i \in 1..Len(o) /\ (j \in 1..Len(o) \/ j = Len(o) + 1)
        BY <2>3, <3>1
      <4>2. CASE j \in 1..Len(o)
        BY <1>5, <2>3, <3>1, <4>1, <4>2 DEF OrderOK
      <4>3. CASE j = Len(o) + 1
        BY <2>3, <2>4, <2>8, <4>1, <4>3
      <4>. QED
        BY <4>1, <4>2, <4>3
    <3>. QED
      BY <2>3, <3>1
  <2>10. ASSUME NEW c \in Created', NEW m \in Pending \ Created' PROVE c < m
    <3>1. m \in Pending /\ m \notin Created /\ m # e.msg /\ m \in Messages
      BY <2>5, <2>10 DEF Pending, Originals
    <3>2. CASE c \in Created
      BY <1>5, <3>1, <3>2 DEF OrderOK
    <3>3. CASE c = e.msg
      BY <1>3, <2>7, <3>1, <3>3, BoundsAssumption DEF Messages
    <3>. QED
      BY <2>5, <3>2, <3>3
  <2>11. OrderGrows
    <3>1. packet.entry.msg = e.msg
      BY DEF e
    <3>2. \A m \in Created' : typed[m] > 0
      BY <1>4, <1>6, <2>5
    <3>3. {"order", "text", "deleted"} \subseteq DOMAIN server'
      BY <1>4, <2>2
    <3>. QED
      BY <2>3, <2>5, <2>9, <2>10, <3>1, <3>2, <3>3 DEF OrderGrows
  <2>. QED
    BY <1>1, <2>11, HandledKeeps
<1>. QED
  BY <1>8, <1>9, <1>10

LEMMA KeepsServerDeletes ==
    ASSUME IInv, ServerDeletes
    PROVE  IInv'
<1>1. /\ deletion # None /\ deletion' = [deletion EXCEPT !.handled = TRUE]
      /\ server' = [server EXCEPT !.deleted = @ \cup {server.order[deletion.id]}]
      /\ UNCHANGED <<jobs, results, store, held, packet, commands, sending, timer,
                     deleting, shown, typed, rejected, lost>>
  BY DEF ServerDeletes, core, user
<1>2. /\ TypesOK /\ UserOK /\ IsDeletion(deletion)
      /\ HeldOK(held, packet, jobs, results, Pending, Created)
  BY CoreFacts DEF TypesOK
<1>3. server'.order = server.order /\ DOMAIN server' = DOMAIN server
  BY <1>1, <1>2 DEF UserOK
<1>4. Created' = Created /\ GivenUp' = GivenUp /\ Pending' = Pending
  BY <1>1, <1>3 DEF Created, GivenUp, Pending
<1>5. IsDeletion(deletion') /\ "nothing" \notin DOMAIN deletion'
  BY <1>1, <1>2 DEF IsDeletion
<1>6. deletion' # None
  <2>1. "nothing" \in DOMAIN None
    BY DEF None
  <2>. QED
    BY <1>5, <2>1
<1>7. UserOK'
  BY <1>1, <1>2, <1>3, <1>4 DEF UserOK
<1>8. TypesOK'
  BY <1>1, <1>2, <1>4, <1>5, <1>7 DEF TypesOK
<1>9. Line' /\ LoopsOK'
  <2>1. One(deletion' # None) = One(deletion # None)
    BY <1>1, <1>6 DEF One
  <2>. QED
    BY <1>1, <2>1 DEF IInv, Line, LoopsOK, LoopCounts
<1>10. OrderOK(server.order, Pending, Created, typed, GivenUp)
  BY DEF IInv
<1>. QED
  BY <1>1, <1>2, <1>3, <1>4, <1>8, <1>9, <1>10 DEF IInv

-----------------------------------------------------------------------------
(* Crash, and the start.                                                   *)

\* No job, no result, no step of a loop.
LEMMA NoSteps ==
    /\ LoopCounts(FALSE, FALSE, FALSE, None, None, <<>>, <<>>)
    /\ \A O, C : HeldOK(None, None, <<>>, <<>>, O, C)
<1>1. LoopCounts(FALSE, FALSE, FALSE, None, None, <<>>, <<>>)
  <2>1. One(FALSE) = 0 /\ One(None # None) = 0
    BY DEF One
  <2>2. /\ Steps(<<>>, "send") = 0 /\ Steps(<<>>, "confirm") = 0
        /\ Steps(<<>>, "delete") = 0 /\ Steps(<<>>, "timer") = 0
    BY QueueEmpty
  <2>3. /\ One(FALSE) = One(FALSE) + One(None # None) + Steps(<<>>, "send")
                        + Steps(<<>>, "confirm") + Steps(<<>>, "send")
        /\ One(FALSE) = One(None # None) + Steps(<<>>, "delete") + Steps(<<>>, "delete")
        /\ Steps(<<>>, "timer") <= One(FALSE)
    <3> DEFINE a == One(FALSE)
               b == One(None # None)
               c == Steps(<<>>, "send")
               d == Steps(<<>>, "confirm")
               e == Steps(<<>>, "delete")
               f == Steps(<<>>, "timer")
    <3>1. a = 0 /\ b = 0 /\ c = 0 /\ d = 0 /\ e = 0 /\ f = 0
      BY <2>1, <2>2
    <3> HIDE DEF a, b, c, d, e, f
    <3>2. a = a + b + c + d + c /\ a = b + e + e /\ f <= a
      BY <3>1
    <3>. QED
      BY <3>2 DEF a, b, c, d, e, f
  <2>. QED
    BY <2>3, Zenon DEF LoopCounts
<1>2. \A O, C : HeldOK(None, None, <<>>, <<>>, O, C)
  BY NoJobs, QueueEmpty DEF HeldOK
<1>. QED
  BY <1>1, <1>2

\* What is pending and not stored dies with the process.
LEMMA PendingDies ==
    ASSUME IInv, NEW m \in Pending, ~In(Stores(store.sent), Original(m))
    PROVE  m \in DyingSends
<1>1. CommandsOK(commands, typed, Created) /\ JobsOK(jobs, typed, Created, rejected)
  BY CoreFacts DEF TypesOK
<1>2. m \in Messages /\ Original(m)[1] = m /\ Original(m)[2] = 1 /\ Original(m) # Nothing
  BY NothingIsNoOriginal DEF Pending, Originals, Original
<1>3. CASE In(Inserts(jobs), Original(m))
  <2>1. PICK i \in DOMAIN jobs : Original(m) = KeyOfJob(jobs[i])
    BY <1>3 DEF In, Inserts
  <2>2. jobs[i].op = "insert" /\ jobs[i].entry.iid = Original(m)
    BY <1>2, <2>1 DEF KeyOfJob
  <2>3. IsJob(jobs[i], typed, Created, rejected)
    BY <1>1 DEF JobsOK, Elements
  <2>4. jobs[i].entry.msg = m /\ jobs[i].entry.msgid = 0
    BY <1>2, <2>2, <2>3 DEF IsJob, IsEntry
  <2>. QED
    BY <2>2, <2>4 DEF DyingSends, Waiting
<1>4. CASE In(Typing(commands), Original(m))
  <2>1. PICK i \in DOMAIN commands : Original(m) = KeyOfCommand(commands[i])
    BY <1>4 DEF In, Typing
  <2>2. commands[i].do # "delete" /\ Original(m) = <<commands[i].msg, commands[i].version>>
    BY <1>2, <2>1 DEF KeyOfCommand
  <2>3. commands[i].msg = m /\ commands[i].version = 1
    BY <1>2, <2>2
  <2>4. IsCommand(commands[i], typed, Created)
    BY <1>1 DEF CommandsOK, Elements
  <2>5. commands[i].do = "send"
    BY <2>2, <2>3, <2>4 DEF IsCommand
  <2>. QED
    BY <2>3, <2>5 DEF DyingSends
<1>. QED
  BY <1>3, <1>4 DEF Pending, Originals

LEMMA KeepsCrash ==
    ASSUME IInv, Crash
    PROVE  IInv'
<1>1. /\ lost' = lost \cup DyingSends
      /\ commands' = <<>> /\ jobs' = <<>> /\ results' = <<>>
      /\ sending' = FALSE /\ timer' = FALSE /\ deleting' = FALSE
      /\ held' = None /\ packet' = None /\ deletion' = None
      /\ UNCHANGED <<server, shown, typed, rejected>>
  BY DEF Crash
<1>2. store' = Update(store, LAMBDA o : TRUE, LAMBDA o : [o EXCEPT !.posted = FALSE])
  BY DEF Crash
<1>3. TypesOK /\ UserOK /\ IsStore(store, typed, Created)
  BY CoreFacts DEF TypesOK
<1>4. IsStore(store', typed, Created) /\ Stores(store'.sent) = Stores(store.sent)
  BY <1>2, <1>3, StoreUnposted
<1>5. Created' = Created /\ GivenUp' = GivenUp \cup DyingSends
  BY <1>1 DEF Created, GivenUp
<1>6. Line /\ Pending = Originals(Stores(store.sent), Inserts(jobs), Typing(commands))
  BY DEF IInv, Pending
<1>7. /\ LineOK(Stores(store.sent), <<>>, <<>>)
      /\ Originals(Stores(store.sent), <<>>, <<>>)
         = {m \in Messages : In(Stores(store.sent), Original(m))}
  BY <1>6, LineCrash DEF Line
<1>8. /\ Line' /\ Pending' = {m \in Messages : In(Stores(store.sent), Original(m))}
  BY <1>1, <1>4, <1>7, NoJobs DEF Line, Pending
<1>9. TypesOK'
  <2>1. UserOK'
    BY <1>1, <1>3, <1>5 DEF UserOK
  <2>2. /\ IsHeld(None, typed, Created) /\ IsPacket(None, typed, Created)
        /\ IsDeletion(None)
    BY DEF IsHeld, IsPacket, IsDeletion
  <2>. QED
    BY <1>1, <1>4, <1>5, <2>1, <2>2, NoJobs DEF TypesOK
<1>10. LoopsOK' /\ HeldOK(held', packet', jobs', results', Pending', Created)
  BY <1>1, NoSteps DEF LoopsOK
<1>11. OrderOK(server.order, Pending', Created, typed, GivenUp')
  <2>1. OrderOK(server.order, Pending, Created, typed, GivenUp)
    BY DEF IInv
  <2>2. Pending' \subseteq Pending
    BY <1>6, <1>8 DEF Originals
  <2>3. \A m \in Pending : m \in Pending' \/ m \in DyingSends
    BY <1>8, PendingDies DEF Pending, Originals
  <2>4. \A m \in Pending : m \in Pending' \cup Created \cup GivenUp'
    BY <1>5, <2>3
  <2>. QED
    BY <1>5, <2>1, <2>2, <2>4, OrderKept
<1>. QED
  BY <1>1, <1>5, <1>8, <1>9, <1>10, <1>11 DEF IInv

LEMMA InitInvariant ==
    ASSUME Init
    PROVE  IInv
<1>1. /\ commands = <<>> /\ jobs = <<>> /\ results = <<>> /\ store = EmptyStore
      /\ sending = FALSE /\ timer = FALSE /\ deleting = FALSE
      /\ held = None /\ packet = None /\ deletion = None
      /\ server = [order |-> <<>>, text |-> [m \in Messages |-> 0], deleted |-> {}]
      /\ shown = [m \in Messages |-> 0] /\ typed = [m \in Messages |-> 0]
  BY DEF Init
<1>2. /\ server.order = <<>> /\ {"order", "text", "deleted"} \subseteq DOMAIN server
      /\ store.sent = <<>> /\ {"sent", "deletes"} \subseteq DOMAIN store
  BY <1>1 DEF EmptyStore
<1>3. Created = {}
  BY <1>2 DEF Created
<1>4. /\ \A m \in Messages : typed[m] = 0 /\ shown[m] = 0
      /\ typed \in [Messages -> Nat] /\ shown \in [Messages -> Nat]
  BY <1>1
<1>5. UserOK
  BY <1>2, <1>3, <1>4 DEF UserOK
<1>6. IsStore(store, typed, Created)
  BY <1>2, QueueEmpty DEF IsStore
<1>7. Stores(store.sent) = <<>>
  BY <1>2 DEF Stores
<1>8. TypesOK
  <2>1. /\ IsHeld(None, typed, Created) /\ IsPacket(None, typed, Created)
        /\ IsDeletion(None)
    BY DEF IsHeld, IsPacket, IsDeletion
  <2>. QED
    BY <1>1, <1>5, <1>6, <2>1, NoJobs DEF TypesOK
<1>9. Line
  <2>1. <<>> \in Seq(Keys) /\ DOMAIN <<>> = {}
    OBVIOUS
  <2>2. LineOK(<<>>, <<>>, <<>>)
    BY <2>1 DEF LineOK, Sorted, Before
  <2>. QED
    BY <1>1, <1>7, <2>2, NoJobs DEF Line
<1>10. LoopsOK /\ HeldOK(held, packet, jobs, results, Pending, Created)
  BY <1>1, NoSteps DEF LoopsOK
<1>11. OrderOK(server.order, Pending, Created, typed, GivenUp)
  BY <1>2, <1>3, <1>4 DEF OrderOK
<1>. QED
  BY <1>8, <1>9, <1>10, <1>11 DEF IInv

-----------------------------------------------------------------------------
(* Every step.                                                             *)

LEMMA StutterKeeps ==
    ASSUME IInv, UNCHANGED vars
    PROVE  IInv'
<1>1. UNCHANGED <<commands, jobs, results, store, sending, timer, held, packet, deleting,
                  deletion, server, shown, typed, rejected, lost>>
  BY DEF vars, core, network, user
<1>2. Created' = Created /\ GivenUp' = GivenUp /\ Pending' = Pending
  BY <1>1 DEF Created, GivenUp, Pending
<1>3. TypesOK'
  BY <1>1, <1>2 DEF IInv, TypesOK, UserOK
<1>4. Line' /\ LoopsOK'
  BY <1>1 DEF IInv, Line, LoopsOK
<1>. QED
  BY <1>1, <1>2, <1>3, <1>4 DEF IInv

LEMMA StepKeeps ==
    ASSUME IInv, [Next]_vars
    PROVE  IInv'
<1>1. CASE \E m \in Messages : Type(m) \/ Edit(m) \/ Erase(m)
  BY <1>1, KeepsType, KeepsEdit, KeepsErase
<1>2. CASE HandleCommand
  BY <1>2, KeepsSendMessageToContact, KeepsUpdateMessageToContact,
     KeepsDeleteArchiveMessage DEF HandleCommand
<1>3. CASE HandleResult
  BY <1>3, KeepsSendLoopEnds, KeepsStartTimer, KeepsOnTimer, KeepsStampPostTime,
     KeepsSendPendingMessage, KeepsOnHistoryUpdated, KeepsOnRemoved, KeepsOnFound,
     KeepsDeleteLoopEnds, KeepsSendDeletion, KeepsOnImstateDone DEF HandleResult
<1>4. CASE ArchiveStep
  BY <1>4, KeepsRunInsert, KeepsRunReplace, KeepsRunFirst, KeepsRunStamp, KeepsRunHistory,
     KeepsRunRemove, KeepsRunImstate, KeepsRunFind, KeepsRunDelete, KeepsRunFirstDelete,
     KeepsRunUndelete DEF ArchiveStep
<1>5. CASE TimerDue \/ Resume \/ Crash
  BY <1>5, KeepsTimerDue, KeepsResume, KeepsCrash
<1>6. CASE OnSent \/ OnAccepted \/ OnSendFailed \/ OnRejected
  BY <1>6, KeepsOnSent, KeepsOnAccepted, KeepsOnSendFailed, KeepsOnRejected
<1>7. CASE OnDeleted \/ OnDeleteFailed \/ OnDeleteRefused
  BY <1>7, KeepsOnDeleted, KeepsOnDeleteFailed, KeepsOnDeleteRefused
<1>8. CASE \E m \in Messages : OnEventImstate(m) \/ OnServerMessage(m)
  BY <1>8, KeepsOnEventImstate, KeepsOnServerMessage
<1>9. CASE ServerHandles \/ ServerDeletes
  BY <1>9, KeepsServerHandles, KeepsServerDeletes
<1>10. CASE UNCHANGED vars
  BY <1>10, StutterKeeps
<1>. QED
  BY <1>1, <1>2, <1>3, <1>4, <1>5, <1>6, <1>7, <1>8, <1>9, <1>10 DEF Next

-----------------------------------------------------------------------------
(* The theorems.                                                           *)

\* The state always has its type, the line of pending entries is in order and
\* without repetition, and each of the two loops that is active has one step
\* pending: what the handlers of wim::im and of the archive keep between them.
THEOREM InvariantHolds == Spec => []IInv
<1>1. Init => IInv
  BY InitInvariant
<1>2. IInv /\ [Next]_vars => IInv'
  BY StepKeeps
<1>. QED
  BY <1>1, <1>2, PTL DEF Spec

\* An entry's key is a key.
LEMMA EntryKey ==
    ASSUME NEW T, NEW C, NEW e, IsEntry(e, T, C)
    PROVE  e.iid # Nothing
<1>1. e.iid[1] \in Messages
  BY DEF IsEntry, EntryRecord
<1>2. e.iid[1] # 0
  BY <1>1, BoundsAssumption DEF Messages
<1>. QED
  BY <1>2 DEF Nothing

LEMMA InvariantInserts == IInv => InsertsAreNew
<1> SUFFICES ASSUME IInv PROVE InsertsAreNew
  OBVIOUS
<1> DEFINE S == Stores(store.sent)
           J == Inserts(jobs)
<1>1. /\ IsStore(store, typed, Created) /\ JobsOK(jobs, typed, Created, rejected)
      /\ Sorted(S) /\ Sorted(J) /\ Before(S, J)
  BY DEF IInv, TypesOK, Line, LineOK
<1>2. \A k : k # Nothing => ~Precedes(k, k)
  BY DEF Precedes
<1>3. /\ DOMAIN S = DOMAIN store.sent /\ DOMAIN S \subseteq Nat
      /\ \A i \in DOMAIN S : S[i] = store.sent[i].iid /\ S[i] # Nothing
  <2>1. /\ DOMAIN S = 1..Len(store.sent) /\ DOMAIN store.sent = 1..Len(store.sent)
        /\ Len(store.sent) \in Nat
    BY <1>1, StoreKeys
  <2>2. \A i \in DOMAIN store.sent : S[i] = store.sent[i].iid
    BY DEF Stores
  <2>3. \A i \in DOMAIN store.sent : store.sent[i].iid # Nothing
    BY <1>1, EntryKey DEF IsStore, Elements
  <2>. QED
    BY <2>1, <2>2, <2>3
<1>4. /\ DOMAIN J = DOMAIN jobs /\ DOMAIN J \subseteq Nat
      /\ \A i \in Waiting("insert") :
            i \in DOMAIN J /\ J[i] = jobs[i].entry.iid /\ J[i] # Nothing
  <2>1. DOMAIN jobs = 1..Len(jobs) /\ Len(jobs) \in Nat
    BY <1>1, JobKeys
  <2>2. DOMAIN J = DOMAIN jobs
    BY DEF Inserts
  <2>3. ASSUME NEW i \in Waiting("insert")
        PROVE i \in DOMAIN J /\ J[i] = jobs[i].entry.iid /\ J[i] # Nothing
    <3>1. i \in DOMAIN jobs /\ jobs[i].op = "insert"
      BY DEF Waiting
    <3>2. IsJob(jobs[i], typed, Created, rejected)
      BY <1>1, <3>1 DEF JobsOK, Elements
    <3>3. jobs[i].entry.iid # Nothing
      BY <3>1, <3>2, EntryKey DEF IsJob
    <3>4. J[i] = KeyOfJob(jobs[i])
      BY <3>1 DEF Inserts
    <3>. QED
      BY <2>2, <3>1, <3>3, <3>4 DEF KeyOfJob
  <2>. QED
    BY <2>1, <2>2, <2>3
<1> HIDE DEF S, J
<1>5. ASSUME NEW i \in DOMAIN store.sent, NEW j \in DOMAIN store.sent,
             store.sent[i].iid = store.sent[j].iid, i # j
      PROVE FALSE
  <2>1. i < j \/ j < i
    BY <1>3, <1>5
  <2>2. S[i] = S[j] /\ S[i] # Nothing
    BY <1>3, <1>5
  <2>. QED
    BY <1>1, <1>2, <1>3, <2>1, <2>2 DEF Sorted
<1>6. ASSUME NEW i \in Waiting("insert"), Has(store, jobs[i].entry.iid)
      PROVE FALSE
  <2>1. PICK n \in DOMAIN store.sent : store.sent[n].iid = jobs[i].entry.iid
    BY <1>6 DEF Has
  <2>2. S[n] = J[i] /\ S[n] # Nothing
    BY <1>3, <1>4, <2>1
  <2>. QED
    BY <1>1, <1>2, <1>3, <1>4, <2>2 DEF Before
<1>7. ASSUME NEW i \in Waiting("insert"), NEW j \in Waiting("insert") \ {i},
             jobs[j].entry.iid = jobs[i].entry.iid
      PROVE FALSE
  <2>1. i < j \/ j < i
    BY <1>4, <1>7
  <2>2. J[i] = J[j] /\ J[i] # Nothing
    BY <1>4, <1>7
  <2>. QED
    BY <1>1, <1>2, <1>4, <2>1, <2>2 DEF Sorted
<1>. QED
  BY <1>5, <1>6, <1>7 DEF InsertsAreNew

\* insert_message never meets an entry with the same internal id, as its
\* assertion says: the ids in the store and in the jobs that insert are all
\* different, whatever was confirmed, edited or lost before.
THEOREM NothingIsOverwritten == Spec => []InsertsAreNew
  BY InvariantHolds, InvariantInserts, PTL

LEMMA InvariantOrder == IInv => CreatedOnceInOrder
  BY DEF IInv, OrderOK, CreatedOnceInOrder

\* The server creates the messages in the order in which they were typed and
\* each once: post_pending_messages takes the oldest entry of the store, and a
\* repeated request finds its message created.
THEOREM SentOnceInOrder == Spec => []CreatedOnceInOrder
  BY InvariantHolds, InvariantOrder, PTL

LEMMA InvariantLoops == IInv => LoopsRunOnce
<1> SUFFICES ASSUME IInv PROVE LoopsRunOnce
  OBVIOUS
<1>1. /\ JobsOK(jobs, typed, Created, rejected) /\ ResultsOK(results, Created)
      /\ LoopCounts(sending, timer, deleting, packet, deletion, jobs, results)
  BY DEF IInv, TypesOK, LoopsOK
<1>2. \A i \in DOMAIN jobs : /\ jobs[i].op \in JobOps
                             /\ jobs[i].op = "remove" => jobs[i].loop \in BOOLEAN
  BY <1>1 DEF JobsOK, IsJob, Elements
<1>3. \A i \in DOMAIN results : results[i].op \in ResultOps
  BY <1>1 DEF ResultsOK, IsResult, Elements
<1>4. Count(jobs, {"first", "stamp", "history"}) = Steps(jobs, "send")
  <2>1. {i \in DOMAIN jobs : jobs[i].op \in {"first", "stamp", "history"}} = Of(jobs, "send")
    BY <1>2 DEF Of, Class, JobOps
  <2>. QED
    BY <2>1 DEF Count, Steps
<1>5. Cardinality({i \in Waiting("remove") : jobs[i].loop}) = Steps(jobs, "confirm")
  <2>1. {i \in Waiting("remove") : jobs[i].loop} = Of(jobs, "confirm")
    BY <1>2 DEF Of, Class, JobOps, Waiting
  <2>. QED
    BY <2>1 DEF Steps
<1>6. Count(results, {"first", "stamped", "history", "removed"}) = Steps(results, "send")
  <2>1. {i \in DOMAIN results : results[i].op \in {"first", "stamped", "history", "removed"}}
        = Of(results, "send")
    BY <1>3 DEF Of, Class, ResultOps
  <2>. QED
    BY <2>1 DEF Count, Steps
<1>7. Count(jobs, {"firstDelete"}) = Steps(jobs, "delete")
  <2>1. {i \in DOMAIN jobs : jobs[i].op \in {"firstDelete"}} = Of(jobs, "delete")
    BY <1>2 DEF Of, Class, JobOps
  <2>. QED
    BY <2>1 DEF Count, Steps
<1>8. Count(results, {"firstDelete"}) = Steps(results, "delete")
  <2>1. {i \in DOMAIN results : results[i].op \in {"firstDelete"}} = Of(results, "delete")
    BY <1>3 DEF Of, Class, ResultOps
  <2>. QED
    BY <2>1 DEF Count, Steps
<1>. QED
  BY <1>1, <1>4, <1>5, <1>6, <1>7, <1>8 DEF LoopsRunOnce, LoopCounts

\* While sent_pending_messages_active_ is set exactly one step of the send
\* loop is pending, in the timer, the network, the archive's jobs or the
\* results, and none while it is not; the same for the loop of the deletions.
THEOREM LoopsNeitherStickNorDouble == Spec => []LoopsRunOnce
  BY InvariantHolds, InvariantLoops, PTL

LEMMA InvariantPending == IInv => NoMessageLost
<1> SUFFICES ASSUME IInv, NEW m \in Messages, typed[m] > 0, m \notin Created \cup GivenUp
             PROVE  \E v \in 1..typed[m] : Waits(m, v)
  BY DEF NoMessageLost
<1>1. /\ IsStore(store, typed, Created) /\ CommandsOK(commands, typed, Created)
      /\ JobsOK(jobs, typed, Created, rejected) /\ typed[m] \in Nat
  BY CoreFacts DEF TypesOK
<1>2. Original(m)[1] = m /\ Original(m)[2] = 1 /\ Original(m) # Nothing
  BY NothingIsNoOriginal DEF Original
<1>3. m \in Pending
  BY DEF IInv, OrderOK
<1>4. CASE In(Stores(store.sent), Original(m))
  <2>1. PICK i \in DOMAIN store.sent : store.sent[i].iid = Original(m)
    BY <1>4 DEF In, Stores
  <2>2. IsEntry(store.sent[i], typed, Created)
    BY <1>1 DEF IsStore, Elements
  <2>3. store.sent[i].msg = m /\ store.sent[i].text \in 1..typed[m]
    BY <1>2, <2>1, <2>2 DEF IsEntry
  <2>. QED
    BY <2>3 DEF Waits
<1>5. CASE In(Inserts(jobs), Original(m))
  <2>1. PICK i \in DOMAIN jobs : Original(m) = KeyOfJob(jobs[i])
    BY <1>5 DEF In, Inserts
  <2>2. jobs[i].op = "insert" /\ jobs[i].entry.iid = Original(m)
    BY <1>2, <2>1 DEF KeyOfJob
  <2>3. IsEntry(jobs[i].entry, typed, Created)
    BY <1>1, <2>2 DEF JobsOK, Elements, IsJob
  <2>4. jobs[i].entry.msg = m /\ jobs[i].entry.text \in 1..typed[m]
    BY <1>2, <2>2, <2>3 DEF IsEntry
  <2>. QED
    BY <2>2, <2>4 DEF Waits, Waiting
<1>6. CASE In(Typing(commands), Original(m))
  <2>1. PICK i \in DOMAIN commands : Original(m) = KeyOfCommand(commands[i])
    BY <1>6 DEF In, Typing
  <2>2. commands[i].do # "delete" /\ Original(m) = <<commands[i].msg, commands[i].version>>
    BY <1>2, <2>1 DEF KeyOfCommand
  <2>3. commands[i].msg = m /\ commands[i].version = 1
    BY <1>2, <2>2
  <2>4. commands[i].do \in {"send", "edit"}
    BY <1>1, <2>2 DEF CommandsOK, Elements, IsCommand
  <2>5. Waits(m, 1)
    BY <2>3, <2>4 DEF Waits
  <2>6. 1 \in 1..typed[m]
    BY <1>1
  <2>. QED
    BY <2>5, <2>6
<1>. QED
  BY <1>3, <1>4, <1>5, <1>6 DEF Pending, Originals

\* A message that was typed is on the server or waits in a command, a job or
\* the store, unless the server refused it or the process died before it was
\* stored.
THEOREM TypedMessagesWait == Spec => []NoMessageLost
  BY InvariantHolds, InvariantPending, PTL

-----------------------------------------------------------------------------
(* The second part of the invariant, about ids and deletions.  First what  *)
(* the operations of the store do to the entries and the deletions.        *)

KeptUpTo(f, n, q, d) ==
    f = [k \in 0..n |-> IF k = 0 THEN <<>>
                        ELSE IF q[k] = d THEN f[k - 1] ELSE Append(f[k - 1], q[k])]

LEMMA HasLeast ==
    ASSUME NEW S \in SUBSET Nat, S # {}
    PROVE  \E k \in S : \A l \in S : k <= l
<1>1. PICK k \in S : \A l \in S : ~(<<l, k>> \in OpToRel(<, Nat))
  BY NatLessThanWellFounded, WFMin
<1>2. \A l \in S : ~(l < k)
  BY <1>1 DEF OpToRel
<1>. QED
  BY <1>2

\* The recursion of Without has a solution: else there is a least length for
\* which it has none.
LEMMA KeptExists ==
    ASSUME NEW q, NEW d, NEW n \in Nat
    PROVE  \E f : KeptUpTo(f, n, q, d)
<1> DEFINE bad == {k \in Nat : ~\E f : KeptUpTo(f, k, q, d)}
<1> SUFFICES ASSUME bad # {} PROVE FALSE
  OBVIOUS
<1>1. PICK k \in bad : \A l \in bad : k <= l
  <2>1. bad \in SUBSET Nat
    OBVIOUS
  <2> HIDE DEF bad
  <2>. QED
    BY <2>1, HasLeast
<1>2. k \in Nat /\ \A l \in Nat : l < k => \E f : KeptUpTo(f, l, q, d)
  <2>1. ASSUME NEW l \in Nat, l < k PROVE \E f : KeptUpTo(f, l, q, d)
    <3>1. l \notin bad
      BY <1>1, <2>1
    <3>. QED
      BY <3>1
  <2>. QED
    BY <1>1, <2>1
<1>3. CASE k = 0
  <2> DEFINE f == [l \in 0..0 |-> <<>>]
  <2>1. KeptUpTo(f, 0, q, d)
    BY DEF KeptUpTo
  <2>. QED
    BY <1>1, <1>3, <2>1
<1>4. CASE k > 0
  <2>1. k - 1 \in Nat /\ k - 1 < k
    BY <1>2, <1>4
  <2>2. PICK f : KeptUpTo(f, k - 1, q, d)
    BY <1>2, <2>1
  <2> DEFINE g == [l \in 0..k |->
                     IF l < k THEN f[l]
                     ELSE IF q[k] = d THEN f[k - 1] ELSE Append(f[k - 1], q[k])]
  <2>3. \A l \in 0..k : g[l] = IF l = 0 THEN <<>>
                               ELSE IF q[l] = d THEN g[l - 1] ELSE Append(g[l - 1], q[l])
    <3>1. \A l \in 0..(k - 1) : f[l] = IF l = 0 THEN <<>>
                                       ELSE IF q[l] = d THEN f[l - 1]
                                       ELSE Append(f[l - 1], q[l])
      BY <2>2 DEF KeptUpTo
    <3>2. \A l \in 0..(k - 1) : g[l] = f[l]
      BY <1>2
    <3>3. g[k] = IF q[k] = d THEN f[k - 1] ELSE Append(f[k - 1], q[k])
      BY <1>2
    <3> HIDE DEF g
    <3>4. ASSUME NEW l \in 0..k, l < k
          PROVE  g[l] = IF l = 0 THEN <<>>
                        ELSE IF q[l] = d THEN g[l - 1] ELSE Append(g[l - 1], q[l])
      <4>1. l \in 0..(k - 1) /\ (l # 0 => l - 1 \in 0..(k - 1))
        BY <1>2, <3>4
      <4>. QED
        BY <3>1, <3>2, <4>1
    <3>5. k - 1 \in 0..(k - 1)
      BY <2>1
    <3>6. g[k - 1] = f[k - 1]
      BY <3>2, <3>5
    <3>7. ASSUME NEW l \in 0..k, l = k
          PROVE  g[l] = IF l = 0 THEN <<>>
                        ELSE IF q[l] = d THEN g[l - 1] ELSE Append(g[l - 1], q[l])
      BY <1>4, <3>3, <3>6, <3>7
    <3>. QED
      BY <1>2, <3>4, <3>7
  <2>4. g = [l \in 0..k |-> IF l = 0 THEN <<>>
                            ELSE IF q[l] = d THEN g[l - 1] ELSE Append(g[l - 1], q[l])]
    <3>1. g = [l \in 0..k |-> g[l]]
      OBVIOUS
    <3> HIDE DEF g
    <3>. QED
      BY <2>3, <3>1
  <2>5. KeptUpTo(g, k, q, d)
    BY <2>4 DEF KeptUpTo
  <2>. QED
    BY <1>1, <2>5
<1>. QED
  BY <1>2, <1>3, <1>4

\* remove_deleted_message takes out what it names, and only that.
LEMMA WithoutFacts ==
    ASSUME NEW q, IsQueue(q), NEW d
    PROVE  IsQueue(Without(q, d)) /\ Elements(Without(q, d)) = Elements(q) \ {d}
<1> DEFINE n == Len(q)
           f == CHOOSE g : KeptUpTo(g, n, q, d)
<1>1. n \in Nat /\ DOMAIN q = 1..n
  BY DEF IsQueue
<1>2. Without(q, d) = f[n]
  BY DEF Without, KeptUpTo
<1>3. KeptUpTo(f, n, q, d)
  BY <1>1, KeptExists
<1> HIDE DEF f, n
<1> DEFINE good(k) == /\ f[k] \in Seq(Elements(f[k]))
                      /\ Elements(f[k]) = {q[i] : i \in 1..k} \ {d}
           bad == {k \in 0..n : ~good(k)}
<1>4. f[0] = <<>> /\ \A k \in 1..n : f[k] = IF q[k] = d THEN f[k - 1]
                                            ELSE Append(f[k - 1], q[k])
  <2>1. \A k \in 0..n : f[k] = IF k = 0 THEN <<>>
                              ELSE IF q[k] = d THEN f[k - 1] ELSE Append(f[k - 1], q[k])
    BY <1>3 DEF KeptUpTo
  <2>. QED
    BY <1>1, <2>1
<1>5. good(0)
  BY <1>4, QueueEmpty DEF IsQueue
<1>6. ASSUME NEW k \in 1..n, good(k - 1) PROVE good(k)
  <2>1. {q[i] : i \in 1..k} = {q[i] : i \in 1..(k - 1)} \cup {q[k]}
    BY <1>1
  <2>2. CASE q[k] = d
    <3>1. f[k] = f[k - 1]
      BY <1>4, <2>2
    <3>2. {q[i] : i \in 1..k} \ {d} = {q[i] : i \in 1..(k - 1)} \ {d}
      BY <2>1, <2>2
    <3>. QED
      BY <1>6, <3>1, <3>2
  <2>3. CASE q[k] # d
    <3>1. f[k] = Append(f[k - 1], q[k])
      BY <1>4, <2>3
    <3>2. IsQueue(f[k - 1])
      BY <1>6 DEF IsQueue
    <3>3. IsQueue(f[k]) /\ Elements(f[k]) = Elements(f[k - 1]) \cup {q[k]}
      BY <3>1, <3>2, QueueAppend
    <3>4. Elements(f[k - 1]) = {q[i] : i \in 1..(k - 1)} \ {d}
      BY <1>6
    <3>5. Elements(f[k]) = {q[i] : i \in 1..k} \ {d}
      BY <2>1, <2>3, <3>3, <3>4
    <3>. QED
      BY <3>3, <3>5 DEF IsQueue
  <2>. QED
    BY <2>2, <2>3
<1>7. bad = {}
  <2> SUFFICES ASSUME bad # {} PROVE FALSE
    OBVIOUS
  <2>1. bad \in SUBSET Nat
    BY <1>1
  <2>2. PICK k \in bad : \A l \in bad : k <= l
    <3> HIDE DEF bad
    <3>. QED
      BY <2>1, HasLeast
  <2>3. k \in 1..n
    BY <1>1, <1>5, <2>2
  <2>4. k - 1 \in 0..n /\ k - 1 < k /\ k - 1 \in Nat /\ k \in Nat
    BY <1>1, <2>3
  <2>5. k - 1 \notin bad
    BY <2>2, <2>4
  <2>6. good(k - 1)
    BY <2>4, <2>5
  <2>7. good(k)
    BY <1>6, <2>3, <2>6
  <2>. QED
    BY <2>2, <2>7
<1>8. good(n)
  <2>1. n \in 0..n
    BY <1>1
  <2>. QED
    BY <1>7, <2>1
<1>. QED
  BY <1>1, <1>2, <1>8 DEF IsQueue, Elements

LEMMA RewritesInPlace ==
    ASSUME NEW s, NEW r, NEW iid, NEW id, NEW D, NEW force,
           InPlace(s, r, iid, id, D), DeletesGrow(s, r, id)
    PROVE  Rewrites(s, r, iid, id, D, force)
<1>1. ASSUME NEW x \in Elements(r.sent)
      PROVE  \E o \in Elements(s.sent) : Turned(o, x, iid, id, D)
  <2>1. PICK i \in DOMAIN r.sent : x = r.sent[i]
    BY DEF Elements
  <2>2. i \in DOMAIN s.sent /\ Turned(s.sent[i], x, iid, id, D) /\ s.sent[i] \in Elements(s.sent)
    BY <2>1 DEF InPlace, Elements
  <2>. QED
    BY <2>2
<1>2. ASSUME NEW o \in Elements(s.sent)
      PROVE  \E x \in Elements(r.sent) : Turned(o, x, iid, id, D)
  <2>1. PICK i \in DOMAIN s.sent : o = s.sent[i]
    BY DEF Elements
  <2>2. i \in DOMAIN r.sent /\ Turned(o, r.sent[i], iid, id, D) /\ r.sent[i] \in Elements(r.sent)
    BY <2>1 DEF InPlace, Elements
  <2>. QED
    BY <2>2
<1>3. ComeFrom(s, r)
  BY DEF InPlace, ComeFrom, Turned
<1>. QED
  BY <1>1, <1>2, <1>3 DEF Rewrites

LEMMA RewritesDiscarding ==
    ASSUME NEW s, NEW t, NEW iid, NEW id, NEW D, NEW force,
           InPlace(s, t, iid, id, D), DeletesGrow(s, t, id),
           IsQueue(s.sent), IsQueue(t.sent), Unique(s), Has(s, iid),
           {"sent", "deletes"} \subseteq DOMAIN t,
           Get(s, iid).deleted /\ id > 0 => id \in Elements(t.deletes),
           Get(s, iid).deleted \/ ~Get(s, iid).modified \/ force
    PROVE  Rewrites(s, Discard(t, iid), iid, id, D, force)
<1> DEFINE r == Discard(t, iid)
           n == Len(s.sent)
           at == Place(s, iid)
           From(i) == IF i < at THEN i ELSE i + 1
<1>1. /\ DOMAIN s.sent = 1..n /\ DOMAIN t.sent = 1..n /\ n \in Nat /\ Len(t.sent) = n
      /\ \A i \in 1..n : Turned(s.sent[i], t.sent[i], iid, id, D)
  BY DEF InPlace, IsQueue
<1>2. at \in 1..n /\ s.sent[at].iid = iid /\ Get(s, iid) = s.sent[at]
  BY <1>1 DEF Has, Place, Get
<1>3. Has(t, iid) /\ Place(t, iid) = at
  <2>1. t.sent[at].iid = iid
    BY <1>1, <1>2 DEF Turned, Same
  <2>2. Place(t, iid) \in 1..n /\ t.sent[Place(t, iid)].iid = iid
    BY <1>1, <1>2, <2>1 DEF Place
  <2>3. s.sent[Place(t, iid)].iid = iid
    BY <1>1, <2>2 DEF Turned, Same
  <2>. QED
    BY <1>1, <1>2, <2>1, <2>2, <2>3 DEF Has, Unique
<1>4. /\ DOMAIN r.sent = 1..(n - 1)
      /\ \A i \in 1..(n - 1) : r.sent[i] = t.sent[From(i)]
      /\ r.deletes = t.deletes
  BY <1>1, <1>3, Discarded
<1> HIDE DEF r, n, at
<1>5. /\ \A i \in 1..(n - 1) : From(i) \in 1..n /\ From(i) # at
      /\ \A i, j \in 1..(n - 1) : i < j => From(i) < From(j)
      /\ \A k \in 1..n : k # at => \E i \in 1..(n - 1) : From(i) = k
  <2>1. \A i \in 1..(n - 1) : From(i) \in 1..n /\ From(i) # at
    BY <1>1, <1>2
  <2>2. \A i, j \in 1..(n - 1) : i < j => From(i) < From(j)
    BY <1>1, <1>2
  <2>3. ASSUME NEW k \in 1..n, k # at PROVE \E i \in 1..(n - 1) : From(i) = k
    <3>1. CASE k < at
      <4>1. k \in 1..(n - 1) /\ From(k) = k
        BY <1>1, <1>2, <3>1
      <4>. QED
        BY <4>1
    <3>2. CASE k > at
      <4>1. k - 1 \in 1..(n - 1) /\ From(k - 1) = k
        BY <1>1, <1>2, <3>2
      <4>. QED
        BY <4>1
    <3>. QED
      BY <1>1, <1>2, <2>3, <3>1, <3>2
  <2>. QED
    BY <2>1, <2>2, <2>3
<1>6. \A i \in 1..(n - 1) : Turned(s.sent[From(i)], r.sent[i], iid, id, D)
  BY <1>1, <1>4, <1>5
<1> HIDE DEF From
<1>7. ~Has(r, iid)
  <2>1. ASSUME NEW i \in 1..(n - 1), r.sent[i].iid = iid PROVE FALSE
    <3>1. s.sent[From(i)].iid = iid
      BY <1>6, <2>1 DEF Turned, Same
    <3>. QED
      BY <1>1, <1>2, <1>5, <3>1 DEF Unique
  <2>. QED
    BY <1>4, <2>1 DEF Has
<1>8. ASSUME NEW x \in Elements(r.sent)
      PROVE  \E o \in Elements(s.sent) : Turned(o, x, iid, id, D)
  <2>1. PICK i \in 1..(n - 1) : x = r.sent[i]
    BY <1>4 DEF Elements
  <2>2. s.sent[From(i)] \in Elements(s.sent)
    BY <1>1, <1>5 DEF Elements
  <2>. QED
    BY <1>6, <2>1, <2>2
<1>9. ASSUME NEW o \in Elements(s.sent)
      PROVE  \/ \E x \in Elements(r.sent) : Turned(o, x, iid, id, D)
             \/ LetGo(s, r, o, iid, id, force)
  <2>1. PICK k \in 1..n : o = s.sent[k]
    BY <1>1 DEF Elements
  <2>2. CASE k = at
    BY <1>2, <1>4, <1>7, <2>1, <2>2 DEF LetGo
  <2>3. CASE k # at
    <3>1. PICK i \in 1..(n - 1) : From(i) = k
      BY <1>5, <2>3
    <3>2. r.sent[i] \in Elements(r.sent)
      BY <1>4 DEF Elements
    <3>. QED
      BY <1>6, <2>1, <3>1, <3>2
  <2>. QED
    BY <2>2, <2>3
<1>10. ComeFrom(s, r)
  <2>1. ASSUME NEW i \in 1..(n - 1), NEW j \in 1..(n - 1), i < j
        PROVE  \E k, l \in 1..n : k < l /\ Same(s.sent[k], r.sent[i]) /\ Same(s.sent[l], r.sent[j])
    <3>1. From(i) \in 1..n /\ From(j) \in 1..n /\ From(i) < From(j)
      BY <1>5, <2>1
    <3>2. Same(s.sent[From(i)], r.sent[i]) /\ Same(s.sent[From(j)], r.sent[j])
      BY <1>6 DEF Turned
    <3>. QED
      BY <3>1, <3>2
  <2>. QED
    BY <1>1, <1>4, <2>1 DEF ComeFrom
<1>11. DeletesGrow(s, r, id)
  BY <1>4 DEF DeletesGrow
<1>12. Rewrites(s, r, iid, id, D, force)
  BY <1>8, <1>9, <1>10, <1>11 DEF Rewrites
<1>. QED
  BY <1>12 DEF r

\* Each of these changes of an entry is one of a turn.
LEMMA EntryTurns ==
    ASSUME NEW o \in EntryRecord, NEW iid, NEW id \in Nat
    PROVE  /\ \A D : Turned(o, o, iid, id, D)
           /\ \A D, b : Turned(o, [o EXCEPT !.posted = b], iid, id, D)
           /\ (id > 0 /\ o.msgid = id) \/ o.iid = iid =>
                 Turned(o, [o EXCEPT !.deleted = TRUE], iid, id, TRUE)
           /\ o.iid = iid =>
                 /\ \A D : Turned(o, Known(o, id), iid, id, D)
                 /\ Turned(o, [Known(o, id) EXCEPT !.deleted = TRUE], iid, id, TRUE)
                 /\ o.modified => \A D : Turned(o, Confirmed(o, id), iid, id, D)
<1>1. /\ \A D : Turned(o, o, iid, id, D)
      /\ \A D, b : Turned(o, [o EXCEPT !.posted = b], iid, id, D)
  BY DEF Turned, Same, EntryRecord
<1>2. (id > 0 /\ o.msgid = id) \/ o.iid = iid =>
         Turned(o, [o EXCEPT !.deleted = TRUE], iid, id, TRUE)
  BY DEF Turned, Same, EntryRecord
<1>3. o.iid = iid => \A D : Turned(o, Known(o, id), iid, id, D)
  BY DEF Turned, Same, EntryRecord, Known
<1>4. o.iid = iid => Turned(o, [Known(o, id) EXCEPT !.deleted = TRUE], iid, id, TRUE)
  BY DEF Turned, Same, EntryRecord, Known
<1>5. o.iid = iid /\ o.modified => \A D : Turned(o, Confirmed(o, id), iid, id, D)
  BY DEF Turned, Same, EntryRecord, Confirmed
<1>. QED
  BY <1>1, <1>2, <1>3, <1>4, <1>5

LEMMA TurnedTwice ==
    ASSUME NEW iid, NEW id, NEW o, NEW k, NEW x,
           Turned(o, k, iid, id, TRUE), Turned(k, x, iid, id, TRUE)
    PROVE  Turned(o, x, iid, id, TRUE)
  BY DEF Turned, Same

LEMMA StoreSoundFacts ==
    ASSUME NEW s, StoreSound(s)
    PROVE  /\ DOMAIN s.sent = 1..Len(s.sent) /\ Len(s.sent) \in Nat
           /\ \A i \in DOMAIN s.sent : s.sent[i] \in EntryRecord
                                       /\ s.sent[i] \in Elements(s.sent)
           /\ \A id : DeletesGrow(s, s, id)
           /\ \A id : id > 0 => /\ IsQueue(Append(s.deletes, id))
                                /\ Elements(Append(s.deletes, id)) = Elements(s.deletes) \cup {id}
<1>1. \A id : DeletesGrow(s, s, id)
  BY DEF DeletesGrow, StoreSound
<1>2. \A id : /\ IsQueue(Append(s.deletes, id))
              /\ Elements(Append(s.deletes, id)) = Elements(s.deletes) \cup {id}
  BY QueueAppend DEF StoreSound
<1>3. /\ DOMAIN s.sent = 1..Len(s.sent) /\ Len(s.sent) \in Nat
      /\ \A i \in DOMAIN s.sent : s.sent[i] \in EntryRecord
                                  /\ s.sent[i] \in Elements(s.sent)
  BY DEF StoreSound, Elements
<1>. QED
  BY <1>1, <1>2, <1>3

\* insert_deleted_message.
LEMMA StoreMarks ==
    ASSUME NEW s, StoreSound(s), NEW iid, NEW id \in Nat
    PROVE  LET r == InsertDeletedMessage(s, id, iid) IN
           /\ InPlace(s, r, iid, id, TRUE) /\ DeletesGrow(s, r, id)
           /\ {"sent", "deletes"} \subseteq DOMAIN r /\ IsQueue(r.sent)
           /\ id > 0 => id \in Elements(r.deletes)
           /\ \A x \in Elements(r.sent) : x.iid = iid => x.deleted
<1> DEFINE r == InsertDeletedMessage(s, id, iid)
           marks(o) == (id > 0 /\ o.msgid = id) \/ o.iid = iid
<1>1. /\ DOMAIN r = DOMAIN s /\ {"sent", "deletes"} \subseteq DOMAIN r
      /\ r.sent = [i \in DOMAIN s.sent |->
                     IF marks(s.sent[i]) THEN [s.sent[i] EXCEPT !.deleted = TRUE]
                     ELSE s.sent[i]]
      /\ r.deletes = IF id > 0 THEN Append(s.deletes, id) ELSE s.deletes
  BY DEF StoreSound, InsertDeletedMessage, Update
<1> HIDE DEF r
<1>2. /\ DOMAIN s.sent = 1..Len(s.sent) /\ Len(s.sent) \in Nat
      /\ \A i \in DOMAIN s.sent : s.sent[i] \in EntryRecord
  BY StoreSoundFacts
<1>3. InPlace(s, r, iid, id, TRUE)
  <2>1. \A i \in DOMAIN s.sent : Turned(s.sent[i], r.sent[i], iid, id, TRUE)
    BY <1>1, <1>2, EntryTurns
  <2>. QED
    BY <1>1, <2>1 DEF InPlace
<1>4. DeletesGrow(s, r, id) /\ (id > 0 => id \in Elements(r.deletes))
  <2>1. CASE id > 0
    <3>1. r.deletes = Append(s.deletes, id)
      BY <1>1, <2>1
    <3>2. /\ IsQueue(Append(s.deletes, id))
          /\ Elements(Append(s.deletes, id)) = Elements(s.deletes) \cup {id}
      BY <2>1, StoreSoundFacts
    <3>. QED
      BY <2>1, <3>1, <3>2 DEF DeletesGrow
  <2>2. CASE ~(id > 0)
    <3>1. r.deletes = s.deletes
      BY <1>1, <2>2
    <3>. QED
      BY <2>2, <3>1, StoreSoundFacts DEF DeletesGrow
  <2>. QED
    BY <2>1, <2>2
<1>5. IsQueue(r.sent)
  <2>1. \A i \in DOMAIN s.sent : r.sent[i] \in Elements(r.sent)
    BY <1>1 DEF Elements
  <2>2. r.sent \in [1..Len(s.sent) -> Elements(r.sent)]
    BY <1>1, <1>2, <2>1
  <2>. QED
    BY <1>2, <2>2 DEF IsQueue
<1>6. ASSUME NEW x \in Elements(r.sent), x.iid = iid PROVE x.deleted
  <2>1. PICK i \in DOMAIN s.sent : x = r.sent[i]
    BY <1>1 DEF Elements
  <2>2. s.sent[i].iid = iid
    BY <1>3, <1>6, <2>1 DEF InPlace, Turned, Same
  <2>. QED
    BY <1>1, <1>2, <2>1, <2>2 DEF EntryRecord
<1>. QED
  BY <1>1, <1>3, <1>4, <1>5, <1>6 DEF r

\* update_message_post_time, and the start of the process.
LEMMA StorePosts ==
    ASSUME NEW s, StoreSound(s), NEW r, NEW iid, NEW id \in Nat, NEW D,
           r = UpdatePostTime(s, iid)
           \/ r = Update(s, LAMBDA o : TRUE, LAMBDA o : [o EXCEPT !.posted = FALSE])
    PROVE  InPlace(s, r, iid, id, D) /\ DeletesGrow(s, r, id)
<1>1. r.deletes = s.deletes
  BY DEF UpdatePostTime, Update, StoreSound
<1>2. /\ DOMAIN r.sent = DOMAIN s.sent
      /\ \A i \in DOMAIN s.sent : \/ r.sent[i] = s.sent[i]
                                  \/ r.sent[i] = [s.sent[i] EXCEPT !.posted = TRUE]
                                  \/ r.sent[i] = [s.sent[i] EXCEPT !.posted = FALSE]
  <2>1. CASE r = UpdatePostTime(s, iid)
    BY <2>1 DEF UpdatePostTime, Update, StoreSound
  <2>2. CASE r = Update(s, LAMBDA o : TRUE, LAMBDA o : [o EXCEPT !.posted = FALSE])
    BY <2>2 DEF Update, StoreSound
  <2>. QED
    BY <2>1, <2>2
<1>3. \A i \in DOMAIN s.sent : s.sent[i] \in EntryRecord
  BY StoreSoundFacts
<1>4. InPlace(s, r, iid, id, D)
  <2>1. ASSUME NEW i \in DOMAIN s.sent PROVE Turned(s.sent[i], r.sent[i], iid, id, D)
    <3>1. s.sent[i] \in EntryRecord
      BY <1>3
    <3>2. /\ Turned(s.sent[i], s.sent[i], iid, id, D)
          /\ \A b : Turned(s.sent[i], [s.sent[i] EXCEPT !.posted = b], iid, id, D)
      BY <3>1, EntryTurns
    <3>. QED
      BY <1>2, <3>2
  <2>. QED
    BY <1>2, <2>1 DEF InPlace
<1>5. DeletesGrow(s, r, id)
  <2>1. DeletesGrow(s, s, id)
    BY StoreSoundFacts
  <2>. QED
    BY <1>1, <2>1 DEF DeletesGrow
<1>. QED
  BY <1>4, <1>5

\* remove and update_with_imstate.
LEMMA StoreConfirms ==
    ASSUME NEW s, StoreSound(s), Unique(s), NEW iid, NEW id \in Nat,
           NEW force \in BOOLEAN, NEW r,
           \/ r = Remove(s, force, iid, id)
           \/ r = UpdateWithImstate(s, iid, id)
    PROVE  Rewrites(s, r, iid, id, Has(s, iid) /\ Get(s, iid).deleted, force)
<1> DEFINE D == Has(s, iid) /\ Get(s, iid).deleted
           e == Get(s, iid)
<1>1. /\ DOMAIN s.sent = 1..Len(s.sent) /\ Len(s.sent) \in Nat
      /\ \A i \in DOMAIN s.sent : s.sent[i] \in EntryRecord
      /\ DeletesGrow(s, s, id)
  BY StoreSoundFacts
<1>2. ASSUME NEW t, DOMAIN t = DOMAIN s, t.deletes = s.deletes,
             DOMAIN t.sent = DOMAIN s.sent, t.sent = [i \in DOMAIN s.sent |-> t.sent[i]],
             \A i \in DOMAIN s.sent :
                t.sent[i] \in EntryRecord /\ Turned(s.sent[i], t.sent[i], iid, id, D)
      PROVE  InPlace(s, t, iid, id, D) /\ DeletesGrow(s, t, id) /\ StoreSound(t)
  <2>1. InPlace(s, t, iid, id, D)
    BY <1>2 DEF InPlace
  <2>2. DeletesGrow(s, t, id)
    BY <1>1, <1>2 DEF DeletesGrow
  <2>3. StoreSound(t)
    <3>1. t.sent \in [1..Len(s.sent) -> EntryRecord]
      BY <1>1, <1>2
    <3>2. \A i \in 1..Len(s.sent) : t.sent[i] \in Elements(t.sent)
      BY <1>1, <1>2 DEF Elements
    <3>3. t.sent \in [1..Len(s.sent) -> Elements(t.sent)]
      BY <3>1, <3>2
    <3>. QED
      BY <1>1, <1>2, <3>1, <3>3 DEF StoreSound, IsQueue
  <2>. QED
    BY <2>1, <2>2, <2>3
<1>3. \A i \in DOMAIN s.sent : s.sent[i].iid = iid => Has(s, iid) /\ s.sent[i] = e
  BY DEF Has, Get, Place, Unique
<1>4. Has(s, iid) => e \in EntryRecord
  BY <1>1, <1>3 DEF Has
<1>5. CASE ~Has(s, iid)
  <2>1. r = s
    BY <1>5 DEF Remove, UpdateWithImstate
  <2>2. InPlace(s, s, iid, id, D)
    BY <1>1, EntryTurns DEF InPlace
  <2>. QED
    BY <1>1, <2>1, <2>2, RewritesInPlace
<1>6. CASE Has(s, iid) /\ r = Remove(s, force, iid, id)
  <2>1. CASE e.deleted
    <3> DEFINE t == InsertDeletedMessage(s, id, iid)
    <3>1. r = Discard(t, iid)
      BY <1>6, <2>1 DEF Remove
    <3>2. D = TRUE
      BY <1>4, <1>6, <2>1 DEF EntryRecord
    <3>3. /\ InPlace(s, t, iid, id, TRUE) /\ DeletesGrow(s, t, id)
          /\ {"sent", "deletes"} \subseteq DOMAIN t /\ IsQueue(t.sent)
          /\ id > 0 => id \in Elements(t.deletes)
      BY StoreMarks
    <3> HIDE DEF t, D
    <3>4. Rewrites(s, r, iid, id, D, force)
      BY <1>6, <2>1, <3>1, <3>2, <3>3, RewritesDiscarding DEF StoreSound
    <3>. QED
      BY <3>4 DEF D
  <2>2. CASE ~e.deleted /\ e.modified /\ ~force
    <3>1. /\ DOMAIN r = DOMAIN s /\ r.deletes = s.deletes
          /\ r.sent = [i \in DOMAIN s.sent |->
                        IF s.sent[i].iid = iid THEN Confirmed(s.sent[i], id) ELSE s.sent[i]]
      BY <1>6, <2>2 DEF Remove, Update, Confirmed, StoreSound
    <3>2. ASSUME NEW i \in DOMAIN s.sent
          PROVE  r.sent[i] \in EntryRecord /\ Turned(s.sent[i], r.sent[i], iid, id, D)
      <4>1. CASE s.sent[i].iid = iid
        <5>1. r.sent[i] = Confirmed(s.sent[i], id) /\ s.sent[i].modified
          BY <1>3, <2>2, <3>1, <4>1
        <5>2. s.sent[i] \in EntryRecord
          BY <1>1
        <5>3. Confirmed(s.sent[i], id) \in EntryRecord
          BY <5>2 DEF Confirmed, EntryRecord
        <5>. QED
          BY <4>1, <5>1, <5>2, <5>3, EntryTurns
      <4>2. CASE s.sent[i].iid # iid
        <5>1. r.sent[i] = s.sent[i]
          BY <3>1, <4>2
        <5>. QED
          BY <1>1, <5>1, EntryTurns
      <4>. QED
        BY <4>1, <4>2
    <3>3. DOMAIN r.sent = DOMAIN s.sent /\ r.sent = [i \in DOMAIN s.sent |-> r.sent[i]]
      BY <3>1
    <3> HIDE DEF D
    <3>4. InPlace(s, r, iid, id, D) /\ DeletesGrow(s, r, id)
      BY <1>2, <3>1, <3>2, <3>3
    <3>5. Rewrites(s, r, iid, id, D, force)
      BY <3>4, RewritesInPlace
    <3>. QED
      BY <3>5 DEF D
  <2>3. CASE ~e.deleted /\ (~e.modified \/ force)
    <3>1. r = Discard(s, iid)
      BY <1>6, <2>3 DEF Remove
    <3>2. InPlace(s, s, iid, id, D)
      BY <1>1, EntryTurns DEF InPlace
    <3> HIDE DEF D
    <3>3. Rewrites(s, r, iid, id, D, force)
      BY <1>1, <1>6, <2>3, <3>1, <3>2, RewritesDiscarding DEF StoreSound
    <3>. QED
      BY <3>3 DEF D
  <2>. QED
    BY <2>1, <2>2, <2>3
<1>7. CASE Has(s, iid) /\ r = UpdateWithImstate(s, iid, id)
  <2> DEFINE t == Update(s, LAMBDA o : o.iid = iid, LAMBDA o : [o EXCEPT !.msgid = id])
             u == InsertDeletedMessage(t, id, iid)
  <2>1. /\ DOMAIN t = DOMAIN s /\ t.deletes = s.deletes
        /\ t.sent = [i \in DOMAIN s.sent |->
                       IF s.sent[i].iid = iid THEN Known(s.sent[i], id) ELSE s.sent[i]]
    BY DEF Update, Known, StoreSound
  <2>2. r = IF e.deleted THEN Discard(u, iid)
            ELSE IF e.modified THEN t ELSE Discard(t, iid)
    BY <1>7 DEF UpdateWithImstate
  <2> HIDE DEF t
  <2>3. ASSUME NEW i \in DOMAIN s.sent
        PROVE  t.sent[i] \in EntryRecord /\ Turned(s.sent[i], t.sent[i], iid, id, D)
    <3>1. CASE s.sent[i].iid = iid
      <4>1. t.sent[i] = Known(s.sent[i], id) /\ s.sent[i] \in EntryRecord
        BY <1>1, <2>1, <3>1
      <4>2. Known(s.sent[i], id) \in EntryRecord
        BY <4>1 DEF Known, EntryRecord
      <4>3. s.sent[i].iid = iid => \A X : Turned(s.sent[i], Known(s.sent[i], id), iid, id, X)
        BY <4>1, EntryTurns
      <4>4. Turned(s.sent[i], Known(s.sent[i], id), iid, id, D)
        BY <3>1, <4>3
      <4>. QED
        BY <4>1, <4>2, <4>4
    <3>2. CASE s.sent[i].iid # iid
      <4>1. t.sent[i] = s.sent[i]
        BY <2>1, <3>2
      <4>. QED
        BY <1>1, <4>1, EntryTurns
    <3>. QED
      BY <3>1, <3>2
  <2>4. DOMAIN t.sent = DOMAIN s.sent /\ t.sent = [i \in DOMAIN s.sent |-> t.sent[i]]
    BY <2>1
  <2> HIDE DEF D
  <2>5. InPlace(s, t, iid, id, D) /\ DeletesGrow(s, t, id) /\ StoreSound(t)
    BY <1>2, <2>1, <2>3, <2>4
  <2>6. CASE e.deleted
    <3>1. D = TRUE
      BY <1>4, <1>7, <2>6 DEF EntryRecord, D
    <3>2. /\ InPlace(t, u, iid, id, TRUE) /\ DeletesGrow(t, u, id)
          /\ {"sent", "deletes"} \subseteq DOMAIN u /\ IsQueue(u.sent)
          /\ id > 0 => id \in Elements(u.deletes)
      BY <2>5, StoreMarks
    <3> HIDE DEF u
    <3>3. InPlace(s, u, iid, id, D)
      BY <2>5, <3>1, <3>2, TurnedTwice DEF InPlace
    <3>4. DeletesGrow(s, u, id)
      BY <2>1, <3>2 DEF DeletesGrow
    <3>5. r = Discard(u, iid) /\ IsQueue(s.sent)
      BY <2>2, <2>6 DEF StoreSound
    <3>6. Rewrites(s, r, iid, id, D, force)
      BY <1>7, <2>6, <3>2, <3>3, <3>4, <3>5, RewritesDiscarding
    <3>. QED
      BY <3>6 DEF D
  <2>7. CASE ~e.deleted /\ e.modified
    <3>1. Rewrites(s, r, iid, id, D, force)
      BY <2>2, <2>5, <2>7, RewritesInPlace
    <3>. QED
      BY <3>1 DEF D
  <2>8. CASE ~e.deleted /\ ~e.modified
    <3>1. r = Discard(t, iid) /\ IsQueue(s.sent) /\ IsQueue(t.sent)
          /\ {"sent", "deletes"} \subseteq DOMAIN t
      BY <2>2, <2>5, <2>8 DEF StoreSound
    <3>2. Rewrites(s, r, iid, id, D, force)
      BY <1>7, <2>5, <2>8, <3>1, RewritesDiscarding
    <3>. QED
      BY <3>2 DEF D
  <2>. QED
    BY <2>6, <2>7, <2>8
<1>. QED
  BY <1>5, <1>6, <1>7

-----------------------------------------------------------------------------
(* An id is the server's number of the message it is kept with, wherever   *)
(* it is kept; a deletion the user asked for is carried from queue to      *)
(* queue until the server has it.                                          *)

\* A step that moves things from one place to another.
LEMMA Moved ==
    ASSUME IInv', DInv, NEW o, o = server.order, server'.order = o,
           server.deleted \subseteq server'.deleted, rejected \subseteq rejected',
           lost \subseteq lost', lostDeletes \subseteq lostDeletes',
           ShownTold(shown', o), StoreTold(store', o), CarrierTold(held', o),
           CarrierTold(packet', o), DeletionTold(deletion', o),
           DeletionSeen(deletion', server'),
           \A c \in Elements(commands') : c \in Elements(commands) \/ CommandTold(o, c),
           \A j \in Elements(jobs') :
              \/ j \in Elements(jobs)
              \/ /\ JobTold(o, j) /\ HistoryTold(o, j, held')
                 /\ UndeleteSeen(j, server', lostDeletes'),
           \A r \in Elements(results') :
              \/ r \in Elements(results)
              \/ ResultTold(o, r) /\ HistoryTold(o, r, held'),
           \/ held' = None
           \/ held'.entry.msg = held.entry.msg
           \/ \A c \in Elements(jobs') \cup Elements(results') : c.op # "history",
           erased' \subseteq erased \cup InDeletion',
           InDeletion \subseteq InDeletion' \cup DeletionGone'
    PROVE  DInv'
<1>1. HeldOK(held', packet', jobs', results', Pending', Created')
  BY DEF IInv
<1>2. \A c \in Elements(jobs') \cup Elements(results') :
         c.op = "history" => held' # None
  BY <1>1 DEF HeldOK, Confirms
<1>3. IdsOK(o) /\ DeletionsOK
  BY DEF DInv
<1>4. ASSUME NEW c \in Elements(jobs') \cup Elements(results'), HistoryTold(o, c, held)
      PROVE  HistoryTold(o, c, held')
  BY <1>2, <1>4 DEF HistoryTold
<1>5. \A j \in Elements(jobs') : /\ JobTold(o, j) /\ HistoryTold(o, j, held')
                                 /\ UndeleteSeen(j, server', lostDeletes')
  <2>1. ASSUME NEW j \in Elements(jobs'), j \in Elements(jobs)
        PROVE  /\ JobTold(o, j) /\ HistoryTold(o, j, held')
               /\ UndeleteSeen(j, server', lostDeletes')
    <3>1. JobTold(o, j) /\ HistoryTold(o, j, held) /\ UndeleteSeen(j, server, lostDeletes)
      BY <1>3, <2>1 DEF IdsOK, DeletionsOK
    <3>2. UndeleteSeen(j, server', lostDeletes')
      BY <3>1 DEF UndeleteSeen
    <3>. QED
      BY <1>4, <3>1, <3>2
  <2>. QED
    BY <2>1
<1>6. \A r \in Elements(results') : ResultTold(o, r) /\ HistoryTold(o, r, held')
  BY <1>3, <1>4 DEF IdsOK
<1>7. \A c \in Elements(commands') : CommandTold(o, c)
  BY <1>3 DEF IdsOK
<1>8. IdsOK(server.order)'
  BY <1>5, <1>6, <1>7 DEF IdsOK
<1>9. erased' \subseteq InDeletion' \cup DeletionGone'
  <2>1. erased \subseteq InDeletion \cup DeletionGone
    BY <1>3 DEF DeletionsOK
  <2>2. DeletionGone \subseteq DeletionGone'
    BY DEF DeletionGone
  <2>. QED
    BY <2>1, <2>2
<1>10. DeletionsOK'
  BY <1>5, <1>9 DEF DeletionsOK
<1>. QED
  BY <1>8, <1>10 DEF DInv

LEMMA DeletionsGrow ==
    \A a, b : Elements(a) \subseteq Elements(b) =>
        /\ DeleteCommands(a) \subseteq DeleteCommands(b)
        /\ DeleteJobs(a) \subseteq DeleteJobs(b)
        /\ DeleteResults(a) \subseteq DeleteResults(b)
  BY DEF DeleteCommands, DeleteJobs, DeleteResults

\* What the step takes from a queue.
LEMMA CommandLeft ==
    ASSUME IInv, NEW do, NextCommand(do)
    PROVE  /\ Elements(commands) = Elements(commands') \cup {Head(commands)}
           /\ Head(commands) \in Elements(commands) /\ Head(commands).do = do
           /\ IsCommand(Head(commands), typed, Created)
           /\ do # "delete" => DeleteCommands(commands) \subseteq DeleteCommands(commands')
           /\ do = "delete" => DeleteCommands(commands)
                                  \subseteq DeleteCommands(commands') \cup {Head(commands).msg}
<1>1. commands # <<>> /\ commands' = Tail(commands) /\ Head(commands).do = do
      /\ IsCommand(Head(commands), typed, Created)
  BY CommandFacts
<1>2. IsQueue(commands)
  BY DEF IInv, TypesOK, CommandsOK
<1>3. Elements(commands) = Elements(commands') \cup {Head(commands)}
  BY <1>1, <1>2, QueueTail
<1>. QED
  BY <1>1, <1>3 DEF DeleteCommands

LEMMA JobTakenFrom ==
    ASSUME IInv, NEW op, NextJob(op)
    PROVE  /\ Elements(jobs) = Elements(jobs') \cup {Head(jobs)}
           /\ Head(jobs) \in Elements(jobs) /\ Head(jobs).op = op
           /\ IsJob(Head(jobs), typed, Created, rejected)
           /\ op \notin {"find", "delete"} => DeleteJobs(jobs) \subseteq DeleteJobs(jobs')
           /\ op \in {"find", "delete"} =>
                 DeleteJobs(jobs) \subseteq DeleteJobs(jobs') \cup {Head(jobs).msg}
<1>1. /\ jobs # <<>> /\ jobs' = Tail(jobs) /\ Head(jobs).op = op
      /\ IsJob(Head(jobs), typed, Created, rejected) /\ Head(jobs) \in Elements(jobs)
  BY JobFacts
<1>2. IsQueue(jobs)
  BY DEF IInv, TypesOK, JobsOK
<1>3. Elements(jobs) = Elements(jobs') \cup {Head(jobs)}
  BY <1>1, <1>2, QueueTail
<1>. QED
  BY <1>1, <1>3 DEF DeleteJobs

LEMMA ResultTakenFrom ==
    ASSUME IInv, NEW op, NextResult(op)
    PROVE  /\ Elements(results) = Elements(results') \cup {Head(results)}
           /\ Head(results) \in Elements(results) /\ Head(results).op = op
           /\ IsResult(Head(results), Created)
           /\ op # "found" => DeleteResults(results) \subseteq DeleteResults(results')
           /\ op = "found" => DeleteResults(results)
                                 \subseteq DeleteResults(results') \cup {Head(results).msg}
<1>1. results # <<>> /\ results' = Tail(results) /\ Head(results).op = op
      /\ IsResult(Head(results), Created) /\ Head(results) \in Elements(results)
  BY ResultFacts
<1>2. IsQueue(results)
  BY DEF IInv, TypesOK, ResultsOK
<1>3. Elements(results) = Elements(results') \cup {Head(results)}
  BY <1>1, <1>2, QueueTail
<1>. QED
  BY <1>1, <1>3 DEF DeleteResults

\* What it appends.
LEMMA Appended ==
    ASSUME NEW q, IsQueue(q)
    PROVE  /\ \A a : Elements(Append(q, a)) = Elements(q) \cup {a}
           /\ \A a : Elements(q \o <<a>>) = Elements(q) \cup {a}
           /\ \A a, b : Elements(q \o <<a, b>>) = Elements(q) \cup {a, b}
           /\ \A a, op : \A s \in BOOLEAN :
                 /\ Elements(q \o (<<a>> \o FirstIf(s, op))) \subseteq Elements(q) \cup {a, Job(op)}
                 /\ Elements(q) \cup {a} \subseteq Elements(q \o (<<a>> \o FirstIf(s, op)))
<1>1. ASSUME NEW a PROVE /\ IsQueue(Append(q, a))
                         /\ Elements(Append(q, a)) = Elements(q) \cup {a}
                         /\ q \o <<a>> = Append(q, a)
  BY QueueAppend, Concatenations
<1>2. ASSUME NEW a, NEW b PROVE Elements(q \o <<a, b>>) = Elements(q) \cup {a, b}
  <2>1. q \o <<a, b>> = Append(Append(q, a), b)
    BY Concatenations
  <2>2. Elements(Append(Append(q, a), b)) = Elements(Append(q, a)) \cup {b}
    BY <1>1, QueueAppend
  <2>. QED
    BY <1>1, <2>1, <2>2
<1>3. ASSUME NEW a, NEW op, NEW s \in BOOLEAN
      PROVE  /\ Elements(q \o (<<a>> \o FirstIf(s, op))) \subseteq Elements(q) \cup {a, Job(op)}
             /\ Elements(q) \cup {a} \subseteq Elements(q \o (<<a>> \o FirstIf(s, op)))
  <2>1. q \o (<<a>> \o FirstIf(s, op)) = FirstAdded(Append(q, a), s, op)
    BY FirstIfAdds
  <2>2. Elements(Append(Append(q, a), Job(op))) = Elements(Append(q, a)) \cup {Job(op)}
    BY <1>1, QueueAppend
  <2>. QED
    BY <1>1, <2>1, <2>2 DEF FirstAdded
<1>. QED
  BY <1>1, <1>2, <1>3

\* The core thread handles a result, an answer or an event.
LEMMA CoreMoved ==
    ASSUME IInv', DInv, UNCHANGED <<commands, store, server, erased, lost>>,
           rejected \subseteq rejected', lostDeletes \subseteq lostDeletes',
           NEW o, o = server.order, ShownTold(shown', o),
           held' = held \/ held' = None,
           packet' = packet \/ packet' = None \/ (held # None /\ packet'.entry = held.entry),
           deletion' = deletion \/ deletion' = None,
           NEW J, Elements(jobs) \subseteq Elements(jobs'),
           Elements(jobs') \subseteq Elements(jobs) \cup J,
           \A j \in J : /\ JobTold(o, j) /\ HistoryTold(o, j, held)
                        /\ UndeleteSeen(j, server, lostDeletes'),
           Elements(results') \subseteq Elements(results),
           DeleteResults(results) \subseteq DeleteResults(results') \cup DeleteJobs(jobs')
    PROVE  DInv'
<1>1. HeldOK(held', packet', jobs', results', Pending', Created')
  BY DEF IInv
<1>2. \A j \in Elements(jobs') : j.op = "history" => held' # None
  BY <1>1 DEF HeldOK, Confirms
<1>3. IdsOK(o) /\ DeletionsOK
  BY DEF DInv
<1>4. /\ StoreTold(store', o) /\ CarrierTold(held', o) /\ CarrierTold(packet', o)
      /\ DeletionTold(deletion', o) /\ DeletionSeen(deletion', server')
  <2>1. StoreTold(store', o) /\ CarrierTold(held', o)
    BY <1>3 DEF IdsOK, CarrierTold
  <2>2. CarrierTold(packet', o)
    BY <1>3 DEF IdsOK, CarrierTold
  <2>3. DeletionTold(deletion', o) /\ DeletionSeen(deletion', server')
    BY <1>3 DEF IdsOK, DeletionsOK, DeletionTold, DeletionSeen
  <2>. QED
    BY <2>1, <2>2, <2>3
<1>5. \A j \in Elements(jobs') :
         \/ j \in Elements(jobs)
         \/ /\ JobTold(o, j) /\ HistoryTold(o, j, held')
            /\ UndeleteSeen(j, server', lostDeletes')
  <2>1. ASSUME NEW j \in Elements(jobs'), j \in J
        PROVE  /\ JobTold(o, j) /\ HistoryTold(o, j, held')
               /\ UndeleteSeen(j, server', lostDeletes')
    <3>1. HistoryTold(o, j, held')
      BY <1>2, <2>1 DEF HistoryTold
    <3>. QED
      BY <2>1, <3>1
  <2>. QED
    BY <2>1
<1>6. InDeletion \subseteq InDeletion' \cup DeletionGone'
  <2>1. DeleteJobs(jobs) \subseteq DeleteJobs(jobs')
    BY DeletionsGrow
  <2>2. server'.order = o /\ commands' = commands /\ store' = store
    OBVIOUS
  <2>. QED
    BY <2>1, <2>2 DEF InDeletion
<1>7. \/ held' = None \/ held'.entry.msg = held.entry.msg
  OBVIOUS
<1>. QED
  BY <1>4, <1>5, <1>6, <1>7, Moved

\* Jobs and results that carry nothing.
LEMMA Bare ==
    /\ \A o, h, v, L : \A op \in {"first", "stamp", "firstDelete"} :
          /\ JobTold(o, Job(op)) /\ HistoryTold(o, Job(op), h)
          /\ UndeleteSeen(Job(op), v, L)
    /\ \A o, h : \A op \in {"first", "stamped", "removed", "timer"} :
          ResultTold(o, Job(op)) /\ HistoryTold(o, Job(op), h)
  BY DEF Job, JobTold, HistoryTold, UndeleteSeen, ResultTold

LEMMA QueueFacts ==
    ASSUME IInv
    PROVE  /\ IsQueue(commands) /\ IsQueue(jobs) /\ IsQueue(results)
           /\ sending \in BOOLEAN /\ deleting \in BOOLEAN
           /\ shown \in [Messages -> Nat]
  BY DEF IInv, TypesOK, CommandsOK, JobsOK, ResultsOK, UserOK

LEMMA ToldFacts ==
    ASSUME DInv
    PROVE  /\ ShownTold(shown, server.order) /\ StoreTold(store, server.order)
           /\ CarrierTold(held, server.order) /\ CarrierTold(packet, server.order)
           /\ DeletionTold(deletion, server.order) /\ DeletionSeen(deletion, server)
           /\ \A c \in Elements(commands) : CommandTold(server.order, c)
           /\ \A j \in Elements(jobs) : /\ JobTold(server.order, j)
                                        /\ HistoryTold(server.order, j, held)
                                        /\ UndeleteSeen(j, server, lostDeletes)
           /\ \A r \in Elements(results) : /\ ResultTold(server.order, r)
                                           /\ HistoryTold(server.order, r, held)
  BY DEF DInv, IdsOK, DeletionsOK

LEMMA TellsLoopSteps ==
    IInv /\ IInv' /\ DInv
      /\ (SendLoopEnds \/ StartTimer \/ OnTimer \/ StampPostTime \/ SendPendingMessage
            \/ OnRemoved \/ DeleteLoopEnds)
      => DInv'
<1> SUFFICES ASSUME IInv, IInv', DInv,
                    SendLoopEnds \/ StartTimer \/ OnTimer \/ StampPostTime
                      \/ SendPendingMessage \/ OnRemoved \/ DeleteLoopEnds
             PROVE  DInv'
  OBVIOUS
<1> DEFINE o == server.order
           J == {Job("first"), Job("stamp")}
<1>1. /\ UNCHANGED <<commands, store, server, erased, lost, rejected, lostDeletes, shown>>
      /\ held' = held \/ held' = None
      /\ packet' = packet \/ (packet'.entry = held.entry)
      /\ deletion' = deletion
      /\ jobs' = jobs \/ jobs' = jobs \o <<Job("first")>> \/ jobs' = jobs \o <<Job("stamp")>>
  BY DEF SendLoopEnds, StartTimer, OnTimer, StampPostTime, SendPendingMessage, OnRemoved,
         DeleteLoopEnds, core, network, user, Queue
<1>2. PICK op \in {"first", "timer", "stamped", "removed", "firstDelete"} : NextResult(op)
  BY DEF SendLoopEnds, StartTimer, OnTimer, StampPostTime, SendPendingMessage, OnRemoved,
         DeleteLoopEnds
<1>3. /\ Elements(results') \subseteq Elements(results)
      /\ DeleteResults(results) \subseteq DeleteResults(results')
  BY <1>2, ResultTakenFrom
<1>4. /\ Elements(jobs) \subseteq Elements(jobs')
      /\ Elements(jobs') \subseteq Elements(jobs) \cup J
  <2>1. jobs' = jobs \/ \E a \in J : jobs' = jobs \o <<a>>
    BY <1>1
  <2>2. \A a : Elements(jobs \o <<a>>) = Elements(jobs) \cup {a}
    BY QueueFacts, Appended
  <2> HIDE DEF J
  <2>. QED
    BY <2>1, <2>2
<1>5. \A j \in J : /\ JobTold(o, j) /\ HistoryTold(o, j, held)
                   /\ UndeleteSeen(j, server, lostDeletes')
  BY Bare
<1>6. ShownTold(shown', o)
  BY <1>1, ToldFacts
<1>7. packet' = packet \/ (held # None /\ packet'.entry = held.entry)
  <2>1. CASE SendPendingMessage
    <3>1. Head(results) \in Elements(results) /\ Head(results).op = "stamped"
      BY <2>1, ResultTakenFrom DEF SendPendingMessage
    <3>2. held # None
      BY <3>1 DEF IInv, HeldOK, OnHeld
    <3>. QED
      BY <2>1, <3>2 DEF SendPendingMessage
  <2>2. CASE ~SendPendingMessage
    BY <2>2 DEF SendLoopEnds, StartTimer, OnTimer, StampPostTime, OnRemoved,
                DeleteLoopEnds, network
  <2>. QED
    BY <2>1, <2>2
<1> HIDE DEF J, o
<1>. QED
  BY <1>1, <1>3, <1>4, <1>5, <1>6, <1>7, CoreMoved DEF o

\* What a job that is queued has to satisfy.
Fit(j) ==
    /\ JobTold(server.order, j) /\ HistoryTold(server.order, j, held)
    /\ UndeleteSeen(j, server, lostDeletes')

LEMMA CoreQueued ==
    ASSUME IInv, IInv', DInv, UNCHANGED <<commands, store, server, erased, lost>>,
           rejected \subseteq rejected', lostDeletes \subseteq lostDeletes',
           ShownTold(shown', server.order),
           held' = held \/ held' = None,
           packet' = packet \/ packet' = None,
           deletion' = deletion \/ deletion' = None,
           NEW a, Fit(a), NEW b, Fit(b),
           jobs' = jobs \/ jobs' = jobs \o <<a>> \/ jobs' = jobs \o <<a, b>>,
           Elements(results') \subseteq Elements(results),
           DeleteResults(results) \subseteq DeleteResults(results')
    PROVE  DInv'
<1> DEFINE o == server.order
           J == {a, b}
<1>1. \A j \in J : /\ JobTold(o, j) /\ HistoryTold(o, j, held)
                   /\ UndeleteSeen(j, server, lostDeletes')
  BY DEF Fit
<1>2. Elements(jobs) \subseteq Elements(jobs') /\ Elements(jobs') \subseteq Elements(jobs) \cup J
  <2>1. /\ Elements(jobs \o <<a>>) = Elements(jobs) \cup {a}
        /\ Elements(jobs \o <<a, b>>) = Elements(jobs) \cup {a, b}
    BY QueueFacts, Appended
  <2>. QED
    BY <2>1
<1>3. ShownTold(shown', o) /\ packet' \in {packet, None}
  OBVIOUS
<1> HIDE DEF o, J
<1>. QED
  BY <1>1, <1>2, <1>3, CoreMoved DEF o

LEMMA BareFits == Fit(Job("first")) /\ Fit(Job("firstDelete"))
  BY Bare DEF Fit

LEMMA TellsLost ==
    ASSUME IInv, IInv', DInv, OnSendFailed \/ OnDeleteFailed
    PROVE  DInv'
<1>1. /\ UNCHANGED <<commands, store, server, erased, lost, rejected, lostDeletes, shown,
                      jobs, results>>
      /\ held' = held \/ held' = None
      /\ packet' = packet \/ packet' = None
      /\ deletion' = deletion \/ deletion' = None
  BY DEF OnSendFailed, OnDeleteFailed, user
<1>2. ShownTold(shown', server.order)
  BY <1>1, ToldFacts
<1>3. Elements(results') = Elements(results) /\ DeleteResults(results') = DeleteResults(results)
  BY <1>1
<1>. QED
  BY <1>1, <1>2, <1>3, BareFits, CoreQueued

LEMMA TellsOnHistoryUpdated ==
    ASSUME IInv, IInv', DInv, OnHistoryUpdated
    PROVE  DInv'
<1> DEFINE o == server.order
           r == Head(results)
           a == [op |-> "remove", force |-> FALSE, loop |-> TRUE, text |-> r.text,
                 iid |-> held.entry.iid, id |-> r.id]
<1>1. /\ UNCHANGED <<commands, store, server, erased, lost, rejected, lostDeletes,
                      held, packet, deletion>>
      /\ NextResult("history") /\ jobs' = jobs \o <<a>>
      /\ shown' = [shown EXCEPT ![held.entry.msg] = r.id]
  BY DEF OnHistoryUpdated, network, user, Queue
<1>2. /\ r \in Elements(results) /\ r.op = "history"
      /\ Elements(results') \subseteq Elements(results)
      /\ DeleteResults(results) \subseteq DeleteResults(results')
  BY <1>1, ResultTakenFrom
<1>3. Named(o, r.id, held.entry.msg)
  BY <1>2, ToldFacts DEF HistoryTold
<1>4. held # None /\ IsEntry(held.entry, typed, Created)
  BY <1>2 DEF IInv, TypesOK, HeldOK, Confirms, IsHeld
<1>5. ShownTold(shown', o)
  BY <1>1, <1>3, <1>4, QueueFacts, ToldFacts DEF ShownTold, Told
<1>6. Fit(a)
  <2>1. held.entry.iid[1] = held.entry.msg
    BY <1>4 DEF IsEntry
  <2>. QED
    BY <1>3, <2>1 DEF Fit, JobTold, HistoryTold, UndeleteSeen, Told
<1> HIDE DEF a
<1>. QED
  BY <1>1, <1>2, <1>5, <1>6, CoreQueued

LEMMA TellsOnImstateDone ==
    ASSUME IInv, IInv', DInv, OnImstateDone
    PROVE  DInv'
<1> DEFINE o == server.order
           r == Head(results)
<1>1. /\ UNCHANGED <<commands, store, server, erased, lost, rejected, lostDeletes,
                      held, packet, deletion, jobs>>
      /\ NextResult("imstate") /\ shown' = [shown EXCEPT ![r.msg] = r.id]
  BY DEF OnImstateDone, network, user
<1>2. /\ r \in Elements(results) /\ r.op = "imstate"
      /\ Elements(results') \subseteq Elements(results)
      /\ DeleteResults(results) \subseteq DeleteResults(results')
  BY <1>1, ResultTakenFrom
<1>3. Named(o, r.id, r.msg)
  BY <1>2, ToldFacts DEF ResultTold
<1>4. ShownTold(shown', o)
  BY <1>1, <1>3, QueueFacts, ToldFacts DEF ShownTold, Told
<1>. QED
  BY <1>1, <1>2, <1>4, BareFits, CoreQueued

LEMMA MsgIdNamed ==
    ASSUME IInv, NEW m \in Created
    PROVE  Named(server.order, MsgId(m), m)
  BY DEF Created, MsgId, Named

LEMMA TellsOnSent ==
    ASSUME IInv, IInv', DInv, OnSent
    PROVE  DInv'
<1> DEFINE o == server.order
           a == [op |-> "history", id |-> MsgId(packet.entry.msg),
                 text |-> server.text[packet.entry.msg]]
<1>1. /\ UNCHANGED <<commands, store, server, erased, lost, rejected, lostDeletes, shown,
                      held, deletion, results>>
      /\ jobs' = jobs \o <<a>> /\ packet' = None /\ packet # None /\ packet.handled
  BY DEF OnSent, core, user, Queue
<1>2. packet.entry.msg \in Created /\ held.entry.msg = packet.entry.msg
  BY <1>1, PacketFacts
<1>3. Fit(a)
  BY <1>2, MsgIdNamed DEF Fit, JobTold, HistoryTold, UndeleteSeen
<1> HIDE DEF a
<1>5. ShownTold(shown', server.order) /\ Elements(results') = Elements(results)
      /\ DeleteResults(results') = DeleteResults(results)
  BY <1>1, ToldFacts
<1>. QED
  BY <1>1, <1>3, <1>5, CoreQueued

LEMMA TellsOnAccepted ==
    ASSUME IInv, IInv', DInv, OnAccepted
    PROVE  DInv'
<1> DEFINE o == server.order
           a == [op |-> "replace", edit |-> FALSE, entry |-> held.entry]
           b == Job("first")
<1>1. /\ UNCHANGED <<commands, store, server, erased, lost, rejected, lostDeletes, shown,
                      deletion, results>>
      /\ held' = None /\ packet' = None /\ packet # None
      /\ jobs' = jobs \o <<a, b>>
  BY DEF OnAccepted, core, user, Queue
<1>2. held # None
  BY <1>1, PacketFacts
<1>3. Fit(a)
  BY <1>2, ToldFacts DEF Fit, JobTold, HistoryTold, UndeleteSeen, CarrierTold
<1>4. Fit(b)
  BY BareFits
<1> HIDE DEF a, b
<1>6. ShownTold(shown', server.order) /\ Elements(results') = Elements(results)
      /\ DeleteResults(results') = DeleteResults(results)
  BY <1>1, ToldFacts
<1>. QED
  BY <1>1, <1>3, <1>4, <1>6, CoreQueued

LEMMA TellsOnRejected ==
    ASSUME IInv, IInv', DInv, OnRejected
    PROVE  DInv'
<1> DEFINE o == server.order
           a == [op |-> "remove", force |-> TRUE, loop |-> FALSE,
                 text |-> server.text[packet.entry.msg],
                 iid |-> held.entry.iid, id |-> held.entry.msgid]
<1>1. /\ UNCHANGED <<commands, store, server, erased, lost, lostDeletes, shown,
                      deletion, results>>
      /\ rejected \subseteq rejected'
      /\ held' = None /\ packet' = None /\ packet # None
      /\ jobs' = jobs \o <<a>>
  BY DEF OnRejected, core, user, Queue
<1>2. held # None /\ held.entry.iid[1] = held.entry.msg
  BY <1>1, PacketFacts DEF IsEntry
<1>3. Fit(a)
  BY <1>2, ToldFacts DEF Fit, JobTold, HistoryTold, UndeleteSeen, CarrierTold, EntryTold
<1> HIDE DEF a
<1>5. ShownTold(shown', server.order) /\ Elements(results') = Elements(results)
      /\ DeleteResults(results') = DeleteResults(results)
  BY <1>1, ToldFacts
<1>. QED
  BY <1>1, <1>3, <1>5, CoreQueued

LEMMA TellsOnFound ==
    ASSUME IInv, IInv', DInv, OnFound
    PROVE  DInv'
<1> DEFINE o == server.order
           r == Head(results)
           a == [op |-> "delete", msg |-> r.msg, id |-> r.id]
           b == Job("firstDelete")
           J == {a, b}
<1>1. /\ UNCHANGED <<commands, store, server, erased, lost, rejected, lostDeletes, held,
                      packet, deletion, shown>>
      /\ NextResult("found")
      /\ jobs' = jobs \o (<<a>> \o FirstIf(deleting, "firstDelete"))
  BY DEF OnFound, network, user, Queue
<1>2. /\ r \in Elements(results) /\ r.op = "found"
      /\ Elements(results') \subseteq Elements(results)
      /\ DeleteResults(results) \subseteq DeleteResults(results') \cup {r.msg}
  BY <1>1, ResultTakenFrom
<1>3. Told(o, r.id, r.msg)
  BY <1>2, ToldFacts DEF ResultTold
<1>4. Fit(a)
  BY <1>3 DEF Fit, JobTold, HistoryTold, UndeleteSeen
<1>5. \A j \in J : /\ JobTold(o, j) /\ HistoryTold(o, j, held)
                   /\ UndeleteSeen(j, server, lostDeletes')
  BY <1>4, BareFits DEF Fit
<1>6. a.op = "delete" /\ a.msg = r.msg
  OBVIOUS
<1> HIDE DEF a
<1>7. /\ Elements(jobs) \cup {a} \subseteq Elements(jobs')
      /\ Elements(jobs') \subseteq Elements(jobs) \cup J
  BY <1>1, QueueFacts, Appended
<1>8. r.msg \in DeleteJobs(jobs')
  BY <1>6, <1>7 DEF DeleteJobs
<1>9. ShownTold(shown', o)
  BY <1>1, ToldFacts
<1>10. DeleteResults(results) \subseteq DeleteResults(results') \cup DeleteJobs(jobs')
  BY <1>2, <1>8
<1> HIDE DEF J, o
<1>. QED
  BY <1>1, <1>2, <1>5, <1>7, <1>9, <1>10, CoreMoved DEF o

\* The deletion the server has done, or refused, is taken off the list.
LEMMA TellsOnDeleted ==
    ASSUME IInv, IInv', DInv, OnDeleted \/ OnDeleteRefused
    PROVE  DInv'
<1> DEFINE a == [op |-> "undelete", id |-> deletion.id]
           b == Job("firstDelete")
<1>1. /\ UNCHANGED <<commands, store, server, erased, lost, rejected, held, packet, shown,
                      results>>
      /\ deletion # None /\ deletion' = None /\ lostDeletes \subseteq lostDeletes'
      /\ jobs' = jobs \o <<a, b>>
  BY DEF OnDeleted, OnDeleteRefused, core, user, Queue
<1>2. server.order[deletion.id] \in server.deleted \cup lostDeletes'
  <2>1. CASE OnDeleted
    BY <2>1, ToldFacts DEF OnDeleted, DeletionSeen
  <2>2. CASE OnDeleteRefused
    BY <2>2 DEF OnDeleteRefused
  <2>. QED
    BY <2>1, <2>2
<1>3. Fit(a)
  BY <1>1, <1>2, ToldFacts DEF Fit, JobTold, HistoryTold, UndeleteSeen, DeletionTold
<1>4. Fit(b)
  BY BareFits
<1> HIDE DEF a, b
<1>5. /\ ShownTold(shown', server.order) /\ Elements(results') = Elements(results)
      /\ DeleteResults(results') = DeleteResults(results)
  BY <1>1, ToldFacts
<1>. QED
  BY <1>1, <1>3, <1>4, <1>5, CoreQueued

\* What a poll queues for the loops.
LEMMA ResumeQueues ==
    ASSUME Resume
    PROVE  \/ jobs' = jobs \o <<>> \/ jobs' = jobs \o <<Job("first")>>
           \/ jobs' = jobs \o <<Job("firstDelete")>>
           \/ jobs' = jobs \o <<Job("first"), Job("firstDelete")>>
<1> DEFINE a == Job("first")
           b == Job("firstDelete")
<1> DEFINE f == FirstIf(sending, "first")
           d == FirstIf(deleting, "firstDelete")
<1>1. f = <<>> \/ f = <<a>>
  BY DEF FirstIf
<1>2. d = <<>> \/ d = <<b>>
  BY DEF FirstIf
<1> HIDE DEF a, b
<1>3. /\ <<>> \o <<>> = <<>> /\ <<a>> \o <<>> = <<a>> /\ <<>> \o <<b>> = <<b>>
      /\ <<a>> \o <<b>> = <<a, b>>
  <2> DEFINE T == {a, b}
  <2>1. <<>> \in Seq(T) /\ <<a>> \in Seq(T) /\ <<b>> \in Seq(T)
    OBVIOUS
  <2>2. \A x \in Seq(T) : x \o <<>> = x /\ <<>> \o x = x
    OBVIOUS
  <2>3. <<a>> \o <<b>> = <<a, b>>
    <3>1. IsQueue(<<a>>)
      BY DEF IsQueue, Elements
    <3>2. <<a>> \o <<b>> = Append(<<a>>, b)
      BY <3>1, Concatenations
    <3>3. <<>> \o <<a>> = Append(<<>>, a) /\ <<>> \o <<a, b>> = Append(Append(<<>>, a), b)
      BY QueueEmpty, Concatenations
    <3>4. <<a, b>> \in Seq(T)
      OBVIOUS
    <3> HIDE DEF T
    <3>5. <<>> \o <<a>> = <<a>> /\ <<>> \o <<a, b>> = <<a, b>>
      BY <2>1, <2>2, <3>4
    <3>. QED
      BY <3>2, <3>3, <3>5
  <2>. QED
    BY <2>1, <2>2, <2>3
<1>4. f \o d \in {<<>>, <<a>>, <<b>>, <<a, b>>}
  BY <1>1, <1>2, <1>3
<1> HIDE DEF f, d
<1>5. jobs' = jobs \o (f \o d)
  BY DEF Resume, Queue, f, d
<1>. QED
  BY <1>4, <1>5 DEF a, b

LEMMA TellsResume ==
    ASSUME IInv, IInv', DInv, Resume
    PROVE  DInv'
<1> DEFINE a == Job("first")
           b == Job("firstDelete")
<1>1. UNCHANGED <<commands, store, server, erased, lost, rejected, lostDeletes, held, packet,
                  deletion, shown, results>>
  BY DEF Resume, network, user
<1>2. jobs' = jobs \o <<>> \/ jobs' = jobs \o <<a>> \/ jobs' = jobs \o <<b>>
         \/ jobs' = jobs \o <<a, b>>
  BY ResumeQueues
<1>3. jobs \o <<>> = jobs
  BY QueueFacts, Concatenations
<1>4. Fit(a) /\ Fit(b)
  BY BareFits
<1> HIDE DEF a, b
<1>5. /\ ShownTold(shown', server.order) /\ Elements(results') = Elements(results)
      /\ DeleteResults(results') = DeleteResults(results)
  BY <1>1, ToldFacts
<1>6. CASE jobs' = jobs \/ jobs' = jobs \o <<a>> \/ jobs' = jobs \o <<a, b>>
  BY <1>1, <1>4, <1>5, <1>6, CoreQueued
<1>7. CASE jobs' = jobs \o <<b>>
  BY <1>1, <1>4, <1>5, <1>7, CoreQueued
<1>. QED
  BY <1>2, <1>3, <1>6, <1>7

LEMMA TellsEvents ==
    IInv /\ IInv' /\ DInv /\ (\E m \in Messages : OnEventImstate(m) \/ OnServerMessage(m))
      => DInv'
<1> SUFFICES ASSUME IInv, IInv', DInv, NEW m \in Messages,
                    OnEventImstate(m) \/ OnServerMessage(m)
             PROVE  DInv'
  OBVIOUS
<1>1. m \in Created
  BY DEF OnEventImstate, OnServerMessage
<1>2. Named(server.order, MsgId(m), m)
  BY <1>1, MsgIdNamed
<1>3. ASSUME NEW a, Fit(a), jobs' = jobs \o <<a>>,
             UNCHANGED <<commands, store, server, erased, lost, rejected, lostDeletes, held,
                         packet, deletion, results>>,
             shown' = shown \/ shown' = [shown EXCEPT ![m] = MsgId(m)]
      PROVE  DInv'
  <2>1. ShownTold(shown', server.order)
    BY <1>2, <1>3, QueueFacts, ToldFacts DEF ShownTold, Told
  <2>2. /\ Elements(results') = Elements(results)
        /\ DeleteResults(results') = DeleteResults(results)
    BY <1>3
  <2>. QED
    BY <1>3, <2>1, <2>2, CoreQueued
<1>4. Original(m)[1] = m
  BY DEF Original
<1>5. CASE OnEventImstate(m)
  <2> DEFINE a == [op |-> "imstate", text |-> server.text[m], iid |-> Original(m),
                   id |-> MsgId(m)]
  <2>1. /\ jobs' = jobs \o <<a>> /\ shown' = shown
        /\ UNCHANGED <<commands, store, server, erased, lost, rejected, lostDeletes, held,
                       packet, deletion, results>>
    BY <1>5 DEF OnEventImstate, core, user, Queue
  <2>2. Fit(a)
    BY <1>2, <1>4 DEF Fit, JobTold, HistoryTold, UndeleteSeen
  <2> HIDE DEF a
  <2>. QED
    BY <1>3, <2>1, <2>2
<1>6. CASE OnServerMessage(m)
  <2> DEFINE a == [op |-> "remove", force |-> FALSE, loop |-> FALSE,
                   text |-> server.text[m], iid |-> Original(m), id |-> MsgId(m)]
  <2>1. /\ jobs' = jobs \o <<a>> /\ shown' = [shown EXCEPT ![m] = MsgId(m)]
        /\ UNCHANGED <<commands, store, server, erased, lost, rejected, lostDeletes, held,
                       packet, deletion, results>>
    BY <1>6 DEF OnServerMessage, user, Queue
  <2>2. Fit(a)
    BY <1>2, <1>4 DEF Fit, JobTold, HistoryTold, UndeleteSeen, Told
  <2> HIDE DEF a
  <2>. QED
    BY <1>3, <2>1, <2>2
<1>. QED
  BY <1>5, <1>6

\* The queues of jobs and results, when they stay.
LEMMA TellsSendDeletion ==
    ASSUME IInv, IInv', DInv, SendDeletion
    PROVE  DInv'
<1> DEFINE o == server.order
<1>1. /\ UNCHANGED <<commands, store, server, erased, lost, rejected, lostDeletes, held,
                      packet, shown, jobs>>
      /\ NextResult("firstDelete") /\ Head(results).id > 0
      /\ deletion' = [id |-> Head(results).id, handled |-> FALSE]
  BY DEF SendDeletion, core, user
<1>2. /\ Head(results) \in Elements(results) /\ Head(results).op = "firstDelete"
      /\ Elements(results') \subseteq Elements(results)
      /\ DeleteResults(results) \subseteq DeleteResults(results')
  BY <1>1, ResultTakenFrom
<1>3. Head(results).id \in DOMAIN o
  BY <1>1, <1>2, ToldFacts DEF ResultTold
<1>4. DeletionTold(deletion', o) /\ DeletionSeen(deletion', server')
  BY <1>1, <1>3 DEF DeletionTold, DeletionSeen
<1>5. /\ ShownTold(shown', o) /\ StoreTold(store', o) /\ CarrierTold(held', o)
      /\ CarrierTold(packet', o)
  BY <1>1, ToldFacts
<1>6. InDeletion \subseteq InDeletion'
  BY <1>1, <1>2 DEF InDeletion
<1>7. /\ \A j \in Elements(jobs') : j \in Elements(jobs)
      /\ \A c \in Elements(commands') : c \in Elements(commands)
  BY <1>1
<1> HIDE DEF o
<1>. QED
  BY <1>1, <1>2, <1>4, <1>5, <1>6, <1>7, Moved DEF o

LEMMA TellsTimerDue ==
    ASSUME IInv, IInv', DInv, TimerDue
    PROVE  DInv'
<1> DEFINE o == server.order
           r == Job("timer")
<1>1. /\ UNCHANGED <<commands, store, server, erased, lost, rejected, lostDeletes, held,
                      packet, deletion, shown, jobs>>
      /\ results' = Append(results, r)
  BY DEF TimerDue, core, network, user, Result
<1>2. Elements(results') = Elements(results) \cup {r}
  BY <1>1, QueueFacts, Appended
<1>3. DeleteResults(results) \subseteq DeleteResults(results')
  BY <1>2, DeletionsGrow
<1>4. /\ ShownTold(shown', o) /\ StoreTold(store', o) /\ CarrierTold(held', o)
      /\ CarrierTold(packet', o) /\ DeletionTold(deletion', o)
      /\ DeletionSeen(deletion', server')
  BY <1>1, ToldFacts
<1>5. ResultTold(o, r) /\ HistoryTold(o, r, held')
  BY Bare
<1>6. InDeletion \subseteq InDeletion'
  BY <1>1, <1>3 DEF InDeletion
<1>7. /\ \A j \in Elements(jobs') : j \in Elements(jobs)
      /\ \A c \in Elements(commands') : c \in Elements(commands)
      /\ \A x \in Elements(results') : x \in Elements(results) \/ x = r
  BY <1>1, <1>2
<1> HIDE DEF o, r
<1>. QED
  BY <1>1, <1>4, <1>5, <1>6, <1>7, Moved DEF o

\* The core thread handles a command.
LEMMA CommandQueued ==
    ASSUME IInv, IInv', DInv, NEW do, NextCommand(do),
           UNCHANGED <<results, store, held, packet, deletion, server, shown, erased, lost,
                       rejected, lostDeletes>>,
           NEW a, Fit(a), Elements(jobs) \cup {a} \subseteq Elements(jobs'),
           Elements(jobs') \subseteq Elements(jobs) \cup {a, Job("first")},
           do = "delete" => a.op = "find" /\ a.msg = Head(commands).msg
    PROVE  DInv'
<1> DEFINE o == server.order
<1>1. /\ Elements(commands') \subseteq Elements(commands)
      /\ do # "delete" => DeleteCommands(commands) \subseteq DeleteCommands(commands')
      /\ do = "delete" => DeleteCommands(commands)
                             \subseteq DeleteCommands(commands') \cup {Head(commands).msg}
  BY CommandLeft
<1>2. /\ ShownTold(shown', o) /\ StoreTold(store', o) /\ CarrierTold(held', o)
      /\ CarrierTold(packet', o) /\ DeletionTold(deletion', o)
      /\ DeletionSeen(deletion', server')
  BY ToldFacts
<1>3. \A j \in Elements(jobs') :
         \/ j \in Elements(jobs)
         \/ /\ JobTold(o, j) /\ HistoryTold(o, j, held')
            /\ UndeleteSeen(j, server', lostDeletes')
  <2>1. Fit(Job("first"))
    BY BareFits
  <2>. QED
    BY <2>1 DEF Fit
<1>4. DeleteJobs(jobs) \subseteq DeleteJobs(jobs')
  BY DeletionsGrow
<1>5. do = "delete" => Head(commands).msg \in DeleteJobs(jobs')
  BY DEF DeleteJobs
<1>6. DeleteCommands(commands) \subseteq DeleteCommands(commands') \cup DeleteJobs(jobs')
  BY <1>1, <1>5
<1>7. InDeletion \subseteq InDeletion'
  BY <1>4, <1>6 DEF InDeletion
<1>8. \A r \in Elements(results') : r \in Elements(results)
  OBVIOUS
<1> HIDE DEF o
<1>. QED
  BY <1>1, <1>2, <1>3, <1>7, <1>8, Moved DEF o

LEMMA TellsSendMessageToContact ==
    ASSUME IInv, IInv', DInv, SendMessageToContact
    PROVE  DInv'
<1> DEFINE m == Head(commands).msg
           a == [op |-> "insert", entry |-> Entry(m, Original(m), 1, 0, FALSE)]
<1>1. /\ NextCommand("send")
      /\ UNCHANGED <<results, store, held, packet, deletion, server, shown, erased, lost,
                     rejected, lostDeletes>>
      /\ jobs' = jobs \o (<<a>> \o FirstIf(sending, "first"))
  BY DEF SendMessageToContact, network, user, Queue
<1>2. Fit(a)
  BY DEF Fit, JobTold, HistoryTold, UndeleteSeen, EntryTold, Told, Entry
<1> HIDE DEF a
<1>3. /\ Elements(jobs) \cup {a} \subseteq Elements(jobs')
      /\ Elements(jobs') \subseteq Elements(jobs) \cup {a, Job("first")}
  BY <1>1, QueueFacts, Appended
<1>. QED
  BY <1>1, <1>2, <1>3, CommandQueued

LEMMA TellsUpdateMessageToContact ==
    ASSUME IInv, IInv', DInv, UpdateMessageToContact
    PROVE  DInv'
<1> DEFINE c == Head(commands)
           a == IF c.id = 0
                THEN [op |-> "replace", edit |-> TRUE,
                      entry |-> Entry(c.msg, Original(c.msg), c.version, 0, TRUE)]
                ELSE [op |-> "insert",
                      entry |-> Entry(c.msg, <<c.msg, c.version>>, c.version, c.id, FALSE)]
<1>1. /\ NextCommand("edit")
      /\ UNCHANGED <<results, store, held, packet, deletion, server, shown, erased, lost,
                     rejected, lostDeletes>>
      /\ jobs' = jobs \o (<<a>> \o FirstIf(sending, "first"))
  BY DEF UpdateMessageToContact, network, user, Queue
<1>2. CommandTold(server.order, c)
  BY <1>1, CommandLeft, ToldFacts
<1>3. Fit(a)
  <2>1. CASE c.id = 0
    <3>1. a.op = "replace" /\ a.entry.msgid = 0
      BY <2>1 DEF Entry
    <3> HIDE DEF a
    <3>. QED
      BY <3>1 DEF Fit, JobTold, HistoryTold, UndeleteSeen, EntryTold, Told
  <2>2. CASE c.id # 0
    <3>1. a.op = "insert" /\ a.entry.msgid = c.id /\ a.entry.msg = c.msg
      BY <2>2 DEF Entry
    <3> HIDE DEF a
    <3>. QED
      BY <1>2, <3>1 DEF Fit, JobTold, HistoryTold, UndeleteSeen, EntryTold, CommandTold
  <2>. QED
    BY <2>1, <2>2
<1> HIDE DEF a
<1>4. /\ Elements(jobs) \cup {a} \subseteq Elements(jobs')
      /\ Elements(jobs') \subseteq Elements(jobs) \cup {a, Job("first")}
  BY <1>1, QueueFacts, Appended
<1>. QED
  BY <1>1, <1>3, <1>4, CommandQueued

LEMMA TellsDeleteArchiveMessage ==
    ASSUME IInv, IInv', DInv, DeleteArchiveMessage
    PROVE  DInv'
<1> DEFINE c == Head(commands)
           a == [op |-> "find", msg |-> c.msg, id |-> c.id]
<1>1. /\ NextCommand("delete")
      /\ UNCHANGED <<results, store, held, packet, deletion, server, shown, erased, lost,
                     rejected, lostDeletes>>
      /\ jobs' = jobs \o <<a>>
  BY DEF DeleteArchiveMessage, network, user, Queue
<1>2. CommandTold(server.order, c)
  BY <1>1, CommandLeft, ToldFacts
<1>3. Fit(a)
  BY <1>2 DEF Fit, JobTold, HistoryTold, UndeleteSeen, CommandTold
<1>4. a.op = "find" /\ a.msg = c.msg
  OBVIOUS
<1> HIDE DEF a
<1>5. Elements(jobs') = Elements(jobs) \cup {a}
  BY <1>1, QueueFacts, Appended
<1>. QED
  BY <1>1, <1>3, <1>4, <1>5, CommandQueued

\* The user: a command carries what the GUI knows.
LEMMA TellsUser ==
    IInv /\ IInv' /\ DInv /\ (\E m \in Messages : Type(m) \/ Edit(m) \/ Erase(m)) => DInv'
<1> SUFFICES ASSUME IInv, IInv', DInv, NEW m \in Messages, Type(m) \/ Edit(m) \/ Erase(m)
             PROVE  DInv'
  OBVIOUS
<1> DEFINE o == server.order
<1>1. /\ UNCHANGED <<jobs, results, store, held, packet, deletion, server, shown, lost,
                     rejected, lostDeletes>>
      /\ erased' = erased \/ (Erase(m) /\ erased' = erased \cup {m})
  BY DEF Type, Edit, Erase, network
<1>2. PICK do, v : Command(do, m, v) /\ (Erase(m) => do = "delete")
  BY DEF Type, Edit, Erase
<1> DEFINE c == [do |-> do, msg |-> m, id |-> shown[m], version |-> v]
<1>3. Elements(commands') = Elements(commands) \cup {c}
  BY <1>2, QueueFacts, Appended DEF Command
<1>4. CommandTold(o, c)
  BY ToldFacts DEF ShownTold, CommandTold
<1>5. Erase(m) => m \in DeleteCommands(commands')
  <2>1. c \in Elements(commands') /\ c.msg = m /\ (Erase(m) => c.do = "delete")
    BY <1>2, <1>3
  <2> HIDE DEF c
  <2>. QED
    BY <2>1 DEF DeleteCommands
<1> HIDE DEF c
<1>6. DeleteCommands(commands) \subseteq DeleteCommands(commands')
  BY <1>3, DeletionsGrow
<1>7. /\ ShownTold(shown', o) /\ StoreTold(store', o) /\ CarrierTold(held', o)
      /\ CarrierTold(packet', o) /\ DeletionTold(deletion', o)
      /\ DeletionSeen(deletion', server')
  BY <1>1, ToldFacts
<1>8. InDeletion \subseteq InDeletion' /\ erased' \subseteq erased \cup InDeletion'
  BY <1>1, <1>5, <1>6 DEF InDeletion
<1>9. /\ \A j \in Elements(jobs') : j \in Elements(jobs)
      /\ \A r \in Elements(results') : r \in Elements(results)
      /\ \A x \in Elements(commands') : x \in Elements(commands) \/ x = c
  BY <1>1, <1>3
<1> HIDE DEF o
<1>. QED
  BY <1>1, <1>4, <1>7, <1>8, <1>9, Moved DEF o

\* The server's order only grows at its end.
LEMMA ToldMore ==
    ASSUME NEW o, NEW p, \A i \in DOMAIN o : i \in DOMAIN p /\ p[i] = o[i]
    PROVE  /\ \A id, m : Named(o, id, m) => Named(p, id, m)
           /\ \A id, m : Told(o, id, m) => Told(p, id, m)
           /\ \A c : CommandTold(o, c) => CommandTold(p, c)
           /\ \A j : JobTold(o, j) => JobTold(p, j)
           /\ \A r : ResultTold(o, r) => ResultTold(p, r)
           /\ \A c, h : HistoryTold(o, c, h) => HistoryTold(p, c, h)
           /\ \A x : CarrierTold(x, o) => CarrierTold(x, p)
           /\ \A x : DeletionTold(x, o) => DeletionTold(x, p)
           /\ \A s : StoreTold(s, o) => StoreTold(s, p)
           /\ \A s : ShownTold(s, o) => ShownTold(s, p)
<1>1. /\ \A id, m : Named(o, id, m) => Named(p, id, m)
      /\ \A id, m : Told(o, id, m) => Told(p, id, m)
  BY DEF Named, Told
<1>2. \A e : EntryTold(o, e) => EntryTold(p, e)
  BY <1>1 DEF EntryTold
<1>3. /\ \A c : CommandTold(o, c) => CommandTold(p, c)
      /\ \A c, h : HistoryTold(o, c, h) => HistoryTold(p, c, h)
      /\ \A s : ShownTold(s, o) => ShownTold(s, p)
  BY <1>1 DEF CommandTold, HistoryTold, ShownTold
<1>4. /\ \A x : CarrierTold(x, o) => CarrierTold(x, p)
      /\ \A x : DeletionTold(x, o) => DeletionTold(x, p)
  BY <1>2 DEF CarrierTold, DeletionTold
<1>5. \A j : JobTold(o, j) => JobTold(p, j)
  BY <1>1, <1>2 DEF JobTold
<1>6. \A r : ResultTold(o, r) => ResultTold(p, r)
  BY <1>1 DEF ResultTold
<1>7. ASSUME NEW s, StoreTold(s, o) PROVE StoreTold(s, p)
  <2>1. \A d \in Elements(s.deletes) : d \in DOMAIN p
    BY <1>7 DEF StoreTold
  <2>. QED
    BY <1>2, <1>7, <2>1 DEF StoreTold
<1>. QED
  BY <1>1, <1>3, <1>4, <1>5, <1>6, <1>7

LEMMA TellsServerHandles ==
    ASSUME IInv, IInv', DInv, ServerHandles
    PROVE  DInv'
<1> DEFINE o == server.order
           p == server'.order
<1>1. /\ UNCHANGED <<commands, shown, jobs, results, store, held, deletion, erased, lost,
                     rejected, lostDeletes>>
      /\ packet # None /\ packet' = [packet EXCEPT !.handled = TRUE]
  BY DEF ServerHandles, core, user
<1>2. /\ \A i \in DOMAIN o : i \in DOMAIN p /\ p[i] = o[i]
      /\ server'.deleted = server.deleted
  <2>1. o \in Seq(Messages) /\ {"order", "text", "deleted"} \subseteq DOMAIN server
    BY DEF IInv, TypesOK, UserOK
  <2>2. packet.entry.msg \in Messages
    BY <1>1, PacketFacts
  <2>3. p = o \/ p = Append(o, packet.entry.msg)
    BY <2>1 DEF ServerHandles
  <2>4. server'.deleted = server.deleted
    BY <2>1 DEF ServerHandles
  <2> HIDE DEF o, p
  <2>5. DOMAIN o = 1..Len(o) /\ Len(o) \in Nat
    BY <2>1
  <2>6. \A i \in DOMAIN o : i \in DOMAIN p /\ p[i] = o[i]
    BY <2>1, <2>2, <2>3, <2>5
  <2>. QED
    BY <2>4, <2>6
<1>3. packet'.entry = packet.entry
  BY <1>1 DEF IInv, TypesOK, IsPacket
<1>4. IdsOK(o) /\ DeletionsOK
  BY DEF DInv
<1> HIDE DEF o, p
<1>5. CarrierTold(packet', p)
  BY <1>1, <1>2, <1>3, <1>4, ToldMore DEF IdsOK, CarrierTold
<1>6. /\ ShownTold(shown', p) /\ StoreTold(store', p) /\ CarrierTold(held', p)
      /\ DeletionTold(deletion', p)
      /\ \A c \in Elements(commands') : CommandTold(p, c)
      /\ \A j \in Elements(jobs') : JobTold(p, j) /\ HistoryTold(p, j, held')
      /\ \A r \in Elements(results') : ResultTold(p, r) /\ HistoryTold(p, r, held')
  BY <1>1, <1>2, <1>4, ToldMore DEF IdsOK
<1>7. IdsOK(server.order)'
  BY <1>5, <1>6 DEF IdsOK, p
<1>8. DeletionSeen(deletion', server')
  BY <1>1, <1>2, <1>4 DEF DeletionsOK, DeletionSeen, IdsOK, DeletionTold, o, p
<1>9. ASSUME NEW j \in Elements(jobs') PROVE UndeleteSeen(j, server', lostDeletes')
  BY <1>1, <1>2, <1>4 DEF DeletionsOK, UndeleteSeen, IdsOK, JobTold, o, p
<1>10. InDeletion \subseteq InDeletion' /\ DeletionGone \subseteq DeletionGone'
  <2>1. \A d \in Elements(store.deletes) : d \in DOMAIN o
    BY <1>4 DEF IdsOK, StoreTold
  <2>2. DeletedIn(store, o) \subseteq DeletedIn(store, p)
    BY <1>2, <2>1 DEF DeletedIn
  <2>3. InDeletion \subseteq InDeletion'
    BY <1>1, <2>2 DEF InDeletion, o, p
  <2>. QED
    BY <1>1, <1>2, <2>3 DEF DeletionGone
<1>11. erased' \subseteq InDeletion' \cup DeletionGone'
  BY <1>1, <1>4, <1>10 DEF DeletionsOK
<1>. QED
  BY <1>7, <1>8, <1>9, <1>11 DEF DInv, DeletionsOK

LEMMA TellsServerDeletes ==
    ASSUME IInv, IInv', DInv, ServerDeletes
    PROVE  DInv'
<1> DEFINE o == server.order
<1>1. /\ UNCHANGED <<commands, shown, jobs, results, store, held, packet, erased, lost,
                     rejected, lostDeletes>>
      /\ deletion # None /\ deletion' = [deletion EXCEPT !.handled = TRUE]
      /\ server' = [server EXCEPT !.deleted = @ \cup {server.order[deletion.id]}]
  BY DEF ServerDeletes, core, user
<1>2. /\ server'.order = o /\ server'.deleted = server.deleted \cup {o[deletion.id]}
      /\ deletion'.id = deletion.id
  <2>1. {"order", "text", "deleted"} \subseteq DOMAIN server /\ IsDeletion(deletion)
    BY DEF IInv, TypesOK, UserOK
  <2>. QED
    BY <1>1, <2>1 DEF IsDeletion
<1>3. DeletionTold(deletion', o) /\ DeletionSeen(deletion', server')
  BY <1>1, <1>2, ToldFacts DEF DeletionTold, DeletionSeen
<1>4. /\ ShownTold(shown', o) /\ StoreTold(store', o) /\ CarrierTold(held', o)
      /\ CarrierTold(packet', o)
  BY <1>1, ToldFacts
<1>5. InDeletion \subseteq InDeletion'
  BY <1>1, <1>2 DEF InDeletion
<1>6. /\ \A j \in Elements(jobs') : j \in Elements(jobs)
      /\ \A r \in Elements(results') : r \in Elements(results)
      /\ \A c \in Elements(commands') : c \in Elements(commands)
  BY <1>1
<1> HIDE DEF o
<1>. QED
  BY <1>1, <1>2, <1>3, <1>4, <1>5, <1>6, Moved DEF o

\* The archive's thread takes a job.
LEMMA ArchiveMoved ==
    ASSUME IInv, IInv', DInv, NEW op, NextJob(op),
           UNCHANGED <<core, network, erased, lost, rejected>>, lostDeletes \subseteq lostDeletes',
           StoreTold(store', server.order), CarrierTold(held', server.order),
           NEW r,
           \/ results' = results
           \/ /\ results' = Append(results, r)
              /\ ResultTold(server.order, r) /\ HistoryTold(server.order, r, held'),
           \/ held' = None
           \/ held'.entry.msg = held.entry.msg
           \/ \A c \in Elements(jobs') \cup Elements(results') : c.op # "history",
           DeletedIn(store, server.order) \subseteq InDeletion' \cup DeletionGone',
           op \in {"find", "delete"} => Head(jobs).msg \in InDeletion' \cup DeletionGone'
    PROVE  DInv'
<1> DEFINE o == server.order
<1>1. /\ Elements(jobs') \subseteq Elements(jobs)
      /\ op \notin {"find", "delete"} => DeleteJobs(jobs) \subseteq DeleteJobs(jobs')
      /\ op \in {"find", "delete"} =>
                 DeleteJobs(jobs) \subseteq DeleteJobs(jobs') \cup {Head(jobs).msg}
  BY JobTakenFrom
<1>2. UNCHANGED <<commands, shown, packet, deletion, server>>
  BY DEF core, network
<1>3. /\ ShownTold(shown', o) /\ CarrierTold(packet', o) /\ DeletionTold(deletion', o)
      /\ DeletionSeen(deletion', server')
  BY <1>2, ToldFacts
<1>4. Elements(results') = Elements(results) \/ Elements(results') = Elements(results) \cup {r}
  BY QueueFacts, Appended
<1>5. \A x \in Elements(results') :
         x \in Elements(results) \/ (ResultTold(o, x) /\ HistoryTold(o, x, held'))
  BY <1>4
<1>6. DeleteResults(results) \subseteq DeleteResults(results')
  BY <1>4, DeletionsGrow
<1>7. InDeletion \subseteq InDeletion' \cup DeletionGone'
  <2>1. DeleteJobs(jobs) \subseteq InDeletion' \cup DeletionGone'
    <3>1. DeleteJobs(jobs') \subseteq InDeletion'
      BY DEF InDeletion
    <3>. QED
      BY <1>1, <3>1
  <2>2. DeleteResults(results') \cup DeleteCommands(commands') \subseteq InDeletion'
    BY DEF InDeletion
  <2>. QED
    BY <1>2, <1>6, <2>1, <2>2 DEF InDeletion
<1>8. /\ \A j \in Elements(jobs') : j \in Elements(jobs)
      /\ \A c \in Elements(commands') : c \in Elements(commands)
  BY <1>1, <1>2
<1>9. server'.order = o /\ server.deleted \subseteq server'.deleted
  BY <1>2
<1> HIDE DEF o
<1>. QED
  BY <1>2, <1>3, <1>5, <1>7, <1>8, <1>9, Moved DEF o

\* It reads the store.
LEMMA ArchiveTells ==
    ASSUME IInv, IInv', DInv, NEW op, NextJob(op), op # "delete",
           UNCHANGED <<core, network, store, held, erased, lost, rejected, lostDeletes>>,
           NEW r, results' = Append(results, r),
           ResultTold(server.order, r), HistoryTold(server.order, r, held),
           op = "find" => r.op = "found" /\ r.msg = Head(jobs).msg
    PROVE  DInv'
<1>1. /\ StoreTold(store', server.order) /\ CarrierTold(held', server.order)
  BY ToldFacts
<1>2. DeletedIn(store, server.order) \subseteq InDeletion'
  BY DEF InDeletion, network
<1>3. op = "find" => Head(jobs).msg \in InDeletion'
  <2>1. r \in Elements(results')
    BY QueueFacts, Appended
  <2>2. op = "find" => Head(jobs).msg \in DeleteResults(results')
    BY <2>1 DEF DeleteResults
  <2>. QED
    BY <2>2 DEF InDeletion
<1>4. held' = None \/ held'.entry.msg = held.entry.msg
  OBVIOUS
<1>5. HistoryTold(server.order, r, held')
  OBVIOUS
<1>. QED
  BY <1>1, <1>2, <1>3, <1>4, <1>5, ArchiveMoved

LEMMA TellsRunHistory ==
    ASSUME IInv, IInv', DInv, RunHistory
    PROVE  DInv'
<1> DEFINE j == Head(jobs)
           r == [op |-> "history", id |-> j.id, text |-> j.text]
<1>1. /\ NextJob("history") /\ results' = Append(results, r)
      /\ UNCHANGED <<core, network, store, held, erased, lost, rejected, lostDeletes>>
  BY DEF RunHistory, user, Result
<1>2. j \in Elements(jobs) /\ j.op = "history"
  BY <1>1, JobTakenFrom
<1>3. HistoryTold(server.order, j, held)
  BY <1>2, ToldFacts
<1>4. ResultTold(server.order, r) /\ HistoryTold(server.order, r, held)
  BY <1>2, <1>3 DEF ResultTold, HistoryTold
<1> HIDE DEF r
<1>. QED
  BY <1>1, <1>4, ArchiveTells

LEMMA TellsRunFind ==
    ASSUME IInv, IInv', DInv, RunFind
    PROVE  DInv'
<1> DEFINE j == Head(jobs)
           r == [op |-> "found", msg |-> j.msg, id |-> j.id]
<1>1. /\ NextJob("find") /\ results' = Append(results, r)
      /\ UNCHANGED <<core, network, store, held, erased, lost, rejected, lostDeletes>>
  BY DEF RunFind, user, Result
<1>2. j \in Elements(jobs) /\ j.op = "find"
  BY <1>1, JobTakenFrom
<1>3. Told(server.order, j.id, j.msg)
  BY <1>2, ToldFacts DEF JobTold
<1>4. ResultTold(server.order, r) /\ HistoryTold(server.order, r, held)
  BY <1>3 DEF ResultTold, HistoryTold
<1>5. r.op = "found" /\ r.msg = j.msg
  OBVIOUS
<1> HIDE DEF r
<1>. QED
  BY <1>1, <1>4, <1>5, ArchiveTells

LEMMA TellsRunFirstDelete ==
    ASSUME IInv, IInv', DInv, RunFirstDelete
    PROVE  DInv'
<1> DEFINE id == IF store.deletes = <<>> THEN 0 ELSE Head(store.deletes)
           r == [op |-> "firstDelete", id |-> id]
<1>1. /\ NextJob("firstDelete") /\ results' = Append(results, r)
      /\ UNCHANGED <<core, network, store, held, erased, lost, rejected, lostDeletes>>
  BY DEF RunFirstDelete, user, Result
<1>2. id = 0 \/ id \in DOMAIN server.order
  <2>1. IsQueue(store.deletes) /\ Elements(store.deletes) \subseteq DOMAIN server.order
    BY ToldFacts DEF StoreTold
  <2>2. store.deletes # <<>> => Head(store.deletes) \in Elements(store.deletes)
    BY <2>1, QueueTail
  <2>. QED
    BY <2>1, <2>2
<1>3. ResultTold(server.order, r) /\ HistoryTold(server.order, r, held)
  BY <1>2 DEF ResultTold, HistoryTold
<1> HIDE DEF r
<1>. QED
  BY <1>1, <1>3, ArchiveTells

\* The object the loop holds follows the store.
LEMMA FollowTold ==
    ASSUME IInv, IInv', DInv, UNCHANGED <<typed, server>>, NEW X, Follow(X),
           StoreTold(store', server.order)
    PROVE  /\ CarrierTold(held', server.order)
           /\ held' = None \/ held'.entry.msg = held.entry.msg
<1>1. IsHeld(held, typed, Created) /\ IsStore(store', typed, Created)
  BY DEF IInv, TypesOK, Created
<1>2. held' = None \/ (held # None /\ held'.entry.msg = held.entry.msg)
  BY <1>1, FollowFacts
<1>3. CarrierTold(held, server.order)
  BY ToldFacts
<1>4. ASSUME held # None
      PROVE  held'.entry = held.entry \/ held'.entry \in Elements(store'.sent)
  <2>1. /\ {"entry", "shared"} \subseteq DOMAIN held
        /\ \A iid : Has(store', iid) => Get(store', iid) \in Elements(store'.sent)
    BY <1>1, <1>4 DEF IsHeld, Has, Get, Place, Elements
  <2>. QED
    BY <1>4, <2>1 DEF Follow
<1>5. CarrierTold(held', server.order)
  BY <1>2, <1>3, <1>4 DEF CarrierTold, StoreTold
<1>. QED
  BY <1>2, <1>5

LEMMA StoreIsSound ==
    ASSUME IInv, DInv
    PROVE  StoreSound(store) /\ Unique(store)
<1>1. IsStore(store, typed, Created)
  BY DEF IInv, TypesOK
<1>2. IsQueue(store.sent) /\ IsQueue(store.deletes)
  BY <1>1, StoreKeys, ToldFacts DEF StoreTold
<1>3. Unique(store)
  BY InvariantInserts DEF InsertsAreNew, Unique
<1>. QED
  BY <1>1, <1>2, <1>3 DEF StoreSound, IsStore

LEMMA StoreRewritten ==
    ASSUME IInv, DInv, NEW iid, NEW id, NEW D, NEW force,
           Rewrites(store, store', iid, id, D, force), Told(server.order, id, iid[1]),
           \A e : LetGo(store, store', e, iid, id, force) => id > 0 \/ e.msg \in rejected
    PROVE  /\ StoreTold(store', server.order)
           /\ DeletedIn(store, server.order) \subseteq DeletedIn(store', server.order) \cup rejected
<1> DEFINE o == server.order
<1>1. StoreTold(store, o) /\ IsStore(store, typed, Created)
  BY ToldFacts DEF IInv, TypesOK
<1>2. \A e \in Elements(store.sent) : e.iid[1] = e.msg /\ EntryTold(o, e)
  BY <1>1 DEF IsStore, IsEntry, StoreTold
<1>3. StoreTold(store', o)
  <2>1. ASSUME NEW x \in Elements(store'.sent) PROVE EntryTold(o, x)
    <3>1. PICK e \in Elements(store.sent) : Turned(e, x, iid, id, D)
      BY DEF Rewrites
    <3>. QED
      BY <1>2, <3>1 DEF Turned, Same, EntryTold
  <2>2. ASSUME NEW d \in Elements(store'.deletes) PROVE d \in DOMAIN o
    <3>1. d \in Elements(store.deletes) \/ (id > 0 /\ d = id)
      BY DEF Rewrites, DeletesGrow
    <3>. QED
      BY <1>1, <3>1 DEF StoreTold, Told, Named
  <2>3. IsQueue(store'.deletes)
    BY DEF Rewrites, DeletesGrow
  <2>. QED
    BY <2>1, <2>2, <2>3 DEF StoreTold
<1>4. ASSUME NEW e \in Elements(store.sent), e.deleted
      PROVE  e.msg \in DeletedIn(store', o) \cup rejected
  <2>1. CASE \E x \in Elements(store'.sent) : Turned(e, x, iid, id, D)
    <3>1. PICK x \in Elements(store'.sent) : Turned(e, x, iid, id, D)
      BY <2>1
    <3>2. x.deleted /\ x.msg = e.msg
      BY <1>4, <3>1 DEF Turned, Same
    <3>. QED
      BY <3>2 DEF DeletedIn
  <2>2. CASE LetGo(store, store', e, iid, id, force)
    <3>1. CASE id > 0
      <4>1. e.iid = iid /\ id \in Elements(store'.deletes)
        BY <1>4, <2>2, <3>1 DEF LetGo, Has, Get, Place
      <4>2. o[id] = e.msg
        BY <1>2, <3>1, <4>1 DEF Told, Named
      <4>. QED
        BY <4>1, <4>2 DEF DeletedIn
    <3>2. CASE e.msg \in rejected
      BY <3>2
    <3>. QED
      BY <2>2, <3>1, <3>2
  <2>. QED
    BY <2>1, <2>2 DEF Rewrites
<1>5. Elements(store.deletes) \subseteq Elements(store'.deletes)
  BY DEF Rewrites, DeletesGrow
<1>6. DeletedIn(store, o) \subseteq DeletedIn(store', o) \cup rejected
  BY <1>4, <1>5 DEF DeletedIn
<1>. QED
  BY <1>3, <1>6

LEMMA InPlaceKeeps ==
    ASSUME NEW s, NEW r, NEW iid, NEW id, NEW D, InPlace(s, r, iid, id, D)
    PROVE  \A e, force : ~LetGo(s, r, e, iid, id, force)
  BY DEF InPlace, LetGo, Has, Turned, Same

\* The archive's thread changes the store.
LEMMA ArchiveRewrites ==
    ASSUME IInv, IInv', DInv, NEW op, NextJob(op), op \notin {"find", "delete"},
           UNCHANGED <<core, network, typed, erased, lost, rejected, lostDeletes>>,
           NEW r,
           \/ results' = results
           \/ /\ results' = Append(results, r)
              /\ ResultTold(server.order, r) /\ r.op # "history",
           NEW iid, NEW id, NEW D, NEW force, Told(server.order, id, iid[1]),
           Rewrites(store, store', iid, id, D, force),
           \A e : LetGo(store, store', e, iid, id, force) => id > 0 \/ e.msg \in rejected,
           NEW X, Follow(X)
    PROVE  DInv'
<1>1. /\ StoreTold(store', server.order)
      /\ DeletedIn(store, server.order) \subseteq DeletedIn(store', server.order) \cup rejected
  BY StoreRewritten
<1>2. UNCHANGED server
  BY DEF network
<1>3. CarrierTold(held', server.order) /\ (held' = None \/ held'.entry.msg = held.entry.msg)
  BY <1>1, <1>2, FollowTold
<1>4. DeletedIn(store', server.order) \subseteq InDeletion' /\ rejected \subseteq DeletionGone'
  BY <1>2 DEF InDeletion, DeletionGone
<1>5. DeletedIn(store, server.order) \subseteq InDeletion' \cup DeletionGone'
  BY <1>1, <1>4
<1>6. \/ results' = results
      \/ /\ results' = Append(results, r)
         /\ ResultTold(server.order, r) /\ HistoryTold(server.order, r, held')
  BY DEF HistoryTold
<1>. QED
  BY <1>1, <1>3, <1>5, <1>6, ArchiveMoved

LEMMA TellsRunStamp ==
    ASSUME IInv, IInv', DInv, RunStamp
    PROVE  DInv'
<1> DEFINE r == Job("stamped")
           iid == held.entry.iid
<1>1. /\ NextJob("stamp") /\ results' = Append(results, r) /\ Follow({})
      /\ store' = UpdatePostTime(store, iid)
      /\ UNCHANGED <<core, network, typed, erased, lost, rejected, lostDeletes>>
  BY DEF RunStamp, user, Result
<1>2. InPlace(store, store', iid, 0, FALSE) /\ DeletesGrow(store, store', 0)
  BY <1>1, StoreIsSound, StorePosts
<1>3. /\ Rewrites(store, store', iid, 0, FALSE, FALSE)
      /\ \A e : ~LetGo(store, store', e, iid, 0, FALSE)
  BY <1>2, RewritesInPlace, InPlaceKeeps
<1>4. Told(server.order, 0, iid[1]) /\ ResultTold(server.order, r) /\ r.op # "history"
  BY Bare DEF Told, Job
<1> HIDE DEF r, iid
<1>. QED
  BY <1>1, <1>3, <1>4, ArchiveRewrites

LEMMA TellsRunRemove ==
    ASSUME IInv, IInv', DInv, RunRemove
    PROVE  DInv'
<1> DEFINE r == Job("removed")
           j == Head(jobs)
           D == Has(store, j.iid) /\ Get(store, j.iid).deleted
<1>1. /\ NextJob("remove") /\ Follow({})
      /\ results' = results \/ results' = Append(results, r)
      /\ store' = Remove(store, j.force, j.iid, j.id)
      /\ UNCHANGED <<core, network, typed, erased, lost, rejected, lostDeletes>>
  BY DEF RunRemove, Result
<1>2. j \in Elements(jobs) /\ j.op = "remove" /\ IsJob(j, typed, Created, rejected)
  BY <1>1, JobTakenFrom
<1>3. /\ j.force \in BOOLEAN /\ j.id \in Nat
      /\ j.id > 0 \/ j.iid[1] \in rejected
  BY <1>2 DEF IsJob
<1>4. Told(server.order, j.id, j.iid[1])
  BY <1>2, ToldFacts DEF JobTold
<1>5. Rewrites(store, store', j.iid, j.id, D, j.force)
  BY <1>1, <1>3, StoreIsSound, StoreConfirms
<1>6. ASSUME NEW e, LetGo(store, store', e, j.iid, j.id, j.force)
      PROVE  j.id > 0 \/ e.msg \in rejected
  <2>1. IsStore(store, typed, Created)
    BY DEF IInv, TypesOK
  <2>2. e.iid = j.iid /\ e.msg = e.iid[1]
    BY <1>6, <2>1, PlaceFound DEF LetGo, IsEntry
  <2>. QED
    BY <1>3, <2>2
<1>7. ResultTold(server.order, r) /\ r.op # "history"
  BY Bare DEF Job
<1> HIDE DEF r, D, j
<1>. QED
  BY <1>1, <1>4, <1>5, <1>6, <1>7, ArchiveRewrites

LEMMA TellsRunImstate ==
    ASSUME IInv, IInv', DInv, RunImstate
    PROVE  DInv'
<1> DEFINE j == Head(jobs)
           r == [op |-> "imstate", msg |-> j.iid[1], id |-> j.id]
           D == Has(store, j.iid) /\ Get(store, j.iid).deleted
<1>1. /\ NextJob("imstate") /\ Follow({})
      /\ results' = results \/ results' = Append(results, r)
      /\ store' = UpdateWithImstate(store, j.iid, j.id)
      /\ UNCHANGED <<core, network, typed, erased, lost, rejected, lostDeletes>>
  BY DEF RunImstate, Result
<1>2. j \in Elements(jobs) /\ j.op = "imstate" /\ IsJob(j, typed, Created, rejected)
  BY <1>1, JobTakenFrom
<1>3. j.id \in Nat /\ j.id > 0
  BY <1>2 DEF IsJob
<1>4. Named(server.order, j.id, j.iid[1])
  BY <1>2, ToldFacts DEF JobTold
<1>5. Rewrites(store, store', j.iid, j.id, D, FALSE)
  BY <1>1, <1>3, StoreIsSound, StoreConfirms
<1>6. ResultTold(server.order, r) /\ r.op # "history" /\ Told(server.order, j.id, j.iid[1])
  BY <1>4 DEF ResultTold, Told
<1> HIDE DEF r, D, j
<1>. QED
  BY <1>1, <1>3, <1>5, <1>6, ArchiveRewrites

LEMMA InsertAppends ==
    ASSUME IInv, DInv, RunInsert
    PROVE  /\ store'.sent = Append(store.sent, Head(jobs).entry)
           /\ store'.deletes = store.deletes
<1> DEFINE e == Head(jobs).entry
<1>1. NextJob("insert") /\ store' = InsertMessage(store, e)
  BY DEF RunInsert
<1>2. Head(jobs).op = "insert" /\ Head(jobs) = jobs[1] /\ 1 \in DOMAIN jobs
  BY <1>1, QueueFacts, QueueTail DEF NextJob
<1>3. 1 \in Waiting("insert")
  BY <1>2 DEF Waiting
<1>4. ~Has(store, e.iid)
  BY <1>2, <1>3, InvariantInserts DEF InsertsAreNew
<1> HIDE DEF e
<1>5. store'.sent = Append(store.sent, e) /\ store'.deletes = store.deletes
  BY <1>1, <1>4, StoreIsSound DEF InsertMessage, StoreSound
<1>. QED
  BY <1>5 DEF e

LEMMA TellsRunInsert ==
    ASSUME IInv, IInv', DInv, RunInsert
    PROVE  DInv'
<1> DEFINE j == Head(jobs)
           e == j.entry
           o == server.order
<1>1. /\ NextJob("insert") /\ Follow({e.iid})
      /\ UNCHANGED <<core, results, network, typed, erased, lost, rejected, lostDeletes>>
      /\ server' = server
  BY DEF RunInsert, user, network
<1>2. j \in Elements(jobs) /\ j.op = "insert"
  BY <1>1, JobTakenFrom
<1>3. EntryTold(o, e)
  BY <1>2, ToldFacts DEF JobTold
<1>5. StoreTold(store, o) /\ StoreSound(store)
  BY StoreIsSound, ToldFacts
<1>6. /\ store'.sent = Append(store.sent, e) /\ store'.deletes = store.deletes
  BY InsertAppends
<1> HIDE DEF e, o
<1>7. Elements(store'.sent) = Elements(store.sent) \cup {e}
  BY <1>5, <1>6, QueueAppend DEF StoreSound
<1>8. StoreTold(store', o)
  BY <1>3, <1>5, <1>6, <1>7 DEF StoreTold
<1>9. DeletedIn(store, o) \subseteq DeletedIn(store', o)
  BY <1>6, <1>7 DEF DeletedIn
<1>10. DeletedIn(store, o) \subseteq InDeletion'
  BY <1>1, <1>9 DEF InDeletion, o
<1>11. CarrierTold(held', o) /\ (held' = None \/ held'.entry.msg = held.entry.msg)
  BY <1>1, <1>8, FollowTold DEF o
<1>. QED
  BY <1>1, <1>8, <1>10, <1>11, ArchiveMoved DEF o

LEMMA TellsRunReplace ==
    ASSUME IInv, IInv', DInv, RunReplace
    PROVE  DInv'
<1> DEFINE j == Head(jobs)
           e == j.entry
           o == server.order
<1>1. /\ NextJob("replace") /\ store' = UpdateMessageIfExist(store, e) /\ Follow({e.iid})
      /\ UNCHANGED <<core, results, network, typed, erased, lost, rejected>>
      /\ server' = server
      /\ lostDeletes' = IF Has(store, e.iid) /\ Get(store, e.iid).deleted /\ ~e.deleted
                        THEN lostDeletes \cup {e.msg} ELSE lostDeletes
  BY DEF RunReplace, network
<1>2. j \in Elements(jobs) /\ j.op = "replace" /\ IsJob(j, typed, Created, rejected)
  BY <1>1, JobTakenFrom
<1>3. EntryTold(o, e) /\ e.iid[1] = e.msg
  BY <1>2, ToldFacts DEF JobTold, IsJob, IsEntry
<1>4. StoreTold(store, o) /\ StoreSound(store) /\ Unique(store) /\ IsStore(store, typed, Created)
  BY StoreIsSound, ToldFacts DEF IInv, TypesOK
<1> HIDE DEF e, o
<1>5. /\ store'.deletes = store.deletes
      /\ DOMAIN store'.sent = DOMAIN store.sent
      /\ \A i \in DOMAIN store.sent :
            store'.sent[i] = IF store.sent[i].iid = e.iid THEN e ELSE store.sent[i]
  BY <1>1, <1>4 DEF UpdateMessageIfExist, Update, StoreSound
<1>6. StoreTold(store', o)
  <2>1. \A x \in Elements(store'.sent) : x \in Elements(store.sent) \/ x = e
    BY <1>5 DEF Elements
  <2>. QED
    BY <1>3, <1>4, <1>5, <2>1 DEF StoreTold
<1>7. ASSUME NEW x \in Elements(store.sent), x.deleted
      PROVE  x.msg \in DeletedIn(store', o) \cup lostDeletes'
  <2>1. PICK i \in DOMAIN store.sent : x = store.sent[i]
    BY DEF Elements
  <2>2. CASE x.iid # e.iid
    <3>1. x \in Elements(store'.sent)
      BY <1>5, <2>1, <2>2 DEF Elements
    <3>. QED
      BY <1>7, <3>1 DEF DeletedIn
  <2>3. CASE x.iid = e.iid
    <3>1. x.msg = e.msg
      BY <1>3, <1>4, <2>3 DEF IsStore, IsEntry
    <3>2. e \in Elements(store'.sent)
      BY <1>5, <2>1, <2>3 DEF Elements
    <3>3. Has(store, e.iid) /\ Get(store, e.iid) = x
      BY <1>4, <2>1, <2>3 DEF Has, Get, Place, Unique
    <3>4. CASE e.deleted
      BY <3>1, <3>2, <3>4 DEF DeletedIn
    <3>5. CASE ~e.deleted
      BY <1>1, <1>7, <3>1, <3>3, <3>5
    <3>. QED
      BY <3>4, <3>5
  <2>. QED
    BY <2>2, <2>3
<1>8. DeletedIn(store, o) \subseteq DeletedIn(store', o) \cup lostDeletes'
  BY <1>5, <1>7 DEF DeletedIn
<1>9. DeletedIn(store, o) \subseteq InDeletion' \cup DeletionGone'
  BY <1>1, <1>8 DEF InDeletion, DeletionGone, o
<1>10. CarrierTold(held', o) /\ (held' = None \/ held'.entry.msg = held.entry.msg)
  BY <1>1, <1>6, FollowTold DEF o
<1>11. lostDeletes \subseteq lostDeletes'
  BY <1>1
<1>. QED
  BY <1>1, <1>6, <1>9, <1>10, <1>11, ArchiveMoved DEF o

LEMMA TellsRunDelete ==
    ASSUME IInv, IInv', DInv, RunDelete
    PROVE  DInv'
<1> DEFINE j == Head(jobs)
           iid == Original(j.msg)
           o == server.order
<1>1. /\ NextJob("delete") /\ store' = InsertDeletedMessage(store, j.id, iid) /\ Follow({})
      /\ UNCHANGED <<core, results, network, typed, erased, lost, rejected>>
      /\ server' = server
      /\ lostDeletes' = IF j.id = 0 /\ ~Has(store, iid)
                        THEN lostDeletes \cup {j.msg} ELSE lostDeletes
  BY DEF RunDelete, network
<1>2. j \in Elements(jobs) /\ j.op = "delete" /\ IsJob(j, typed, Created, rejected)
  BY <1>1, JobTakenFrom
<1>3. Told(o, j.id, j.msg) /\ j.id \in Nat /\ j.msg \in Messages /\ iid[1] = j.msg
  BY <1>2, ToldFacts DEF JobTold, IsJob, Original
<1>4. IsStore(store, typed, Created)
  BY DEF IInv, TypesOK
<1> HIDE DEF iid, o, j
<1>5. /\ InPlace(store, store', iid, j.id, TRUE) /\ DeletesGrow(store, store', j.id)
      /\ j.id > 0 => j.id \in Elements(store'.deletes)
      /\ \A x \in Elements(store'.sent) : x.iid = iid => x.deleted
  BY <1>1, <1>3, StoreIsSound, StoreMarks
<1>6. /\ Rewrites(store, store', iid, j.id, TRUE, FALSE)
      /\ \A e : ~LetGo(store, store', e, iid, j.id, FALSE)
  BY <1>5, RewritesInPlace, InPlaceKeeps
<1>7. /\ StoreTold(store', o)
      /\ DeletedIn(store, o) \subseteq DeletedIn(store', o) \cup rejected
  BY <1>3, <1>6, StoreRewritten DEF o
<1>8. j.msg \in DeletedIn(store', o) \cup lostDeletes'
  <2>1. CASE j.id > 0
    <3>1. o[j.id] = j.msg
      BY <1>3, <2>1 DEF Told, Named
    <3>. QED
      BY <1>5, <2>1, <3>1 DEF DeletedIn
  <2>2. CASE j.id = 0 /\ ~Has(store, iid)
    BY <1>1, <2>2
  <2>3. CASE Has(store, iid)
    <3>1. Get(store, iid) \in Elements(store.sent) /\ Get(store, iid).iid = iid
          /\ Get(store, iid).msg = j.msg
      BY <1>3, <1>4, <2>3, PlaceFound, StoreKeys DEF IsEntry
    <3>2. PICK x \in Elements(store'.sent) : Turned(Get(store, iid), x, iid, j.id, TRUE)
      BY <1>6, <3>1 DEF Rewrites
    <3>3. x.deleted /\ x.msg = j.msg
      BY <1>5, <3>1, <3>2 DEF Turned, Same
    <3>. QED
      BY <3>3 DEF DeletedIn
  <2>. QED
    BY <1>3, <2>1, <2>2, <2>3
<1>9. DeletedIn(store', o) \subseteq InDeletion' /\ lostDeletes' \cup rejected \subseteq DeletionGone'
  BY <1>1 DEF InDeletion, DeletionGone, o
<1>10. /\ DeletedIn(store, o) \subseteq InDeletion' \cup DeletionGone'
       /\ Head(jobs).msg \in InDeletion' \cup DeletionGone'
  BY <1>7, <1>8, <1>9 DEF j
<1>11. CarrierTold(held', o) /\ (held' = None \/ held'.entry.msg = held.entry.msg)
  BY <1>1, <1>7, FollowTold DEF o
<1>12. lostDeletes \subseteq lostDeletes'
  BY <1>1
<1>. QED
  BY <1>1, <1>7, <1>10, <1>11, <1>12, ArchiveMoved DEF o

LEMMA TellsRunUndelete ==
    ASSUME IInv, IInv', DInv, RunUndelete
    PROVE  DInv'
<1> DEFINE j == Head(jobs)
           o == server.order
<1>1. /\ NextJob("undelete") /\ store' = RemoveDeletedMessage(store, j.id)
      /\ UNCHANGED <<core, results, held, network, erased, lost, rejected, lostDeletes>>
      /\ server' = server
  BY DEF RunUndelete, network, user
<1>2. j \in Elements(jobs) /\ j.op = "undelete"
  BY <1>1, JobTakenFrom
<1>3. o[j.id] \in server.deleted \cup lostDeletes
  BY <1>2, ToldFacts DEF UndeleteSeen
<1>4. StoreTold(store, o) /\ StoreSound(store)
  BY StoreIsSound, ToldFacts
<1>5. CarrierTold(held', o) /\ (held' = None \/ held'.entry.msg = held.entry.msg)
  BY <1>1, ToldFacts
<1> HIDE DEF j, o
<1>6. store'.sent = store.sent /\ store'.deletes = Without(store.deletes, j.id)
  BY <1>1, <1>4 DEF RemoveDeletedMessage, StoreSound
<1>7. IsQueue(store'.deletes) /\ Elements(store'.deletes) = Elements(store.deletes) \ {j.id}
  BY <1>4, <1>6, WithoutFacts DEF StoreSound
<1>8. StoreTold(store', o)
  BY <1>4, <1>6, <1>7 DEF StoreTold
<1>9. DeletedIn(store, o) \subseteq DeletedIn(store', o) \cup {o[j.id]}
  BY <1>6, <1>7 DEF DeletedIn
<1>10. DeletedIn(store', o) \subseteq InDeletion' /\ server.deleted \cup lostDeletes \subseteq DeletionGone'
  BY <1>1 DEF InDeletion, DeletionGone, o
<1>11. DeletedIn(store, o) \subseteq InDeletion' \cup DeletionGone'
  BY <1>3, <1>9, <1>10
<1>. QED
  BY <1>1, <1>5, <1>8, <1>11, ArchiveMoved DEF o

\* The loop takes an entry: no request is in the network, and no history waits.
LEMMA FirstAlone ==
    ASSUME IInv, RunFirst
    PROVE  /\ packet = None
           /\ \A c \in Elements(jobs') \cup Elements(results') : c.op # "history"
<1> DEFINE r == Job("first")
<1>1. NextJob("first") /\ results' = Append(results, r)
  BY DEF RunFirst, Result
<1>2. /\ Head(jobs) \in Elements(jobs) /\ Head(jobs).op = "first"
      /\ jobs # <<>> /\ jobs' = Tail(jobs)
  BY <1>1, JobTakenFrom DEF NextJob
<1>3. Class(Head(jobs)) = "send"
  BY <1>2 DEF Class
<1>4. TypesOK /\ LoopsOK
  BY DEF IInv
<1>5. /\ \A c \in Elements(results) : Class(c) # "send"
      /\ Steps(jobs, "send") + Steps(jobs, "confirm") = 1 /\ packet = None
  BY <1>2, <1>3, <1>4, OneStep
<1>6. \A c \in Elements(jobs') : Class(c) # "send"
  <2>1. Steps(jobs', "send") = Steps(jobs, "send") - 1 /\ IsQueue(jobs')
    BY <1>2, <1>3, QueueFacts, TailSteps, QueueTail
  <2>2. Steps(jobs, "send") \in Nat /\ Steps(jobs, "confirm") \in Nat
    BY <1>4, CountsAreNat DEF Kinds
  <2>3. ~(Steps(jobs', "send") >= 1)
    BY <1>5, <2>1, <2>2
  <2>. QED
    BY <2>1, <2>3, StepsFound
<1>7. r.op # "history"
  BY DEF Job
<1> HIDE DEF r
<1>8. \A c \in Elements(jobs') \cup Elements(results') : c.op # "history"
  <2>1. Elements(results') = Elements(results) \cup {r}
    BY <1>1, QueueFacts, Appended
  <2>2. \A c : c.op = "history" => Class(c) = "send"
    BY DEF Class
  <2>. QED
    BY <1>5, <1>6, <1>7, <2>1, <2>2
<1>. QED
  BY <1>5, <1>8

LEMMA TellsRunFirst ==
    ASSUME IInv, IInv', DInv, RunFirst
    PROVE  DInv'
<1> DEFINE r == Job("first")
           o == server.order
<1>1. /\ NextJob("first") /\ results' = Append(results, r)
      /\ held' = IF store.sent = <<>> THEN None
                 ELSE [entry |-> Head(store.sent), shared |-> TRUE]
      /\ UNCHANGED <<core, network, store, erased, lost, rejected, lostDeletes>>
      /\ server' = server
  BY DEF RunFirst, user, Result, network
<1>7. ResultTold(o, r) /\ HistoryTold(o, r, held')
  BY Bare DEF Job
<1> HIDE DEF r, o
<1>8. \A c \in Elements(jobs') \cup Elements(results') : c.op # "history"
  BY FirstAlone
<1>9. StoreTold(store, o) /\ StoreSound(store)
  BY StoreIsSound, ToldFacts DEF o
<1>10. CarrierTold(held', o)
  <2>1. store.sent # <<>> => EntryTold(o, Head(store.sent))
    BY <1>9, QueueTail DEF StoreTold, StoreSound
  <2>. QED
    BY <1>1, <2>1 DEF CarrierTold
<1>11. DeletedIn(store, o) \subseteq InDeletion' /\ StoreTold(store', o)
  BY <1>1, <1>9 DEF InDeletion, o
<1>12. results' = Append(results, r) /\ ResultTold(o, r) /\ HistoryTold(o, r, held')
  BY <1>1, <1>7
<1>13. /\ DeletedIn(store, o) \subseteq InDeletion' \cup DeletionGone'
       /\ UNCHANGED <<core, network, erased, lost, rejected>>
       /\ lostDeletes \subseteq lostDeletes' /\ NextJob("first")
  BY <1>1, <1>11
<1>. QED
  BY <1>8, <1>10, <1>11, <1>12, <1>13, ArchiveMoved DEF o

\* What dies with the process: the index sets of the module, as elements.
LEMMA DyingElements ==
    DyingDeletes = DeleteCommands(commands) \cup DeleteJobs(jobs) \cup DeleteResults(results)
<1>1. {commands[i].msg : i \in {k \in DOMAIN commands : commands[k].do = "delete"}}
      = DeleteCommands(commands)
  BY DEF DeleteCommands, Elements
<1>2. {jobs[i].msg : i \in Waiting("find") \cup Waiting("delete")} = DeleteJobs(jobs)
  BY DEF DeleteJobs, Elements, Waiting
<1>3. {results[i].msg : i \in {k \in DOMAIN results : results[k].op = "found"}}
      = DeleteResults(results)
  BY DEF DeleteResults, Elements
<1>. QED
  BY <1>1, <1>2, <1>3 DEF DyingDeletes

LEMMA TellsCrash ==
    ASSUME IInv, IInv', DInv, Crash
    PROVE  DInv'
<1> DEFINE o == server.order
<1>1. /\ lost \subseteq lost' /\ lostDeletes' = lostDeletes \cup DyingDeletes
      /\ commands' = <<>> /\ jobs' = <<>> /\ results' = <<>>
      /\ held' = None /\ packet' = None /\ deletion' = None
      /\ UNCHANGED <<server, shown, erased, rejected>>
      /\ store' = Update(store, LAMBDA e : TRUE, LAMBDA e : [e EXCEPT !.posted = FALSE])
  BY DEF Crash
<1>2. InPlace(store, store', Nothing, 0, FALSE) /\ DeletesGrow(store, store', 0)
  BY <1>1, StoreIsSound, StorePosts
<1>3. /\ Rewrites(store, store', Nothing, 0, FALSE, FALSE)
      /\ \A e : ~LetGo(store, store', e, Nothing, 0, FALSE)
  BY <1>2, RewritesInPlace, InPlaceKeeps
<1>4. Told(o, 0, Nothing[1])
  BY DEF Told
<1>5. StoreTold(store', o) /\ DeletedIn(store, o) \subseteq DeletedIn(store', o) \cup rejected
  BY <1>3, <1>4, StoreRewritten
<1>6. InDeletion \subseteq InDeletion' \cup DeletionGone'
  <2>1. DyingDeletes \cup rejected \subseteq DeletionGone'
    BY <1>1 DEF DeletionGone
  <2>2. DeletedIn(store', o) \subseteq InDeletion'
    BY <1>1 DEF InDeletion
  <2>3. DeleteCommands(commands) \cup DeleteJobs(jobs) \cup DeleteResults(results)
        \subseteq DeletionGone'
    BY <2>1, DyingElements
  <2>. QED
    BY <1>5, <2>1, <2>2, <2>3 DEF InDeletion
<1>7. /\ Elements(commands') = {} /\ Elements(jobs') = {} /\ Elements(results') = {}
  BY <1>1, QueueEmpty
<1>8. /\ ShownTold(shown', o) /\ CarrierTold(held', o) /\ CarrierTold(packet', o)
      /\ DeletionTold(deletion', o) /\ DeletionSeen(deletion', server')
  BY <1>1, ToldFacts DEF CarrierTold, DeletionTold, DeletionSeen
<1>9. /\ server'.order = o /\ server.deleted \subseteq server'.deleted
      /\ rejected \subseteq rejected' /\ lostDeletes \subseteq lostDeletes'
      /\ erased' \subseteq erased \cup InDeletion'
  BY <1>1
<1> HIDE DEF o
<1>. QED
  BY <1>1, <1>5, <1>6, <1>7, <1>8, <1>9, Moved DEF o

LEMMA InitTold ==
    ASSUME Init
    PROVE  DInv
<1>1. /\ commands = <<>> /\ jobs = <<>> /\ results = <<>>
      /\ store.sent = <<>> /\ store.deletes = <<>>
      /\ held = None /\ packet = None /\ deletion = None /\ erased = {}
      /\ \A m \in Messages : shown[m] = 0
  BY DEF Init, EmptyStore
<1>2. IsQueue(store.deletes) /\ Elements(store.deletes) = {} /\ Elements(store.sent) = {}
  BY <1>1, QueueEmpty
<1>3. Elements(commands) = {} /\ Elements(jobs) = {} /\ Elements(results) = {}
  BY <1>1, QueueEmpty
<1>4. StoreTold(store, server.order) /\ ShownTold(shown, server.order)
  BY <1>1, <1>2 DEF StoreTold, ShownTold, Told
<1>5. IdsOK(server.order)
  BY <1>1, <1>3, <1>4 DEF IdsOK, CarrierTold, DeletionTold
<1>6. DeletionsOK
  BY <1>1, <1>3 DEF DeletionsOK, DeletionSeen
<1>. QED
  BY <1>5, <1>6 DEF DInv

LEMMA StutterTold ==
    ASSUME DInv, UNCHANGED vars
    PROVE  DInv'
<1>1. UNCHANGED <<commands, jobs, results, store, held, packet, deletion, server, shown,
                  erased, rejected, lost, lostDeletes>>
  BY DEF vars, core, network, user
<1>2. IdsOK(server.order)'
  BY <1>1 DEF DInv, IdsOK
<1>3. InDeletion' = InDeletion /\ DeletionGone' = DeletionGone
  BY <1>1 DEF InDeletion, DeletionGone
<1>4. DeletionsOK'
  BY <1>1, <1>3 DEF DInv, DeletionsOK
<1>. QED
  BY <1>2, <1>4 DEF DInv

LEMMA StepTells ==
    ASSUME IInv, IInv', DInv, [Next]_vars
    PROVE  DInv'
<1>1. CASE \E m \in Messages : Type(m) \/ Edit(m) \/ Erase(m)
  BY <1>1, TellsUser
<1>2. CASE HandleCommand
  BY <1>2, TellsSendMessageToContact, TellsUpdateMessageToContact,
     TellsDeleteArchiveMessage DEF HandleCommand
<1>3. CASE HandleResult
  BY <1>3, TellsLoopSteps, TellsOnHistoryUpdated, TellsOnFound, TellsSendDeletion,
     TellsOnImstateDone DEF HandleResult
<1>4. CASE ArchiveStep
  BY <1>4, TellsRunInsert, TellsRunReplace, TellsRunFirst, TellsRunStamp, TellsRunHistory,
     TellsRunRemove, TellsRunImstate, TellsRunFind, TellsRunDelete, TellsRunFirstDelete,
     TellsRunUndelete DEF ArchiveStep
<1>5. CASE TimerDue \/ Resume \/ Crash
  BY <1>5, TellsTimerDue, TellsResume, TellsCrash
<1>6. CASE OnSent \/ OnAccepted \/ OnSendFailed \/ OnRejected
  BY <1>6, TellsOnSent, TellsOnAccepted, TellsLost, TellsOnRejected
<1>7. CASE OnDeleted \/ OnDeleteFailed \/ OnDeleteRefused
  BY <1>7, TellsOnDeleted, TellsLost
<1>8. CASE \E m \in Messages : OnEventImstate(m) \/ OnServerMessage(m)
  BY <1>8, TellsEvents
<1>9. CASE ServerHandles \/ ServerDeletes
  BY <1>9, TellsServerHandles, TellsServerDeletes
<1>10. CASE UNCHANGED vars
  BY <1>10, StutterTold
<1>. QED
  BY <1>1, <1>2, <1>3, <1>4, <1>5, <1>6, <1>7, <1>8, <1>9, <1>10 DEF Next

LEMMA InvariantDeletions == DInv => NoDeletionLost
<1> SUFFICES ASSUME DInv, NEW m \in erased \ (GivenUp \cup lostDeletes), m \notin server.deleted
             PROVE  DeletionWaits(m)
  BY DEF NoDeletionLost
<1>1. m \in InDeletion
  BY DEF DInv, DeletionsOK, DeletionGone, GivenUp
<1>2. CASE m \in DyingDeletes
  BY <1>2 DEF DeletionWaits
<1>3. CASE m \in DeletedIn(store, server.order)
  BY <1>3 DEF DeletedIn, Elements, DeletionWaits
<1>. QED
  BY <1>1, <1>2, <1>3, DyingElements DEF InDeletion

\* A message id means one message wherever the GUI, the core, the archive or a
\* request keeps it, and what the loop of the deletions carries is on its way
\* to the server or there already.
THEOREM IdsAreTold == Spec => []DInv
<1>1. Init => IInv /\ DInv
  BY InitInvariant, InitTold
<1>2. IInv /\ DInv /\ [Next]_vars => (IInv /\ DInv)'
  BY StepKeeps, StepTells
<1>. QED
  BY <1>1, <1>2, PTL DEF Spec

\* A message the user deleted is deleted on the server, or its deletion is on
\* its way: in a command, in a job of the archive or its result, marked on the
\* entry that is still to be sent, or in the store's list of deletions; the
\* confirmations of the send loop, of the server's events and of the delete
\* loop never drop it between two of these.
THEOREM DeletionsAreCarried == Spec => []NoDeletionLost
  BY IdsAreTold, InvariantDeletions, PTL

-----------------------------------------------------------------------------
(* The third part of the invariant, about edits.  The versions of one      *)
(* message m that are on their way are a line as well: <<v, 1>> is the key *)
(* of version v.  A wish is such a version, and whether it is an entry of  *)
(* its own (1) or one that replaces what is pending (0); Nothing is none.  *)

LEMMA RowKeys ==
    ASSUME NEW q, NEW k, NEW m, Wished(q, k, m)
    PROVE  /\ Row(k, q, m) \in Seq(Keys) /\ Len(Row(k, q, m)) = Len(q)
           /\ DOMAIN q = 1..Len(q) /\ Len(q) \in Nat
           /\ \A i \in 1..Len(q) : /\ Row(k, q, m)[i] = VersionKey(Wish(k, q[i], m))
                                   /\ q[i] \in Elements(q)
<1>1. Len(q) \in Nat /\ DOMAIN q = 1..Len(q)
  BY DEF Wished, IsQueue
<1>2. \A i \in 1..Len(q) : q[i] \in Elements(q)
  BY <1>1 DEF Elements
<1>3. Row(k, q, m) \in [1..Len(q) -> Keys]
  BY <1>1, <1>2 DEF Row, Wished
<1>4. Row(k, q, m) \in Seq(Keys)
  BY <1>1, <1>3
<1>. QED
  BY <1>1, <1>2, <1>3, <1>4 DEF Row

LEMMA RowAppend ==
    ASSUME NEW q, NEW k, NEW m, Wished(q, k, m), NEW c, VersionKey(Wish(k, c, m)) \in Keys
    PROVE  /\ Wished(Append(q, c), k, m)
           /\ Row(k, Append(q, c), m) = Append(Row(k, q, m), VersionKey(Wish(k, c, m)))
<1> DEFINE r == Append(q, c)
           n == Len(q)
           a == Row(k, r, m)
           b == Append(Row(k, q, m), VersionKey(Wish(k, c, m)))
<1>1. /\ IsQueue(r) /\ Elements(r) = Elements(q) \cup {c} /\ n \in Nat /\ Len(r) = n + 1
      /\ r[n + 1] = c /\ \A i \in 1..n : r[i] = q[i]
  BY QueueAppend DEF Wished
<1> HIDE DEF r
<1>2. Wished(r, k, m)
  BY <1>1 DEF Wished
<1>3. /\ a \in Seq(Keys) /\ Len(a) = n + 1
      /\ \A i \in 1..(n + 1) : a[i] = VersionKey(Wish(k, r[i], m))
  BY <1>1, <1>2, RowKeys
<1>4. /\ Row(k, q, m) \in Seq(Keys) /\ Len(Row(k, q, m)) = n
      /\ \A i \in 1..n : Row(k, q, m)[i] = VersionKey(Wish(k, q[i], m))
  BY RowKeys
<1>5. b \in Seq(Keys) /\ Len(b) = n + 1
  BY <1>1, <1>4
<1>6. \A i \in 1..(n + 1) : b[i] = IF i \in 1..n THEN Row(k, q, m)[i]
                                   ELSE VersionKey(Wish(k, c, m))
  BY <1>1, <1>4, KeyAppend
<1>7. \A i \in 1..(n + 1) : a[i] = b[i]
  BY <1>1, <1>3, <1>4, <1>6
<1> HIDE DEF a, b
<1>8. a = b
  BY <1>1, <1>3, <1>5, <1>7, SameKeys
<1>. QED
  BY <1>2, <1>8 DEF a, b, r

LEMMA RowTail ==
    ASSUME NEW q, NEW k, NEW m, Wished(q, k, m), q # <<>>
    PROVE  /\ Wished(Tail(q), k, m)
           /\ Row(k, q, m) # <<>>
           /\ Row(k, Tail(q), m) = Tail(Row(k, q, m))
           /\ Head(Row(k, q, m)) = VersionKey(Wish(k, Head(q), m))
<1> DEFINE r == Tail(q)
           n == Len(q)
           a == Row(k, r, m)
           b == Tail(Row(k, q, m))
<1>1. /\ IsQueue(r) /\ Elements(q) = Elements(r) \cup {Head(q)} /\ n \in Nat \ {0}
      /\ Len(r) = n - 1 /\ Head(q) = q[1] /\ \A i \in 1..(n - 1) : r[i] = q[i + 1]
  BY QueueTail DEF Wished
<1> HIDE DEF r
<1>2. Wished(r, k, m)
  BY <1>1 DEF Wished
<1>3. /\ a \in Seq(Keys) /\ Len(a) = n - 1
      /\ \A i \in 1..(n - 1) : a[i] = VersionKey(Wish(k, r[i], m))
  BY <1>1, <1>2, RowKeys
<1>4. /\ Row(k, q, m) \in Seq(Keys) /\ Len(Row(k, q, m)) = n
      /\ \A i \in 1..n : Row(k, q, m)[i] = VersionKey(Wish(k, q[i], m))
  BY RowKeys
<1>5. Row(k, q, m) # <<>> /\ Head(Row(k, q, m)) = VersionKey(Wish(k, q[1], m))
  BY <1>1, <1>4
<1>6. b \in Seq(Keys) /\ Len(b) = n - 1 /\ \A i \in 1..(n - 1) : b[i] = Row(k, q, m)[i + 1]
  BY <1>1, <1>4, <1>5
<1>7. \A i \in 1..(n - 1) : a[i] = b[i]
  BY <1>1, <1>3, <1>4, <1>6
<1> HIDE DEF a, b
<1>8. a = b
  BY <1>1, <1>3, <1>6, <1>7, SameKeys
<1>. QED
  BY <1>1, <1>2, <1>5, <1>8 DEF a, b, r

\* Entries leave a row, the others keep their order.
LEMMA LineThinned ==
    ASSUME NEW S, NEW J, NEW C, LineOK(S, J, C), NEW T \in Seq(Keys),
           \A i \in DOMAIN T : \E k \in DOMAIN S : S[k] = T[i],
           \A i, j \in DOMAIN T : i < j =>
              \E k, l \in DOMAIN S : k < l /\ S[k] = T[i] /\ S[l] = T[j]
    PROVE  LineOK(T, J, C)
<1>1. Sorted(T)
  BY DEF Sorted, LineOK
<1>2. Before(T, J) /\ Before(T, C)
  BY DEF Before, LineOK
<1>. QED
  BY <1>1, <1>2 DEF LineOK

\* What the rows hold are the keys of the wishes.
LEMMA RowIn ==
    ASSUME NEW q, NEW k, NEW m, NEW x
    PROVE  In(Row(k, q, m), x) <=> \E w \in WishesIn(k, q, m) : x = VersionKey(w)
  BY DEF In, Row, WishesIn, Elements

\* A step, seen from a message of which it gives nothing up.
At(m) == IInv /\ IInv' /\ DInv /\ EInv /\ m \in Clean /\ m \in Clean'

LEMMA WishesTyped ==
    ASSUME IInv, NEW m \in Messages
    PROVE  /\ \A w \in Wishes(m) : w[1] \in 0..typed[m] /\ w[2] \in {0, 1}
           /\ Wished(store.sent, "entry", m) /\ Wished(jobs, "job", m)
           /\ Wished(commands, "command", m)
           /\ typed[m] \in Nat
<1>1. /\ IsStore(store, typed, Created) /\ CommandsOK(commands, typed, Created)
      /\ JobsOK(jobs, typed, Created, rejected) /\ typed \in [Messages -> Nat]
  BY CoreFacts DEF TypesOK
<1>2. typed[m] \in Nat
  BY <1>1
<1> DEFINE Good(w) == w[1] \in 0..typed[m] /\ w[2] \in {0, 1}
<1>3. Good(Nothing)
  BY <1>2 DEF Nothing
<1>4. \A t \in 1..typed[m] : \A b : Good(<<t, One(b)>>)
  BY <1>2 DEF One
<1> HIDE DEF Good
<1>5. \A e : IsEntry(e, typed, Created) /\ e.msg = m => e.text \in 1..typed[m]
  BY DEF IsEntry
<1>6. \A e \in Elements(store.sent) : Good(Wish("entry", e, m))
  BY <1>1, <1>3, <1>4, <1>5 DEF IsStore, Wish
<1>7. \A j \in Elements(jobs) : Good(Wish("job", j, m))
  <2>1. \A j \in Elements(jobs) : j.op \in {"insert", "replace"} => IsEntry(j.entry, typed, Created)
    BY <1>1 DEF JobsOK, IsJob
  <2>. QED
    BY <1>3, <1>4, <1>5, <2>1 DEF Wish
<1>8. \A c \in Elements(commands) : Good(Wish("command", c, m))
  <2>1. \A c \in Elements(commands) : c.do # "delete" /\ c.msg = m => c.version \in 1..typed[m]
    BY <1>1, <1>2 DEF CommandsOK, IsCommand
  <2>. QED
    BY <1>3, <1>4, <2>1 DEF Wish
<1>9. \A w : Good(w) => VersionKey(w) \in Keys
  BY <1>2 DEF Good, VersionKey, Keys, Nothing
<1>10. IsQueue(store.sent) /\ IsQueue(jobs) /\ IsQueue(commands)
  BY <1>1, StoreKeys DEF JobsOK, CommandsOK
<1>11. \A w \in Wishes(m) : Good(w)
  BY <1>6, <1>7, <1>8 DEF Wishes, WishesOf, WishesIn
<1>. QED
  BY <1>2, <1>6, <1>7, <1>8, <1>9, <1>10, <1>11 DEF Good, Wished

LEMMA AtFacts ==
    ASSUME NEW m, At(m)
    PROVE  /\ m \in Messages /\ Carried(m) /\ m \notin erased \cup rejected \cup lost
           /\ server.text[m] \in Nat /\ typed[m] \in Nat
           /\ HeldSound(held, m, server.text[m], Wishes(m), store.sent)
           /\ PacketSound(packet, held, m, server.text[m])
<1>1. m \in Messages /\ Carried(m) /\ m \notin erased \cup rejected \cup lost
  BY DEF At, Clean, EInv
<1>. QED
  BY <1>1, WishesTyped DEF At, Carried, EInv

LEMMA FloorKept ==
    ASSUME NEW W, NEW V, V \subseteq W \cup {Nothing}, NEW t, Floor(W, t)
    PROVE  Floor(V, t)
  BY DEF Floor, Nothing

\* A step that leaves no version of m behind.
LEMMA CarriedOn ==
    ASSUME NEW m, At(m), typed'[m] = typed[m], shown[m] > 0 => shown'[m] > 0,
           NEW y, y = server'.text[m], y \in server.text[m]..typed[m], Floor(Wishes(m), y),
           RowsOK(store.sent, jobs, commands, m)',
           Wishes(m)' \subseteq Wishes(m) \cup {Nothing},
           \A w \in Wishes(m) : w[1] = typed[m] /\ typed[m] > 1 => w \in Wishes(m)' \/ y = typed[m],
           \A e \in Elements(store'.sent) : e.msg = m => Plain(e),
           \A j \in Elements(jobs') : j \in Elements(jobs) \/ JobSound(j, m, y, Wishes(m), held'),
           \A r \in Elements(results') : r \in Elements(results) \/ ResultSound(r, m, y, held'),
           \A c \in Elements(commands') :
              c \in Elements(commands) \/ (c.do = "delete" => c.msg # m),
           HeldSound(held', m, y, Wishes(m), store'.sent),
           PacketSound(packet', held', m, y),
           \/ held' = None \/ (held # None /\ held'.entry.iid = held.entry.iid)
           \/ \A c \in Elements(jobs') \cup Elements(results') : c.op # "history"
    PROVE  Carried(m)'
<1> DEFINE x == server.text[m]
           W == Wishes(m)
           V == Wishes(m)'
<1>1. /\ m \in Messages /\ Carried(m) /\ x \in Nat /\ typed[m] \in Nat
      /\ \A w \in W : w[1] \in Nat /\ w[2] \in Nat
  BY AtFacts, WishesTyped DEF At
<1>2. y \in Nat /\ x <= y
  BY <1>1
<1>3. y \in 0..typed'[m] /\ Floor(V, y)
  BY <1>1, FloorKept
<1>4. Ripe(V)
  <2>1. Ripe(W)
    BY <1>1 DEF Carried
  <2>2. \A a, b \in V : b[1] > 0 /\ b[2] < a[2] => a \in W /\ b \in W
    BY <1>1 DEF Nothing
  <2>. QED
    BY <2>1, <2>2 DEF Ripe
<1>5. \A w \in V : w[2] > 0 => shown'[m] > 0
  BY <1>1 DEF Carried, Nothing
<1>6. typed'[m] > 1 => y = typed'[m] \/ \E w \in V : w[1] = typed'[m]
  <2>1. typed[m] > 1 => x = typed[m] \/ \E w \in W : w[1] = typed[m]
    BY <1>1 DEF Carried
  <2>2. x = typed[m] => y = typed[m]
    BY <1>1, <1>2
  <2>. QED
    BY <2>1, <2>2
<1>7. \A iid, text : ConfirmSound(iid, text, m, x) => ConfirmSound(iid, text, m, y)
  BY <1>1, <1>2 DEF ConfirmSound
<1>8. \A t : Floor(W, t) => Floor(V, t)
  BY FloorKept
<1> HIDE DEF V, W
<1>9. ASSUME NEW c \in Elements(jobs') \cup Elements(results'), c.op = "history"
      PROVE  held' # None => held # None /\ held'.entry.iid = held.entry.iid
  BY <1>9
<1>10. \A j \in Elements(jobs') : JobSound(j, m, y, V, held')
  <2>1. ASSUME NEW j \in Elements(jobs'), j \in Elements(jobs)
        PROVE  JobSound(j, m, y, W, held')
    <3>1. JobSound(j, m, x, W, held)
      BY <1>1, <2>1 DEF Carried, W
    <3>. QED
      BY <1>7, <1>9, <3>1 DEF JobSound
  <2>2. ASSUME NEW j \in Elements(jobs') PROVE JobSound(j, m, y, W, held')
    BY <2>1, <2>2 DEF W
  <2>. QED
    BY <1>8, <2>2 DEF JobSound
<1>11. \A r \in Elements(results') : ResultSound(r, m, y, held')
  <2>1. ASSUME NEW r \in Elements(results'), r \in Elements(results)
        PROVE  ResultSound(r, m, y, held')
    <3>1. ResultSound(r, m, x, held)
      BY <1>1, <2>1 DEF Carried
    <3>. QED
      BY <1>7, <1>9, <3>1 DEF ResultSound
  <2>. QED
    BY <2>1
<1>12. HeldSound(held', m, y, V, store'.sent)
  BY <1>8 DEF HeldSound, W
<1>13. \A c \in Elements(commands') : c.do = "delete" => c.msg # m
  BY <1>1 DEF Carried
<1>. QED
  BY <1>3, <1>4, <1>5, <1>6, <1>10, <1>11, <1>12, <1>13 DEF Carried, V

\* Jobs that carry no version of m, and do it no harm.
Idle(j, m) == Wish("job", j, m) = Nothing /\ JobSound(j, m, server.text[m], Wishes(m), held)
Adds(m) ==
    \/ jobs' = jobs
    \/ \E a : Idle(a, m) /\ jobs' = jobs \o <<a>>
    \/ \E a, b : Idle(a, m) /\ Idle(b, m) /\ jobs' = jobs \o <<a, b>>

LEMMA BareIdle == \A m, op : op \in {"first", "stamp", "firstDelete"} => Idle(Job(op), m)
  BY DEF Idle, Wish, JobSound, Job, Nothing

LEMMA RowIdle ==
    ASSUME NEW q, NEW m, Wished(q, "job", m), NEW a, Wish("job", a, m) = Nothing,
           NEW s, NEW cs, RowsOK(s, q, cs, m)
    PROVE  /\ Wished(Append(q, a), "job", m) /\ RowsOK(s, Append(q, a), cs, m)
           /\ WishesIn("job", Append(q, a), m) = WishesIn("job", q, m) \cup {Nothing}
           /\ Elements(Append(q, a)) = Elements(q) \cup {a}
<1>1. VersionKey(Nothing) = Nothing /\ Nothing \in Keys
  BY DEF VersionKey, Nothing, Keys
<1>2. /\ Wished(Append(q, a), "job", m)
      /\ Row("job", Append(q, a), m) = Append(Row("job", q, m), Nothing)
  BY <1>1, RowAppend
<1>3. RowsOK(s, Append(q, a), cs, m)
  BY <1>2, LineAppendNothing DEF RowsOK
<1>4. Elements(Append(q, a)) = Elements(q) \cup {a}
  BY QueueAppend DEF Wished
<1>5. WishesIn("job", Append(q, a), m) = WishesIn("job", q, m) \cup {Nothing}
  BY <1>4 DEF WishesIn
<1>. QED
  BY <1>2, <1>3, <1>4, <1>5

LEMMA RowsAdded ==
    ASSUME NEW m, At(m), Adds(m)
    PROVE  /\ RowsOK(store.sent, jobs', commands, m)
           /\ WishesIn("job", jobs', m) \subseteq WishesIn("job", jobs, m) \cup {Nothing}
           /\ WishesIn("job", jobs, m) \subseteq WishesIn("job", jobs', m)
           /\ \A j \in Elements(jobs') : j \in Elements(jobs) \/ Idle(j, m)
<1> DEFINE Done ==
             /\ RowsOK(store.sent, jobs', commands, m)
             /\ WishesIn("job", jobs', m) \subseteq WishesIn("job", jobs, m) \cup {Nothing}
             /\ WishesIn("job", jobs, m) \subseteq WishesIn("job", jobs', m)
             /\ \A j \in Elements(jobs') : j \in Elements(jobs) \/ Idle(j, m)
<1>1. Wished(jobs, "job", m) /\ RowsOK(store.sent, jobs, commands, m)
  BY AtFacts, WishesTyped DEF At, Carried
<1>2. \A a : Idle(a, m) => Wish("job", a, m) = Nothing
  BY DEF Idle
<1>3. ASSUME NEW a, Idle(a, m), jobs' = jobs \o <<a>> PROVE Done
  <2>0. jobs' = Append(jobs, a)
    BY <1>1, <1>3, Concatenations DEF Wished
  <2>1. /\ RowsOK(store.sent, jobs', commands, m)
        /\ WishesIn("job", jobs', m) = WishesIn("job", jobs, m) \cup {Nothing}
        /\ Elements(jobs') = Elements(jobs) \cup {a}
    <3>1. Wish("job", a, m) = Nothing
      BY <1>2, <1>3
    <3>2. \A s, cs : RowsOK(s, jobs, cs, m) => RowsOK(s, Append(jobs, a), cs, m)
      BY <1>1, <3>1, RowIdle
    <3>. QED
      BY <1>1, <2>0, <3>1, <3>2, RowIdle
  <2>. QED
    BY <1>3, <2>1
<1>4. ASSUME NEW a, Idle(a, m), NEW b, Idle(b, m), jobs' = jobs \o <<a, b>> PROVE Done
  <2> DEFINE r == Append(jobs, a)
  <2>0. jobs' = Append(r, b)
    BY <1>1, <1>4, Concatenations DEF Wished
  <2>1. /\ Wished(r, "job", m) /\ RowsOK(store.sent, r, commands, m)
        /\ WishesIn("job", r, m) = WishesIn("job", jobs, m) \cup {Nothing}
        /\ Elements(r) = Elements(jobs) \cup {a}
    BY <1>1, <1>2, <1>4, RowIdle
  <2> HIDE DEF r
  <2>2. /\ RowsOK(store.sent, jobs', commands, m)
        /\ WishesIn("job", jobs', m) = WishesIn("job", r, m) \cup {Nothing}
        /\ Elements(jobs') = Elements(r) \cup {b}
    <3>1. Wish("job", b, m) = Nothing
      BY <1>2, <1>4
    <3>2. \A s, cs : RowsOK(s, r, cs, m) => RowsOK(s, Append(r, b), cs, m)
      BY <2>1, <3>1, RowIdle
    <3>. QED
      BY <2>0, <2>1, <3>1, <3>2, RowIdle
  <2>. QED
    BY <1>4, <2>1, <2>2
<1>. QED
  BY <1>1, <1>3, <1>4 DEF Adds

\* The core thread handles a result, an answer or an event.
LEMMA CoreCarries ==
    ASSUME NEW m, At(m), Adds(m), UNCHANGED <<commands, store, typed>>,
           server'.text = server.text, shown[m] > 0 => shown'[m] > 0,
           held' = held \/ held' = None,
           packet' = packet \/ PacketSound(packet', held', m, server.text[m]),
           \A r \in Elements(results') : r \in Elements(results) \/ r.op = "timer"
    PROVE  Carried(m)'
<1> DEFINE x == server.text[m]
           W == Wishes(m)
<1>1. /\ RowsOK(store.sent, jobs, commands, m)'
      /\ Wishes(m)' \subseteq W \cup {Nothing} /\ W \subseteq Wishes(m)'
  BY RowsAdded DEF Wishes, WishesOf
<1>2. \A j \in Elements(jobs') : j \in Elements(jobs) \/ JobSound(j, m, x, W, held')
  <2>1. \A j \in Elements(jobs') : j \in Elements(jobs) \/ JobSound(j, m, x, W, held)
    BY RowsAdded DEF Idle
  <2>2. \A j : JobSound(j, m, x, W, held) => JobSound(j, m, x, W, held')
    BY DEF JobSound
  <2>. QED
    BY <2>1, <2>2
<1>3. \A r \in Elements(results') : r \in Elements(results) \/ ResultSound(r, m, x, held')
  BY DEF ResultSound
<1>4. HeldSound(held', m, x, W, store'.sent) /\ x = server'.text[m] /\ x \in x..typed[m]
      /\ Floor(W, x) /\ \A e \in Elements(store'.sent) : e.msg = m => Plain(e)
  BY AtFacts DEF HeldSound, Carried
<1>5. PacketSound(packet', held', m, x)
  <2>1. packet' # None => held' # None
    BY DEF At, IInv, HeldOK
  <2>2. PacketSound(packet, held, m, x)
    BY AtFacts
  <2>. QED
    BY <2>1, <2>2 DEF PacketSound
<1>6. held' = None \/ (held # None /\ held'.entry.iid = held.entry.iid)
  OBVIOUS
<1>7. (\A c \in Elements(commands') : c \in Elements(commands)) /\ typed'[m] = typed[m]
  OBVIOUS
<1> HIDE DEF x, W
<1>. QED
  BY <1>1, <1>2, <1>3, <1>4, <1>5, <1>6, <1>7, CarriedOn DEF x, W

LEMMA ResultsLeft ==
    ASSUME NEW m, At(m), NEW op, NextResult(op)
    PROVE  /\ \A r \in Elements(results') : r \in Elements(results)
           /\ Head(results) \in Elements(results) /\ Head(results).op = op
           /\ IsResult(Head(results), Created)
           /\ ResultSound(Head(results), m, server.text[m], held)
  BY AtFacts, ResultTakenFrom DEF At, Carried

LEMMA CarriedByLoops ==
    ASSUME NEW m, At(m),
           SendLoopEnds \/ StartTimer \/ OnTimer \/ StampPostTime \/ OnRemoved
             \/ DeleteLoopEnds \/ SendDeletion
    PROVE  Carried(m)'
<1>1. /\ UNCHANGED <<commands, store, typed, server, shown, packet>>
      /\ held' = held \/ held' = None
      /\ jobs' = jobs \/ jobs' = jobs \o <<Job("first")>> \/ jobs' = jobs \o <<Job("stamp")>>
      /\ \E op : NextResult(op)
  BY DEF SendLoopEnds, StartTimer, OnTimer, StampPostTime, OnRemoved, DeleteLoopEnds,
         SendDeletion, core, network, user, Queue
<1>2. Adds(m)
  BY <1>1, BareIdle DEF Adds
<1>3. \A r \in Elements(results') : r \in Elements(results)
  BY <1>1, ResultsLeft
<1>. QED
  BY <1>1, <1>2, <1>3, CoreCarries

LEMMA CarriedBySendPendingMessage ==
    ASSUME NEW m, At(m), SendPendingMessage
    PROVE  Carried(m)'
<1>1. /\ UNCHANGED <<commands, store, typed, server, shown, jobs, held>>
      /\ NextResult("stamped") /\ packet' = [entry |-> held.entry, handled |-> FALSE]
  BY DEF SendPendingMessage, core, user
<1>2. PacketSound(packet', held', m, server.text[m])
  BY <1>1 DEF PacketSound
<1>3. \A r \in Elements(results') : r \in Elements(results)
  BY <1>1, ResultsLeft
<1>. QED
  BY <1>1, <1>2, <1>3, CoreCarries DEF Adds

LEMMA CarriedByDeletions ==
    ASSUME NEW m, At(m),
           OnSendFailed \/ OnDeleteFailed \/ OnDeleted \/ OnDeleteRefused \/ ServerDeletes
             \/ TimerDue \/ Resume
    PROVE  Carried(m)'
<1>1. /\ UNCHANGED <<commands, store, typed, shown>> /\ server'.text = server.text
      /\ held' = held \/ held' = None
      /\ packet' = packet \/ packet' = None
      /\ results' = results \/ results' = Append(results, Job("timer"))
  <2>1. server' = server \/ server' = [server EXCEPT !.deleted = server'.deleted]
    BY DEF OnSendFailed, OnDeleteFailed, OnDeleted, OnDeleteRefused, ServerDeletes,
           TimerDue, Resume, network
  <2>2. server'.text = server.text
    <3>1. {"order", "text", "deleted"} \subseteq DOMAIN server
      BY DEF At, IInv, TypesOK, UserOK
    <3>. QED
      BY <2>1, <3>1
  <2>. QED
    BY <2>2 DEF OnSendFailed, OnDeleteFailed, OnDeleted, OnDeleteRefused, ServerDeletes,
                TimerDue, Resume, core, network, user, Result
<1>2. Adds(m)
  <2>1. jobs' = jobs \/ OnDeleted \/ OnDeleteRefused \/ Resume
    BY DEF OnSendFailed, OnDeleteFailed, ServerDeletes, TimerDue
  <2>2. CASE OnDeleted \/ OnDeleteRefused
    <3> DEFINE a == [op |-> "undelete", id |-> deletion.id]
    <3>1. jobs' = jobs \o <<a, Job("firstDelete")>>
      BY <2>2 DEF OnDeleted, OnDeleteRefused, Queue
    <3>2. Idle(a, m)
      BY DEF Idle, Wish, JobSound, Nothing
    <3>. QED
      BY <3>1, <3>2, BareIdle DEF Adds
  <2>3. CASE Resume
    <3>1. jobs \o <<>> = jobs
      BY QueueFacts, Concatenations DEF At
    <3>. QED
      BY <2>3, <3>1, ResumeQueues, BareIdle DEF Adds
  <2>. QED
    BY <2>1, <2>2, <2>3 DEF Adds
<1>3. \A r \in Elements(results') : r \in Elements(results) \/ r.op = "timer"
  <2>1. Elements(Append(results, Job("timer"))) = Elements(results) \cup {Job("timer")}
    BY QueueFacts, QueueAppend DEF At
  <2>2. Job("timer").op = "timer"
    BY DEF Job
  <2>. QED
    BY <1>1, <2>1, <2>2
<1>4. packet' = packet \/ PacketSound(packet', held', m, server.text[m])
  BY <1>1 DEF PacketSound
<1>. QED
  BY <1>1, <1>2, <1>3, <1>4, CoreCarries

LEMMA CarriedByOnFound ==
    ASSUME NEW m, At(m), OnFound
    PROVE  Carried(m)'
<1> DEFINE r == Head(results)
           a == [op |-> "delete", msg |-> r.msg, id |-> r.id]
           b == Job("firstDelete")
<1>1. /\ UNCHANGED <<commands, store, typed, server, shown, packet, held>>
      /\ NextResult("found")
      /\ jobs' = jobs \o (<<a>> \o FirstIf(deleting, "firstDelete"))
  BY DEF OnFound, network, user, Queue
<1>2. ResultSound(r, m, server.text[m], held) /\ r.op = "found"
  BY <1>1, ResultsLeft
<1>3. Idle(a, m) /\ Idle(b, m)
  BY <1>2, BareIdle DEF Idle, Wish, JobSound, ResultSound, Nothing
<1> HIDE DEF a
<1>4. jobs' = jobs \o <<a>> \/ jobs' = jobs \o <<a, b>>
  <2>1. IsQueue(jobs) /\ deleting \in BOOLEAN
    BY QueueFacts DEF At
  <2>2. jobs' = FirstAdded(Append(jobs, a), deleting, "firstDelete")
    BY <1>1, <2>1, FirstIfAdds
  <2>3. jobs' = Append(jobs, a) \/ jobs' = Append(Append(jobs, a), b)
    BY <2>2 DEF FirstAdded
  <2> HIDE DEF b
  <2>4. jobs \o <<a>> = Append(jobs, a) /\ jobs \o <<a, b>> = Append(Append(jobs, a), b)
    BY <2>1, Concatenations
  <2>. QED
    BY <2>3, <2>4
<1>5. \A c \in Elements(results') : c \in Elements(results)
  BY <1>1, ResultsLeft
<1>6. Adds(m)
  BY <1>3, <1>4 DEF Adds
<1>. QED
  BY <1>1, <1>5, <1>6, CoreCarries

\* An answer comes.
LEMMA CarriedByAnswers ==
    ASSUME NEW m, At(m), OnSent \/ OnAccepted \/ OnRejected
    PROVE  Carried(m)'
<1> DEFINE x == server.text[m]
<1>1. /\ UNCHANGED <<commands, store, typed, server, shown, results>>
      /\ held' = held \/ held' = None
      /\ packet # None /\ packet' = None
  BY DEF OnSent, OnAccepted, OnRejected, core, user
<1>2. /\ held # None /\ IsEntry(held.entry, typed, Created)
      /\ held.entry.iid = packet.entry.iid /\ held.entry.msg = packet.entry.msg
      /\ held.entry.iid[1] = held.entry.msg
  BY <1>1, PacketFacts DEF At, IsEntry
<1>3. /\ HeldSound(held, m, x, Wishes(m), store.sent) /\ PacketSound(packet, held, m, x)
      /\ x \in Nat
  BY AtFacts
<1>4. Adds(m)
  <2>1. CASE OnSent
    <3> DEFINE a == [op |-> "history", id |-> MsgId(packet.entry.msg),
                     text |-> server.text[packet.entry.msg]]
    <3>1. jobs' = jobs \o <<a>> /\ packet.handled
      BY <2>1 DEF OnSent, Queue
    <3>2. ConfirmSound(held.entry.iid, a.text, m, x)
      BY <1>1, <1>2, <1>3, <3>1 DEF ConfirmSound, PacketSound
    <3>3. Idle(a, m)
      BY <3>2 DEF Idle, Wish, JobSound, Nothing
    <3>. QED
      BY <3>1, <3>3 DEF Adds
  <2>2. CASE OnAccepted
    <3> DEFINE a == [op |-> "replace", edit |-> FALSE, entry |-> held.entry]
    <3>1. jobs' = jobs \o <<a, Job("first")>>
      BY <2>2 DEF OnAccepted, Queue
    <3>2. Idle(a, m)
      BY <1>2, <1>3 DEF Idle, Wish, JobSound, HeldSound, Nothing
    <3>. QED
      BY <3>1, <3>2, BareIdle DEF Adds
  <2>3. CASE OnRejected
    <3> DEFINE a == [op |-> "remove", force |-> TRUE, loop |-> FALSE,
                     text |-> server.text[packet.entry.msg],
                     iid |-> held.entry.iid, id |-> held.entry.msgid]
    <3>1. jobs' = jobs \o <<a>>
      BY <2>3 DEF OnRejected, Queue
    <3>2. Idle(a, m)
      BY DEF Idle, Wish, JobSound, Nothing
    <3>. QED
      BY <3>1, <3>2 DEF Adds
  <2>. QED
    BY <2>1, <2>2, <2>3
<1>5. PacketSound(packet', held', m, x)
  BY <1>1 DEF PacketSound
<1>6. \A c \in Elements(results') : c \in Elements(results)
  BY <1>1
<1>. QED
  BY <1>1, <1>4, <1>5, <1>6, CoreCarries

\* The GUI learns an id.
LEMMA CarriedByIds ==
    ASSUME NEW m, At(m), OnHistoryUpdated \/ OnImstateDone
    PROVE  Carried(m)'
<1> DEFINE r == Head(results)
<1>1. /\ UNCHANGED <<commands, store, typed, server, held, packet>>
      /\ \E k : shown' = [shown EXCEPT ![k] = r.id]
      /\ NextResult("history") \/ NextResult("imstate")
  BY DEF OnHistoryUpdated, OnImstateDone, network, user
<1>2. /\ \A c \in Elements(results') : c \in Elements(results)
      /\ r \in Elements(results) /\ r.op \in {"history", "imstate"} /\ r.id > 0
      /\ ResultSound(r, m, server.text[m], held)
  BY <1>1, ResultsLeft DEF IsResult
<1>3. shown[m] > 0 => shown'[m] > 0
  BY <1>1, <1>2, QueueFacts DEF At
<1>4. Adds(m)
  <2>1. CASE OnHistoryUpdated
    <3> DEFINE a == [op |-> "remove", force |-> FALSE, loop |-> TRUE, text |-> r.text,
                     iid |-> held.entry.iid, id |-> r.id]
    <3>1. jobs' = jobs \o <<a>> /\ r.op = "history"
      BY <2>1 DEF OnHistoryUpdated, NextResult, Queue
    <3>2. held # None
      BY <1>2, <3>1 DEF At, IInv, HeldOK, Confirms
    <3>3. Idle(a, m)
      BY <1>2, <3>1, <3>2 DEF Idle, Wish, JobSound, ResultSound, Nothing
    <3>. QED
      BY <3>1, <3>3 DEF Adds
  <2>2. CASE OnImstateDone
    BY <2>2 DEF OnImstateDone, Adds
  <2>. QED
    BY <2>1, <2>2
<1>. QED
  BY <1>1, <1>2, <1>3, <1>4, CoreCarries

LEMMA CarriedByEvents ==
    ASSUME NEW m, At(m), NEW k \in Messages, OnEventImstate(k) \/ OnServerMessage(k)
    PROVE  Carried(m)'
<1>1. /\ UNCHANGED <<commands, store, typed, server, held, packet, results>>
      /\ shown' = shown \/ shown' = [shown EXCEPT ![k] = MsgId(k)]
      /\ k \in Created
  BY DEF OnEventImstate, OnServerMessage, core, user
<1>2. shown[m] > 0 => shown'[m] > 0
  <2>1. MsgId(k) > 0
    BY <1>1, MsgIdFacts DEF At
  <2>2. shown \in [Messages -> Nat] /\ m \in Messages
    BY QueueFacts, AtFacts DEF At
  <2>. QED
    BY <1>1, <2>1, <2>2
<1>3. ConfirmSound(Original(k), server.text[k], m, server.text[m])
  BY AtFacts DEF ConfirmSound, Original
<1>4. PICK a : /\ jobs' = jobs \o <<a>> /\ a.op \in {"imstate", "remove"}
               /\ a.iid = Original(k) /\ a.text = server.text[k]
  <2> DEFINE b == [op |-> "imstate", text |-> server.text[k], iid |-> Original(k),
                   id |-> MsgId(k)]
             c == [op |-> "remove", force |-> FALSE, loop |-> FALSE,
                   text |-> server.text[k], iid |-> Original(k), id |-> MsgId(k)]
  <2>1. jobs' = jobs \o <<b>> \/ jobs' = jobs \o <<c>>
    BY DEF OnEventImstate, OnServerMessage, Queue
  <2>2. /\ b.op = "imstate" /\ b.iid = Original(k) /\ b.text = server.text[k]
        /\ c.op = "remove" /\ c.iid = Original(k) /\ c.text = server.text[k]
    OBVIOUS
  <2> HIDE DEF b, c
  <2>. QED
    BY <2>1, <2>2
<1>5. Adds(m)
  BY <1>3, <1>4 DEF Adds, Idle, Wish, JobSound, Nothing
<1>6. \A c \in Elements(results') : c \in Elements(results)
  BY <1>1
<1>. QED
  BY <1>1, <1>2, <1>5, <1>6, CoreCarries

\* A command becomes a job with its version, or with none.
LEMMA CommandCarries ==
    ASSUME NEW m, At(m), NEW do, NextCommand(do),
           UNCHANGED <<results, store, held, packet, server, shown, typed>>,
           NEW i, Wish("job", i, m) = Wish("command", Head(commands), m),
           JobSound(i, m, server.text[m], Wishes(m), held),
           NEW r, r = Append(jobs, i), jobs' = r \/ jobs' = Append(r, Job("first"))
    PROVE  Carried(m)'
<1> DEFINE x == server.text[m]
           W == Wishes(m)
           w == Wish("job", i, m)
           b == Job("first")
<1>1. /\ Wished(jobs, "job", m) /\ Wished(commands, "command", m)
      /\ RowsOK(store.sent, jobs, commands, m)
      /\ commands # <<>> /\ commands' = Tail(commands)
      /\ Elements(commands) = Elements(commands') \cup {Head(commands)}
      /\ Elements(r) = Elements(jobs) \cup {i}
  BY AtFacts, WishesTyped, CommandLeft, CommandFacts, QueueFacts, QueueAppend DEF At, Carried
<1>2. /\ Wished(commands', "command", m) /\ Row("command", commands, m) # <<>>
      /\ Row("command", commands', m) = Tail(Row("command", commands, m))
      /\ Head(Row("command", commands, m)) = VersionKey(w)
  BY <1>1, RowTail
<1>3. VersionKey(w) \in Keys
  BY <1>1 DEF Wished
<1>4. Wished(r, "job", m) /\ Row("job", r, m) = Append(Row("job", jobs, m), VersionKey(w))
  BY <1>1, <1>3, RowAppend
<1>5. RowsOK(store.sent, r, commands', m)
  BY <1>1, <1>2, <1>4, LineCommand DEF RowsOK
<1>6. WishesIn("job", r, m) \cup WishesIn("command", commands', m)
      = WishesIn("job", jobs, m) \cup WishesIn("command", commands, m)
  BY <1>1 DEF WishesIn
<1>7. /\ RowsOK(store.sent, jobs', commands', m)
      /\ WishesIn("job", r, m) \subseteq WishesIn("job", jobs', m)
      /\ WishesIn("job", jobs', m) \subseteq WishesIn("job", r, m) \cup {Nothing}
      /\ \A j \in Elements(jobs') : j \in Elements(jobs) \/ j = i \/ j = b
  <2>1. Wish("job", b, m) = Nothing
    BY BareIdle DEF Idle
  <2> HIDE DEF b
  <2>2. /\ RowsOK(store.sent, Append(r, b), commands', m)
        /\ WishesIn("job", Append(r, b), m) = WishesIn("job", r, m) \cup {Nothing}
        /\ Elements(Append(r, b)) = Elements(r) \cup {b}
    BY <1>4, <1>5, <2>1, RowIdle
  <2>3. jobs' = r \/ jobs' = Append(r, b)
    BY DEF b
  <2>. QED
    BY <1>1, <1>5, <2>2, <2>3
<1>8. \A j \in Elements(jobs') : j \in Elements(jobs) \/ JobSound(j, m, x, W, held')
  BY <1>7, BareIdle DEF Idle
<1>9. Wishes(m)' \subseteq W \cup {Nothing} /\ W \subseteq Wishes(m)'
  BY <1>6, <1>7 DEF Wishes, WishesOf
<1>10. /\ \A c \in Elements(commands') : c \in Elements(commands)
       /\ \A c \in Elements(results') : c \in Elements(results)
  BY <1>1
<1>11. /\ HeldSound(held', m, x, W, store'.sent) /\ x = server'.text[m] /\ x \in x..typed[m]
       /\ Floor(W, x) /\ \A e \in Elements(store'.sent) : e.msg = m => Plain(e)
       /\ PacketSound(packet', held', m, x)
  BY AtFacts DEF HeldSound, Carried
<1>12. typed'[m] = typed[m] /\ shown' = shown /\ held' = held
  OBVIOUS
<1>13. held' = None \/ (held # None /\ held'.entry.iid = held.entry.iid)
  OBVIOUS
<1> HIDE DEF x, W
<1>. QED
  BY <1>7, <1>8, <1>9, <1>10, <1>11, <1>12, <1>13, CarriedOn DEF x, W

LEMMA CarriedByCommands ==
    ASSUME NEW m, At(m), HandleCommand
    PROVE  Carried(m)'
<1> DEFINE c == Head(commands)
<1>1. /\ UNCHANGED <<results, store, held, packet, server, shown, typed>>
      /\ IsQueue(jobs) /\ sending \in BOOLEAN
  BY QueueFacts DEF HandleCommand, SendMessageToContact, UpdateMessageToContact,
     DeleteArchiveMessage, network, user, At
<1>2. ASSUME NEW a, jobs' = jobs \o (<<a>> \o FirstIf(sending, "first"))
      PROVE  jobs' = Append(jobs, a) \/ jobs' = Append(Append(jobs, a), Job("first"))
  BY <1>1, <1>2, FirstIfAdds DEF FirstAdded
<1>3. CASE SendMessageToContact
  <2> DEFINE e == Entry(c.msg, Original(c.msg), 1, 0, FALSE)
             a == [op |-> "insert", entry |-> e]
  <2>1. NextCommand("send") /\ jobs' = jobs \o (<<a>> \o FirstIf(sending, "first"))
    BY <1>3 DEF SendMessageToContact, Queue
  <2>2. c.do = "send" /\ c.version = 1
    BY <2>1, CommandLeft DEF At, IsCommand
  <2>3. e.msg = c.msg /\ e.iid[2] = 1 /\ e.text = 1 /\ ~e.deleted
    BY DEF Entry, Original
  <2> HIDE DEF e
  <2>4. Wish("job", a, m) = Wish("command", c, m)
    BY <2>2, <2>3 DEF Wish
  <2>5. JobSound(a, m, server.text[m], Wishes(m), held)
    BY <2>3 DEF JobSound, Plain
  <2>6. jobs' = Append(jobs, a) \/ jobs' = Append(Append(jobs, a), Job("first"))
    BY <1>2, <2>1
  <2> HIDE DEF a, c
  <2>. QED
    BY <1>1, <2>1, <2>4, <2>5, <2>6, CommandCarries DEF c
<1>4. CASE UpdateMessageToContact
  <2> DEFINE e == Entry(c.msg, Original(c.msg), c.version, 0, TRUE)
             f == Entry(c.msg, <<c.msg, c.version>>, c.version, c.id, FALSE)
             a == IF c.id = 0 THEN [op |-> "replace", edit |-> TRUE, entry |-> e]
                  ELSE [op |-> "insert", entry |-> f]
  <2>1. NextCommand("edit") /\ jobs' = jobs \o (<<a>> \o FirstIf(sending, "first"))
    BY <1>4 DEF UpdateMessageToContact, Queue
  <2>2. c.do = "edit" /\ c.version \in 2..typed[c.msg] /\ c.id \in Nat /\ typed[c.msg] \in Nat
    <3>1. IsCommand(c, typed, Created) /\ c.do = "edit"
      BY <2>1, CommandLeft DEF At
    <3>. QED
      BY <3>1, CoreFacts DEF IsCommand, At
  <2>3. /\ e.msg = c.msg /\ e.iid[2] = 1 /\ e.text = c.version /\ ~e.deleted /\ e.modified
        /\ f.msg = c.msg /\ f.iid[2] = c.version /\ f.text = c.version /\ ~f.deleted
    BY DEF Entry, Original
  <2> HIDE DEF e, f
  <2>4. Wish("job", a, m) = Wish("command", c, m)
    BY <2>2, <2>3 DEF Wish, One
  <2>5. JobSound(a, m, server.text[m], Wishes(m), held)
    BY <2>2, <2>3 DEF JobSound, Plain
  <2>6. jobs' = Append(jobs, a) \/ jobs' = Append(Append(jobs, a), Job("first"))
    BY <1>2, <2>1
  <2> HIDE DEF a, c
  <2>. QED
    BY <1>1, <2>1, <2>4, <2>5, <2>6, CommandCarries DEF c
<1>5. CASE DeleteArchiveMessage
  <2> DEFINE a == [op |-> "find", msg |-> c.msg, id |-> c.id]
  <2>1. NextCommand("delete") /\ jobs' = jobs \o <<a>>
    BY <1>5 DEF DeleteArchiveMessage, Queue
  <2>2. c.do = "delete" /\ c.msg # m
    BY <2>1, CommandLeft, AtFacts DEF At, Carried
  <2>3. Wish("job", a, m) = Wish("command", c, m)
    BY <2>2 DEF Wish
  <2>4. JobSound(a, m, server.text[m], Wishes(m), held)
    BY <2>2 DEF JobSound
  <2>5. jobs' = Append(jobs, a)
    BY <1>1, <2>1, Concatenations
  <2> HIDE DEF a, c
  <2>. QED
    BY <1>1, <2>1, <2>3, <2>4, <2>5, CommandCarries DEF c
<1>. QED
  BY <1>3, <1>4, <1>5 DEF HandleCommand

\* The user gives a command with no version of m, or with a new one.
LEMMA UserCarries ==
    ASSUME NEW m, At(m), NEW c, c.do = "delete" => c.msg # m,
           commands' = Append(commands, c),
           UNCHANGED <<jobs, results, store, held, packet, server, shown>>,
           NEW w, w = Wish("command", c, m),
           \/ w = Nothing /\ typed'[m] = typed[m]
           \/ /\ typed'[m] = typed[m] + 1
              /\ w = <<typed[m] + 1, 1>> \/ w = <<typed[m] + 1, 0>>
              /\ w[2] > 0 <=> shown[m] > 0
    PROVE  Carried(m)'
<1> DEFINE x == server.text[m]
           W == Wishes(m)
           S == Row("entry", store.sent, m)
           J == Row("job", jobs, m)
           C == Row("command", commands, m)
<1>1. /\ Wished(commands, "command", m) /\ LineOK(S, J, C) /\ x \in 0..typed[m]
      /\ typed[m] \in Nat /\ Carried(m) /\ m \in Messages
      /\ \A a \in W : a[1] \in 0..typed[m] /\ a[2] \in {0, 1}
  BY AtFacts, WishesTyped DEF At, Carried, RowsOK
<1>2. Elements(commands') = Elements(commands) \cup {c}
  BY <1>1, QueueAppend DEF Wished
<1>3. Wishes(m)' = W \cup {w}
  BY <1>2 DEF Wishes, WishesOf, WishesIn
<1>4. VersionKey(w) \in Keys /\ (VersionKey(w) = Nothing \/ VersionKey(w) = <<typed[m] + 1, 1>>)
  BY <1>1 DEF VersionKey, Nothing, Keys
<1>5. RowsOK(store'.sent, jobs', commands', m)
  <2>1. Row("command", commands', m) = Append(C, VersionKey(w))
    BY <1>1, <1>4, RowAppend
  <2>2. ASSUME NEW k, In(S, k) \/ In(J, k) \/ In(C, k)
        PROVE  k = Nothing \/ k[1] \in 0..typed[m]
    <3>1. \E a \in W : k = VersionKey(a)
      BY <2>2, RowIn DEF Wishes, WishesOf
    <3>. QED
      BY <1>1, <3>1 DEF VersionKey
  <2>3. ASSUME NEW k, In(S, k) \/ In(J, k) \/ In(C, k)
        PROVE  Precedes(k, VersionKey(w))
    BY <1>1, <1>4, <2>2, <2>3 DEF Precedes, Nothing
  <2> HIDE DEF S, J, C
  <2>4. LineOK(S, J, Append(C, VersionKey(w)))
    BY <1>1, <1>4, <2>3, LineType
  <2>. QED
    BY <2>1, <2>4 DEF RowsOK, S, J, C
<1> HIDE DEF S, J, C, W
<1>6. ASSUME NEW t, t \in 0..typed[m], Floor(W, t) PROVE Floor(W \cup {w}, t)
  BY <1>1, <1>6 DEF Floor, Nothing
<1>7. x \in 0..typed'[m] /\ Floor(W \cup {w}, x)
  <2>1. Floor(W, x)
    BY <1>1 DEF Carried, W
  <2> HIDE DEF x
  <2>2. Floor(W \cup {w}, x)
    BY <1>1, <1>6, <2>1
  <2>3. typed'[m] \in typed[m]..(typed[m] + 1)
    BY <1>1
  <2>. QED
    BY <1>1, <2>2, <2>3
<1>8. Ripe(W \cup {w}) /\ \A a \in W \cup {w} : a[2] > 0 => shown'[m] > 0
  <2>1. Ripe(W) /\ \A a \in W : a[2] > 0 => shown[m] > 0
    BY <1>1 DEF Carried, W
  <2>2. CASE w = Nothing
    BY <1>1, <2>1, <2>2 DEF Ripe, Nothing
  <2>3. CASE w[1] = typed[m] + 1 /\ w[2] \in {0, 1} /\ (w[2] > 0 <=> shown[m] > 0)
    <3>1. \A a \in W : a[1] < w[1] /\ (w[2] < a[2] => FALSE)
      BY <1>1, <2>1, <2>3
    <3>. QED
      BY <1>1, <2>1, <2>3, <3>1 DEF Ripe
  <2>. QED
    BY <1>1, <2>2, <2>3
<1>9. typed'[m] > 1 => x = typed'[m] \/ \E a \in W \cup {w} : a[1] = typed'[m]
  <2>1. typed[m] > 1 => x = typed[m] \/ \E a \in W : a[1] = typed[m]
    BY <1>1 DEF Carried, W
  <2>. QED
    BY <2>1
<1>10. \A j \in Elements(jobs) : JobSound(j, m, x, W \cup {w}, held)
  <2>1. ASSUME NEW j \in Elements(jobs) PROVE JobSound(j, m, x, W \cup {w}, held)
    <3>1. JobSound(j, m, x, W, held)
      BY <1>1 DEF Carried, W
    <3>2. j.op = "replace" /\ j.entry.msg = m => j.entry.text \in 0..typed[m]
      BY CoreFacts DEF At, TypesOK, JobsOK, IsJob, IsEntry
    <3>3. j.op = "replace" /\ j.entry.msg = m /\ ~j.edit => Floor(W \cup {w}, j.entry.text)
      BY <1>6, <3>1, <3>2 DEF JobSound
    <3>. QED
      BY <3>1, <3>3 DEF JobSound
  <2>. QED
    BY <2>1
<1>11. HeldSound(held, m, x, W \cup {w}, store.sent)
  <2>1. HeldSound(held, m, x, W, store.sent)
    BY AtFacts DEF W
  <2>2. held # None /\ held.entry.msg = m => held.entry.text \in 0..typed[m]
    BY CoreFacts DEF At, IsHeld, IsEntry
  <2>. QED
    BY <1>6, <2>1, <2>2 DEF HeldSound
<1>12. \A a \in Elements(commands') : a.do = "delete" => a.msg # m
  BY <1>1, <1>2 DEF Carried
<1> HIDE DEF x
<1>13. /\ \A e \in Elements(store.sent) : e.msg = m => Plain(e)
       /\ \A r \in Elements(results) : ResultSound(r, m, x, held)
       /\ PacketSound(packet, held, m, x)
  BY <1>1 DEF Carried, x
<1>. QED
  BY <1>3, <1>5, <1>7, <1>8, <1>9, <1>10, <1>11, <1>12, <1>13 DEF Carried, x

LEMMA CarriedByUser ==
    ASSUME NEW m, At(m), NEW k \in Messages, Type(k) \/ Edit(k) \/ Erase(k)
    PROVE  Carried(m)'
<1>1. /\ UNCHANGED <<jobs, results, store, held, packet, server, shown>>
      /\ typed \in [Messages -> Nat] /\ shown \in [Messages -> Nat] /\ m \in Messages
      /\ m \notin erased' /\ (shown[m] > 0 => typed[m] > 0)
  BY AtFacts, CoreFacts DEF Type, Edit, Erase, network, At, Clean, TypesOK, UserOK
<1>2. CASE Type(k)
  <2> DEFINE c == [do |-> "send", msg |-> k, id |-> shown[k], version |-> 1]
  <2>1. commands' = Append(commands, c) /\ typed[k] = 0 /\ typed' = [typed EXCEPT ![k] = 1]
    BY <1>2 DEF Type, Command
  <2>2. Wish("command", c, m) = IF k = m THEN <<1, 0>> ELSE Nothing
    BY DEF Wish, One
  <2>3. c.do # "delete"
    OBVIOUS
  <2> HIDE DEF c
  <2>. QED
    BY <1>1, <2>1, <2>2, <2>3, UserCarries
<1>3. CASE Edit(k)
  <2> DEFINE n == typed[k] + 1
             c == [do |-> "edit", msg |-> k, id |-> shown[k], version |-> n]
  <2>1. commands' = Append(commands, c) /\ typed' = [typed EXCEPT ![k] = n]
    BY <1>3 DEF Edit, Command
  <2>2. Wish("command", c, m) = IF k = m THEN <<n, One(shown[k] > 0)>> ELSE Nothing
    BY DEF Wish
  <2>3. c.do # "delete"
    OBVIOUS
  <2> HIDE DEF c
  <2>4. Wish("command", c, m) = IF k = m THEN IF shown[k] > 0 THEN <<n, 1>> ELSE <<n, 0>>
                                ELSE Nothing
    BY <2>2 DEF One
  <2>. QED
    BY <1>1, <2>1, <2>3, <2>4, UserCarries
<1>4. CASE Erase(k)
  <2> DEFINE c == [do |-> "delete", msg |-> k, id |-> shown[k], version |-> 0]
  <2>1. commands' = Append(commands, c) /\ typed' = typed /\ k \in erased'
    BY <1>4 DEF Erase, Command
  <2>2. Wish("command", c, m) = Nothing /\ c.msg # m
    BY <1>1, <2>1 DEF Wish
  <2> HIDE DEF c
  <2>. QED
    BY <1>1, <2>1, <2>2, UserCarries
<1>. QED
  BY <1>2, <1>3, <1>4

\* The archive's thread takes a job.
LEMMA ArchiveCarries ==
    ASSUME NEW m, At(m), NEW op, NextJob(op), UNCHANGED <<core, network, typed>>,
           NEW r,
           \/ results' = results
           \/ results' = Append(results, r) /\ ResultSound(r, m, server.text[m], held'),
           RowsOK(store'.sent, jobs', commands, m),
           WishesIn("entry", store'.sent, m) \subseteq Wishes(m) \cup {Nothing},
           \A w \in WishesIn("entry", store.sent, m) \cup {Wish("job", Head(jobs), m)} :
              w[1] = typed[m] /\ typed[m] > 1 =>
                 w \in WishesIn("entry", store'.sent, m) \/ server.text[m] = typed[m],
           \A e \in Elements(store'.sent) : e.msg = m => Plain(e),
           HeldSound(held', m, server.text[m], Wishes(m), store'.sent),
           PacketSound(packet, held', m, server.text[m]),
           \/ held' = None \/ (held # None /\ held'.entry.iid = held.entry.iid)
           \/ \A c \in Elements(jobs') \cup Elements(results') : c.op # "history"
    PROVE  Carried(m)'
<1> DEFINE x == server.text[m]
           W == Wishes(m)
<1>1. /\ commands' = commands /\ shown' = shown /\ packet' = packet /\ server' = server
      /\ typed' = typed
  BY DEF core, network
<1>2. Elements(jobs) = Elements(jobs') \cup {Head(jobs)}
  BY JobTakenFrom DEF At
<1>3. WishesIn("job", jobs, m) = WishesIn("job", jobs', m) \cup {Wish("job", Head(jobs), m)}
  BY <1>2 DEF WishesIn
<1>4. Wishes(m)' \subseteq W \cup {Nothing}
  BY <1>1, <1>3 DEF Wishes, WishesOf
<1>5. \A w \in W : w[1] = typed[m] /\ typed[m] > 1 => w \in Wishes(m)' \/ x = typed[m]
  BY <1>1, <1>3 DEF Wishes, WishesOf
<1>6. Elements(Append(results, r)) = Elements(results) \cup {r}
  BY QueueFacts, QueueAppend DEF At
<1>7. \A c \in Elements(results') : c \in Elements(results) \/ ResultSound(c, m, x, held')
  BY <1>6
<1>8. /\ \A j \in Elements(jobs') : j \in Elements(jobs)
      /\ \A c \in Elements(commands') : c \in Elements(commands)
      /\ x = server'.text[m] /\ x \in x..typed[m] /\ Floor(W, x)
      /\ RowsOK(store.sent, jobs, commands, m)' /\ typed'[m] = typed[m]
      /\ PacketSound(packet', held', m, x) /\ (shown[m] > 0 => shown'[m] > 0)
      /\ HeldSound(held', m, x, W, store'.sent)
  BY <1>1, <1>2, AtFacts DEF Carried
<1> HIDE DEF x, W
<1>. QED
  BY <1>4, <1>5, <1>7, <1>8, CarriedOn DEF x, W

LEMMA JobRow ==
    ASSUME NEW m, At(m), NEW op, NextJob(op)
    PROVE  LET J == Row("job", jobs, m) IN
           /\ Row("job", jobs', m) = Tail(J) /\ J # <<>>
           /\ Head(J) = VersionKey(Wish("job", Head(jobs), m))
           /\ LineOK(Row("entry", store.sent, m), J, Row("command", commands, m))
           /\ JobSound(Head(jobs), m, server.text[m], Wishes(m), held)
           /\ IsJob(Head(jobs), typed, Created, rejected)
           /\ Wish("job", Head(jobs), m) \in Wishes(m) /\ Head(jobs) \in Elements(jobs)
<1>1. jobs # <<>> /\ jobs' = Tail(jobs) /\ Wished(jobs, "job", m)
  BY AtFacts, WishesTyped DEF NextJob, At
<1>2. Head(jobs) \in Elements(jobs) /\ IsJob(Head(jobs), typed, Created, rejected)
  BY JobTakenFrom DEF At
<1>3. Wish("job", Head(jobs), m) \in Wishes(m)
  BY <1>2 DEF Wishes, WishesOf, WishesIn
<1>. QED
  BY <1>1, <1>2, <1>3, RowTail, AtFacts DEF Carried, RowsOK

\* It reads the store, or takes a deletion off its list.
LEMMA ReadCarries ==
    ASSUME NEW m, At(m), NEW op, NextJob(op), op \notin {"insert", "replace"},
           UNCHANGED <<core, network, typed, held>>, store'.sent = store.sent,
           NEW r,
           \/ results' = results
           \/ results' = Append(results, r) /\ ResultSound(r, m, server.text[m], held)
    PROVE  Carried(m)'
<1>1. Wish("job", Head(jobs), m) = Nothing /\ VersionKey(Nothing) = Nothing
  BY DEF Wish, NextJob, VersionKey, Nothing
<1>2. RowsOK(store'.sent, jobs', commands, m)
  BY <1>1, JobRow, LineTailNothing DEF RowsOK
<1>3. WishesIn("entry", store'.sent, m) \subseteq Wishes(m) \cup {Nothing}
  BY DEF Wishes, WishesOf
<1>4. \A w \in WishesIn("entry", store.sent, m) \cup {Wish("job", Head(jobs), m)} :
         w[1] = typed[m] /\ typed[m] > 1 =>
            w \in WishesIn("entry", store'.sent, m) \/ server.text[m] = typed[m]
  BY <1>1 DEF Nothing
<1>5. /\ \A e \in Elements(store'.sent) : e.msg = m => Plain(e)
      /\ HeldSound(held', m, server.text[m], Wishes(m), store'.sent)
      /\ PacketSound(packet, held', m, server.text[m])
  BY AtFacts DEF Carried
<1>6. held' = held
  OBVIOUS
<1>. QED
  BY <1>2, <1>3, <1>4, <1>5, <1>6, ArchiveCarries

LEMMA CarriedByReads ==
    ASSUME NEW m, At(m), RunHistory \/ RunFind \/ RunFirstDelete \/ RunUndelete
    PROVE  Carried(m)'
<1> DEFINE j == Head(jobs)
           x == server.text[m]
<1>1. CASE RunHistory
  <2> DEFINE r == [op |-> "history", id |-> j.id, text |-> j.text]
  <2>1. /\ NextJob("history") /\ results' = Append(results, r) /\ store'.sent = store.sent
        /\ UNCHANGED <<core, network, typed, held>>
    BY <1>1 DEF RunHistory, Result, user
  <2>2. JobSound(j, m, x, Wishes(m), held) /\ j.op = "history"
    BY <2>1, JobRow DEF NextJob
  <2>3. ResultSound(r, m, x, held)
    BY <2>2 DEF JobSound, ResultSound
  <2> HIDE DEF r
  <2>. QED
    BY <2>1, <2>3, ReadCarries
<1>2. CASE RunFind
  <2> DEFINE r == [op |-> "found", msg |-> j.msg, id |-> j.id]
  <2>1. /\ NextJob("find") /\ results' = Append(results, r) /\ store'.sent = store.sent
        /\ UNCHANGED <<core, network, typed, held>>
    BY <1>2 DEF RunFind, Result, user
  <2>2. JobSound(j, m, x, Wishes(m), held) /\ j.op = "find"
    BY <2>1, JobRow DEF NextJob
  <2>3. ResultSound(r, m, x, held)
    BY <2>2 DEF JobSound, ResultSound
  <2> HIDE DEF r
  <2>. QED
    BY <2>1, <2>3, ReadCarries
<1>3. CASE RunFirstDelete
  <2> DEFINE r == [op |-> "firstDelete",
                   id |-> IF store.deletes = <<>> THEN 0 ELSE Head(store.deletes)]
  <2>1. /\ NextJob("firstDelete") /\ results' = Append(results, r)
        /\ store'.sent = store.sent /\ UNCHANGED <<core, network, typed, held>>
    BY <1>3 DEF RunFirstDelete, Result, user
  <2>2. ResultSound(r, m, x, held)
    BY DEF ResultSound
  <2> HIDE DEF r
  <2>. QED
    BY <2>1, <2>2, ReadCarries
<1>4. CASE RunUndelete
  <2>1. {"sent", "deletes"} \subseteq DOMAIN store
    BY CoreFacts DEF At, TypesOK, IsStore
  <2>2. /\ NextJob("undelete") /\ results' = results /\ store'.sent = store.sent
        /\ UNCHANGED <<core, network, typed, held>>
    BY <1>4, <2>1 DEF RunUndelete, RemoveDeletedMessage, user
  <2>. QED
    BY <2>2, ReadCarries
<1>. QED
  BY <1>1, <1>2, <1>3, <1>4

\* The object the loop holds follows the store.
LEMMA FollowSound ==
    ASSUME NEW m, At(m), UNCHANGED <<typed, server, packet>>, NEW X, Follow(X),
           \A e \in Elements(store'.sent) : e.msg = m =>
              Plain(e) /\ (e.iid \in X \/ \E o \in Elements(store.sent) : Same(o, e))
    PROVE  /\ HeldSound(held', m, server.text[m], Wishes(m), store'.sent)
           /\ PacketSound(packet, held', m, server.text[m])
           /\ held' = None \/ (held # None /\ held'.entry.iid = held.entry.iid)
<1> DEFINE x == server.text[m]
           W == Wishes(m)
<1>1. /\ IsHeld(held, typed, Created) /\ IsStore(store', typed, Created)
      /\ IsStore(store, typed, Created) /\ Unique(store)
  BY StoreIsSound DEF At, IInv, TypesOK, Created
<1>2. /\ held' = None <=> held = None
      /\ held # None => held'.entry.iid = held.entry.iid /\ held'.entry.msg = held.entry.msg
  BY <1>1, FollowFacts
<1>3. HeldSound(held, m, x, W, store.sent) /\ PacketSound(packet, held, m, x)
  BY AtFacts
<1>4. \A o, e \in Elements(store.sent) : o.iid = e.iid => o = e
  BY <1>1 DEF Unique, Elements
<1>5. ASSUME held # None, held.entry.msg = m
      PROVE  /\ Plain(held'.entry) /\ held'.entry.text = held.entry.text
             /\ held'.shared => \E e \in Elements(store'.sent) :
                                   e.iid = held'.entry.iid /\ e.text = held'.entry.text
  <2>1. /\ {"entry", "shared"} \subseteq DOMAIN held
        /\ \A iid : Has(store', iid) => Get(store', iid) \in Elements(store'.sent)
    BY <1>1, <1>5 DEF IsHeld, Has, Get, Place, Elements
  <2>2. CASE held.shared /\ Has(store', held.entry.iid) /\ held.entry.iid \notin X
    <3> DEFINE e == Get(store', held.entry.iid)
    <3>1. held'.entry = e /\ e \in Elements(store'.sent)
      BY <1>5, <2>1, <2>2 DEF Follow
    <3>2. e.msg = m /\ e.iid = held.entry.iid
      BY <1>2, <1>5, <3>1
    <3> HIDE DEF e
    <3>3. Plain(e) /\ \E o \in Elements(store.sent) : Same(o, e)
      BY <2>2, <3>1, <3>2
    <3>4. \E o \in Elements(store.sent) :
             o.iid = held.entry.iid /\ o.text = held.entry.text
      BY <1>3, <1>5, <2>2 DEF HeldSound
    <3>5. e.text = held.entry.text
      BY <1>4, <3>2, <3>3, <3>4 DEF Same
    <3>. QED
      BY <3>1, <3>3, <3>5
  <2>3. CASE ~(held.shared /\ Has(store', held.entry.iid) /\ held.entry.iid \notin X)
    <3>1. held'.entry = held.entry /\ ~held'.shared
      BY <1>5, <2>1, <2>3 DEF Follow
    <3>2. Plain(held.entry)
      BY <1>3, <1>5 DEF HeldSound
    <3>. QED
      BY <3>1, <3>2
  <2>. QED
    BY <2>2, <2>3
<1>6. HeldSound(held', m, x, W, store'.sent)
  BY <1>2, <1>3, <1>5 DEF HeldSound
<1>7. PacketSound(packet, held', m, x)
  <2>1. packet # None => held # None /\ held.entry.msg = packet.entry.msg
    BY PacketFacts DEF At
  <2>. QED
    BY <1>3, <1>5, <2>1 DEF PacketSound
<1>. QED
  BY <1>2, <1>6, <1>7

\* It changes the store's entries in their places, or confirms one.
LEMMA RewriteCarries ==
    ASSUME NEW m, At(m), NEW op, NextJob(op), op \notin {"insert", "replace"},
           UNCHANGED <<core, network, typed>>, NEW X, Follow(X), NEW r,
           \/ results' = results
           \/ results' = Append(results, r) /\ r.op \notin {"history", "found"},
           NEW iid, NEW id, NEW D, NEW force, Told(server.order, id, iid[1]),
           Rewrites(store, store', iid, id, D, force), D => iid[1] # m,
           \A e : LetGo(store, store', e, iid, id, force) /\ e.msg = m /\ e.text > 1
                     /\ e.text = typed[m] => server.text[m] = typed[m]
    PROVE  Carried(m)'
<1> DEFINE S == Row("entry", store.sent, m)
           T == Row("entry", store'.sent, m)
           w == Wish("job", Head(jobs), m)
<1>1. /\ UNCHANGED <<typed, server, packet>>
      /\ IsStore(store, typed, Created) /\ IsStore(store', typed, Created)
  BY DEF network, At, IInv, TypesOK, Created
<1>2. /\ IsQueue(store'.sent) /\ Wished(store.sent, "entry", m)
      /\ \A o \in Elements(store.sent) : /\ o.iid[1] = o.msg /\ EntryTold(server.order, o)
                                         /\ o.msg = m => Plain(o)
  <2>1. IsQueue(store'.sent) /\ Wished(store.sent, "entry", m)
    BY <1>1, StoreKeys, WishesTyped, AtFacts DEF At
  <2>2. \A o \in Elements(store.sent) : o.iid[1] = o.msg /\ EntryTold(server.order, o)
    BY <1>1, ToldFacts DEF At, IsStore, IsEntry, StoreTold
  <2>. QED
    BY <2>1, <2>2, AtFacts DEF Carried
<1>3. \A o, e : Same(o, e) => Wish("entry", o, m) = Wish("entry", e, m)
  BY DEF Same, Wish
<1>4. \A e \in Elements(store'.sent) : \E o \in Elements(store.sent) : Turned(o, e, iid, id, D)
  BY DEF Rewrites
<1>5. ASSUME NEW o \in Elements(store.sent), NEW e, Turned(o, e, iid, id, D), o.msg = m
      PROVE  Plain(e)
  <2>1. Plain(o)
    BY <1>2, <1>5
  <2>2. e.deleted => o.deleted
    BY <1>2, <1>5 DEF Turned, EntryTold, Told, Named
  <2>. QED
    BY <1>5, <2>1, <2>2 DEF Plain, Turned, Same
<1>6. \A e \in Elements(store'.sent) :
         \E o \in Elements(store.sent) : Same(o, e) /\ (e.msg = m => Plain(e))
  BY <1>4, <1>5 DEF Turned, Same
<1>7. Wished(store'.sent, "entry", m)
  BY <1>2, <1>3, <1>6 DEF Wished
<1>8. w = Nothing /\ VersionKey(Nothing) = Nothing
  BY DEF Wish, NextJob, VersionKey, Nothing
<1>9. RowsOK(store'.sent, jobs', commands, m)
  <2> DEFINE J == Tail(Row("job", jobs, m))
             C == Row("command", commands, m)
  <2>1. LineOK(S, J, C) /\ Row("job", jobs', m) = J
    BY <1>8, JobRow, LineTailNothing
  <2>2. /\ T \in Seq(Keys) /\ DOMAIN T = DOMAIN store'.sent
        /\ \A i \in DOMAIN T : T[i] = VersionKey(Wish("entry", store'.sent[i], m))
        /\ DOMAIN S = DOMAIN store.sent
        /\ \A i \in DOMAIN S : S[i] = VersionKey(Wish("entry", store.sent[i], m))
    BY <1>7, RowKeys DEF Row
  <2>3. \A i \in DOMAIN T : \E k \in DOMAIN S : S[k] = T[i]
    <3>1. \A i \in DOMAIN store'.sent :
             \E k \in DOMAIN store.sent : Same(store.sent[k], store'.sent[i])
      BY <1>6 DEF Elements
    <3>. QED
      BY <1>3, <2>2, <3>1
  <2>4. \A i, j \in DOMAIN T : i < j =>
           \E k, l \in DOMAIN S : k < l /\ S[k] = T[i] /\ S[l] = T[j]
    <3>1. ComeFrom(store, store')
      BY DEF Rewrites
    <3>. QED
      BY <1>3, <2>2, <3>1 DEF ComeFrom
  <2> HIDE DEF S, T, J, C
  <2>5. LineOK(T, J, C)
    BY <2>1, <2>2, <2>3, <2>4, LineThinned
  <2>. QED
    BY <2>1, <2>5 DEF RowsOK, T, C
<1>10. WishesIn("entry", store'.sent, m) \subseteq Wishes(m) \cup {Nothing}
  BY <1>3, <1>6 DEF Wishes, WishesOf, WishesIn
<1>11. ASSUME NEW v \in WishesIn("entry", store.sent, m) \cup {w},
              v[1] = typed[m], typed[m] > 1
       PROVE  v \in WishesIn("entry", store'.sent, m) \/ server.text[m] = typed[m]
  <2>1. PICK o \in Elements(store.sent) : v = Wish("entry", o, m)
    BY <1>8, <1>11 DEF Nothing, WishesIn
  <2>2. o.msg = m /\ o.text = typed[m]
    BY <1>11, <2>1 DEF Wish, Nothing
  <2>3. CASE \E e \in Elements(store'.sent) : Turned(o, e, iid, id, D)
    BY <1>3, <2>1, <2>3 DEF Turned, WishesIn
  <2>4. CASE LetGo(store, store', o, iid, id, force)
    BY <1>11, <2>2, <2>4
  <2>. QED
    BY <2>3, <2>4 DEF Rewrites
<1>12. /\ HeldSound(held', m, server.text[m], Wishes(m), store'.sent)
       /\ PacketSound(packet, held', m, server.text[m])
       /\ held' = None \/ (held # None /\ held'.entry.iid = held.entry.iid)
  BY <1>1, <1>6, FollowSound
<1>13. r.op \notin {"history", "found"} => ResultSound(r, m, server.text[m], held')
  BY DEF ResultSound
<1>14. \A e \in Elements(store'.sent) : e.msg = m => Plain(e)
  BY <1>6
<1> HIDE DEF w
<1>. QED
  BY <1>9, <1>10, <1>11, <1>12, <1>13, <1>14, ArchiveCarries DEF w

LEMMA CarriedByPosts ==
    ASSUME NEW m, At(m), RunStamp \/ RunDelete
    PROVE  Carried(m)'
<1> DEFINE j == Head(jobs)
           r == Job("stamped")
<1>1. CASE RunStamp
  <2> DEFINE iid == held.entry.iid
  <2>1. /\ NextJob("stamp") /\ results' = Append(results, r) /\ Follow({})
        /\ store' = UpdatePostTime(store, iid) /\ UNCHANGED <<core, network, typed>>
    BY <1>1 DEF RunStamp, user, Result
  <2>2. InPlace(store, store', iid, 0, FALSE) /\ DeletesGrow(store, store', 0)
    BY <2>1, StoreIsSound, StorePosts DEF At
  <2>3. /\ Rewrites(store, store', iid, 0, FALSE, FALSE)
        /\ \A e : ~LetGo(store, store', e, iid, 0, FALSE)
    BY <2>2, RewritesInPlace, InPlaceKeeps
  <2>4. Told(server.order, 0, iid[1]) /\ r.op = "stamped"
    BY DEF Told, Job
  <2> HIDE DEF r, iid
  <2>. QED
    BY <2>1, <2>3, <2>4, RewriteCarries
<1>2. CASE RunDelete
  <2> DEFINE iid == Original(j.msg)
  <2>1. /\ NextJob("delete") /\ store' = InsertDeletedMessage(store, j.id, iid)
        /\ Follow({}) /\ results' = results /\ UNCHANGED <<core, network, typed>>
    BY <1>2 DEF RunDelete
  <2>2. /\ j.op = "delete" /\ IsJob(j, typed, Created, rejected) /\ j \in Elements(jobs)
        /\ JobSound(j, m, server.text[m], Wishes(m), held)
    BY <2>1, JobRow DEF NextJob
  <2>3. j.id \in Nat /\ iid[1] # m /\ Told(server.order, j.id, iid[1])
    BY <2>2, ToldFacts DEF At, IsJob, JobSound, JobTold, Original
  <2> HIDE DEF iid, j
  <2>4. InPlace(store, store', iid, j.id, TRUE) /\ DeletesGrow(store, store', j.id)
    BY <2>1, <2>3, StoreIsSound, StoreMarks DEF At
  <2>5. /\ Rewrites(store, store', iid, j.id, TRUE, FALSE)
        /\ \A e : ~LetGo(store, store', e, iid, j.id, FALSE)
    BY <2>4, RewritesInPlace, InPlaceKeeps
  <2>. QED
    BY <2>1, <2>3, <2>5, RewriteCarries
<1>. QED
  BY <1>1, <1>2

\* A confirmation, or the answer that refuses a message.
LEMMA ConfirmCarries ==
    ASSUME NEW m, At(m), NEW op, NextJob(op), op \notin {"insert", "replace"},
           UNCHANGED <<core, network, typed>>, Follow({}), NEW r,
           \/ results' = results
           \/ results' = Append(results, r) /\ r.op \notin {"history", "found"},
           NEW iid, NEW id \in Nat, NEW force \in BOOLEAN, NEW text,
           Told(server.order, id, iid[1]),
           store' = Remove(store, force, iid, id) \/ store' = UpdateWithImstate(store, iid, id),
           EditDropped(iid, text),
           IF force THEN iid[1] # m ELSE ConfirmSound(iid, text, m, server.text[m])
    PROVE  Carried(m)'
<1> DEFINE D == Has(store, iid) /\ Get(store, iid).deleted
           x == server.text[m]
<1>1. Rewrites(store, store', iid, id, D, force)
  BY StoreIsSound, StoreConfirms DEF At
<1>2. /\ IsStore(store, typed, Created) /\ x \in 0..typed[m] /\ typed[m] \in Nat
      /\ m \notin lostEdits' /\ \A e \in Elements(store.sent) : e.msg = m => Plain(e)
  BY AtFacts DEF At, IInv, TypesOK, Carried, Clean
<1>3. ASSUME Has(store, iid)
      PROVE  /\ Get(store, iid).iid = iid /\ iid[1] = Get(store, iid).msg
             /\ iid[1] = m => Plain(Get(store, iid))
  <2>1. Get(store, iid) \in Elements(store.sent)
    BY <1>2, <1>3, PlaceFound, StoreKeys
  <2>. QED
    BY <1>2, <1>3, <2>1, PlaceFound DEF IsEntry
<1>4. ASSUME NEW e, LetGo(store, store', e, iid, id, force), e.msg = m, e.text > 1,
             e.text = typed[m]
      PROVE  x = typed[m]
  <2>1. /\ Has(store, iid) /\ e = Get(store, iid) /\ ~Has(store', iid)
        /\ e.deleted \/ ~e.modified \/ force
    BY <1>4 DEF LetGo
  <2>2. e.iid = iid /\ iid[1] = m /\ Plain(e)
    BY <1>3, <1>4, <2>1
  <2>3. ~force /\ text \in 0..x /\ (iid[2] # 1 => iid[2] <= text)
    BY <2>2 DEF ConfirmSound
  <2>4. ~(e.fresh /\ e.text > text)
    BY <1>2, <2>1, <2>2 DEF EditDropped
  <2>5. e.text <= text
    <3>1. CASE iid[2] = 1
      <4>1. e.fresh
        BY <1>4, <2>1, <2>2, <2>3, <3>1 DEF Plain
      <4>. QED
        BY <1>2, <1>4, <2>3, <2>4, <4>1
    <3>2. CASE iid[2] # 1
      BY <2>2, <2>3, <3>2 DEF Plain
    <3>. QED
      BY <3>1, <3>2
  <2>. QED
    BY <1>2, <1>4, <2>3, <2>5
<1>5. D => iid[1] # m
  BY <1>3 DEF Plain
<1> HIDE DEF D
<1>. QED
  BY <1>1, <1>4, <1>5, RewriteCarries

LEMMA CarriedByConfirms ==
    ASSUME NEW m, At(m), RunRemove \/ RunImstate
    PROVE  Carried(m)'
<1> DEFINE j == Head(jobs)
           r == Job("removed")
           s == [op |-> "imstate", msg |-> j.iid[1], id |-> j.id]
<1>1. r.op = "removed" /\ s.op = "imstate"
  BY DEF Job
<1> HIDE DEF r, s
<1>2. CASE RunRemove
  <2>1. /\ NextJob("remove") /\ store' = Remove(store, j.force, j.iid, j.id) /\ Follow({})
        /\ results' = results \/ results' = Append(results, r)
        /\ EditDropped(j.iid, j.text) /\ UNCHANGED <<core, network, typed>>
    BY <1>2 DEF RunRemove, r
  <2>2. /\ j.op = "remove" /\ IsJob(j, typed, Created, rejected) /\ j \in Elements(jobs)
        /\ JobSound(j, m, server.text[m], Wishes(m), held)
    BY <2>1, JobRow DEF NextJob
  <2>3. /\ j.id \in Nat /\ j.force \in BOOLEAN /\ Told(server.order, j.id, j.iid[1])
        /\ IF j.force THEN j.iid[1] # m
           ELSE ConfirmSound(j.iid, j.text, m, server.text[m])
    BY <2>2, AtFacts, ToldFacts DEF At, IsJob, JobSound, JobTold
  <2> HIDE DEF j
  <2>. QED
    BY <1>1, <2>1, <2>3, ConfirmCarries
<1>3. CASE RunImstate
  <2>1. /\ NextJob("imstate") /\ store' = UpdateWithImstate(store, j.iid, j.id) /\ Follow({})
        /\ results' = results \/ results' = Append(results, s)
        /\ EditDropped(j.iid, j.text) /\ UNCHANGED <<core, network, typed>>
    BY <1>3 DEF RunImstate, s
  <2>2. /\ j.op = "imstate" /\ IsJob(j, typed, Created, rejected) /\ j \in Elements(jobs)
        /\ JobSound(j, m, server.text[m], Wishes(m), held)
    BY <2>1, JobRow DEF NextJob
  <2>3. /\ j.id \in Nat /\ Told(server.order, j.id, j.iid[1])
        /\ ConfirmSound(j.iid, j.text, m, server.text[m])
    BY <2>2, ToldFacts DEF At, IsJob, JobSound, JobTold, Named, Told
  <2> HIDE DEF j
  <2>. QED
    BY <1>1, <2>1, <2>3, ConfirmCarries
<1>. QED
  BY <1>2, <1>3

LEMMA CarriedByRunInsert ==
    ASSUME NEW m, At(m), RunInsert
    PROVE  Carried(m)'
<1> DEFINE e == Head(jobs).entry
           w == Wish("job", Head(jobs), m)
           J == Row("job", jobs, m)
<1>1. /\ NextJob("insert") /\ Follow({e.iid}) /\ results' = results
      /\ UNCHANGED <<core, network, typed>> /\ UNCHANGED <<typed, server, packet>>
  BY DEF RunInsert, user, network
<1>2. store'.sent = Append(store.sent, e)
  BY InsertAppends DEF At
<1>3. /\ w = Wish("entry", e, m) /\ w \in Wishes(m) /\ (e.msg = m => Plain(e))
      /\ Row("job", jobs', m) = Tail(J) /\ J # <<>> /\ Head(J) = VersionKey(w)
      /\ LineOK(Row("entry", store.sent, m), J, Row("command", commands, m))
      /\ Head(jobs) \in Elements(jobs)
  BY <1>1, JobRow DEF NextJob, Wish, JobSound
<1>4. VersionKey(w) \in Keys /\ Wished(store.sent, "entry", m)
  BY <1>3, AtFacts, WishesTyped DEF At, Wished
<1> HIDE DEF e, J
<1>5. Row("entry", store'.sent, m) = Append(Row("entry", store.sent, m), VersionKey(w))
  BY <1>2, <1>3, <1>4, RowAppend
<1>6. RowsOK(store'.sent, jobs', commands, m)
  BY <1>3, <1>5, LineInsert DEF RowsOK
<1>7. Elements(store'.sent) = Elements(store.sent) \cup {e}
  BY <1>2, <1>4, QueueAppend DEF Wished
<1>8. WishesIn("entry", store'.sent, m) = WishesIn("entry", store.sent, m) \cup {w}
  BY <1>3, <1>7 DEF WishesIn
<1>9. WishesIn("entry", store'.sent, m) \subseteq Wishes(m) \cup {Nothing}
  BY <1>3, <1>8 DEF Wishes, WishesOf
<1>10. \A c \in Elements(store'.sent) : c.msg = m =>
          Plain(c) /\ (c.iid \in {e.iid} \/ \E o \in Elements(store.sent) : Same(o, c))
  BY <1>3, <1>7, AtFacts DEF Carried, Same
<1>11. /\ HeldSound(held', m, server.text[m], Wishes(m), store'.sent)
       /\ PacketSound(packet, held', m, server.text[m])
       /\ held' = None \/ (held # None /\ held'.entry.iid = held.entry.iid)
  BY <1>1, <1>10, FollowSound
<1> HIDE DEF w
<1>. QED
  BY <1>1, <1>6, <1>8, <1>9, <1>10, <1>11, ArchiveCarries DEF w

\* The edit of a message without an id takes the place of its only entry; the
\* copy of an entry has the entry's text, or an edit is given up.
LEMMA CarriedByRunReplace ==
    ASSUME NEW m, At(m), RunReplace
    PROVE  Carried(m)'
<1> DEFINE j == Head(jobs)
           e == j.entry
           w == Wish("job", j, m)
           J == Row("job", jobs, m)
           S == Row("entry", store.sent, m)
           T == Row("entry", store'.sent, m)
           C == Row("command", commands, m)
           old == Get(store, e.iid)
<1>1. /\ NextJob("replace") /\ Follow({e.iid}) /\ results' = results
      /\ UNCHANGED <<core, network, typed>> /\ UNCHANGED <<typed, server, packet>>
      /\ store' = UpdateMessageIfExist(store, e)
      /\ (j.edit /\ ~Has(store, e.iid)) \/ (~j.edit /\ Has(store, e.iid) /\ old.text > e.text)
         => e.msg \in lostEdits'
  BY DEF RunReplace, network
<1>2. /\ w \in Wishes(m) /\ Row("job", jobs', m) = Tail(J) /\ J # <<>>
      /\ Head(J) = VersionKey(w) /\ LineOK(S, J, C)
      /\ IsJob(j, typed, Created, rejected) /\ j.op = "replace"
      /\ JobSound(j, m, server.text[m], Wishes(m), held)
  BY <1>1, JobRow DEF NextJob
<1>3. /\ IsEntry(e, typed, Created) /\ m \notin lostEdits' /\ typed[m] \in Nat
      /\ StoreSound(store) /\ Unique(store) /\ Wished(store.sent, "entry", m)
      /\ \A o \in Elements(store.sent) : IsEntry(o, typed, Created)
  <2>1. IsEntry(e, typed, Created)
    BY <1>2 DEF IsJob
  <2>2. StoreSound(store) /\ Unique(store) /\ Wished(store.sent, "entry", m) /\ typed[m] \in Nat
    BY StoreIsSound, AtFacts, WishesTyped DEF At
  <2>3. m \notin lostEdits' /\ IsStore(store, typed, Created)
    BY DEF At, IInv, TypesOK, Clean
  <2>. QED
    BY <2>1, <2>2, <2>3 DEF IsStore
<1> HIDE DEF e, w
<1>4. /\ DOMAIN store'.sent = DOMAIN store.sent
      /\ \A i \in DOMAIN store.sent :
            store'.sent[i] = IF store.sent[i].iid = e.iid THEN e ELSE store.sent[i]
  BY <1>1, <1>3 DEF UpdateMessageIfExist, Update, StoreSound
<1>5. \A c \in Elements(store'.sent) : c = e \/ c \in Elements(store.sent)
  BY <1>4 DEF Elements
<1>6. e.msg = m => Plain(e)
  BY <1>2 DEF JobSound, e
<1>7. \A c \in Elements(store'.sent) : c.msg = m =>
         Plain(c) /\ (c.iid \in {e.iid} \/ \E o \in Elements(store.sent) : Same(o, c))
  BY <1>5, <1>6, AtFacts DEF Carried, Same
<1>8. /\ HeldSound(held', m, server.text[m], Wishes(m), store'.sent)
      /\ PacketSound(packet, held', m, server.text[m])
      /\ held' = None \/ (held # None /\ held'.entry.iid = held.entry.iid)
  BY <1>1, <1>7, FollowSound
<1> DEFINE Line2 == RowsOK(store'.sent, jobs', commands, m)
           In2 == WishesIn("entry", store'.sent, m) \subseteq Wishes(m) \cup {Nothing}
           New2 == \A v \in WishesIn("entry", store.sent, m) \cup {w} :
                      v[1] = typed[m] /\ typed[m] > 1 =>
                         v \in WishesIn("entry", store'.sent, m) \/ server.text[m] = typed[m]
<1> DEFINE Done == Line2 /\ In2 /\ New2
<1>9. ASSUME e.msg # m \/ ~j.edit PROVE Done
  <2>1. w = Nothing /\ VersionKey(Nothing) = Nothing
    BY <1>2, <1>9 DEF Wish, VersionKey, Nothing, w, e
  <2>2. ASSUME NEW i \in DOMAIN store.sent
        PROVE  Wish("entry", store'.sent[i], m) = Wish("entry", store.sent[i], m)
    <3> DEFINE o == store.sent[i]
    <3>1. o \in Elements(store.sent)
      BY DEF Elements
    <3>2. CASE o.iid # e.iid
      BY <1>4, <3>2
    <3>3. CASE o.iid = e.iid /\ e.msg # m
      <4>1. o.msg # m
        BY <1>3, <3>1, <3>3 DEF IsEntry
      <4>. QED
        BY <1>4, <3>3, <4>1 DEF Wish
    <3>4. CASE o.iid = e.iid /\ e.msg = m /\ ~j.edit
      <4>1. Has(store, e.iid) /\ old = o
        BY <1>3, <3>4 DEF Has, Get, Place, Unique
      <4>2. o.text \in Nat \ {0} /\ e.text \in Nat /\ o.msg = m
        BY <1>3, <3>1, <3>4 DEF IsEntry, EntryRecord
      <4>3. Wish("entry", o, m) \in Wishes(m) /\ Wish("entry", o, m)[1] = o.text
        BY <3>1, <4>2 DEF Wish, Wishes, WishesOf, WishesIn
      <4>4. e.text <= o.text
        BY <1>2, <3>4, <4>2, <4>3 DEF JobSound, Floor, e
      <4>5. e.text = o.text
        BY <1>1, <1>3, <3>4, <4>1, <4>2, <4>4
      <4>. QED
        BY <1>4, <3>4, <4>2, <4>5 DEF Wish
    <3>. QED
      BY <1>9, <3>2, <3>3, <3>4
  <2>3. T = S
    BY <1>4, <2>2 DEF Row
  <2>4. WishesIn("entry", store'.sent, m) = WishesIn("entry", store.sent, m)
    BY <1>4, <2>2 DEF WishesIn, Elements
  <2> HIDE DEF S, T, J, C
  <2>5. LineOK(T, Tail(J), C)
    BY <1>2, <2>1, <2>3, LineTailNothing
  <2>6. Line2
    BY <1>2, <2>5 DEF RowsOK, T, C
  <2>. QED
    BY <2>1, <2>4, <2>6 DEF Wishes, WishesOf, Nothing
<1>10. ASSUME e.msg = m, j.edit PROVE Done
  <2>1. /\ e.iid = <<m, 1>> /\ e.text \in 1..typed[m] /\ w = <<e.text, 0>>
        /\ VersionKey(w) = <<e.text, 1>> /\ Wish("entry", e, m) = w
    <3>1. e.iid[2] = 1
      BY <1>2, <1>10 DEF JobSound, e
    <3>2. e.iid \in Messages \X Nat /\ e.iid[1] = m /\ e.text \in 1..typed[m]
      BY <1>3, <1>10 DEF IsEntry, EntryRecord
    <3>3. w = <<e.text, 0>> /\ Wish("entry", e, m) = w
      BY <1>2, <1>10, <3>1 DEF Wish, One, w, e
    <3>4. VersionKey(w) = <<e.text, 1>>
      BY <3>2, <3>3 DEF VersionKey
    <3>. QED
      BY <3>1, <3>2, <3>3, <3>4
  <2>2. ASSUME NEW i \in DOMAIN store.sent, store.sent[i].msg = m
        PROVE  store.sent[i].text < e.text /\ store.sent[i].iid = e.iid
    <3> DEFINE o == store.sent[i]
    <3>1. IsEntry(o, typed, Created) /\ o \in Elements(store.sent)
      BY <1>3 DEF Elements
    <3>2. o.text \in Nat \ {0} /\ o.iid \in Messages \X Nat /\ o.iid[1] = m
      BY <2>2, <3>1 DEF IsEntry, EntryRecord
    <3>3. Wish("entry", o, m) = <<o.text, One(o.iid[2] # 1)>> /\ Wish("entry", o, m) \in Wishes(m)
      BY <2>2, <3>1 DEF Wish, Wishes, WishesOf, WishesIn
    <3>4. S[i] = <<o.text, 1>> /\ i \in DOMAIN S
      BY <3>2, <3>3 DEF Row, VersionKey
    <3>5. Precedes(S[i], Head(J))
      <4>1. J \in Seq(Keys) /\ Before(S, J)
        BY <1>2 DEF LineOK
      <4> HIDE DEF J, S
      <4>2. 1 \in DOMAIN J /\ Head(J) = J[1]
        BY <1>2, <4>1, KeyTail
      <4>. QED
        BY <3>4, <4>1, <4>2 DEF Before
    <3>6. o.text < e.text
      BY <1>2, <2>1, <3>2, <3>4, <3>5 DEF Precedes, Nothing
    <3>7. o.iid[2] = 1
      <4>1. o.iid[2] # 1 => One(o.iid[2] # 1) = 1
        BY DEF One
      <4>2. Ripe(Wishes(m))
        BY AtFacts DEF Carried
      <4>3. o.iid[2] # 1 => e.text < o.text
        BY <1>2, <2>1, <3>3, <4>1, <4>2 DEF Ripe
      <4>. QED
        BY <2>1, <3>2, <3>6, <4>3
    <3>. QED
      BY <2>1, <3>2, <3>6, <3>7
  <2>3. /\ T \in Seq(Keys) /\ DOMAIN T = DOMAIN store.sent
        /\ \A i \in DOMAIN T :
              T[i] = IF store.sent[i].iid = e.iid THEN Head(J) ELSE Nothing
    <3>1. \A c \in Elements(store'.sent) : VersionKey(Wish("entry", c, m)) \in Keys
      BY <1>2, <1>3, <1>5, <2>1 DEF Wished, Keys
    <3>2. IsQueue(store'.sent)
      BY StoreKeys DEF At, IInv, TypesOK
    <3>3. T \in Seq(Keys) /\ DOMAIN T = DOMAIN store.sent
      BY <1>4, <3>1, <3>2, RowKeys DEF Wished, Row
    <3>4. ASSUME NEW i \in DOMAIN T
          PROVE  T[i] = IF store.sent[i].iid = e.iid THEN Head(J) ELSE Nothing
      <4>1. T[i] = VersionKey(Wish("entry", store'.sent[i], m))
        BY <1>4, <3>3 DEF Row
      <4>2. CASE store.sent[i].iid = e.iid
        BY <1>2, <1>4, <2>1, <3>3, <4>1, <4>2
      <4>3. CASE store.sent[i].iid # e.iid
        BY <1>4, <2>2, <3>3, <4>1, <4>3 DEF Wish, VersionKey, Nothing
      <4>. QED
        BY <4>2, <4>3
    <3>. QED
      BY <3>3, <3>4
  <2> HIDE DEF S, T, J, C
  <2>4. LineOK(T, Tail(J), C)
    <3>1. /\ J \in Seq(Keys) /\ C \in Seq(Keys) /\ Sorted(J) /\ Sorted(C) /\ Before(J, C)
      BY <1>2 DEF LineOK
    <3>2. /\ Tail(J) \in Seq(Keys) /\ Sorted(Tail(J)) /\ Before(Tail(J), C)
          /\ \A i \in DOMAIN Tail(J) : Precedes(Head(J), Tail(J)[i])
          /\ \A i \in DOMAIN C : Precedes(Head(J), C[i])
      BY <1>2, <3>1, KeyTail, SortedTail, BeforeTail
    <3>3. Before(T, Tail(J)) /\ Before(T, C)
      BY <2>3, <3>2 DEF Before, Precedes
    <3>4. Sorted(T)
      BY <1>3, <2>3 DEF Sorted, Precedes, Unique
    <3>. QED
      BY <2>3, <3>1, <3>2, <3>3, <3>4 DEF LineOK
  <2>5. Line2
    BY <1>2, <2>4 DEF RowsOK, T, C
  <2>6. w \in WishesIn("entry", store'.sent, m)
    <3>1. Has(store, e.iid)
      BY <1>1, <1>3, <1>10
    <3>2. e \in Elements(store'.sent)
      BY <1>4, <3>1 DEF Has, Elements
    <3>. QED
      BY <2>1, <3>2 DEF WishesIn
  <2>7. In2
    BY <1>2, <1>5, <2>1 DEF Wishes, WishesOf, WishesIn
  <2>8. ASSUME NEW v \in WishesIn("entry", store.sent, m), v[1] = typed[m], typed[m] > 1
        PROVE  FALSE
    <3>1. PICK i \in DOMAIN store.sent : v = Wish("entry", store.sent[i], m)
      BY DEF WishesIn, Elements
    <3>2. store.sent[i].msg = m /\ store.sent[i].text = typed[m]
      BY <2>8, <3>1 DEF Wish, Nothing
    <3>. QED
      BY <1>3, <2>1, <2>2, <3>2
  <2>. QED
    BY <2>5, <2>6, <2>7, <2>8
<1> HIDE DEF Done
<1>11. Done
  BY <1>9, <1>10
<1>. QED
  BY <1>1, <1>7, <1>8, <1>11, ArchiveCarries DEF w, Done

\* The loop takes the oldest entry: no wish is older.
LEMMA CarriedByRunFirst ==
    ASSUME NEW m, At(m), RunFirst
    PROVE  Carried(m)'
<1> DEFINE r == Job("first")
           e == Head(store.sent)
           x == server.text[m]
           S == Row("entry", store.sent, m)
<1>1. /\ NextJob("first") /\ results' = Append(results, r) /\ store' = store
      /\ held' = IF store.sent = <<>> THEN None ELSE [entry |-> e, shared |-> TRUE]
      /\ UNCHANGED <<core, network, typed>>
  BY DEF RunFirst, Result, user
<1>2. packet = None /\ \A c \in Elements(jobs') \cup Elements(results') : c.op # "history"
  BY FirstAlone DEF At
<1>3. /\ Wished(store.sent, "entry", m) /\ LineOK(S, Row("job", jobs, m), Row("command", commands, m))
      /\ Floor(Wishes(m), x) /\ \A o \in Elements(store.sent) : o.msg = m => Plain(o)
      /\ \A w \in Wishes(m) : w[1] \in Nat
      /\ \A o \in Elements(store.sent) : o.text \in Nat \ {0}
  <2>1. \A o \in Elements(store.sent) : o.text \in Nat \ {0}
    BY DEF At, IInv, TypesOK, IsStore, IsEntry, EntryRecord
  <2>. QED
    BY <2>1, AtFacts, WishesTyped DEF At, Carried, RowsOK
<1>4. ASSUME store.sent # <<>>, e.msg = m
      PROVE  /\ e \in Elements(store.sent) /\ Plain(e) /\ x <= e.text
             /\ Floor(Wishes(m), e.text)
  <2>1. e \in Elements(store.sent) /\ e = store.sent[1] /\ 1 \in DOMAIN store.sent
    BY <1>3, <1>4, QueueTail DEF Wished
  <2>2. /\ Wish("entry", e, m) \in Wishes(m) /\ Wish("entry", e, m)[1] = e.text
        /\ e.text \in Nat \ {0}
    BY <1>3, <1>4, <2>1 DEF Wish, Wishes, WishesOf, WishesIn
  <2>3. S[1] = <<e.text, 1>> /\ 1 \in DOMAIN S
    BY <2>1, <2>2 DEF Row, VersionKey
  <2>4. ASSUME NEW w \in Wishes(m), w[1] > 0 PROVE e.text <= w[1]
    <3> DEFINE k == <<w[1], 1>>
               J == Row("job", jobs, m)
               C == Row("command", commands, m)
    <3>1. In(S, k) \/ In(J, k) \/ In(C, k)
      BY <1>3, <2>4, RowIn DEF Wishes, WishesOf, VersionKey
    <3> HIDE DEF S, J, C
    <3>2. S \in Seq(Keys)
      BY <1>3 DEF LineOK, J, C
    <3>3. k = S[1] \/ Precedes(S[1], k)
      <4>1. Sorted(S) /\ Before(S, J) /\ Before(S, C)
        BY <1>3 DEF LineOK, J, C
      <4>2. DOMAIN S = 1..Len(S) /\ Len(S) \in Nat
        BY <3>2
      <4>. QED
        BY <2>3, <3>1, <4>1, <4>2 DEF In, Sorted, Before
    <3>. QED
      BY <1>3, <2>2, <2>3, <2>4, <3>3 DEF Precedes, Nothing
  <2>. QED
    BY <1>3, <1>4, <2>1, <2>2, <2>4 DEF Floor
<1>5. HeldSound(held', m, x, Wishes(m), store'.sent)
  BY <1>1, <1>4 DEF HeldSound
<1>6. PacketSound(packet, held', m, x) /\ ResultSound(r, m, x, held')
  BY <1>2 DEF PacketSound, ResultSound, Job
<1>7. Wish("job", Head(jobs), m) = Nothing /\ VersionKey(Nothing) = Nothing
  BY <1>1 DEF Wish, NextJob, VersionKey, Nothing
<1>8. RowsOK(store'.sent, jobs', commands, m)
  BY <1>1, <1>7, JobRow, LineTailNothing DEF RowsOK
<1>9. WishesIn("entry", store'.sent, m) \subseteq Wishes(m) \cup {Nothing}
  BY <1>1 DEF Wishes, WishesOf
<1>10. \A w \in WishesIn("entry", store.sent, m) \cup {Wish("job", Head(jobs), m)} :
          w[1] = typed[m] /\ typed[m] > 1 => w \in WishesIn("entry", store'.sent, m)
  BY <1>1, <1>7 DEF Nothing
<1> HIDE DEF r, S
<1>. QED
  BY <1>1, <1>2, <1>3, <1>5, <1>6, <1>8, <1>9, <1>10, ArchiveCarries

\* The server takes the text the loop holds.
LEMMA CarriedByServerHandles ==
    ASSUME NEW m, At(m), ServerHandles
    PROVE  Carried(m)'
<1> DEFINE x == server.text[m]
           e == packet.entry
           y == server'.text[m]
           W == Wishes(m)
<1>1. /\ UNCHANGED <<commands, jobs, results, store, held, shown, typed>>
      /\ packet # None /\ packet' = [packet EXCEPT !.handled = TRUE]
  BY DEF ServerHandles, core, user
<1>2. /\ m \in Messages /\ Carried(m) /\ x \in Nat /\ typed[m] \in Nat
      /\ HeldSound(held, m, x, W, store.sent) /\ PacketSound(packet, held, m, x)
  BY AtFacts
<1>3. /\ held # None /\ IsEntry(e, typed, Created) /\ held.entry.iid = e.iid
      /\ held.entry.msg = e.msg /\ packet'.entry = e /\ e.msg \in Messages
  BY <1>1, PacketFacts DEF At, IInv, TypesOK, IsPacket
<1>4. /\ {"order", "text", "deleted"} \subseteq DOMAIN server
      /\ server.text \in [Messages -> Nat]
      /\ e.msgid > 0 => server.order[e.msgid] = e.msg
  <2>1. {"order", "text", "deleted"} \subseteq DOMAIN server /\ server.text \in [Messages -> Nat]
    BY DEF At, IInv, TypesOK, UserOK, EInv
  <2>2. e.msgid > 0 => server.order[e.msgid] = e.msg
    BY <1>1, ToldFacts DEF At, CarrierTold, EntryTold, Told, Named
  <2>. QED
    BY <2>1, <2>2
<1>5. server'.text = server.text \/ server'.text = [server.text EXCEPT ![e.msg] = e.text]
  BY <1>4 DEF ServerHandles
<1>6. e.msgid = 0 => e.iid[2] = 1
  BY <1>3 DEF IsEntry, EntryRecord
<1>7. e.msgid > 0 => server'.text = [server.text EXCEPT ![e.msg] = e.text]
  BY <1>4 DEF ServerHandles
<1> DEFINE Done ==
      /\ y \in x..typed[m] /\ Floor(W, y)
      /\ HeldSound(held, m, y, W, store.sent) /\ PacketSound(packet', held, m, y)
<1>8. Floor(W, x) /\ x <= typed[m]
  BY <1>2 DEF Carried
<1> HIDE DEF W
<1>9. ASSUME e.msg # m PROVE Done
  <2>1. y = x
    BY <1>2, <1>3, <1>4, <1>5, <1>9
  <2>. QED
    BY <1>2, <1>3, <1>8, <1>9, <2>1 DEF PacketSound
<1>10. ASSUME e.msg = m PROVE Done
  <2>1. /\ e.text = held.entry.text /\ e.text \in Nat /\ x <= e.text /\ e.text <= typed[m]
        /\ Floor(W, e.text) /\ Plain(held.entry)
    <3>1. e.text = held.entry.text /\ x <= held.entry.text /\ Floor(W, held.entry.text)
          /\ Plain(held.entry)
      BY <1>1, <1>2, <1>3, <1>10 DEF PacketSound, HeldSound
    <3>2. e.text \in Nat /\ e.text <= typed[m]
      BY <1>2, <1>3, <1>10 DEF IsEntry
    <3>. QED
      BY <3>1, <3>2
  <2>2. y = x \/ y = e.text
    BY <1>2, <1>4, <1>5, <1>10
  <2>3. e.iid[2] # 1 => y = e.text
    <3>1. e.msgid \in Nat
      BY <1>3 DEF IsEntry, EntryRecord
    <3>. QED
      BY <1>2, <1>4, <1>6, <1>7, <1>10, <3>1
  <2>4. PacketSound(packet', held, m, y)
    <3>1. e.iid[2] # 1 => e.iid[2] = e.text
      BY <1>3, <2>1 DEF Plain
    <3>. QED
      BY <1>3, <2>1, <2>3, <3>1 DEF PacketSound
  <2>5. HeldSound(held, m, y, W, store.sent)
    BY <1>2, <2>1, <2>2 DEF HeldSound
  <2>. QED
    BY <1>2, <1>8, <2>1, <2>2, <2>4, <2>5
<1> HIDE DEF Done
<1>11. Done
  BY <1>9, <1>10
<1>12. /\ RowsOK(store.sent, jobs, commands, m)' /\ Wishes(m)' = Wishes(m)
       /\ \A o \in Elements(store'.sent) : o.msg = m => Plain(o)
  BY <1>1, <1>2 DEF Carried, RowsOK, Row, Wishes, WishesOf
<1> HIDE DEF y, x
<1>. QED
  BY <1>1, <1>3, <1>11, <1>12, CarriedOn DEF W, x, y, Done

\* What was typed and not stored is given up by a crash; what is stored stays
\* in its place.
LEMMA CarriedByCrash ==
    ASSUME NEW m, At(m), Crash
    PROVE  Carried(m)'
<1> DEFINE x == server.text[m]
           S == Row("entry", store.sent, m)
           T == Row("entry", store'.sent, m)
<1>1. /\ commands' = <<>> /\ jobs' = <<>> /\ results' = <<>>
      /\ held' = None /\ packet' = None
      /\ UNCHANGED <<server, shown, typed>>
      /\ lost' = lost \cup DyingSends /\ lostEdits' = lostEdits \cup DyingEdits
      /\ store' = Update(store, LAMBDA e : TRUE, LAMBDA e : [e EXCEPT !.posted = FALSE])
  BY DEF Crash
<1>2. /\ Carried(m) /\ x \in Nat /\ m \notin DyingSends \cup DyingEdits
      /\ Wished(store.sent, "entry", m)
  BY <1>1, AtFacts, WishesTyped DEF At, Clean
<1>3. InPlace(store, store', Nothing, 0, FALSE)
  BY <1>1, StoreIsSound, StorePosts DEF At
<1>4. \A i \in DOMAIN store.sent :
         /\ Wish("entry", store'.sent[i], m) = Wish("entry", store.sent[i], m)
         /\ Plain(store.sent[i]) => Plain(store'.sent[i])
  <2>1. ASSUME NEW i \in DOMAIN store.sent, NEW o, o = store.sent[i],
               NEW p, p = store'.sent[i]
        PROVE  /\ Wish("entry", p, m) = Wish("entry", o, m)
               /\ Plain(o) => Plain(p)
    <3>1. Turned(o, p, Nothing, 0, FALSE)
      BY <1>3, <2>1 DEF InPlace
    <3>. QED
      BY <3>1 DEF Turned, Same, Wish, Plain
  <2>. QED
    BY <2>1
<1>5. T = S /\ WishesIn("entry", store'.sent, m) = WishesIn("entry", store.sent, m)
  BY <1>3, <1>4 DEF InPlace, Row, WishesIn, Elements
<1>6. \A e \in Elements(store'.sent) : e.msg = m => Plain(e)
  <2>1. ASSUME NEW i \in DOMAIN store'.sent, store'.sent[i].msg = m
        PROVE  Plain(store'.sent[i])
    <3>1. i \in DOMAIN store.sent /\ store.sent[i].msg = m /\ store.sent[i] \in Elements(store.sent)
      BY <1>3, <2>1 DEF InPlace, Turned, Same, Elements
    <3>. QED
      BY <1>2, <1>4, <3>1 DEF Carried
  <2>. QED
    BY <2>1 DEF Elements
<1>7. /\ Elements(commands') = {} /\ Elements(jobs') = {} /\ Elements(results') = {}
  BY <1>1, QueueEmpty
<1>8. RowsOK(store.sent, jobs, commands, m)'
  <2>1. Row("job", jobs', m) = <<>> /\ Row("command", commands', m) = <<>>
    BY <1>1 DEF Row
  <2>2. LineOK(S, <<>>, <<>>)
    BY <1>2, LineCrash DEF Carried, RowsOK
  <2>. QED
    BY <1>5, <2>1, <2>2 DEF RowsOK
<1>9. Wishes(m)' \subseteq Wishes(m)
  BY <1>5, <1>7 DEF Wishes, WishesOf, WishesIn
<1>10. ASSUME NEW w \in Wishes(m), w[1] > 0 PROVE w \in Wishes(m)'
  <2>1. \A c \in Elements(commands) : Wish("command", c, m) = Nothing
    <3>1. \A c \in Elements(commands) : c.do # "delete" => c.do \in {"send", "edit"}
      BY DEF At, IInv, TypesOK, CommandsOK, IsCommand
    <3>. QED
      BY <1>2, <3>1 DEF Wish, DyingSends, DyingEdits, Elements
  <2>2. \A j \in Elements(jobs) : Wish("job", j, m) = Nothing
    BY <1>2 DEF Wish, DyingEdits, Waiting, Elements
  <2>3. w \in WishesIn("entry", store.sent, m)
    BY <1>10, <2>1, <2>2 DEF Wishes, WishesOf, WishesIn, Nothing
  <2>. QED
    BY <1>5, <2>3 DEF Wishes, WishesOf
<1>11. HeldSound(held', m, x, Wishes(m), store'.sent) /\ PacketSound(packet', held', m, x)
  BY <1>1 DEF HeldSound, PacketSound
<1>12. server'.text[m] = x /\ x \in x..typed[m] /\ Floor(Wishes(m), x) /\ typed[m] \in Nat
  BY <1>1, <1>2, AtFacts DEF Carried
<1>13. \A w \in Wishes(m) : w[1] = typed[m] /\ typed[m] > 1 => w \in Wishes(m)'
  BY <1>10, <1>12
<1> HIDE DEF S, T, x
<1>. QED
  BY <1>1, <1>6, <1>7, <1>8, <1>9, <1>11, <1>12, <1>13, CarriedOn

LEMMA CarriedByStutter ==
    ASSUME NEW m, At(m), UNCHANGED vars
    PROVE  Carried(m)'
<1>1. /\ UNCHANGED <<commands, store, typed>> /\ server'.text = server.text /\ jobs' = jobs
      /\ shown' = shown /\ held' = held /\ packet' = packet /\ results' = results
  BY DEF vars, core, network, user
<1>. QED
  BY <1>1, CoreCarries DEF Adds

LEMMA InitCarries ==
    ASSUME Init
    PROVE  EInv
<1>1. /\ commands = <<>> /\ jobs = <<>> /\ results = <<>> /\ store.sent = <<>>
      /\ held = None /\ packet = None
      /\ server.text = [m \in Messages |-> 0] /\ typed = [m \in Messages |-> 0]
  BY DEF Init, EmptyStore
<1>2. /\ Elements(commands) = {} /\ Elements(jobs) = {} /\ Elements(results) = {}
      /\ Elements(store.sent) = {}
  BY <1>1, QueueEmpty
<1>3. ASSUME NEW m \in Messages PROVE Carried(m)
  <2>1. Wishes(m) = {}
    BY <1>2 DEF Wishes, WishesOf, WishesIn
  <2>2. RowsOK(store.sent, jobs, commands, m)
    <3>1. /\ Row("entry", store.sent, m) = <<>> /\ Row("job", jobs, m) = <<>>
          /\ Row("command", commands, m) = <<>>
      BY <1>1 DEF Row
    <3>2. <<>> \in Seq(Keys) /\ DOMAIN <<>> = {}
      OBVIOUS
    <3>3. LineOK(<<>>, <<>>, <<>>)
      BY <3>2 DEF LineOK, Sorted, Before
    <3>. QED
      BY <3>1, <3>3 DEF RowsOK
  <2>3. server.text[m] = 0 /\ typed[m] = 0
    BY <1>1
  <2>4. /\ HeldSound(held, m, server.text[m], Wishes(m), store.sent)
        /\ PacketSound(packet, held, m, server.text[m])
    BY <1>1 DEF HeldSound, PacketSound
  <2>5. Floor(Wishes(m), server.text[m]) /\ Ripe(Wishes(m))
    BY <2>1 DEF Floor, Ripe
  <2>. QED
    BY <1>2, <2>1, <2>2, <2>3, <2>4, <2>5 DEF Carried
<1>. QED
  BY <1>1, <1>3 DEF EInv, Clean

\* What was given up stays given up, and only the server changes its texts.
LEMMA CleanShrinks ==
    ASSUME [Next]_vars
    PROVE  Clean' \subseteq Clean /\ (server' = server \/ ServerHandles \/ ServerDeletes)
<1> USE DEF Clean, user, network
<1>1. CASE \E m \in Messages : Type(m) \/ Edit(m) \/ Erase(m)
  BY <1>1 DEF Type, Edit, Erase
<1>2. CASE HandleCommand
  BY <1>2 DEF HandleCommand, SendMessageToContact, UpdateMessageToContact, DeleteArchiveMessage
<1>3. CASE HandleResult
  BY <1>3 DEF HandleResult, SendLoopEnds, StartTimer, OnTimer, StampPostTime,
     SendPendingMessage, OnHistoryUpdated, OnRemoved, OnFound, DeleteLoopEnds, SendDeletion,
     OnImstateDone
<1>4. CASE ArchiveStep
  BY <1>4 DEF ArchiveStep, RunInsert, RunReplace, RunFirst, RunStamp, RunHistory, RunRemove,
     RunImstate, RunFind, RunDelete, RunFirstDelete, RunUndelete, EditDropped
<1>5. CASE TimerDue \/ Resume \/ Crash
  BY <1>5 DEF TimerDue, Resume, Crash
<1>6. CASE OnSent \/ OnAccepted \/ OnSendFailed \/ OnRejected
  BY <1>6 DEF OnSent, OnAccepted, OnSendFailed, OnRejected
<1>7. CASE OnDeleted \/ OnDeleteFailed \/ OnDeleteRefused
  BY <1>7 DEF OnDeleted, OnDeleteFailed, OnDeleteRefused
<1>8. CASE \E m \in Messages : OnEventImstate(m) \/ OnServerMessage(m)
  BY <1>8 DEF OnEventImstate, OnServerMessage
<1>9. CASE ServerHandles \/ ServerDeletes
  BY <1>9 DEF ServerHandles, ServerDeletes
<1>10. CASE UNCHANGED vars
  BY <1>10 DEF vars
<1>. QED
  BY <1>1, <1>2, <1>3, <1>4, <1>5, <1>6, <1>7, <1>8, <1>9, <1>10 DEF Next

LEMMA TextTyped ==
    ASSUME IInv, EInv, [Next]_vars
    PROVE  server'.text \in [Messages -> Nat]
<1>1. /\ {"order", "text", "deleted"} \subseteq DOMAIN server
      /\ server.text \in [Messages -> Nat]
  BY DEF IInv, TypesOK, UserOK, EInv
<1>2. CASE ServerHandles
  <2>1. packet.entry.text \in Nat
    BY <1>2, PacketFacts DEF ServerHandles, IsEntry, EntryRecord
  <2>2. \/ server'.text = server.text
        \/ \E k : server'.text = [server.text EXCEPT ![k] = packet.entry.text]
    BY <1>1, <1>2 DEF ServerHandles
  <2>. QED
    BY <1>1, <2>1, <2>2
<1>3. CASE ServerDeletes
  BY <1>1, <1>3 DEF ServerDeletes
<1>. QED
  BY <1>1, <1>2, <1>3, CleanShrinks

LEMMA StepCarries ==
    ASSUME IInv, IInv', DInv, EInv, [Next]_vars
    PROVE  EInv'
<1>1. ASSUME NEW m \in Clean' PROVE Carried(m)'
  <2>1. At(m)
    BY <1>1, CleanShrinks DEF At
  <2>2. CASE \E k \in Messages : Type(k) \/ Edit(k) \/ Erase(k)
    BY <2>1, <2>2, CarriedByUser
  <2>3. CASE HandleCommand
    BY <2>1, <2>3, CarriedByCommands
  <2>4. CASE HandleResult
    BY <2>1, <2>4, CarriedByLoops, CarriedBySendPendingMessage, CarriedByOnFound,
       CarriedByIds DEF HandleResult
  <2>5. CASE ArchiveStep
    BY <2>1, <2>5, CarriedByRunInsert, CarriedByRunReplace, CarriedByRunFirst, CarriedByPosts,
       CarriedByReads, CarriedByConfirms DEF ArchiveStep
  <2>6. CASE TimerDue \/ Resume \/ OnSendFailed \/ OnDeleted \/ OnDeleteFailed
                \/ OnDeleteRefused \/ ServerDeletes
    BY <2>1, <2>6, CarriedByDeletions
  <2>7. CASE OnSent \/ OnAccepted \/ OnRejected
    BY <2>1, <2>7, CarriedByAnswers
  <2>8. CASE \E k \in Messages : OnEventImstate(k) \/ OnServerMessage(k)
    BY <2>1, <2>8, CarriedByEvents
  <2>9. CASE ServerHandles \/ Crash
    BY <2>1, <2>9, CarriedByServerHandles, CarriedByCrash
  <2>10. CASE UNCHANGED vars
    BY <2>1, <2>10, CarriedByStutter
  <2>. QED
    BY <2>2, <2>3, <2>4, <2>5, <2>6, <2>7, <2>8, <2>9, <2>10 DEF Next
<1>2. server'.text \in [Messages -> Nat]
  BY TextTyped
<1>. QED
  BY <1>1, <1>2 DEF EInv

LEMMA InvariantEdits == IInv /\ EInv => NoEditLost
<1> SUFFICES ASSUME IInv, EInv, NEW m \in Messages, typed[m] > 1,
                    m \notin GivenUp \cup lostEdits \cup erased, server.text[m] # typed[m]
             PROVE  Waits(m, typed[m])
  BY DEF NoEditLost
<1>1. Carried(m)
  BY DEF EInv, Clean, GivenUp
<1>2. PICK w \in Wishes(m) : w[1] = typed[m]
  BY <1>1 DEF Carried
<1>3. typed[m] # 0
  BY WishesTyped
<1>4. CASE w \in WishesIn("entry", store.sent, m)
  BY <1>2, <1>3, <1>4 DEF WishesIn, Wish, Elements, Nothing, Waits
<1>5. CASE w \in WishesIn("job", jobs, m)
  BY <1>2, <1>3, <1>5 DEF WishesIn, Wish, Elements, Nothing, Waits, Waiting
<1>6. CASE w \in WishesIn("command", commands, m)
  <2>1. \A c \in Elements(commands) : c.do # "delete" => c.do \in {"send", "edit"}
    BY DEF IInv, TypesOK, CommandsOK, IsCommand
  <2>. QED
    BY <1>2, <1>3, <1>6, <2>1 DEF WishesIn, Wish, Elements, Nothing, Waits
<1>. QED
  BY <1>2, <1>4, <1>5, <1>6 DEF Wishes, WishesOf

\* The versions of a message that was not given up are in one line from the
\* command of the user over the archive's queue to the store, none of them is
\* older than what the server has, and an edit with an entry of its own comes
\* after what it replaces: what send, update_if_exist_not_sent_message and the
\* confirmations of wim::im and not_sent_messages keep between them.
THEOREM EditsStayInLine == Spec => []EInv
<1>1. Init => IInv /\ DInv /\ EInv
  BY InitInvariant, InitTold, InitCarries
<1>2. IInv /\ DInv /\ EInv /\ [Next]_vars => (IInv /\ DInv /\ EInv)'
  BY StepKeeps, StepTells, StepCarries
<1>. QED
  BY <1>1, <1>2, PTL DEF Spec

\* The last version the user typed is the server's text or on its way, unless
\* it found its entry confirmed and gone, was overwritten by the copy of an
\* entry sent before, died in a queue, or the message was deleted or given up:
\* the order of commands, jobs and entries alone never loses an edit.
THEOREM EditsAreCarried == Spec => []NoEditLost
  BY InvariantHolds, EditsStayInLine, InvariantEdits, PTL

=============================================================================
