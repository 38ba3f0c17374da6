---------------------- MODULE MessageSendingInvariants ----------------------
(***************************************************************************)
(* The inductive invariants of MessageSending; MessageSendingProofs shows  *)
(* that every step keeps them.                                             *)
(*                                                                         *)
(* The invariant IInv has five parts besides the types.  Line: what the    *)
(* store, the jobs that insert and the GUI's commands hold is one line of  *)
(* internal ids, without repetition and with the messages in the order in  *)
(* which they were typed; every step moves a key along the line or takes   *)
(* it out.  LoopsOK: an active loop has one step pending.  HeldOK: the     *)
(* entry the send loop holds, if it is a message's first version, is the   *)
(* oldest of the line, and stays in it until the server has the message;   *)
(* so does what a request or an answer of the loop names.  OrderOK: the    *)
(* server's messages are sorted and older than those only in the line, and *)
(* a message that is on neither was given up.  TypesOK holds two facts     *)
(* these need: only an entry of a created message has a message id, and    *)
(* only one with a message id has a request id that is not the message's.  *)
(*                                                                         *)
(* DInv, proved in a second pass that uses the first, adds what the        *)
(* deletions need.  IdsOK: an id is the server's number of the message it  *)
(* is kept with, wherever it is kept, so that the deletion an entry turns  *)
(* into when it is confirmed deletes that message.  DeletionsOK: what the  *)
(* delete loop takes off the store's list was deleted, or refused; and     *)
(* every message the user deleted is in a queue, marked in the store or in *)
(* its list, or given up at a place the model names.                       *)
(*                                                                         *)
(* EInv, on top of both, is about the edits of a message of which nothing  *)
(* was given up (Clean).  The versions of it on their way, in a command, a *)
(* job or an entry of the store, are one line in the order in which they   *)
(* were typed; none is older than the text the server has, which the copy  *)
(* the loop holds is not older than either; an edit with an entry of its   *)
(* own is newer than any that replaces a pending entry; the last version   *)
(* is in the line or the server's text; and a confirmation carries the     *)
(* version the server had, so that what it removes is not newer.           *)
(***************************************************************************)
EXTENDS MessageSending

-----------------------------------------------------------------------------
(* Queues: their elements, and how many steps of each kind of loop they    *)
(* hold.                                                                   *)

Elements(q) == {q[i] : i \in DOMAIN q}
IsQueue(q) == q \in Seq(Elements(q))

\* The kind of loop a job or a result is a step of.
Class(c) ==
    IF c.op \in {"first", "stamp", "history", "stamped", "removed"} THEN "send"
    ELSE IF c.op = "remove" THEN IF c.loop THEN "confirm" ELSE "other"
    ELSE IF c.op = "firstDelete" THEN "delete"
    ELSE IF c.op = "timer" THEN "timer"
    ELSE "other"

Of(q, k) == {i \in DOMAIN q : Class(q[i]) = k}
Steps(q, k) == Cardinality(Of(q, k))

-----------------------------------------------------------------------------
(* The line of entries: the internal ids that are in the store (S), in the *)
(* archive's jobs (J) and in the GUI's commands (C), as sequences of keys. *)

Keys == Nat \X Nat

\* The key of what inserts nothing.
Nothing == <<0, 0>>

\* What may stand before what: a message before those typed after it, and
\* nothing twice.
Precedes(a, b) ==
    a # Nothing /\ b # Nothing =>
        a # b /\ (a[2] = 1 /\ b[2] = 1 => a[1] < b[1])

Sorted(ks) == \A i, j \in DOMAIN ks : i < j => Precedes(ks[i], ks[j])
Before(ks, ls) == \A i \in DOMAIN ks : \A j \in DOMAIN ls : Precedes(ks[i], ls[j])

LineOK(S, J, C) ==
    /\ S \in Seq(Keys) /\ J \in Seq(Keys) /\ C \in Seq(Keys)
    /\ Sorted(S) /\ Sorted(J) /\ Sorted(C)
    /\ Before(S, J) /\ Before(S, C) /\ Before(J, C)

In(ks, k) == \E i \in DOMAIN ks : ks[i] = k

\* The messages that are in the line with their first version.
Originals(S, J, C) ==
    {m \in Messages : \/ In(S, Original(m))
                      \/ In(J, Original(m))
                      \/ In(C, Original(m))}

\* ls is ks, or ks without one key k.
Trimmed(ks, ls, k) ==
    \/ ls = ks
    \/ \E at \in DOMAIN ks :
          /\ ks[at] = k
          /\ ls \in Seq(Keys) /\ Len(ls) = Len(ks) - 1
          /\ \A i \in 1..(Len(ks) - 1) : ls[i] = ks[IF i < at THEN i ELSE i + 1]

-----------------------------------------------------------------------------
(* The invariant.  T is the versions typed, C the messages created, R those *)
(* rejected, O those whose first version is in the line.                   *)

KeyOfCommand(c) == IF c.do = "delete" THEN Nothing ELSE <<c.msg, c.version>>
KeyOfJob(j) == IF j.op = "insert" THEN j.entry.iid ELSE Nothing

Stores(q) == [i \in DOMAIN q |-> q[i].iid]
Inserts(js) == [i \in DOMAIN js |-> KeyOfJob(js[i])]
Typing(cs) == [i \in DOMAIN cs |-> KeyOfCommand(cs[i])]

Pending == Originals(Stores(store.sent), Inserts(jobs), Typing(commands))

EntryRecord ==
    [msg : Messages, iid : Messages \X Nat, text : Nat, msgid : Nat,
     fresh : BOOLEAN, modified : BOOLEAN, deleted : BOOLEAN, posted : BOOLEAN]

\* Only an entry of a created message has an id, and only one with an id has
\* an internal id or a request id that is not the message's own.
IsEntry(e, T, C) ==
    /\ e \in EntryRecord
    /\ e.iid[1] = e.msg /\ e.iid[2] \in 1..T[e.msg] /\ e.text \in 1..T[e.msg]
    /\ e.msgid > 0 => e.msg \in C
    /\ e.iid[2] # 1 \/ e.fresh => e.msgid > 0

IsStore(s, T, C) ==
    /\ {"sent", "deletes"} \subseteq DOMAIN s
    /\ s.sent \in Seq(EntryRecord)
    /\ \A e \in Elements(s.sent) : IsEntry(e, T, C)

IsCommand(c, T, C) ==
    /\ {"do", "msg", "id", "version"} \subseteq DOMAIN c
    /\ c.do \in {"send", "edit", "delete"} /\ c.msg \in Messages /\ c.id \in Nat
    /\ c.do = "send" => c.version = 1 /\ T[c.msg] > 0
    /\ c.do = "edit" => c.version \in 2..T[c.msg]
    /\ c.id > 0 => c.msg \in C

JobOps == {"insert", "replace", "first", "stamp", "history", "remove", "imstate",
           "find", "delete", "firstDelete", "undelete"}

\* What removes an entry names a created message, or a rejected one.
IsJob(j, T, C, R) ==
    /\ "op" \in DOMAIN j /\ j.op \in JobOps
    /\ j.op \in {"insert", "replace"} => IsEntry(j.entry, T, C)
    /\ (j.op = "insert" /\ j.entry.iid[2] = 1) => j.entry.msgid = 0
    /\ j.op = "history" => j.id \in Nat \ {0}
    /\ j.op = "remove" =>
          /\ j.force \in BOOLEAN /\ j.loop \in BOOLEAN
          /\ j.iid \in Messages \X Nat /\ j.id \in Nat
          /\ ~j.force => j.id > 0 /\ j.iid[1] \in C
          /\ j.force => j.iid[1] \in R /\ ~j.loop
    /\ j.op = "imstate" =>
          j.iid \in Messages \X Nat /\ j.iid[1] \in C /\ j.id \in Nat \ {0}
    /\ j.op \in {"find", "delete"} => j.msg \in Messages /\ j.id \in Nat

ResultOps == {"first", "timer", "stamped", "history", "removed", "imstate",
              "found", "firstDelete"}

IsResult(r, C) ==
    /\ "op" \in DOMAIN r /\ r.op \in ResultOps
    /\ r.op = "history" => r.id \in Nat \ {0}
    /\ r.op = "imstate" => r.msg \in C /\ r.id \in Nat \ {0}
    /\ r.op = "found" => r.msg \in Messages /\ r.id \in Nat

IsHeld(h, T, C) ==
    h = None \/ /\ {"entry", "shared"} \subseteq DOMAIN h
                /\ "nothing" \notin DOMAIN h
                /\ IsEntry(h.entry, T, C)

IsPacket(p, T, C) ==
    p = None \/ /\ {"entry", "handled"} \subseteq DOMAIN p
                /\ "nothing" \notin DOMAIN p
                /\ IsEntry(p.entry, T, C)
                /\ p.handled \in BOOLEAN
                /\ p.handled => p.entry.msg \in C

IsDeletion(d) ==
    d = None \/ /\ {"id", "handled"} \subseteq DOMAIN d
                /\ "nothing" \notin DOMAIN d

CommandsOK(cs, T, C) == IsQueue(cs) /\ \A c \in Elements(cs) : IsCommand(c, T, C)
JobsOK(js, T, C, R) == IsQueue(js) /\ \A j \in Elements(js) : IsJob(j, T, C, R)
ResultsOK(rs, C) == IsQueue(rs) /\ \A r \in Elements(rs) : IsResult(r, C)

UserOK ==
    /\ typed \in [Messages -> Nat] /\ shown \in [Messages -> Nat]
    /\ \A m, k \in Messages : k < m /\ typed[m] > 0 => typed[k] > 0
    /\ {"order", "text", "deleted"} \subseteq DOMAIN server
    /\ server.order \in Seq(Messages)
    /\ \A m \in Created : typed[m] > 0
    /\ \A m \in Messages : shown[m] > 0 => m \in Created

TypesOK ==
    /\ sending \in BOOLEAN /\ timer \in BOOLEAN /\ deleting \in BOOLEAN
    /\ UserOK
    /\ IsStore(store, typed, Created)
    /\ CommandsOK(commands, typed, Created)
    /\ JobsOK(jobs, typed, Created, rejected)
    /\ ResultsOK(results, Created)
    /\ IsHeld(held, typed, Created) /\ IsPacket(packet, typed, Created)
    /\ IsDeletion(deletion)

Line == LineOK(Stores(store.sent), Inserts(jobs), Typing(commands))

\* A loop whose flag is set has one step; a timer that fired still runs.
LoopCounts(s, t, d, p, x, js, rs) ==
    /\ One(s) = One(t) + One(p # None) + Steps(js, "send") + Steps(js, "confirm")
                + Steps(rs, "send")
    /\ One(d) = One(x # None) + Steps(js, "delete") + Steps(rs, "delete")
    /\ Steps(rs, "timer") <= One(t)

LoopsOK == LoopCounts(sending, timer, deleting, packet, deletion, jobs, results)

\* An entry the server refused is removed before the loop takes the next one.
RemovedBeforeNext(js) ==
    \A i, k \in DOMAIN js :
        js[i].op = "remove" /\ js[i].force /\ k < i => js[k].op # "first"

\* The steps of the send loop that work on the entry it holds, those after the
\* server's answer, and what removes an entry the server refused.
OnHeld(c) == c.op \in {"stamp", "stamped"}
Confirms(c) == (c.op = "history") \/ (c.op = "remove" /\ c.loop)
Drops(j) == j.op = "remove" /\ j.force

\* The entry the loop holds is the oldest of the line, if it is an original,
\* and stays in the line until the server has its message.
HeldOK(h, p, js, rs, O, C) ==
    /\ p # None => h # None /\ p.entry.iid = h.entry.iid
    /\ \A c \in Elements(js) \cup Elements(rs) :
          /\ OnHeld(c) => h # None
          /\ Confirms(c) => h # None /\ h.entry.msg \in C
    /\ \A j \in Elements(js) : Drops(j) => h = None
    /\ RemovedBeforeNext(js)
    /\ h # None => h.entry.msg \in O \cup C
    /\ h # None /\ h.entry.iid[2] = 1 => \A m \in O : h.entry.msg <= m

OrderOK(order, O, C, T, G) ==
    /\ \A i, j \in DOMAIN order : i < j => order[i] < order[j]
    /\ \A c \in C : \A m \in O \ C : c < m
    /\ \A m \in Messages : T[m] > 0 => m \in C \cup G \cup O

IInv ==
    /\ TypesOK
    /\ Line
    /\ LoopsOK
    /\ HeldOK(held, packet, jobs, results, Pending, Created)
    /\ OrderOK(server.order, Pending, Created, typed, GivenUp)

-----------------------------------------------------------------------------
(* What an operation of the archive does to the entries of the store.      *)

Same(o, x) == x.msg = o.msg /\ x.iid = o.iid /\ x.text = o.text

\* What an entry o of the store may become when iid is confirmed as id, or
\* deleted; D says that the entry was deleted.
Turned(o, x, iid, id, D) ==
    /\ Same(o, x)
    /\ x.msgid = o.msgid \/ (x.msgid = id /\ o.iid = iid)
    /\ o.deleted => x.deleted
    /\ x.deleted => o.deleted \/ (D /\ (o.iid = iid \/ (id > 0 /\ o.msgid = id)))
    /\ \/ x.modified = o.modified /\ x.fresh = o.fresh
       \/ o.iid = iid /\ o.modified /\ ~x.modified /\ x.fresh

Unique(s) == \A i, j \in DOMAIN s.sent : s.sent[i].iid = s.sent[j].iid => i = j

\* t has the entries of s, turned, in their places.
InPlace(s, t, iid, id, D) ==
    /\ DOMAIN t.sent = DOMAIN s.sent
    /\ \A i \in DOMAIN s.sent : Turned(s.sent[i], t.sent[i], iid, id, D)

\* The entry o has left the store.
LetGo(s, r, o, iid, id, force) ==
    /\ Has(s, iid) /\ o = Get(s, iid) /\ ~Has(r, iid)
    /\ o.deleted /\ id > 0 => id \in Elements(r.deletes)
    /\ o.deleted \/ ~o.modified \/ force

DeletesGrow(s, r, id) ==
    /\ IsQueue(r.deletes)
    /\ Elements(s.deletes) \subseteq Elements(r.deletes)
    /\ \A d \in Elements(r.deletes) : d \in Elements(s.deletes) \/ (id > 0 /\ d = id)

\* The entries of r come from those of s, in the same order.
ComeFrom(s, r) ==
    \A i, j \in DOMAIN r.sent : i < j =>
        \E k, l \in DOMAIN s.sent :
            k < l /\ Same(s.sent[k], r.sent[i]) /\ Same(s.sent[l], r.sent[j])

Rewrites(s, r, iid, id, D, force) ==
    /\ DeletesGrow(s, r, id)
    /\ \A x \in Elements(r.sent) : \E o \in Elements(s.sent) : Turned(o, x, iid, id, D)
    /\ \A o \in Elements(s.sent) :
          \/ \E x \in Elements(r.sent) : Turned(o, x, iid, id, D)
          \/ LetGo(s, r, o, iid, id, force)
    /\ ComeFrom(s, r)

StoreSound(s) ==
    /\ {"sent", "deletes"} \subseteq DOMAIN s
    /\ s.sent \in Seq(EntryRecord) /\ IsQueue(s.sent) /\ IsQueue(s.deletes)

-----------------------------------------------------------------------------
(* The second part: an id is the server's number of the message it is kept *)
(* with, wherever it is kept; a deletion the user asked for is carried     *)
(* from queue to queue until the server has it.                            *)

Named(o, id, m) == id \in DOMAIN o /\ o[id] = m
Told(o, id, m) == id > 0 => Named(o, id, m)
EntryTold(o, e) == Told(o, e.msgid, e.msg)

ShownTold(sh, o) == \A m \in Messages : Told(o, sh[m], m)
StoreTold(s, o) ==
    /\ IsQueue(s.deletes) /\ Elements(s.deletes) \subseteq DOMAIN o
    /\ \A e \in Elements(s.sent) : EntryTold(o, e)
CommandTold(o, c) == Told(o, c.id, c.msg)
JobTold(o, j) ==
    /\ j.op \in {"insert", "replace"} => EntryTold(o, j.entry)
    /\ j.op = "remove" => Told(o, j.id, j.iid[1])
    /\ j.op = "imstate" => Named(o, j.id, j.iid[1])
    /\ j.op \in {"find", "delete"} => Told(o, j.id, j.msg)
    /\ j.op = "undelete" => j.id \in DOMAIN o
ResultTold(o, r) ==
    /\ r.op = "imstate" => Named(o, r.id, r.msg)
    /\ r.op = "found" => Told(o, r.id, r.msg)
    /\ r.op = "firstDelete" => r.id = 0 \/ r.id \in DOMAIN o
HistoryTold(o, c, h) == c.op = "history" => Named(o, c.id, h.entry.msg)
CarrierTold(x, o) == x # None => EntryTold(o, x.entry)
DeletionTold(x, o) == x # None => x.id \in DOMAIN o

IdsOK(o) ==
    /\ ShownTold(shown, o) /\ StoreTold(store, o)
    /\ CarrierTold(held, o) /\ CarrierTold(packet, o) /\ DeletionTold(deletion, o)
    /\ \A c \in Elements(commands) : CommandTold(o, c)
    /\ \A j \in Elements(jobs) : JobTold(o, j) /\ HistoryTold(o, j, held)
    /\ \A r \in Elements(results) : ResultTold(o, r) /\ HistoryTold(o, r, held)

\* The messages whose deletion a queue carries, or the store.
DeleteCommands(cs) == {c.msg : c \in {x \in Elements(cs) : x.do = "delete"}}
DeleteJobs(js) == {j.msg : j \in {x \in Elements(js) : x.op \in {"find", "delete"}}}
DeleteResults(rs) == {r.msg : r \in {x \in Elements(rs) : x.op = "found"}}
DeletedIn(s, o) ==
    {e.msg : e \in {x \in Elements(s.sent) : x.deleted}} \cup {o[d] : d \in Elements(s.deletes)}

InDeletion ==
    DeleteCommands(commands) \cup DeleteJobs(jobs) \cup DeleteResults(results)
       \cup DeletedIn(store, server.order)

DeletionGone == rejected \cup lost \cup lostDeletes \cup server.deleted

DeletionSeen(x, v) == x # None /\ x.handled => v.order[x.id] \in v.deleted
UndeleteSeen(j, v, L) == j.op = "undelete" => v.order[j.id] \in v.deleted \cup L

DeletionsOK ==
    /\ DeletionSeen(deletion, server)
    /\ \A j \in Elements(jobs) : UndeleteSeen(j, server, lostDeletes)
    /\ erased \subseteq InDeletion \cup DeletionGone

DInv == IdsOK(server.order) /\ DeletionsOK

-----------------------------------------------------------------------------
(* The third part: the versions of one message m that are on their way are *)
(* a line as well, and <<v, 1>> is the key of version v.  A wish is such a *)
(* version, and whether it is an entry of its own (1) or one that replaces *)
(* what is pending (0); Nothing is none.                                   *)

Wish(k, c, m) ==
    IF k = "command"
    THEN IF c.do # "delete" /\ c.msg = m
         THEN <<c.version, One(c.do = "edit" /\ c.id > 0)>> ELSE Nothing
    ELSE IF k = "job"
    THEN IF (c.op = "insert" \/ (c.op = "replace" /\ c.edit)) /\ c.entry.msg = m
         THEN <<c.entry.text, One(c.entry.iid[2] # 1)>> ELSE Nothing
    ELSE IF c.msg = m THEN <<c.text, One(c.iid[2] # 1)>> ELSE Nothing

VersionKey(w) == IF w[1] = 0 THEN Nothing ELSE <<w[1], 1>>
Row(k, q, m) == [i \in DOMAIN q |-> VersionKey(Wish(k, q[i], m))]
RowsOK(s, js, cs, m) == LineOK(Row("entry", s, m), Row("job", js, m), Row("command", cs, m))

WishesIn(k, q, m) == {Wish(k, c, m) : c \in Elements(q)}
WishesOf(s, js, cs, m) ==
    WishesIn("entry", s, m) \cup WishesIn("job", js, m) \cup WishesIn("command", cs, m)
Wishes(m) == WishesOf(store.sent, jobs, commands, m)

Wished(q, k, m) == IsQueue(q) /\ \A c \in Elements(q) : VersionKey(Wish(k, c, m)) \in Keys

\* No wish is older than version t; an entry of its own is newer than what
\* replaces a pending entry.
Floor(W, t) == \A w \in W : w[1] > 0 => t <= w[1]
Ripe(W) == \A a, b \in W : b[1] > 0 /\ b[2] < a[2] => b[1] < a[1]

\* An entry whose message is not deleted.  Only an original is edited: it has
\* its first text, or was modified, or was modified when it was confirmed.
Plain(e) ==
    /\ ~e.deleted
    /\ e.iid[2] # 1 => e.text = e.iid[2]
    /\ e.iid[2] = 1 /\ ~e.modified /\ ~e.fresh => e.text = 1

\* The version with which iid is confirmed is not newer than the server's, x,
\* and has the edit iid is about.
ConfirmSound(iid, text, m, x) ==
    iid[1] = m => text \in 0..x /\ (iid[2] # 1 => iid[2] <= text)

JobSound(j, m, x, W, h) ==
    /\ j.op \in {"insert", "replace"} /\ j.entry.msg = m => Plain(j.entry)
    /\ j.op = "replace" /\ j.entry.msg = m =>
          IF j.edit THEN j.entry.iid[2] = 1 ELSE Floor(W, j.entry.text)
    /\ (j.op = "remove" /\ ~j.force) \/ j.op = "imstate" => ConfirmSound(j.iid, j.text, m, x)
    /\ j.op = "history" /\ h # None => ConfirmSound(h.entry.iid, j.text, m, x)
    /\ j.op \in {"find", "delete"} => j.msg # m
ResultSound(r, m, x, h) ==
    /\ r.op = "history" /\ h # None => ConfirmSound(h.entry.iid, r.text, m, x)
    /\ r.op = "found" => r.msg # m

\* What the loop holds is not older than the server's text, no wish is older
\* than it, and while it is the store's object the store has that text.
HeldSound(h, m, x, W, s) ==
    h # None /\ h.entry.msg = m =>
        /\ Plain(h.entry) /\ x <= h.entry.text /\ Floor(W, h.entry.text)
        /\ h.shared => \E e \in Elements(s) : e.iid = h.entry.iid /\ e.text = h.entry.text
PacketSound(p, h, m, x) ==
    p # None /\ p.entry.msg = m =>
        /\ p.entry.text = h.entry.text
        /\ p.handled /\ p.entry.iid[2] # 1 => p.entry.iid[2] <= x

Carried(m) ==
    /\ RowsOK(store.sent, jobs, commands, m)
    /\ server.text[m] \in 0..typed[m] /\ Floor(Wishes(m), server.text[m]) /\ Ripe(Wishes(m))
    /\ \A w \in Wishes(m) : w[2] > 0 => shown[m] > 0
    /\ typed[m] > 1 => server.text[m] = typed[m] \/ \E w \in Wishes(m) : w[1] = typed[m]
    /\ \A e \in Elements(store.sent) : e.msg = m => Plain(e)
    /\ \A j \in Elements(jobs) : JobSound(j, m, server.text[m], Wishes(m), held)
    /\ \A r \in Elements(results) : ResultSound(r, m, server.text[m], held)
    /\ \A c \in Elements(commands) : c.do = "delete" => c.msg # m
    /\ HeldSound(held, m, server.text[m], Wishes(m), store.sent)
    /\ PacketSound(packet, held, m, server.text[m])

\* The messages of which nothing was given up.
Clean == Messages \ (erased \cup rejected \cup lost \cup lostEdits)

EInv == server.text \in [Messages -> Nat] /\ \A m \in Clean : Carried(m)

=============================================================================
