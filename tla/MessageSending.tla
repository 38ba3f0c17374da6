--------------------------- MODULE MessageSending ---------------------------
(***************************************************************************)
(* How an outgoing message of one contact gets to the server: the commands *)
(* of the GUI, the two posting loops of core::wim::im (wim_im.cpp), the    *)
(* store of pending operations behind the archive's thread                 *)
(* (archive/local_history.cpp, not_sent_messages.cpp), and the server,     *)
(* which is external.                                                      *)
(*                                                                         *)
(* The core thread never sees the store: it posts jobs to the archive's    *)
(* thread and reads results, so edits, deletions and the server's events   *)
(* fall between any two steps of a loop.  Archive entries are shared       *)
(* objects: the loop holds the object it is sending, and sees the changes  *)
(* made to it until the store puts another object in its place.            *)
(***************************************************************************)
EXTENDS PendingOperations, FiniteSets

CONSTANTS NumMessages,  \* messages the user may type, in order
          Budgets       \* bounds: the messages that are typed, the last version of
                        \* their texts, the messages that may be deleted, and how
                        \* often the process dies

Messages == 1..NumMessages

\* No entry, no request.
None == [nothing |-> TRUE]

ASSUME BoundsAssumption ==
    NumMessages \in Nat
    /\ \A b \in Budgets : /\ b.messages \in 0..NumMessages /\ b.erasable \subseteq Messages
                          /\ b.versions \in Nat \ {0} /\ b.crashes \in Nat

VARIABLES
    commands,   \* GUI commands the core has not handled yet
    jobs,       \* closures queued for the archive's thread
    results,    \* results queued for the core thread
    store,      \* pending_operations
    sending,    \* sent_pending_messages_active_
    timer,      \* post_messages_timer_ is in the scheduler's list
    held,       \* the entry the send loop works on
    packet,     \* the send_message request in the network
    deleting,   \* sent_pending_delete_messages_active_
    deletion,   \* the del_message request in the network
    server,     \* messages created, their texts, the deleted ones
    shown,      \* the message ids the GUI knows
    events,     \* bound: events the server has told about, one each
    budget      \* what of the bounds is left

\* What the user asked for, and the places where the code gives it up.
VARIABLES typed,        \* last version typed of each message, 0 for none
          erased,       \* messages the user deleted
          rejected,     \* messages the server refused
          lost,         \* messages that died with the process, never stored
          lostEdits,    \* messages of which an edit was dropped
          lostDeletes   \* messages of which a deletion was dropped

core == <<commands, sending, timer, deleting, shown>>
network == <<packet, deletion, server, events>>
user == <<typed, erased, rejected, lost, lostEdits, lostDeletes>>
vars == <<core, jobs, results, store, held, network, budget, user>>

Original(m) == <<m, 1>>

Created == {server.order[i] : i \in DOMAIN server.order}

\* The server numbers messages as it creates them.
MsgId(m) == CHOOSE i \in DOMAIN server.order : server.order[i] = m

Job(op) == [op |-> op]
Queue(js) == jobs' = jobs \o js

Init ==
    /\ commands = <<>> /\ jobs = <<>> /\ results = <<>>
    /\ store = EmptyStore
    /\ sending = FALSE /\ timer = FALSE /\ deleting = FALSE
    /\ held = None /\ packet = None /\ deletion = None
    /\ server = [order |-> <<>>, text |-> [m \in Messages |-> 0], deleted |-> {}]
    /\ shown = [m \in Messages |-> 0]
    /\ events = {} /\ budget \in Budgets
    /\ typed = [m \in Messages |-> 0]
    /\ erased = {} /\ rejected = {} /\ lost = {}
    /\ lostEdits = {} /\ lostDeletes = {}

-----------------------------------------------------------------------------
(* The user.  A command carries the message id the GUI knew when it was    *)
(* given; the core may learn the id before it handles the command.         *)

Command(do, m, v) ==
    commands' = Append(commands, [do |-> do, msg |-> m, id |-> shown[m],
                                  version |-> v])

Type(m) ==
    /\ typed[m] = 0 /\ m <= budget.messages
    /\ \A k \in Messages : k < m => typed[k] > 0
    /\ typed' = [typed EXCEPT ![m] = 1]
    /\ Command("send", m, 1)
    /\ UNCHANGED <<jobs, results, store, sending, timer, held, network, deleting,
                   shown, budget, erased, rejected, lost, lostEdits, lostDeletes>>

Edit(m) ==
    /\ typed[m] \in 1..(budget.versions - 1) /\ m \notin erased
    /\ typed' = [typed EXCEPT ![m] = @ + 1]
    /\ Command("edit", m, typed[m] + 1)
    /\ UNCHANGED <<jobs, results, store, sending, timer, held, network, deleting,
                   shown, budget, erased, rejected, lost, lostEdits, lostDeletes>>

Erase(m) ==
    /\ typed[m] > 0 /\ m \in budget.erasable \ erased
    /\ erased' = erased \cup {m}
    /\ Command("delete", m, 0)
    /\ UNCHANGED <<jobs, results, store, sending, timer, held, network, deleting,
                   shown, budget, typed, rejected, lost, lostEdits, lostDeletes>>

-----------------------------------------------------------------------------
(* The core thread handles the commands. *)

\* post_pending_messages(false) and post_pending_delete_messages(false): a
\* loop that is active is not started again.
FirstIf(active, op) == IF active THEN <<>> ELSE <<Job(op)>>

NextCommand(do) ==
    /\ commands # <<>> /\ Head(commands).do = do
    /\ commands' = Tail(commands)

\* Mutant: the loop is started even when it is active.
MutantSendMessageToContact ==
    /\ NextCommand("send")
    /\ LET m == Head(commands).msg IN
       Queue(<<[op |-> "insert", entry |-> Entry(m, Original(m), 1, 0, FALSE)]>>
               \o <<Job("first")>>)
    /\ sending' = TRUE
    /\ UNCHANGED <<results, store, timer, held, network, deleting, shown, budget,
                   user>>

\* send_message_to_contact.
SendMessageToContact ==
    /\ NextCommand("send")
    /\ LET m == Head(commands).msg IN
       Queue(<<[op |-> "insert", entry |-> Entry(m, Original(m), 1, 0, FALSE)]>>
               \o FirstIf(sending, "first"))
    /\ sending' = TRUE
    /\ UNCHANGED <<results, store, timer, held, network, deleting, shown, budget,
                   user>>

\* Mutant: an edit of a message without an id is a new entry as well.
MutantUpdateMessageToContact ==
    /\ NextCommand("edit")
    /\ LET c == Head(commands) IN
       Queue(<<[op |-> "insert",
                entry |-> Entry(c.msg, Original(c.msg), c.version, c.id, TRUE)]>>
               \o FirstIf(sending, "first"))
    /\ sending' = TRUE
    /\ UNCHANGED <<results, store, timer, held, network, deleting, shown, budget,
                   user>>

\* update_message_to_contact: an edit of a message without an id replaces its
\* pending entry, any other is a new entry.
UpdateMessageToContact ==
    /\ NextCommand("edit")
    /\ LET c == Head(commands) IN
       Queue(<<IF c.id = 0
               THEN [op |-> "replace", edit |-> TRUE,
                     entry |-> Entry(c.msg, Original(c.msg), c.version, 0, TRUE)]
               ELSE [op |-> "insert",
                     entry |-> Entry(c.msg, <<c.msg, c.version>>, c.version,
                                     c.id, FALSE)]>>
               \o FirstIf(sending, "first"))
    /\ sending' = TRUE
    /\ UNCHANGED <<results, store, timer, held, network, deleting, shown, budget,
                   user>>

\* delete_archive_message asks the archive for the entry first.
DeleteArchiveMessage ==
    /\ NextCommand("delete")
    /\ LET c == Head(commands) IN
       Queue(<<[op |-> "find", msg |-> c.msg, id |-> c.id]>>)
    /\ UNCHANGED <<results, store, sending, timer, held, network, deleting, shown,
                   budget, user>>

-----------------------------------------------------------------------------
(* The archive's thread: it executes one job after the other. *)

NextJob(op) ==
    /\ jobs # <<>> /\ Head(jobs).op = op
    /\ jobs' = Tail(jobs)

Result(r) == results' = Append(results, r)

\* The loop's reference follows its object as long as the store keeps it.
Follow(replaced) ==
    held' = IF held = None THEN None
            ELSE IF held.shared /\ Has(store', held.entry.iid)
                    /\ held.entry.iid \notin replaced
            THEN [held EXCEPT !.entry = Get(store', held.entry.iid)]
            ELSE [held EXCEPT !.shared = FALSE]

RunInsert ==
    /\ NextJob("insert")
    /\ store' = InsertMessage(store, Head(jobs).entry)
    /\ Follow({Head(jobs).entry.iid})
    /\ UNCHANGED <<core, results, network, budget, user>>

\* update_if_exist_not_sent_message, for an edit of the user and for the copy
\* the loop makes of the entry it has sent.  Nothing tells the caller that the
\* entry is gone, and the copy knows nothing of what happened to the entry
\* since it was made.
RunReplace ==
    /\ NextJob("replace")
    /\ LET j == Head(jobs)
           e == j.entry
           there == Has(store, e.iid)
           old == Get(store, e.iid)
       IN
          /\ store' = UpdateMessageIfExist(store, e)
          /\ Follow({e.iid})
          /\ lostEdits' = IF (j.edit /\ ~there)
                             \/ (~j.edit /\ there /\ old.text > e.text)
                          THEN lostEdits \cup {e.msg} ELSE lostEdits
          /\ lostDeletes' = IF there /\ old.deleted /\ ~e.deleted
                            THEN lostDeletes \cup {e.msg} ELSE lostDeletes
    /\ UNCHANGED <<core, results, network, budget, typed, erased, rejected, lost>>

\* Mutant: an entry that was posted within the last second is passed over.
MutantRunFirst ==
    /\ NextJob("first")
    /\ LET ready == SelectSeq(store.sent, LAMBDA e : ~e.posted) IN
       held' = IF ready = <<>> THEN None
               ELSE [entry |-> Head(ready), shared |-> TRUE]
    /\ Result(Job("first"))
    /\ UNCHANGED <<core, store, network, budget, user>>

\* get_pending_message: get_first_ready_to_send.
RunFirst ==
    /\ NextJob("first")
    /\ held' = IF store.sent = <<>> THEN None
               ELSE [entry |-> Head(store.sent), shared |-> TRUE]
    /\ Result(Job("first"))
    /\ UNCHANGED <<core, store, network, budget, user>>

RunStamp ==
    /\ NextJob("stamp")
    /\ store' = UpdatePostTime(store, held.entry.iid)
    /\ Follow({})
    /\ Result(Job("stamped"))
    /\ UNCHANGED <<core, network, budget, user>>

\* update_history of the sent message: the pending store does not change.
RunHistory ==
    /\ NextJob("history")
    /\ Result([op |-> "history", id |-> Head(jobs).id, text |-> Head(jobs).text])
    /\ UNCHANGED <<core, store, held, network, budget, user>>

\* An entry that already became an edit goes with the confirmation of an older
\* request: all have the same internal id.  (text, which the code does not
\* look at, is the version the server had when it confirmed.)
EditDropped(iid, text) ==
    lostEdits' = IF Has(store, iid) /\ ~Has(store', iid)
                    /\ Get(store, iid).fresh /\ Get(store, iid).text > text
                 THEN lostEdits \cup {iid[1]} ELSE lostEdits

\* remove_messages_from_not_sent; in the loop the rest waits for the result.
RunRemove ==
    /\ NextJob("remove")
    /\ LET j == Head(jobs) IN
          /\ store' = Remove(store, j.force, j.iid, j.id)
          /\ results' = IF j.loop THEN Append(results, Job("removed")) ELSE results
          /\ EditDropped(j.iid, j.text)
    /\ Follow({})
    /\ UNCHANGED <<core, network, budget, typed, erased, rejected, lost,
                   lostDeletes>>

RunImstate ==
    /\ NextJob("imstate")
    /\ LET j == Head(jobs) IN
          /\ store' = UpdateWithImstate(store, j.iid, j.id)
          /\ results' = IF Has(store, j.iid)
                        THEN Append(results, [op |-> "imstate", msg |-> j.iid[1],
                                              id |-> j.id])
                        ELSE results
          /\ EditDropped(j.iid, j.text)
    /\ Follow({})
    /\ UNCHANGED <<core, network, budget, typed, erased, rejected, lost,
                   lostDeletes>>

RunFind ==
    /\ NextJob("find")
    /\ Result([op |-> "found", msg |-> Head(jobs).msg, id |-> Head(jobs).id])
    /\ UNCHANGED <<core, store, held, network, budget, user>>

\* insert_pending_delete_message.  Without a message id and without an entry
\* there is nothing to mark and nothing to queue.
RunDelete ==
    /\ NextJob("delete")
    /\ LET j == Head(jobs) IN
          /\ store' = InsertDeletedMessage(store, j.id, Original(j.msg))
          /\ lostDeletes' = IF j.id = 0 /\ ~Has(store, Original(j.msg))
                            THEN lostDeletes \cup {j.msg} ELSE lostDeletes
    /\ Follow({})
    /\ UNCHANGED <<core, results, network, budget, typed, erased, rejected, lost,
                   lostEdits>>

RunFirstDelete ==
    /\ NextJob("firstDelete")
    /\ Result([op |-> "firstDelete",
               id |-> IF store.deletes = <<>> THEN 0 ELSE Head(store.deletes)])
    /\ UNCHANGED <<core, store, held, network, budget, user>>

RunUndelete ==
    /\ NextJob("undelete")
    /\ store' = RemoveDeletedMessage(store, Head(jobs).id)
    /\ UNCHANGED <<core, results, held, network, budget, user>>

ArchiveStep ==
    \/ RunInsert \/ RunReplace \/ RunFirst \/ RunStamp \/ RunHistory
    \/ RunRemove \/ RunImstate \/ RunFind \/ RunDelete \/ RunFirstDelete
    \/ RunUndelete

-----------------------------------------------------------------------------
(* The send loop: post_pending_messages and send_pending_message_async. *)

NextResult(op) ==
    /\ results # <<>> /\ Head(results).op = op
    /\ results' = Tail(results)

SendLoopEnds ==
    /\ NextResult("first")
    /\ held = None
    /\ sending' = FALSE
    /\ UNCHANGED <<commands, jobs, store, timer, held, network, deleting, shown,
                   budget, user>>

\* An entry posted within the last second waits for a timer.
StartTimer ==
    /\ NextResult("first")
    /\ held # None /\ held.entry.posted
    /\ timer' = TRUE
    /\ UNCHANGED <<commands, jobs, store, sending, held, network, deleting, shown,
                   budget, user>>

\* The scheduler posts the function of a timer that is due, again in every
\* period until the timer is stopped.  Bound: it does not get a second period
\* ahead of the core thread (module PostTimer has the case when it does).
TimerDue ==
    /\ timer /\ ~\E i \in DOMAIN results : results[i].op = "timer"
    /\ Result(Job("timer"))
    /\ UNCHANGED <<core, jobs, store, held, network, budget, user>>

OnTimer ==
    /\ NextResult("timer")
    /\ timer' = FALSE
    /\ held' = None
    /\ Queue(<<Job("first")>>)
    /\ UNCHANGED <<commands, store, sending, network, deleting, shown, budget,
                   user>>

StampPostTime ==
    /\ NextResult("first")
    /\ held # None
    /\ Queue(<<Job("stamp")>>)
    /\ UNCHANGED <<core, store, held, network, budget, user>>

\* The request is made from the object as it is now.
SendPendingMessage ==
    /\ NextResult("stamped")
    /\ packet' = [entry |-> held.entry, handled |-> FALSE]
    /\ UNCHANGED <<core, jobs, store, held, deletion, server, events, budget,
                   user>>

\* The answer has the message's id: it goes to the history, then the entry
\* is removed, then the loop goes on.
OnSent ==
    /\ packet # None /\ packet.handled
    /\ packet' = None
    /\ Queue(<<[op |-> "history", id |-> MsgId(packet.entry.msg),
               text |-> server.text[packet.entry.msg]]>>)
    /\ UNCHANGED <<core, results, store, held, deletion, server, events, budget,
                   user>>

OnHistoryUpdated ==
    /\ NextResult("history")
    /\ LET r == Head(results) IN
          /\ shown' = [shown EXCEPT ![held.entry.msg] = r.id]
          /\ Queue(<<[op |-> "remove", force |-> FALSE, loop |-> TRUE,
                      text |-> r.text, iid |-> held.entry.iid, id |-> r.id]>>)
    /\ UNCHANGED <<commands, store, sending, timer, held, network, deleting,
                   budget, user>>

OnRemoved ==
    /\ NextResult("removed")
    /\ held' = None
    /\ Queue(<<Job("first")>>)
    /\ UNCHANGED <<core, store, network, budget, user>>

\* The answer has no id yet: a copy of the object that was sent takes the
\* entry's place, and the loop goes on.
OnAccepted ==
    /\ packet # None /\ packet.handled
    /\ packet' = None
    /\ held' = None
    /\ Queue(<<[op |-> "replace", edit |-> FALSE, entry |-> held.entry],
               Job("first")>>)
    /\ UNCHANGED <<core, results, store, deletion, server, events, budget, user>>

\* Mutant: the loop ends but its flag stays.
MutantFlagStays ==
    /\ packet # None
    /\ packet' = None
    /\ held' = None
    /\ UNCHANGED <<core, jobs, results, store, deletion, server, events, budget,
                   user>>

\* Mutant: the entry is dropped as after an error that will not pass.
MutantOnSendFailed ==
    /\ packet # None
    /\ packet' = None
    /\ held' = None
    /\ sending' = FALSE
    /\ Queue(<<[op |-> "remove", force |-> TRUE, loop |-> FALSE,
                text |-> server.text[packet.entry.msg],
                iid |-> held.entry.iid, id |-> held.entry.msgid]>>)
    /\ UNCHANGED <<commands, results, store, timer, deletion, server, events,
                   deleting, shown, budget, user>>

\* No answer, or an error that may pass: the loop ends, the entry stays.
OnSendFailed ==
    /\ packet # None
    /\ packet' = None
    /\ held' = None
    /\ sending' = FALSE
    /\ UNCHANGED <<commands, jobs, results, store, timer, deletion, server, events,
                   deleting, shown, budget, user>>

\* An error that will not pass: the entry is dropped, the loop ends.
OnRejected ==
    /\ packet # None /\ ~packet.handled
    /\ packet' = None
    /\ held' = None
    /\ sending' = FALSE
    /\ Queue(<<[op |-> "remove", force |-> TRUE, loop |-> FALSE,
                text |-> server.text[packet.entry.msg],
                iid |-> held.entry.iid, id |-> held.entry.msgid]>>)
    /\ rejected' = rejected \cup {packet.entry.msg}
    /\ UNCHANGED <<commands, results, store, timer, deletion, server, events,
                   deleting, shown, budget, typed, erased, lost, lostEdits,
                   lostDeletes>>

-----------------------------------------------------------------------------
(* The delete loop: post_pending_delete_messages. *)

OnFound ==
    /\ NextResult("found")
    /\ LET r == Head(results) IN
       Queue(<<[op |-> "delete", msg |-> r.msg, id |-> r.id]>>
               \o FirstIf(deleting, "firstDelete"))
    /\ deleting' = TRUE
    /\ UNCHANGED <<commands, store, sending, timer, held, network, shown, budget,
                   user>>

DeleteLoopEnds ==
    /\ NextResult("firstDelete")
    /\ Head(results).id = 0
    /\ deleting' = FALSE
    /\ UNCHANGED <<commands, jobs, store, sending, timer, held, network, shown,
                   budget, user>>

SendDeletion ==
    /\ NextResult("firstDelete")
    /\ Head(results).id > 0
    /\ deletion' = [id |-> Head(results).id, handled |-> FALSE]
    /\ UNCHANGED <<core, jobs, store, held, packet, server, events, budget, user>>

OnDeleted ==
    /\ deletion # None /\ deletion.handled
    /\ deletion' = None
    /\ Queue(<<[op |-> "undelete", id |-> deletion.id], Job("firstDelete")>>)
    /\ UNCHANGED <<core, results, store, held, packet, server, events, budget,
                   user>>

\* Mutant: the loop ends but its flag stays.
MutantDeleteFlagStays ==
    /\ deletion # None
    /\ deletion' = None
    /\ UNCHANGED <<core, jobs, results, store, held, packet, server, events,
                   budget, user>>

\* needs_to_repeat_failed: network error, resend, canceled, timeout.
OnDeleteFailed ==
    /\ deletion # None
    /\ deletion' = None
    /\ deleting' = FALSE
    /\ UNCHANGED <<commands, jobs, results, store, sending, timer, held, packet,
                   server, events, shown, budget, user>>

\* Any other error, a rate limit among them, ends the deletion like a success.
OnDeleteRefused ==
    /\ deletion # None /\ ~deletion.handled
    /\ deletion' = None
    /\ Queue(<<[op |-> "undelete", id |-> deletion.id], Job("firstDelete")>>)
    /\ lostDeletes' = lostDeletes \cup {server.order[deletion.id]}
    /\ UNCHANGED <<core, results, store, held, packet, server, events, budget,
                   typed, erased, rejected, lost, lostEdits>>

-----------------------------------------------------------------------------
(* Events of the fetch connection. *)

\* resume_failed_network_requests, after every successful poll.
Resume ==
    /\ ~sending \/ ~deleting
    /\ sending' = TRUE /\ deleting' = TRUE
    /\ Queue(FirstIf(sending, "first") \o FirstIf(deleting, "firstDelete"))
    /\ UNCHANGED <<commands, results, store, timer, held, network, shown, budget,
                   user>>

\* on_event_imstate: the server tells that a message was sent.
OnEventImstate(m) ==
    /\ m \in Created /\ <<"imstate", m>> \notin events
    /\ events' = events \cup {<<"imstate", m>>}
    /\ Queue(<<[op |-> "imstate", text |-> server.text[m],
               iid |-> Original(m), id |-> MsgId(m)]>>)
    /\ UNCHANGED <<core, results, store, held, packet, deletion, server, budget,
                   user>>

OnImstateDone ==
    /\ NextResult("imstate")
    /\ LET r == Head(results) IN shown' = [shown EXCEPT ![r.msg] = r.id]
    /\ UNCHANGED <<commands, jobs, store, sending, timer, held, network, deleting,
                   budget, user>>

\* The message comes back in the contact's history.
OnServerMessage(m) ==
    /\ m \in Created /\ <<"history", m>> \notin events
    /\ events' = events \cup {<<"history", m>>}
    /\ shown' = [shown EXCEPT ![m] = MsgId(m)]
    /\ Queue(<<[op |-> "remove", force |-> FALSE, loop |-> FALSE,
                text |-> server.text[m], iid |-> Original(m), id |-> MsgId(m)]>>)
    /\ UNCHANGED <<commands, results, store, sending, timer, held, packet, deletion,
                   server, deleting, budget, user>>

HandleCommand ==
    SendMessageToContact \/ UpdateMessageToContact \/ DeleteArchiveMessage

HandleResult ==
    \/ SendLoopEnds \/ StartTimer \/ OnTimer \/ StampPostTime
    \/ SendPendingMessage \/ OnHistoryUpdated \/ OnRemoved
    \/ OnFound \/ DeleteLoopEnds \/ SendDeletion \/ OnImstateDone

-----------------------------------------------------------------------------
(* The server. A request with an id creates nothing, it changes the text;  *)
(* a request without one creates the message unless its request id is the  *)
(* one of a message it already has.                                        *)

ServerHandles ==
    /\ packet # None /\ ~packet.handled
    /\ packet' = [packet EXCEPT !.handled = TRUE]
    /\ LET e == packet.entry IN
       server' = IF e.msgid > 0
                 THEN [server EXCEPT !.text[server.order[e.msgid]] = e.text]
                 ELSE IF e.msg \in Created /\ ~e.fresh THEN server
                 ELSE [server EXCEPT !.order = Append(@, e.msg),
                                     !.text[e.msg] = e.text]
    /\ UNCHANGED <<core, jobs, results, store, held, deletion, events, budget,
                   user>>

ServerDeletes ==
    /\ deletion # None /\ ~deletion.handled
    /\ deletion' = [deletion EXCEPT !.handled = TRUE]
    /\ server' = [server EXCEPT !.deleted = @ \cup {server.order[deletion.id]}]
    /\ UNCHANGED <<core, jobs, results, store, held, packet, events, budget, user>>

-----------------------------------------------------------------------------
(* The process dies and is started again: only the store is left. *)

Stored == {store.sent[i].msg : i \in DOMAIN store.sent}

Waiting(op) == {i \in DOMAIN jobs : jobs[i].op = op}

\* Commands and jobs that carry a wish of the user and die with the process.
DyingSends ==
    {commands[i].msg : i \in {k \in DOMAIN commands : commands[k].do = "send"}}
      \cup {jobs[i].entry.msg : i \in {k \in Waiting("insert") :
                                         jobs[k].entry.msgid = 0}}
DyingEdits ==
    {commands[i].msg : i \in {k \in DOMAIN commands : commands[k].do = "edit"}}
      \cup {jobs[i].entry.msg : i \in Waiting("insert") \cup Waiting("replace")}
DyingDeletes ==
    {commands[i].msg : i \in {k \in DOMAIN commands : commands[k].do = "delete"}}
      \cup {jobs[i].msg : i \in Waiting("find") \cup Waiting("delete")}
      \cup {results[i].msg : i \in {k \in DOMAIN results :
                                      results[k].op = "found"}}

Crash ==
    /\ budget.crashes > 0
    /\ budget' = [budget EXCEPT !.crashes = @ - 1]
    /\ lost' = lost \cup DyingSends
    /\ lostEdits' = lostEdits \cup DyingEdits
    /\ lostDeletes' = lostDeletes \cup DyingDeletes
    /\ commands' = <<>> /\ jobs' = <<>> /\ results' = <<>>
    /\ sending' = FALSE /\ timer' = FALSE /\ deleting' = FALSE
    /\ held' = None /\ packet' = None /\ deletion' = None
    /\ store' = Update(store, LAMBDA o : TRUE,
                       LAMBDA o : [o EXCEPT !.posted = FALSE])
    /\ UNCHANGED <<server, shown, events, typed, erased, rejected>>

-----------------------------------------------------------------------------

Next ==
    \/ \E m \in Messages : Type(m) \/ Edit(m) \/ Erase(m)
    \/ HandleCommand
    \/ HandleResult
    \/ TimerDue
    \/ ArchiveStep
    \/ OnSent \/ OnAccepted \/ OnSendFailed \/ OnRejected
    \/ OnDeleted \/ OnDeleteFailed \/ OnDeleteRefused
    \/ Resume
    \/ \E m \in Messages : OnEventImstate(m) \/ OnServerMessage(m)
    \/ ServerHandles \/ ServerDeletes
    \/ Crash

Spec == Init /\ [][Next]_vars

\* The two threads run what is queued for them, in order; the second an entry
\* waits after it was posted is over when the timer has fired; polls succeed
\* again and again; a request that is repeated for ever is handled and
\* answered, with the id, at some time.
Fairness ==
    /\ WF_vars(HandleCommand) /\ WF_vars(HandleResult) /\ WF_vars(ArchiveStep)
    /\ WF_vars(TimerDue) /\ SF_vars(StampPostTime)
    /\ WF_vars(Resume)
    /\ SF_vars(ServerHandles) /\ SF_vars(OnSent)
    /\ SF_vars(ServerDeletes) /\ SF_vars(OnDeleted)

FairSpec == Spec /\ Fairness

-----------------------------------------------------------------------------

\* What is inserted has an internal id that no entry of the store has (the
\* assertion of insert_message), so that no message silently replaces another
\* and a confirmation can only mean one entry.
InsertsAreNew ==
    /\ \A i, j \in DOMAIN store.sent :
          store.sent[i].iid = store.sent[j].iid => i = j
    /\ \A i \in Waiting("insert") :
          /\ ~Has(store, jobs[i].entry.iid)
          /\ \A j \in Waiting("insert") \ {i} : jobs[j].entry.iid # jobs[i].entry.iid

\* Messages reach the server in the order in which they were typed, and none
\* is created twice, whatever is retried, edited or confirmed in between.
CreatedOnceInOrder ==
    \A i, j \in DOMAIN server.order : i < j => server.order[i] < server.order[j]

\* Entries that wait in a command, a job or the store.
Waits(m, v) ==
    \/ \E i \in DOMAIN commands :
          commands[i].do \in {"send", "edit"} /\ commands[i].msg = m
            /\ commands[i].version = v
    \/ \E i \in Waiting("insert") \cup Waiting("replace") :
          jobs[i].entry.msg = m /\ jobs[i].entry.text = v
    \/ \E i \in DOMAIN store.sent : store.sent[i].msg = m /\ store.sent[i].text = v

GivenUp == rejected \cup lost

\* A message that was typed is on the server or on its way, unless the server
\* refused it or the process died before it was stored.
NoMessageLost ==
    \A m \in Messages :
        typed[m] > 0 /\ m \notin Created \cup GivenUp =>
            \E v \in 1..typed[m] : Waits(m, v)

\* The last version typed is the server's text or on its way, except for the
\* edits the code is known to drop: those that find their entry confirmed and
\* gone, and those overwritten by the copy of an entry sent before.
NoEditLost ==
    \A m \in Messages :
        typed[m] > 1 /\ m \notin GivenUp \cup lostEdits \cup erased =>
            server.text[m] = typed[m] \/ Waits(m, typed[m])

DeletionWaits(m) ==
    \/ m \in DyingDeletes
    \/ \E i \in DOMAIN store.sent : store.sent[i].msg = m /\ store.sent[i].deleted
    \/ \E i \in DOMAIN store.deletes : server.order[store.deletes[i]] = m

\* A message the user deleted is deleted on the server, or its deletion is on
\* its way, with the known exceptions: a deletion without an id whose entry
\* is gone, one overwritten by a copy, one the server refused.
NoDeletionLost ==
    \A m \in erased \ (GivenUp \cup lostDeletes) :
        m \in server.deleted \/ DeletionWaits(m)

Count(s, ops) == Cardinality({i \in DOMAIN s : s[i].op \in ops})
One(b) == IF b THEN 1 ELSE 0

\* While a loop's flag is set exactly one step of the loop is pending, and
\* none while it is not: the loop is neither stuck nor run twice, and the
\* timer is free when it is started.
LoopsRunOnce ==
    /\ One(sending) = One(timer) + One(packet # None)
           + Count(jobs, {"first", "stamp", "history"})
           + Cardinality({i \in Waiting("remove") : jobs[i].loop})
           + Count(results, {"first", "stamped", "history", "removed"})
    /\ One(deleting) = One(deletion # None)
           + Count(jobs, {"firstDelete"}) + Count(results, {"firstDelete"})

\* Every message typed is created on the server, or given up.
EveryMessageSent ==
    \A m \in Messages : (typed[m] > 0) ~> (m \in Created \cup GivenUp)

\* Everything pending is confirmed in the end, and the store is empty.
StoreDrains ==
    []<>(store.sent = <<>>) /\ []<>(store.deletes = <<>>)

=============================================================================
