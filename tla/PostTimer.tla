----------------------------- MODULE PostTimer ------------------------------
(***************************************************************************)
(* core::scheduler (src/core/scheduler.cpp) and the use that the send loop *)
(* im::post_pending_messages (wim_im.cpp) makes of it.  The scheduler only *)
(* knows periodic timers: it posts the function of a timer to the core     *)
(* thread again in every period, until the timer is stopped, and what it   *)
(* has posted is not called back.  The loop wants one wake-up: it keeps    *)
(* the timer's id in post_messages_timer_ and stops it when woken.         *)
(*                                                                         *)
(* Time is counted in ticks of the scheduler, Rate of them in a            *)
(* post_messages_rate.  What the loop does with a message is module        *)
(* MessageSending; here it is only asked for, stamped, sent and removed.   *)
(***************************************************************************)
EXTENDS Naturals, Sequences, FiniteSets

CONSTANTS NumMessages,  \* messages the user types, in order
          Rate,         \* ticks in post_messages_rate
          MaxTimers,    \* bound: timers in the scheduler's list
          MaxBacklog    \* bound: timer functions that wait for the core thread

ASSUME BoundsAssumption ==
    NumMessages \in Nat /\ {Rate, MaxTimers, MaxBacklog} \subseteq Nat \ {0}

Messages == 1..NumMessages
Timers == 1..MaxTimers
None == 0

VARIABLES timed,    \* timed_tasks_: the ticks since each timer was executed
          current,  \* post_messages_timer_, None if empty
          active,   \* sent_pending_messages_active_
          inbox,    \* what waits for the core thread
          jobs,     \* what waits for the archive's thread
          store,    \* the pending messages
          age,      \* ticks since each message's post time, Rate for more
          packets,  \* send_message requests under way
          typed     \* messages typed so far

vars == <<timed, current, active, inbox, jobs, store, age, packets, typed>>

Call(op, m) == [op |-> op, msg |-> m]
WakeUp == Call("timer", None)

Init ==
    /\ timed = <<>> /\ current = None /\ active = FALSE
    /\ inbox = <<>> /\ jobs = <<>> /\ store = <<>> /\ packets = <<>>
    /\ age = [m \in Messages |-> Rate]
    /\ typed = 0

-----------------------------------------------------------------------------
(* The scheduler. *)

Due(t) == timed[t] + 1 = Rate

\* The functions of timers that wait for the core thread.
Backlog == {i \in DOMAIN inbox : inbox[i].op = "timer"}

\* One tick of the scheduler's thread.
Tick ==
    LET due == {t \in DOMAIN timed : Due(t)} IN
    /\ Cardinality(Backlog) + Cardinality(due) <= MaxBacklog
    /\ timed' = [t \in DOMAIN timed |-> IF Due(t) THEN 0 ELSE timed[t] + 1]
    /\ inbox' = inbox \o [i \in 1..Cardinality(due) |-> WakeUp]
    /\ age' = [m \in Messages |-> IF age[m] < Rate THEN age[m] + 1 ELSE Rate]
    /\ UNCHANGED <<current, active, jobs, store, packets, typed>>

PushTimer(t) ==
    timed' = [u \in DOMAIN timed \cup {t} |-> IF u = t THEN 0 ELSE timed[u]]

\* Mutant: the list is left as it is.
MutantStopTimer(t) == timed' = timed

StopTimer(t) == timed' = [u \in DOMAIN timed \ {t} |-> timed[u]]

-----------------------------------------------------------------------------
(* The core thread. *)

\* post_pending_messages(true), after the jobs js.
Post(js) ==
    /\ active' = TRUE
    /\ StopTimer(current)
    /\ current' = None
    /\ jobs' = jobs \o js \o <<Call("first", None)>>

\* Mutant: the flag is not looked at.
MutantPostUnlessActive(js) == Post(js)

\* post_pending_messages(false).
PostUnlessActive(js) ==
    IF active THEN /\ jobs' = jobs \o js
                   /\ UNCHANGED <<active, timed, current>>
              ELSE Post(js)

\* send_message_to_contact.
SendMessageToContact ==
    /\ typed < NumMessages
    /\ typed' = typed + 1
    /\ PostUnlessActive(<<Call("insert", typed + 1)>>)
    /\ UNCHANGED <<inbox, store, age, packets>>

\* resume_failed_network_requests, after a successful poll.
Resume ==
    /\ ~active
    /\ PostUnlessActive(<<>>)
    /\ UNCHANGED <<inbox, store, age, packets, typed>>

Next1(op) ==
    /\ inbox # <<>> /\ Head(inbox).op = op
    /\ inbox' = Tail(inbox)

OnTimer ==
    /\ Next1("timer")
    /\ Post(<<>>)
    /\ UNCHANGED <<store, age, packets, typed>>

LoopEnds ==
    /\ Next1("first") /\ Head(inbox).msg = None
    /\ active' = FALSE
    /\ UNCHANGED <<timed, current, jobs, store, age, packets, typed>>

\* The message was posted less than post_messages_rate ago: wait that long.
StartTimer ==
    /\ Next1("first") /\ Head(inbox).msg # None
    /\ age[Head(inbox).msg] < Rate
    /\ \E t \in Timers \ DOMAIN timed :
          /\ PushTimer(t)
          /\ current' = t
    /\ UNCHANGED <<active, jobs, store, age, packets, typed>>

StampPostTime ==
    /\ Next1("first") /\ Head(inbox).msg # None
    /\ age[Head(inbox).msg] = Rate
    /\ jobs' = Append(jobs, Call("stamp", Head(inbox).msg))
    /\ UNCHANGED <<timed, current, active, store, age, packets, typed>>

SendMessage ==
    /\ Next1("stamp")
    /\ packets' = Append(packets, Head(inbox).msg)
    /\ UNCHANGED <<timed, current, active, jobs, store, age, typed>>

Answered ==
    /\ packets # <<>>
    /\ packets' = Tail(packets)
    /\ UNCHANGED <<inbox, store, age, typed>>

\* The answer has the message's id: the entry is removed before the loop goes
\* on.
OnSent ==
    /\ Answered
    /\ jobs' = Append(jobs, Call("remove", Head(packets)))
    /\ UNCHANGED <<active, timed, current>>

OnRemoved ==
    /\ Next1("remove")
    /\ Post(<<>>)
    /\ UNCHANGED <<store, age, packets, typed>>

\* The answer has no id: the entry stays and the loop goes on.
OnAccepted ==
    /\ Answered
    /\ Post(<<>>)

OnSendFailed ==
    /\ Answered
    /\ active' = FALSE
    /\ UNCHANGED <<jobs, timed, current>>

-----------------------------------------------------------------------------
(* The archive's thread. *)

RunJob(op) ==
    /\ jobs # <<>> /\ Head(jobs).op = op
    /\ jobs' = Tail(jobs)
    /\ UNCHANGED <<timed, current, active, packets, typed>>

RunInsert ==
    /\ RunJob("insert")
    /\ store' = Append(store, Head(jobs).msg)
    /\ UNCHANGED <<inbox, age>>

RunFirst ==
    /\ RunJob("first")
    /\ inbox' = Append(inbox, Call("first", IF store = <<>> THEN None ELSE Head(store)))
    /\ UNCHANGED <<store, age>>

RunStamp ==
    /\ RunJob("stamp")
    /\ age' = [age EXCEPT ![Head(jobs).msg] = 0]
    /\ inbox' = Append(inbox, Head(jobs))
    /\ UNCHANGED store

RunRemove ==
    /\ RunJob("remove")
    /\ store' = SelectSeq(store, LAMBDA m : m # Head(jobs).msg)
    /\ inbox' = Append(inbox, Head(jobs))
    /\ UNCHANGED age

-----------------------------------------------------------------------------

CoreStep ==
    \/ OnTimer \/ LoopEnds \/ StartTimer \/ StampPostTime \/ SendMessage
    \/ OnRemoved

ArchiveStep == RunInsert \/ RunFirst \/ RunStamp \/ RunRemove

Next ==
    \/ Tick
    \/ SendMessageToContact
    \/ Resume
    \/ CoreStep
    \/ OnSent \/ OnAccepted \/ OnSendFailed
    \/ ArchiveStep

Spec == Init /\ [][Next]_vars

-----------------------------------------------------------------------------

\* The assertion of post_pending_messages: no timer runs when one is started.
TimerIsFree ==
    inbox # <<>> /\ Head(inbox).op = "first" /\ Head(inbox).msg # None
      /\ age[Head(inbox).msg] < Rate => current = None

\* Every timer in the scheduler's list is one the loop can still stop: none
\* wakes the loop up for ever.
NoTimerLeaks == DOMAIN timed \subseteq {current}

InLoop(s) == Cardinality({i \in DOMAIN s : s[i].op \in {"first", "stamp", "remove"}})

\* A message is not posted twice within post_messages_rate, and not by two
\* loops at the same time.
PostedOnceAtATime ==
    /\ Len(packets) <= 1
    /\ (current # None \/ packets # <<>>) => InLoop(inbox) + InLoop(jobs) = 0

=============================================================================
