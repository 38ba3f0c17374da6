----------------------------- MODULE SendThread -----------------------------
(***************************************************************************)
(* core::wim::wim_send_thread (src/core/connections/wim/wim_im.cpp): the   *)
(* queue through which every request of an account goes to the server, one *)
(* at a time, with retries, rate limits and session restarts.              *)
(*                                                                         *)
(* Three actors: the core main thread, which owns all of wim_send_thread's *)
(* fields and runs callbacks; the one worker thread of the executer, which *)
(* executes packets; and the network, which completes the packets that     *)
(* support asynchronous execution.  A closure on the core thread is a list *)
(* of statements, the agenda, because the callbacks it calls post packets  *)
(* and restart sessions in the middle of it.                               *)
(***************************************************************************)
EXTENDS Naturals, Sequences, FiniteSets

CONSTANTS Packets,      \* packets the account may post, once each
          Async,        \* those whose support_async_execution() is true
          Sessions,     \* the start_session packets
          RepeatCount   \* sent_repeat_count

ASSUME PacketsAssumption ==
    Async \subseteq Packets /\ Sessions \subseteq Packets \ Async
ASSUME RepeatCountAssumption == RepeatCount \in Nat \ {0}

VARIABLES sender,    \* the wim_send_thread object
          agenda,    \* what is left of the closure the core thread executes
          inbox,     \* results posted to the core thread
          repeats,   \* repeat_count_ of each packet
          stopped,   \* packets made under a session that was cancelled
          posted,    \* history: packets in the order they were posted
          started,   \* history: packets in the order the worker first sent them
          answers,   \* history: how often each packet's on_result_ was called
          canceled,  \* history: packets answered wpie_error_task_canceled
          refusals   \* history: asynchronous packets refused by the rate limit

vars == <<sender, agenda, inbox, repeats, stopped, posted, started, answers,
          canceled, refusals>>

Elements(s) == {s[i] : i \in DOMAIN s}

Unposted == Packets \ Elements(posted)

Errors == {"ok", "network", "too_fast", "relogin", "other", "refused",
           "task_canceled"}

\* What a packet's request can end with; start_session translates every
\* refusal of the server itself and never asks for a new login this way.
Outcomes(p) == {"ok", "network", "too_fast", "other"}
                  \cup (IF p \in Sessions THEN {} ELSE {"relogin"})

-----------------------------------------------------------------------------
(* wim_send_thread::post_packet and execute_packet_from_queue, on the      *)
(* object s.  limited stands for now < cancel_packets_time_.               *)

\* The packet goes to the worker or to the network; while the rate limit
\* lasts the worker executes nothing in its place.
Launch(s, p) ==
    IF s.limited
    THEN [s EXCEPT !.jobs = Append(@, [packet |-> p, send |-> FALSE])]
    ELSE IF p \in Async
    THEN [s EXCEPT !.air = @ \cup {p}]
    ELSE [s EXCEPT !.jobs = Append(@, [packet |-> p, send |-> TRUE])]

\* Mutant: the flag is not set.
MutantPostPacket(s, p) ==
    IF s.executing /\ p \notin Async
    THEN [s EXCEPT !.queue = Append(@, p)]
    ELSE Launch(s, p)

PostPacket(s, p) ==
    IF s.executing /\ p \notin Async
    THEN [s EXCEPT !.queue = Append(@, p)]
    ELSE Launch([s EXCEPT !.executing = @ \/ p \notin Async], p)

\* Mutant: the queue is not popped when the last packet was refused.
MutantExecuteFromQueue(s) == 
    IF s.queue = <<>> \/ s.limited THEN s
    ELSE PostPacket([s EXCEPT !.queue = Tail(@)], Head(s.queue))

ExecuteFromQueue(s) ==
    IF s.queue = <<>> THEN s
    ELSE PostPacket([s EXCEPT !.queue = Tail(@)], Head(s.queue))

Init ==
    /\ sender = [executing |-> FALSE, queue |-> <<>>, limited |-> FALSE,
                 jobs |-> <<>>, air |-> {}]
    /\ agenda = <<>>
    /\ inbox = <<>>
    /\ repeats = [p \in Packets |-> 0]
    /\ stopped = {}
    /\ posted = <<>> /\ started = <<>>
    /\ answers = [p \in Packets |-> 0]
    /\ canceled = {} /\ refusals = {}

-----------------------------------------------------------------------------
(* Callbacks. *)

\* start_session: clear the queue, cancel the requests, post the packet.
RestartSession == <<"clear", "session">>

\* The on_result_ of packet p is called with error e, the object being s and
\* rest the statements that follow the call.  It may post one packet (a ping
\* of the session among them), or be start_session's own callback and start
\* the session again.
Reply(p, e, s, rest) ==
    /\ answers' = [answers EXCEPT ![p] = @ + 1]
    /\ canceled' = IF e = "task_canceled" THEN canceled \cup {p} ELSE canceled
    /\ \/ /\ sender' = s
          /\ agenda' = rest
          /\ UNCHANGED posted
       \/ \E q \in Unposted :
             /\ sender' = PostPacket(s, q)
             /\ posted' = Append(posted, q)
             /\ agenda' = rest
       \/ /\ p \in Sessions /\ e \notin {"ok", "task_canceled"}
          /\ sender' = s
          /\ agenda' = RestartSession \o rest
          /\ UNCHANGED posted

-----------------------------------------------------------------------------
(* The core thread. *)

Idle == agenda = <<>>

\* Some part of the account posts a packet.
Post(p) ==
    /\ Idle
    /\ p \in Unposted
    /\ sender' = PostPacket(sender, p)
    /\ posted' = Append(posted, p)
    /\ UNCHANGED <<agenda, inbox, repeats, stopped, started, answers, canceled, refusals>>

\* The poll loop finds that the session is gone.
SessionLost ==
    /\ Idle
    /\ Unposted \cap Sessions # {}
    /\ agenda' = RestartSession
    /\ UNCHANGED <<sender, inbox, repeats, stopped, posted, started, answers, canceled, refusals>>

\* The worker's result for a packet that was refused by the rate limit.  The
\* flag is cleared even if the packet was an asynchronous one.
TakeRefused ==
    /\ Idle /\ inbox # <<>>
    /\ LET r == Head(inbox) IN
          /\ r.kind = "refused"
          /\ Reply(r.packet, "refused", sender, <<"release", "next">>)
          /\ refusals' = refusals \cup ({r.packet} \cap Async)
    /\ inbox' = Tail(inbox)
    /\ UNCHANGED <<repeats, stopped, started>>

\* The result of a packet executed asynchronously.
TakeAsync ==
    /\ Idle /\ inbox # <<>>
    /\ LET r == Head(inbox) IN
          /\ r.kind = "async"
          /\ Reply(r.packet, r.error, sender, <<>>)
    /\ inbox' = Tail(inbox)
    /\ UNCHANGED <<repeats, stopped, started, refusals>>

MustRepeat(r) ==
    /\ r.error = "network"
    /\ repeats[r.packet] < RepeatCount
    /\ r.packet \notin stopped

\* Mutant: the packet is posted again before the flag is cleared.
MutantTakeRepeat ==
    /\ Idle /\ inbox # <<>>
    /\ LET r == Head(inbox) IN
          /\ r.kind = "executed"
          /\ MustRepeat(r)
          /\ sender' = PostPacket(sender, r.packet)
    /\ agenda' = <<"release", "next">>
    /\ inbox' = Tail(inbox)
    /\ UNCHANGED <<repeats, stopped, posted, started, answers, canceled,
                   refusals>>

\* Mutant: the return after the second post is missing.
MutantRepeatAndReply ==
    /\ Idle /\ inbox # <<>>
    /\ LET r == Head(inbox) IN
          /\ r.kind = "executed"
          /\ MustRepeat(r)
          /\ Reply(r.packet, r.error,
                   PostPacket([sender EXCEPT !.executing = FALSE], r.packet),
                   <<"release", "next">>)
    /\ inbox' = Tail(inbox)
    /\ UNCHANGED <<repeats, stopped, started, refusals>>

\* A network error: the packet is posted again, ahead of the queue.
TakeRepeat ==
    /\ Idle /\ inbox # <<>>
    /\ LET r == Head(inbox) IN
          /\ r.kind = "executed"
          /\ MustRepeat(r)
          /\ sender' = PostPacket([sender EXCEPT !.executing = FALSE], r.packet)
    /\ inbox' = Tail(inbox)
    /\ UNCHANGED <<agenda, repeats, stopped, posted, started, answers, canceled, refusals>>

\* Every other result: the rate limit is noted, the packet's callback runs
\* while the flag is still set, then the flag is cleared, the error handler
\* (handle_net_error) runs and the next packet is taken from the queue.
TakeAnswer ==
    /\ Idle /\ inbox # <<>>
    /\ LET r == Head(inbox)
           limited == sender.limited \/ r.error = "too_fast"
           handle == IF r.error = "relogin" THEN RestartSession ELSE <<>>
       IN
          /\ r.kind = "executed"
          /\ ~MustRepeat(r)
          /\ Reply(r.packet, r.error, [sender EXCEPT !.limited = limited],
                   <<"release">> \o handle \o <<"next">>)
    /\ inbox' = Tail(inbox)
    /\ UNCHANGED <<repeats, stopped, started, refusals>>

\* is_packet_execute_ = false.
Release ==
    /\ ~Idle /\ Head(agenda) = "release"
    /\ sender' = [sender EXCEPT !.executing = FALSE]
    /\ agenda' = Tail(agenda)
    /\ UNCHANGED <<inbox, repeats, stopped, posted, started, answers, canceled, refusals>>

\* execute_packet_from_queue().
TakeNext ==
    /\ ~Idle /\ Head(agenda) = "next"
    /\ sender' = ExecuteFromQueue(sender)
    /\ agenda' = Tail(agenda)
    /\ UNCHANGED <<inbox, repeats, stopped, posted, started, answers, canceled, refusals>>

\* Mutant: the queue is dropped without answering it.
MutantClearOne ==
    /\ ~Idle /\ Head(agenda) = "clear"
    /\ sender.queue # <<>>
    /\ sender' = [sender EXCEPT !.queue = <<>>]
    /\ UNCHANGED <<agenda, inbox, repeats, stopped, posted, started, answers, canceled, refusals>>

\* clear() answers the queue in order; what callbacks add to the list meanwhile
\* is reached by the same loop.
ClearOne ==
    /\ ~Idle /\ Head(agenda) = "clear"
    /\ sender.queue # <<>>
    /\ Reply(Head(sender.queue), "task_canceled",
             [sender EXCEPT !.queue = Tail(@)], agenda)
    /\ UNCHANGED <<inbox, repeats, stopped, started, refusals>>

\* The loop is over: cancel_requests makes every older packet a stopped one.
CancelRequests ==
    /\ ~Idle /\ Head(agenda) = "clear"
    /\ sender.queue = <<>>
    /\ stopped' = Elements(posted)
    /\ agenda' = Tail(agenda)
    /\ UNCHANGED <<sender, inbox, repeats, posted, started, answers, canceled, refusals>>

PostSession ==
    /\ ~Idle /\ Head(agenda) = "session"
    /\ \/ \E p \in Unposted \cap Sessions :
             /\ sender' = PostPacket(sender, p)
             /\ posted' = Append(posted, p)
       \/ /\ Unposted \cap Sessions = {}   \* bound: no session packet is left
          /\ UNCHANGED <<sender, posted>>
    /\ agenda' = Tail(agenda)
    /\ UNCHANGED <<inbox, repeats, stopped, started, answers, canceled, refusals>>

CoreStep ==
    \/ TakeRefused \/ TakeAsync \/ TakeRepeat \/ TakeAnswer
    \/ Release \/ TakeNext
    \/ ClearOne \/ CancelRequests \/ PostSession

-----------------------------------------------------------------------------
(* The other actors. *)

\* The worker takes a job, executes it and posts the result to the core.
SendJob ==
    /\ sender.jobs # <<>>
    /\ LET p == Head(sender.jobs).packet IN
          /\ Head(sender.jobs).send
          /\ repeats' = [repeats EXCEPT ![p] = @ + 1]
          /\ started' = IF repeats[p] = 0 THEN Append(started, p) ELSE started
          /\ \E e \in Outcomes(p) :
                inbox' = Append(inbox, [kind |-> "executed", packet |-> p,
                                        error |-> e])
    /\ sender' = [sender EXCEPT !.jobs = Tail(@)]
    /\ UNCHANGED <<agenda, stopped, posted, answers, canceled,
                   refusals>>

RefuseJob ==
    /\ sender.jobs # <<>>
    /\ ~Head(sender.jobs).send
    /\ inbox' = Append(inbox, [kind |-> "refused",
                               packet |-> Head(sender.jobs).packet,
                               error |-> "refused"])
    /\ sender' = [sender EXCEPT !.jobs = Tail(@)]
    /\ UNCHANGED <<agenda, repeats, stopped, posted, started, answers, canceled, refusals>>

\* The network completes an asynchronous request.
CompleteAsync(p) ==
    /\ p \in sender.air
    /\ \E e \in Outcomes(p) :
          inbox' = Append(inbox, [kind |-> "async", packet |-> p, error |-> e])
    /\ sender' = [sender EXCEPT !.air = @ \ {p}]
    /\ UNCHANGED <<agenda, repeats, stopped, posted, started, answers, canceled, refusals>>

\* cancel_packets_time_ has passed.
LimitEnds ==
    /\ sender.limited
    /\ sender' = [sender EXCEPT !.limited = FALSE]
    /\ UNCHANGED <<agenda, inbox, repeats, stopped, posted, started, answers, canceled, refusals>>

-----------------------------------------------------------------------------

Next ==
    \/ \E p \in Packets : Post(p)
    \/ SessionLost
    \/ CoreStep
    \/ SendJob
    \/ RefuseJob
    \/ \E p \in Packets : CompleteAsync(p)
    \/ LimitEnds

Spec == Init /\ [][Next]_vars

\* The core thread and the worker run what was queued to them, and a request
\* ends: curl gives each one a timeout.
Fairness ==
    /\ WF_vars(CoreStep)
    /\ WF_vars(SendJob \/ RefuseJob)
    /\ \A p \in Async : WF_vars(CompleteAsync(p))

FairSpec == Spec /\ Fairness

-----------------------------------------------------------------------------

TypeOK ==
    /\ sender \in [executing : BOOLEAN, queue : Seq(Packets), limited : BOOLEAN,
                   jobs : Seq([packet : Packets, send : BOOLEAN]),
                   air : SUBSET Packets]
    /\ agenda \in Seq({"release", "next", "clear", "session"})
    /\ inbox \in Seq([kind : {"executed", "refused", "async"}, packet : Packets,
                      error : Errors])
    /\ repeats \in [Packets -> 0..RepeatCount]
    /\ stopped \in SUBSET Packets
    /\ posted \in Seq(Packets) /\ started \in Seq(Packets)
    /\ answers \in [Packets -> Nat]
    /\ canceled \in SUBSET Packets /\ refusals \in SUBSET Packets

\* Packets never wait in the queue with nobody left to take them out: some
\* job or result is on its way whose completion calls
\* execute_packet_from_queue.
NeverStranded ==
    Idle /\ sender.queue # <<>> =>
        \/ sender.jobs # <<>>
        \/ \E i \in DOMAIN inbox : inbox[i].kind # "async"

\* Packets on their way to or from the server, or about to be refused, that
\* is_packet_execute_ is meant to limit to one.
InFlight ==
    {j.packet : j \in Elements(sender.jobs)}
      \cup {r.packet : r \in {x \in Elements(inbox) : x.kind # "async"}}

IndexIn(s, p) == CHOOSE i \in DOMAIN s : s[i] = p

\* Packets reach the server one at a time and in the order in which they were
\* posted, whatever is retried, refused or cancelled in between; except that every
\* asynchronous packet the rate limit refuses clears the flag is_packet_execute_ of
\* another packet and lets one more through.
OneByOneInOrder ==
    /\ Cardinality(InFlight \ Async) <= 1 + Cardinality(refusals)
    /\ \A i, j \in DOMAIN started :
          i < j => IndexIn(posted, started[i]) < IndexIn(posted, started[j])

\* A packet answered "task canceled" was never given to the server: callers
\* post such a packet again (needs_to_repeat_failed) without doing it twice.
CanceledWasNeverSent == canceled \cap Elements(started) = {}

\* Every packet that is posted is answered.
EveryPacketAnswered ==
    \A p \in Packets : (p \in Elements(posted)) ~> (answers[p] > 0)

\* To its callers the queue answers each request at most once, whatever the
\* retries, refusals and cancellations do.
Abstract == INSTANCE OneAnswer WITH Requests <- Packets,
                                    asked <- Elements(posted)

Implements == Abstract!Spec

=============================================================================
