----------------------------- MODULE CurlMulti ------------------------------
(***************************************************************************)
(* core::curl_multi_handler (src/core/curl_multi_handler.cpp): one service *)
(* thread that executes the requests of the one-domain mode with curl's    *)
(* multi interface, at most max_easy_count of them at a time, by priority. *)
(*                                                                         *)
(* Three kinds of actors: the threads that perform requests; the core      *)
(* thread, which cancels sessions, resets the connection and cleans up;    *)
(* and the service thread, which alternates between boost's io_service,    *)
(* where it runs posted handlers and curl's callbacks, and a condition it  *)
(* waits for without looking at the queue.  tasks_queue_mutex is held from *)
(* one step to the next only by the handler add_task.                      *)
(***************************************************************************)
EXTENDS Naturals, Sequences, FiniteSets

CONSTANTS Tasks,         \* the requests, one perform or perform_async each
          Priority(_),   \* the lower number is the higher priority
          Protocol,      \* priority_protocol()
          MaxEasy,       \* max_easy_count
          MaxControls,   \* bound: resets and cancelled sessions
          NoTask

ASSUME TasksAssumption == NoTask \notin Tasks /\ IsFiniteSet(Tasks)
ASSUME PriorityAssumption == \A t \in Tasks : Priority(t) \in Nat
ASSUME LimitsAssumption ==
    Protocol \in Nat /\ MaxEasy \in Nat \ {0} /\ MaxControls \in Nat

VARIABLES
    queue,      \* tasks_queue
    tasks,      \* tasks: those that have an easy handle
    running,    \* those of them that were added to the multi handle
    posted,     \* handlers posted to io_service
    pc,         \* where the service thread is
    starting,   \* the task add_task is about to execute
    stop,       \* stop
    calling,    \* tasks whose caller saw stop unset and did not queue them yet
    core,       \* what the core thread is doing
    controls,   \* resets and cancelled sessions so far
    stopped,    \* tasks whose stop function returns true
    asked,      \* history: tasks accepted
    answers,    \* history: how often each was completed
    unlucky,    \* history: tasks completed by the second check of add_task
    late,       \* history: tasks queued when stop was set
    missed      \* history: cleanup notified while the thread was to wait

service == <<running, pc, starting>>
client == <<calling, asked, late>>
control == <<core, controls, stop, stopped, missed>>
vars == <<queue, tasks, posted, service, client, control, answers, unlucky>>

MutexFree == pc \notin {"adding", "starting"}

\* condition.notify_one: nobody but the service thread waits.
Notified == IF pc = "waiting" THEN "run" ELSE pc

Completed(ts) == [t \in Tasks |-> IF t \in ts THEN answers[t] + 1 ELSE answers[t]]

Init ==
    /\ queue = <<>> /\ tasks = {} /\ running = {} /\ posted = <<>>
    /\ pc = "run" /\ starting = NoTask /\ stop = FALSE
    /\ core = "idle" /\ controls = 0
    /\ calling = {} /\ stopped = {} /\ asked = {} /\ unlucky = {} /\ late = {}
    /\ answers = [t \in Tasks |-> 0]
    /\ missed = FALSE

Queued == {queue[i] : i \in DOMAIN queue}

\* The place of t in the queue s: before the first task of a lower priority.
Place(s, t) ==
    CHOOSE k \in 1..(Len(s) + 1) :
        /\ \A i \in 1..(k - 1) : Priority(s[i]) <= Priority(t)
        /\ k <= Len(s) => Priority(t) < Priority(s[k])

Insert(s, t) ==
    LET k == Place(s, t) IN
    [i \in 1..(Len(s) + 1) |-> IF i < k THEN s[i] ELSE IF i = k THEN t ELSE s[i - 1]]

\* The queue s without its k-th task.
Erased(s, k) == [i \in 1..(Len(s) - 1) |-> IF i < k THEN s[i] ELSE s[i + 1]]

-----------------------------------------------------------------------------
(* The threads that perform requests. *)

\* perform and perform_async: is_stopped is looked at without the mutex.
Perform(t) ==
    /\ t \notin asked
    /\ asked' = asked \cup {t}
    /\ IF stop THEN /\ answers' = Completed({t})
                    /\ UNCHANGED calling
               ELSE /\ calling' = calling \cup {t}
                    /\ UNCHANGED answers
    /\ UNCHANGED <<queue, tasks, posted, service, late, control, unlucky>>

AddTaskToQueue(t) ==
    /\ t \in calling /\ MutexFree
    /\ calling' = calling \ {t}
    /\ queue' = Insert(queue, t)
    /\ posted' = Append(posted, "add")
    /\ pc' = Notified
    /\ late' = IF stop THEN late \cup {t} ELSE late
    /\ UNCHANGED <<tasks, running, starting, asked, control, answers, unlucky>>

\* Mutant: the task goes to the front, as in the thread pool.
MutantRaiseTask(k) ==
    /\ MutexFree
    /\ queue' = <<queue[k]>> \o Erased(queue, k)
    /\ UNCHANGED <<tasks, posted, service, client, control, answers, unlucky>>

\* raise_task puts the k-th task behind all those of its own priority.
RaiseTask(k) ==
    /\ MutexFree
    /\ queue' = Insert(Erased(queue, k), queue[k])
    /\ UNCHANGED <<tasks, posted, service, client, control, answers, unlucky>>

-----------------------------------------------------------------------------
(* The core thread. *)

CoreGoes(from, to) == core = from /\ core' = to

Post(handler) == posted' = Append(posted, handler)

\* im::cancel_requests: every request made so far is a stopped one.
CancelRequests ==
    /\ controls < MaxControls
    /\ CoreGoes("idle", "canceled")
    /\ controls' = controls + 1
    /\ stopped' = asked
    /\ UNCHANGED <<queue, tasks, posted, service, client, stop, answers, unlucky,
                   missed>>

ProcessStoppedTasks ==
    /\ CoreGoes("canceled", "notify")
    /\ Post("stopped")
    /\ UNCHANGED <<queue, tasks, service, client, controls, stop, stopped, answers,
                   unlucky, missed>>

Reset ==
    /\ controls < MaxControls
    /\ CoreGoes("idle", "notify")
    /\ controls' = controls + 1
    /\ Post("cancel")
    /\ UNCHANGED <<queue, tasks, service, client, stop, stopped, answers, unlucky,
                   missed>>

Notify ==
    /\ CoreGoes("notify", "idle") /\ MutexFree
    /\ pc' = Notified
    /\ UNCHANGED <<queue, tasks, running, posted, starting, client, controls, stop,
                   stopped, answers, unlucky, missed>>

Cleanup ==
    /\ CoreGoes("idle", "stopping")
    /\ stop' = TRUE
    /\ UNCHANGED <<queue, tasks, posted, service, client, controls, stopped,
                   answers, unlucky, missed>>

CleanupPost ==
    /\ CoreGoes("stopping", "posted")
    /\ Post("cancel")
    /\ UNCHANGED <<queue, tasks, service, client, controls, stop, stopped, answers,
                   unlucky, missed>>

\* Mutant: the service thread is not woken up.
MutantCleanupNotify ==
    /\ CoreGoes("posted", "joining") /\ MutexFree
    /\ missed' = (pc = "toWait")
    /\ UNCHANGED <<queue, tasks, service, posted, client, controls, stop, stopped,
                   answers, unlucky>>

CleanupNotify ==
    /\ CoreGoes("posted", "joining") /\ MutexFree
    /\ pc' = Notified
    /\ missed' = (pc = "toWait")
    /\ UNCHANGED <<queue, tasks, running, posted, starting, client, controls, stop,
                   stopped, answers, unlucky>>

Join ==
    /\ CoreGoes("joining", "done")
    /\ pc = "left"
    /\ UNCHANGED <<queue, tasks, posted, service, client, controls, stop, stopped,
                   answers, unlucky, missed>>

-----------------------------------------------------------------------------
(* The service thread in io_service.run. *)

RunHandler(handler) ==
    /\ pc = "run"
    /\ posted # <<>> /\ Head(posted) = handler
    /\ posted' = Tail(posted)

BeginAddTask ==
    /\ RunHandler("add")
    /\ pc' = "adding"
    /\ UNCHANGED <<queue, tasks, running, starting, client, control, answers,
                   unlucky>>

HasRoom ==
    queue # <<>> /\ (Cardinality(tasks) < MaxEasy \/ Priority(Head(queue)) <= Protocol)

\* The task gets an easy handle; or is completed, when it was stopped, its
\* context is gone or the handle cannot be set up.
InitHandler ==
    /\ pc = "adding" /\ HasRoom
    /\ queue' = Tail(queue)
    /\ LET t == Head(queue) IN
       \/ /\ t \notin stopped
          /\ tasks' = tasks \cup {t}
          /\ pc' = "starting" /\ starting' = t
          /\ UNCHANGED answers
       \/ /\ answers' = Completed({t})
          /\ UNCHANGED <<tasks, pc, starting>>
    /\ UNCHANGED <<running, posted, client, control, unlucky>>

\* The second check: a task stopped meanwhile, or refused by curl, is completed,
\* and stays in tasks all the same.
ExecuteMulti ==
    /\ pc = "starting"
    /\ pc' = "adding" /\ starting' = NoTask
    /\ \/ /\ starting \notin stopped
          /\ running' = running \cup {starting}
          /\ UNCHANGED <<answers, unlucky>>
       \/ /\ answers' = Completed({starting})
          /\ unlucky' = unlucky \cup {starting}
          /\ UNCHANGED running
    /\ UNCHANGED <<queue, tasks, posted, client, control>>

EndAddTask ==
    /\ pc = "adding" /\ ~HasRoom
    /\ pc' = "run"
    /\ UNCHANGED <<queue, tasks, running, posted, starting, client, control,
                   answers, unlucky>>

\* Mutant: the requests in the queue are dropped without an answer.
MutantCancelTasks ==
    /\ RunHandler("cancel")
    /\ answers' = Completed(tasks)
    /\ queue' = <<>> /\ tasks' = {} /\ running' = {}
    /\ UNCHANGED <<pc, starting, client, control, unlucky>>

\* cancel_tasks.
CancelTasks ==
    /\ RunHandler("cancel")
    /\ answers' = Completed(Queued \cup tasks)
    /\ queue' = <<>> /\ tasks' = {} /\ running' = {}
    /\ UNCHANGED <<pc, starting, client, control, unlucky>>

\* Mutant: a completed task stays in the map.
MutantCancelStopped ==
    /\ RunHandler("stopped")
    /\ answers' = Completed(tasks \cap stopped)
    /\ running' = running \ stopped
    /\ UNCHANGED <<queue, tasks, pc, starting, client, control, unlucky>>

\* The handler of process_stopped_tasks.
CancelStopped ==
    /\ RunHandler("stopped")
    /\ answers' = Completed(tasks \cap stopped)
    /\ tasks' = tasks \ stopped /\ running' = running \ stopped
    /\ UNCHANGED <<queue, pc, starting, client, control, unlucky>>

\* check_multi_info: curl has finished a transfer.  Once stop is set timer_cb does
\* nothing any more, so that only a socket's event ends one, if the server sends it.
FinishMulti(t) ==
    /\ pc = "run" /\ t \in running
    /\ answers' = Completed({t})
    /\ tasks' = tasks \ {t} /\ running' = running \ {t}
    /\ UNCHANGED <<queue, posted, pc, starting, client, control, unlucky>>

-----------------------------------------------------------------------------
(* The service thread outside of it. *)

\* io_service.run returns when no handler is posted and no transfer runs.
RunReturns ==
    /\ pc = "run" /\ posted = <<>> /\ running = {}
    /\ pc' = IF stop THEN "left" ELSE "toWait"
    /\ posted' = IF ~stop /\ queue # <<>> THEN <<"add">> ELSE <<>>
    /\ UNCHANGED <<queue, tasks, running, starting, client, control, answers,
                   unlucky>>

\* Once stop is set it also returns while transfers are left that wait for no socket:
\* the timer was their work, and timer_cb did not start it again.
RunLeavesTransfers ==
    /\ pc = "run" /\ posted = <<>> /\ running # {} /\ stop
    /\ pc' = "left"
    /\ UNCHANGED <<queue, tasks, running, posted, starting, client, control, answers,
                   unlucky>>

Wait ==
    /\ pc = "toWait"
    /\ pc' = "waiting"
    /\ UNCHANGED <<queue, tasks, running, posted, starting, client, control,
                   answers, unlucky>>

SpuriousWakeup ==
    /\ pc = "waiting"
    /\ pc' = "run"
    /\ UNCHANGED <<queue, tasks, running, posted, starting, client, control,
                   answers, unlucky>>

-----------------------------------------------------------------------------

Service ==
    \/ BeginAddTask \/ InitHandler \/ ExecuteMulti \/ EndAddTask
    \/ CancelTasks \/ CancelStopped
    \/ RunReturns \/ Wait

Core ==
    \/ CancelRequests \/ ProcessStoppedTasks \/ Reset \/ Notify
    \/ Cleanup \/ CleanupPost \/ CleanupNotify \/ Join

Next ==
    \/ \E t \in Tasks : Perform(t) \/ AddTaskToQueue(t) \/ FinishMulti(t)
    \/ \E k \in DOMAIN queue : RaiseTask(k)
    \/ Service
    \/ RunLeavesTransfers \/ SpuriousWakeup
    \/ Core

Spec == Init /\ [][Next]_vars

\* Threads run, and curl ends every transfer: each has a timeout, which timer_cb
\* tells curl about until stop is set.  Nothing is assumed of a transfer after that,
\* nor that io_service.run returns while one is left.
Fairness ==
    /\ WF_vars(Service)
    /\ \A t \in Tasks : WF_vars(AddTaskToQueue(t)) /\ SF_vars(~stop /\ FinishMulti(t))
    /\ WF_vars(ProcessStoppedTasks \/ Notify \/ CleanupPost \/ CleanupNotify \/ Join)

FairSpec == Spec /\ Fairness

-----------------------------------------------------------------------------

TypeOK ==
    /\ queue \in Seq(Tasks)
    /\ tasks \subseteq Tasks /\ running \subseteq tasks
    /\ posted \in Seq({"add", "cancel", "stopped"})
    /\ pc \in {"run", "adding", "starting", "toWait", "waiting", "left"}
    /\ starting \in Tasks \cup {NoTask}
    /\ \A s \in {calling, stopped, asked, unlucky, late} : s \subseteq Tasks
    /\ core \in {"idle", "canceled", "notify", "stopping", "posted", "joining", "done"}
    /\ controls \in 0..MaxControls
    /\ {stop, missed} \subseteq BOOLEAN
    /\ answers \in [Tasks -> Nat]

\* A request that was accepted is in exactly one place where somebody will find it:
\* its caller's hands, the queue or the map of tasks, until it is completed, and in
\* none afterwards; so that it is completed once (a second set_value throws), except
\* one that the second check of add_task found stopped or curl refused, which stays
\* in the map and is completed again by whoever empties it.
OnePlaceOneAnswer ==
    /\ \A i, j \in DOMAIN queue : queue[i] = queue[j] => i = j
    /\ \A t \in asked :
          /\ answers[t] = 0 => t \in calling \cup Queued \cup tasks
          /\ answers[t] > 0 => t \notin calling \cup Queued \cup (tasks \ unlucky)
          /\ t \in calling => t \notin Queued \cup tasks
          /\ t \in Queued => t \notin tasks
          /\ answers[t] <= IF t \in unlucky THEN 2 ELSE 1

\* No request is started while one of a higher priority waits in the queue.
HigherPriorityFirst ==
    [][\A t \in tasks' \ tasks : \A u \in Queued : Priority(t) <= Priority(u)]_vars

Asleep == pc = "waiting" /\ (queue # <<>> \/ posted # <<>>)

\* A request that was queued when stop was set is running.  Behind the last
\* cancel_tasks no timeout ends it.
LateOneRuns == late \cap running # {}

\* Every request is completed, except while the service thread sleeps on a
\* queue that is not empty, until the next request or control wakes it up;
\* except one queued when stop was set that is started behind the last cancel_tasks
\* and whose server is silent, and those queued like it that wait for its handle;
\* and except what is left when the thread leaves.
EveryTaskCompleted ==
    \A t \in Tasks :
        (t \in asked) ~> \/ answers[t] > 0 \/ Asleep \/ pc = "left"
                         \/ t \in late /\ []LateOneRuns

\* When cleanup returns everything was completed, except for requests queued
\* while it ran, and unless the thread left before it ran the last cancel_tasks.
CleanupCompletes ==
    core = "done" /\ posted = <<>> =>
        \A t \in asked \ (late \cup calling) : answers[t] > 0

\* cleanup returns, unless it notified when the service thread was about to wait,
\* or a request whose caller saw stop unset was started behind the last
\* cancel_tasks, where no timeout ends it, and its server is silent: then
\* io_service.run does not return, and join waits for ever.
CleanupReturnsOrMissed ==
    stop ~> (core = "done" \/ missed \/ []LateOneRuns)

=============================================================================
