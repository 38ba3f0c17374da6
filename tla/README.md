# The core of im-desktop, in TLA+

im-desktop is a messenger of two processes' worth of code in one: a Qt user
interface (`src/gui`) and a core (`src/core`) that talks to the server, stores
history and decides what is sent when. They exchange messages through
`gui/core_dispatcher.cpp` and `core/core.cpp`. This directory models the core:
its threads and queues, HTTP, the queue of requests, the sending of messages, the
synchronisation of stored history and its files, and downloads.

The reference is the code. Comments in the modules name the functions they
stand for; `PROJECT.json` maps every definition to its lines.

Contents: [the system](#the-system) · [the modules](#the-modules) ·
[the runs](#the-runs) · [fairness](#fairness) · [the proofs](#the-proofs) ·
[what the code does that it should not](#what-the-code-does-that-it-should-not) ·
[not modelled](#not-modelled)

## The system

### Threads

| thread | where | what it runs |
|---|---|---|
| core main thread | `main_thread.cpp`, a `threadpool` of one | every handler of `core::wim::im`, all callbacks |
| archive's thread | `async_executer` of one, `local_history.cpp` | every operation on history and on pending messages |
| request thread | `async_executer` of one, in `wim_send_thread` | packets, one blocking request at a time |
| curl threads | `curl_easy_handler.cpp`, `curl_multi_handler.cpp` | HTTP |
| scheduler | `scheduler.cpp` | posts the functions of periodic timers to the core thread |
| GUI thread | `src/gui` | commands to the core, messages from it |

A call to another thread is a closure put in its queue; the answer is a closure
put in the core thread's queue, with everything the callback captured. Nothing
is locked across such a round trip, so whatever was read before it may be stale
after it, and any two conversations interleave at every hop. That is the
pattern behind most of the hazards listed in `PROJECT.json`.

### Components

**Thread pool** (`tools/threadpool.cpp`). State: a deque of closures, a mutex, a
condition, `stop_`, the threads. Operations: `push_back`, `push_front`,
`raise_task`, the destructor, the loop of a worker. Every queue above is one.
Hard: notifications outside the mutex. Correct when no closure is lost or run
twice, none waits while a worker sleeps, and the destructor runs what was
accepted and returns.

**Request queue of an account** (`wim_send_thread`, in `wim_im.cpp`). State: a
queue of packets, `is_packet_execute_`, `cancel_packets_time_` (the rate limit),
the executer. Operations: `post_packet`, `execute_packet_from_queue`, `clear`,
with the retries, and the restarts of the session in `im`. Hard: callbacks post
packets and restart the session inside `clear()`; a retry races a cancellation;
asynchronous packets share the code but not the flag. Correct when each caller
is answered exactly once, packets leave in order and one at a time, and the queue
is never left with nobody to serve it.

**Pending operations** (`archive/not_sent_messages.cpp`). State: the outgoing
messages and deletions the server has not confirmed, and their file. Operations:
insert, replace, confirm (by answer, by event, by history), stamp, delete. Hard:
the same message is confirmed up to three times and edited or deleted between.

**Sending** (`wim_im.cpp`: `send_message_to_contact`,
`update_message_to_contact`, `post_pending_messages`,
`post_pending_delete_messages`). State: one flag per loop, a timer, the entry
being sent, in an object shared with the store. Hard: everything a user can type
or delete between two hops of a loop; a crash; an answer that never came. Correct
when each message is created once, in order, and the last edit and the deletion
arrive.

**Scheduler** (`scheduler.cpp`). State: the list of periodic timers. Hard: a
timer fires until it is stopped, and its posted function is not recalled.

**Multi curl handler** (`curl_multi_handler.cpp`). State: a priority queue, the
map of running tasks, boost's `io_service`, a condition. Operations: `perform`,
`perform_async`, `raise_task`, `process_stopped_tasks`, `reset`, `cleanup`. Hard:
the thread alternates between two places it can sleep in. Correct when every
request is completed once, within the limit of handles and by priority.

**Easy curl handler** (`curl_easy_handler.cpp`). State: two threads with a deque,
a mutex and a condition each, for the fetch and for protocol requests; three
thread pools for the others, each behind a mutex that guards the pointer to it;
`stop_`. Operations: `perform`, `add_task`, `cleanup`. Hard: `stop_` is tested before
anything is locked; a completion function runs on the thread of its request and
performs the next one there. Correct when every request is completed once and
cleanup leaves none behind.

**History of a contact** (`archive/archive_index.cpp`, `contact_archive.cpp`,
`dlg_state.cpp`). State: an index of message headers, each linked
to the one before; its file; the data file; the state of the dialog. Operations:
insert a block, find a hole, validate a hole, delete up to, load, free. Hard: an
index that is not loaded, or loaded over what came since. Correct when a restart
would find what is in memory.

**Storage and files of a contact** (`archive/storage.cpp`, `messages_data.cpp`,
`archive_index.cpp`). State: a file of messages, a file with the position of each,
both made of framed blocks that are written in several writes. Operations: append,
rewrite, read, search. Hard: a process that dies at any word; what is appended
behind damage. Correct when a header leads to its message, and a damaged index is
repaired by the first load.

**History synchronisation** (`wim_im.cpp`: `on_event_dlg_state`,
`get_history_from_server`, `download_holes`). State: the holes under way and those
that failed, the opened dialogs. Hard: events, answers, deletions and closing a
dialog fall between the hops of each other. Correct when two messages are linked
only if nothing lies between them, what is deleted is not shown, and an open
dialog becomes complete.

**Downloads** (`async_loader/async_loader.cpp`). State: the downloads in progress,
the queue of suspended tasks, temporary files, files, meta data on the disk.
Operations: `download_file_sharing`, the chunks, `cancel_file_sharing`,
`resume_suspended_tasks`. Hard: the chunks run on curl's threads, the rest on the core
thread, and the queue of suspended tasks has no mutex; requests join a download
that exists; a restart finds a temporary file. Correct when every handler is called
once and a file in its place is whole.

The other components, with the reasons why they are not modelled, are under
[not modelled](#not-modelled).

### How they interact

    GUI --commands--> core thread <--results-- archive's thread
                       |   ^  ^                   (history, pending operations)
               packets |   |  +---- scheduler (timers)
                       v   |
              wim_send_thread --> request thread --> curl handlers --> server

`MessageSending` composes the commands, the core thread, the archive's thread and
the server over the operators of `PendingOperations`; `HistorySync` does so over
those of `HistoryIndex`. `SendThread` composes the core thread, the request
thread and the network, and implements `OneAnswer`. In the modules above the
request queue, a request is a message in the network that the server handles and
whose answer arrives or fails: `OneAnswer` is the promise they use.

`CurlEasy` uses what `ThreadPool` promises of its pools: a queue, at most so many
closures at a time, a destructor that returns when all ran, or does not because a
worker missed the notification. `HistorySync` uses of its file what `IndexFile`
promises of an intact one, and `ContactFiles` shows that the words in the file do what
`IndexFile` says, also when they are torn.

## The modules

| module | what it stands for | checked by | proved in |
|---|---|---|---|
| `ThreadPool` | `tools/threadpool.cpp` | `MCThreadPool` | `ThreadPoolProofs` |
| `OneAnswer` | the abstract promise of an asynchronous call | through `SendThread` | `SendThreadProofs` |
| `SendThread` | `wim_im.cpp` 291-440, session restarts | `MCSendThread` | `SendThreadProofs` |
| `PendingOperations` | `not_sent_messages.cpp` | through `MessageSending` | `MessageSendingProofs` |
| `MessageSending` | `wim_im.cpp` loops and commands, `local_history.cpp` | `MCMessageSending` | `MessageSendingProofs` |
| `MessageSendingInvariants` | the inductive invariants of `MessageSending` | | `MessageSendingProofs` |
| `PostTimer` | `scheduler.cpp`, the timer of the send loop | itself | `PostTimerProofs` |
| `CurlMulti` | `curl_multi_handler.cpp` | `MCCurlMulti` | `CurlMultiProofs` |
| `CurlEasy` | `curl_easy_handler.cpp` | `MCCurlEasy` | `CurlEasyProofs` |
| `HistoryIndex` | `archive_index.cpp`, part of `contact_archive.cpp` | through `HistorySync` | `HistorySyncProofs` |
| `HistorySync` | `wim_im.cpp` dialogs and holes, `dlg_state.cpp` | `MCHistorySync` | `HistorySyncProofs` |
| `Storage` | `storage.cpp` | through `ContactFiles` | |
| `IndexFile` | the abstract promise of an index's file | through `ContactFiles` | |
| `ContactFiles` | `messages_data.cpp`, `archive_index.cpp`, `contact_archive.cpp` | itself | |
| `Downloads` | `async_loader.cpp` | `MCDownloads` | `DownloadsProofs` |

A module whose name begins with `MC` gives the constants of the module it extends
their values for TLC: the small sets, and the budgets described under
[the runs](#the-runs).

Operators called `Mutant...` are plausible bugs, one for each property: put in
the place of the definition they stand before, they make the property fail in
its run. They show that the property depends on the code it is about.

### ThreadPool

A critical section is a step. The exception is a worker that has evaluated the
condition's predicate under the mutex and has not blocked yet (`pc = "blocking"`):
the destructor stores `stop_` and notifies without the mutex, so it can fall in
that gap. `owed` counts the `notify_one` calls that follow an unlock. A waiting
worker may wake spuriously. `accepted`, `done` and `missed` are history.

### SendThread and OneAnswer

`sender` is the `wim_send_thread` object; `PostPacket`, `ExecuteFromQueue` are
functions of it, since callbacks call them in the middle of other closures. What
is left of the core's current closure is the `agenda`: `release` the flag, take
the `next` packet, `clear` the queue, post a `session` packet. Restarting the
session inside the callback of a packet that `clear()` cancels is such an agenda
that grows. `jobs` is the request thread, `air` the asynchronous requests.
Retries go back through `post_packet` in front of the agenda as in the code.

`OneAnswer` says: a request is answered at most once, and after it was made. It
is implemented with `asked <- Elements(posted)`; a callback that answers one
packet and posts another maps to `AnswerAndAsk`.

### PendingOperations and MessageSending

The store holds entries `[msg, iid, text, msgid, fresh, modified, deleted,
posted]`. The variable `held` is the entry the send loop works on. In the code it
is a `shared_ptr` to the same object as the store's, until the store replaces its
entry: the model keeps the two together by writing changes to both. `text` is a
version number. What the code is known to drop is recorded in `lostEdits` and
`lostDeletes` at the step that drops it, so that the properties say exactly what
is *not* lost; what the server refused or died with the process is in
`rejected`, `lost`.

The server creates a message once per internal id (its request id), which is what
makes resending after a timeout harmless. A request that timed out has had its
effect before it fails; that it has it later still is not modelled.

### PostTimer

Time in ticks. The loop's decision to start a timer instead of posting depends on
the age of the entry's post time. It is apart from `MessageSending` because what
can go wrong is about periods, and the messages only need to exist.

### CurlMulti

The mutex of the queue is held across steps only by the posted handler
`add_task`. curl's socket and timer callbacks are one step, `FinishMulti`: some
transfer ends. The queue is a sequence: `Place` is the position before which the loop
of `add_task_to_queue` inserts, `Insert` and `Erased` are what is there afterwards, and
`raise_task` takes out the k-th and inserts it again. `unlucky`, `late`, `missed` record the
known defects at the step where they happen.

Once `stop` is set `timer_cb` does nothing (`curl_multi_handler.cpp:141`): a transfer then ends
only by an event of its socket, if the server sends one. `FinishMulti` may still happen, but
nothing says it must. A transfer without a socket may also leave `io_service.run` without work,
so that the thread goes with the transfer unfinished (`RunLeavesTransfers`). What cleanup's
`cancel_tasks` finds it completes in any case; a request queued behind it (`late`) may hold
`run`, and with it cleanup, for as long as its server is silent (`LateOneRuns`).

### CurlEasy

Where a request goes (`Lane`) and which request its completion performs (`Follow`) are
constants. `calling` are the requests whose caller has seen `stop_` unset and has not
locked anything yet. A loop's thread between its test and its wait is `pc = "toWait"`:
cleanup notifies without the mutex and can fall in that gap. A pool is `queue` and
`active`; `Pools` is the order in which cleanup destroys them, and while it joins one it
holds the mutex of the pointer. Three things can go wrong in the code, and are named
at the step where they do: `missed` (a thread that will sleep on), `late` (a request queued
for a loop that had ended), `crashed` (a pool used that was destroyed). `Deadlocked` is
a fourth: the completion function of a pool's request performs another one for the same
pool, and needs the mutex that cleanup holds until it returns.

### HistoryIndex and HistorySync

An index is a function from message ids to headers `[prev, patch, deleted]`; the
code's `-1` is `None`. A *hole* is a message whose `prev` is not the message
below it. `memory` is `headers_index_`; `file` is what loading the index file
would give, since every operation that appends to the file merges on load.

The core's continuations are explicit: a job for the archive's thread carries the
step that follows and what its lambda captured. An event is popped when its handling
begins (`dispatch_events`), and the next one when it is done. So `OnHoleState` compares a hole
found two hops ago with the state of now, as the code does. `RunPass` stands for
hops whose effect is elsewhere (pending messages) or seen by the user only; the
hop itself is kept because other conversations pass it.

The server is external: it numbers messages upwards, its events bring the last
message or only its id (`Tails`), it deletes messages by patches, clears up to an
id, or clears by a patch.

Two history variables name what the code is known to leave undone, at the step that does
it. `skipped`: a hole was left alone because its lower end had been deleted
(`wim_im.cpp:5300`) or because its request failed with an error that is not repeated (only those
of the network are remembered, `wim_im.cpp:5372`), or a search began at a message that is not in
the index (`archive_index.cpp:495`). `forgotten`: deletions the stored version of the patches claims to
have, while the header that would keep the message away is gone from the file or never got
there (`Forget`, in a drop, a deletion of an index that is not loaded, an answer with a
clear patch, and a crash).

### Storage, IndexFile and ContactFiles

A file is a sequence of words. A frame is the size of its payload, twice, the payload,
the size, twice; `Torn` are the prefixes a dying process leaves. `ReadAll` is the reader
of an index, which ends at the first damage; `FastRead` the search's, which looks for the
next place where a block starts. Both are recursive functions.

`ContactFiles` has the two files of a contact over it: `memory` maps an id to the position
in the file of messages at which its message was written, and every operation is cut at
every word by a `Crash...` action. `IndexFile` describes an index's file without its words:
the headers a reader finds, whether it ends in damage, and the block that was being
written when the process died, some of whose headers a later append may uncover. The
action property `IndexIsAFile` says that each write of `ContactFiles`, cut or not, is one of
`IndexFile`'s.

### Downloads

`progress` is `in_progress_`, by url; a download's loop is in one of `curl` (a request for a
chunk), `pushing` (a curl thread about to push to `suspended_tasks_`) or `suspended`. The
push and the core thread's walk over that queue are steps of their own since no mutex
orders them: `raced` records that they met, whose outcome is undefined. A file's words
carry their url and place, so that a wrong word is seen. `bad` marks a file in its place
whose temporary file had been `mixed` (two downloads with one temporary file) or `spoiled`:
words were appended behind others that were not counted (a chunk that broke off and was asked
for again), or a transfer that failed left words which do not continue the file, that is the
text of an error, or the beginning of the file from a server that ignores the range. The latter
matter when a later process or download counts the temporary file by its size
(`async_loader.cpp:619-632`). `Chosen` is the destination a caller may give (the code's
`_file_name`); `Accept` is the body of `download_file_sharing`, which a resumed request runs
again. Moving a file may fail after the last chunk and when the temporary file is found
complete.

## The runs

All properties are stated with a comment in the module.

| run | states | what it explores |
|---|---|---|
| `thread_pool` | 3 thousand | 2 workers, 3 closures, two with one id |
| `send_thread` | 326 thousand | 2 ordinary packets, 1 asynchronous, 1 session packet, 2 attempts each |
| `messages` | 6 million | 1 message edited and deleted with a crash; 2 messages with a crash; 2, the first deleted |
| `message_drain` | 213 thousand | 1 message, 1 deletion, 1 crash, liveness |
| `post_timer` | 1217 | 3 messages, period of 3 ticks, a punctual core thread |
| `post_timer_late` | until violated | a core thread late by more than a period |
| `curl_multi` | 321 thousand | 1 protocol and 2 ordinary requests, 1 handle, 1 control |
| `curl_easy` | 63 thousand | 1 request of either loop, 3 of two pools, one of them performed by another |
| `history` | 1.2 million | up to 4 missed messages, deletions, failures, crashes, an opening, liveness |
| `history_edge` | until violated | 3 messages, clearing, 1 opening |
| `contact_files` | 224 thousand | 2 blocks of up to 2 messages, 1 rewrite, 2 crashes at any word |
| `downloads` | 769 thousand | 2 requests for one file of 3 words, at most 2 a chunk, one with a chosen place, 1 for a file of the same name |

Deadlock is not checked anywhere: each of these systems stops when its bounded
clients have nothing left to do. Who must not wait for ever is said by the
liveness properties.

What they show:

- **thread_pool** `ExactlyOnce`, `WorkConserving`, `DrainedWhenDestroyed`: three
  closures are the fewest with which `raise_task` moves a closure past another
  while two workers pop. `EveryAcceptedTaskRuns`, `DestructorReturnsOrMissed`: the
  second states the exception in its goal; it fails without it.
- **send_thread** `NeverStranded`, `OneByOneInOrder`, `CanceledWasNeverSent`,
  `Implements`, `EveryPacketAnswered`. Two ordinary packets show order and exclusion, the
  asynchronous one the flag it does not set but clears when refused, the session
  packet a restart during `clear()`. Two attempts distinguish a retry from the last
  attempt.
- **messages, message_drain** `InsertsAreNew` (the assertion of `insert_message`),
  `CreatedOnceInOrder`, `NoMessageLost`, `NoEditLost`, `NoDeletionLost`, `LoopsRunOnce`;
  `EveryMessageSent`, `StoreDrains`. One message with an edit and a deletion has every
  interleaving of the commands with the two loops; two messages are needed for order,
  with a crash and with a deletion of the first.
- **post_timer** `NoTimerLeaks`, `PostedOnceAtATime`. Three messages are needed for the
  loop to be woken, started by a command and waiting at once. `MaxBacklog = 1` is the
  assumption that the core thread is punctual; `post_timer_late` drops it and violates
  `TimerIsFree`, the assertion in `post_pending_messages`.
- **curl_multi** `OnePlaceOneAnswer` (a request is in one place until it is completed,
  once), `CleanupCompletes`, `HigherPriorityFirst`, `EveryTaskCompleted`,
  `CleanupReturnsOrMissed`. One handle for two ordinary requests makes one of them wait for the
  limit; the protocol request is the one that is exempt from it. That the limit holds is the
  guard `HasRoom` itself, and no property says it again.
- **curl_easy** `InOnePlace`, `NothingLeftBehind`, `EveryRequestCompleted`,
  `CleanupReturnsOrMissed`. A pool of two threads with a request that is followed by another
  in the same pool, a pool of one, and both loops, with a cleanup at any moment.
- **history** `LinksSound`, `CompleteWhenOpened`, `NothingDeletedShown`, `EventuallyQuiet`. One
  message is stored; the server has up to four more: no hole, a hole closed by one page of
  two, one that needs two and ends in the middle of a page. Two patches, so that one can
  arrive before and one after the message they are about; clearing by id over a hole and
  over a request under way; a failed request, remembered or not; a death of the process; a deletion whose
  patch is asked for in vain, or cut off by a death of the process. `EventuallyQuiet`
  includes that the loop over the holes never reaches its safety limit (the code's 30000,
  here `MaxRecursion = 6`).
- **contact_files** `HeadersHaveData`, `RepairedWhenLoaded`, `SearchFinds`, `IndexIsAFile`. Two
  crashes are needed for a block that is appended behind damage and is itself cut. Messages
  of one word and blocks of at most two let an index that is rewritten have several blocks.
- **downloads** `OneLoopOneAnswer`, `FileIsWhole`, `EveryRequestTold`. Two requests for one url
  show joining, a full chunk and a rest a loop that fails in the middle and goes on, the other
  file of the same name the choice of a place, and the chosen place a file that is not where
  the code would put it.

Most bounds are a budget, a record chosen in the initial state from the set `Budgets` of
the `MC` module: how many messages, edits, deletions, failures, cancellations, openings
and crashes may still happen. Each set holds the combinations in which the events can
disturb each other, since all of them at once are beyond TLC. The other bounds are
CONSTANTS: `MaxControls` (`CurlMulti`), `MaxUpdates`, `MaxRewrites`, `MaxCrashes` (`ContactFiles`),
`MaxTimers` and `MaxBacklog`, which bound the scheduler. Budgets and bounds sit in guards of
users, of the network and of the crash, never in a step of the code.

### What a property leaves open

- `OnePlaceOneAnswer`, `CleanupCompletes`, `NothingLeftBehind`, `CleanupReturnsOrMissed` and the
  other properties of the two handlers name the defects listed
  [below](#what-the-code-does-that-it-should-not) as exceptions: `unlucky`, `late`,
  `missed`, `Deadlocked`, `crashed`.
- `CompleteWhenOpened` is about the messages below the newest one in the index. An
  answer to a request for a hole stores the server's last id, so an event that
  only tells that id afterwards finds nothing new, and the newest message is asked
  for with the next one. A hole whose lower end was cleared meanwhile is dropped as
  obsolete (`skipped`) and stays until the next search.
- `CompleteWhenOpened` is also silent about a search that began at a message which is not in
  the index (`Astray`), while a failed request is remembered, and once one has failed with an
  error that is not repeated: `download_holes` then ends, and forgets the hole (`skipped`).
- `EveryTaskCompleted` and `CleanupReturnsOrMissed` of the multi handler except a run in which a
  request queued behind the last `cancel_tasks` is running for ever (`LateOneRuns`).
- `NothingDeletedShown` is about what the stored state knows: a client whose request of patches
  failed has an older version, and asks again with the next event or opening. It excepts
  the message of id `del_up_to` (see below) and the deletions in `forgotten`. With an
  empty dialog a late answer can put back a last id of none, for which
  `on_event_dlg_state` does not compare versions.
- `FileIsWhole` excepts files marked `bad`: the temporary file had words appended behind
  uncounted ones, or words of a failed transfer that do not continue the file and were counted
  by a later process or download, or was written by two downloads. `OneLoopOneAnswer` and `EveryRequestTold` a run in
  which `raced` is set.
- `HistorySync` takes its file to be intact; what a torn write leaves is in `ContactFiles`, where
  `RepairedWhenLoaded` says that after the first load the file is intact again.

## Fairness

- A thread that has something to run runs it (`WF` on `CoreStep`, `HandleCommand`,
  `HandleResult`, `ArchiveStep`, `Service`, `LoopStep`, `PoolTakes`, jobs): the operating
  system schedules threads, and each of them is a loop over its queue.
- `HistorySync` and `Downloads` state one `WF` for all their threads and the answers of the
  server together. Every other step of theirs is bounded by the budget, so that in the
  end only these steps are left, and each of the queues empties: fairness to all
  together is then fairness to each.
- `CurlEasy`: a caller that passed the test of `stop_` gets the mutex it waits for (`SF` on
  `AddTask`, since others take it again and again), a transfer ends (`WF` on `Finish`: curl
  has timeouts, and its progress function stops a transfer once `stop_` is set), and
  cleanup goes on once it began.
- `ThreadPool` needs `SF` for a worker's step: the mutex is taken by others again and
  again. A mutex that starves a thread for ever is excluded.
- A request ends (`WF` on `CompleteAsync`, `ServerAnswers`): every request has a
  timeout in `http_request.cpp`.
- `CurlMulti`: a transfer ends as long as `stop` is not set (`SF` on
  `~stop /\ FinishMulti`, since the posted handlers take turns with curl's callbacks): each
  has a timeout, which `timer_cb` tells curl about. After `stop` it does not, and nothing is
  assumed of a transfer, nor of the return of `io_service.run` while one is left.
- A network that works now and then (`SF` on `ServerHandles`, `OnSent`,
  `ServerDeletes`, `OnDeleted`): a request that is repeated
  for ever succeeds sometimes. Nothing is sent otherwise, by any program.
  `StampPostTime` is `SF` since edits may replace the entry meanwhile.
- After an error the loops start again at the next successful poll (`WF` on
  `Resume`, `DownloadFailedHoles` as part of `RunCore`, `Resuming`): the poll is a loop of
  its own.

No fairness is assumed of the user, of failures, of crashes, of spurious wake-ups,
nor of a reset or a cleanup.

## The proofs

`tlapm` checks these for all values of the constants.

`ThreadPoolProofs`, from `WorkersAssumption` (finitely many workers, at least one)
and `NoTaskAssumption`:

- `TypeCorrect`: `TypeOK`, inductive together with `RunningHasTask`.
- `AcceptedExactlyOnce`: `ExactlyOnce`, which is inductive given the types. Its hard
  step is `raise_task`; the lemmas `RaisedFacts` and `RaisedSet` say that moving
  the k-th closure to the front is a permutation.
- `DestructorDrains`: from the discipline that a worker has left only if `stop_` is
  set and the queue is empty, and that nothing is queued after `stop_`.
- `NoPushWakeupLost`: `WorkConserving`. The invariant counts: queued closures are at most
  awake workers plus owed notifications, if anyone waits. It needs that at most
  one worker is about to block, and while one is, the mutex is taken and the
  deque does not change.

`SendThreadProofs`, from `PacketsAssumption` and `RepeatCountAssumption`:

- `SendInvariant`: `SendInv`, four parts. `Typed`. `Placed`: every packet that was
  posted and not answered is in at most one of the queue, the jobs, the air and the
  inbox, and nothing else is there. `History`: what the counters say of the packets
  that were never posted, sent or cancelled. `Served`: while the queue is not
  empty, either the flag is set and a job or result will clear it, or the agenda
  still contains `next`; and an agenda that releases the flag ends with `next`. Neither
  `TypeOK` (an execution needs room in the count of repetitions) nor any of the
  three below is inductive alone.
- `TypeCorrect`, `QueueServed` (`NeverStranded`), `CanceledNeverSent`
  (`CanceledWasNeverSent`) follow from it.
- `AnswersOnce` (`Implements`): initial states map to initial states, and every step
  to a step of `OneAnswer` or a stutter; that the second answer does not exist
  follows from `Placed`.

- `SentOneByOne` (`OneByOneInOrder`), of two invariants. `CountInv` counts what the flag is
  good for: the ordinary packets in flight, and one more while a closure has yet to clear
  the flag, are covered by the flag and by the asynchronous packets that were refused; a
  closure clears the flag once, and no packet is refused twice because it was answered.
  `OrderInv` is about every place a packet passes: what was started, the jobs that will
  send theirs for the first time, and the queue follow the order of the posts, with an
  exception for a queue that is being cleared. A packet overtakes the queue only when the flag
  is clear, so the queue must be empty then: outside closures this is `Served`, at `session`
  the queue was just cleared, and at `next` (`Ready`, which `Grammar` says is preceded by
  `release` or `session`) the flag is clear or the queue holds at most the packet that is
  taken and queued again.

`MessageSendingProofs`, from `BoundsAssumption`, for any number of messages, edits, deletions,
failures and crashes; its three invariants are defined in `MessageSendingInvariants`:

- `InvariantHolds`: `IInv`, whose five parts lean on each other. `Line`: the internal ids in
  the store, in the jobs that insert and in the GUI's commands form one line, without
  repetition and with the first versions in the order of typing; a command handled, a job
  executed and an entry confirmed only move a key along it or take it out, and nothing is
  ever put back, `OnAccepted`'s copy included. `HeldOK`: the entry the send loop holds, if it
  is a first version, is the oldest of the line, and stays in it until the server has the
  message; therefore an entry the server refused is removed before the loop takes the next
  one (`RemovedBeforeNext`), and what confirms names a created message. `OrderOK`: the
  server's messages are sorted, all older than those only in the line, and a message in
  neither was given up. `LoopsOK`: as in `LoopsRunOnce`, and a timer's function waits once at
  most. `TypesOK` carries two facts the others need: only an entry of a created message has a
  message id, and only one with a message id has a request id other than its message's, so
  that the server never takes a repetition for a new message.
- `NothingIsOverwritten` (`InsertsAreNew`) and `TypedMessagesWait` (`NoMessageLost`) are read off
  the line, `SentOnceInOrder` (`CreatedOnceInOrder`) off `OrderOK`, and
  `LoopsNeitherStickNorDouble` (`LoopsRunOnce`) off `LoopsOK`, as sums over the queues.
- `IdsAreTold`: `DInv`, a second layer that is inductive once `IInv` holds. `IdsOK`: an id is the
  server's number of the message it is kept with, in the GUI, a command, a job, a result, an
  entry, a request or the list of deletions. `DeletionsOK`: what the delete loop takes off the
  list was deleted by the server, or refused; and every message the user deleted is carried by
  one of the queues, marked on its entry or in the list, or was given up. What the store's
  operations do to the entries is stated once, by `Rewrites`: an entry stays in its place, or
  is turned (it learns its id, is marked, becomes an edit), or is let go, and one that was
  deleted is let go only into the list of deletions, under the id of its own message.
- `DeletionsAreCarried` (`NoDeletionLost`) follows.
- `EditsStayInLine`: `EInv`, a third layer, inductive once `IInv` and `DInv` hold, which follows
  the copies of an entry of every message of which nothing was given up. The versions of the
  message that are on their way (its wishes: in a command, a job or the store) form a line of
  their own in the order of typing, for which the lemmas about `Line` are used again, with
  `<<v, 1>>` as the key of version v. No wish is older than the server's text (`Floor`) nor than
  the copy the loop holds (`HeldSound`), so neither a late confirmation nor the copy that
  `OnAccepted` writes back puts an old text over a new one; an edit with an entry of its own is
  newer than every one that replaces a pending entry (`Ripe`), since the user interface never
  forgets an id it was told; a confirmation carries the version the server had
  (`ConfirmSound`), so what it removes is not newer.
- `EditsAreCarried` (`NoEditLost`) follows: the last version typed is a wish or the
  server's text, and the only edits that can be lost are those at the places the model names
  (`lostEdits`).

`CurlMultiProofs`, from `TasksAssumption`, `PriorityAssumption` and `LimitsAssumption`:

- `TypeCorrect`, with what the service thread holds between the two critical sections of
  `add_task`.
- `StartedByPriority` (`HigherPriorityFirst`): the queue is sorted. The lemma `PlaceFacts` shows
  that the insertion loop finds a place, by the least element of a set of naturals, and
  `Insert` and `Erased` keep a sorted queue sorted.
- `CompletedOnce` (`OnePlaceOneAnswer`): not inductive alone, since an answer must not be
  given twice; `Placed` adds that the place of a request determines how many answers it
  has (`Counted`).
- `NothingLeft` (`CleanupCompletes`): `Emptied` says that once cleanup has begun a last
  `cancel_tasks` is still posted, or only late requests remain.

`CurlEasyProofs`, from `TasksAssumption`, `PoolsAssumption` (there is a pool, and no pool is a
loop) and `ChainAssumption` (no two requests are followed by the same one):

- `TypeCorrect`.
- `CompletedOnce` (`InOnePlace`): `Placed` is `InOnePlace` with `Fresh`: a follow-up is new to the
  handler until the completion function of the request before it performs it.
- `CleanupLeavesNothing` (`NothingLeftBehind`): `Emptied` says of every lane which cleanup has
  passed that its queue is empty or holds late requests only, and nothing runs in it.

`HistorySyncProofs`, from nothing but the shape of the answers:

- `SameAfterRestart` (`FileFollowsMemory`): while the index of a dialog is loaded, its file
  holds the same headers. This is not inductive: blocks arrive before the index is loaded,
  when memory and file differ. The invariant `Follows` says that the file *absorbs* the memory,
  that is, merging a header of the memory into the file's changes nothing. The lemmas on
  `MergeWith` carry it: a merge is idempotent, news that are merged into both sides keep the
  one absorbed by the other (`AbsorbedNews`), and `InsertKeeps` puts them together for what
  `insert_block` leaves in a block and `save_block` appends. `Carried` says that every block in a
  job, a result or a captured variable on its way to the archive is an index.
- `HolesAreSeen` (`LinksSound`): a link of the index is true of the server when it was sent,
  and has to stay so while blocks wait and the server deletes. `LInv` says of the memory, of
  the file that a message's link skips no live message of the server but such as the index
  keeps itself (`Linked`); of every block on its way that its links skip none; of an answer that says there is
  nothing older, that it has all there is below the message it was asked from; and of a
  clear patch on its way, that the server has deleted up to it. That holds on, because the server
  only goes on: what it has not deleted and is not new, it had.
- `DeletionsStay` (`NothingDeletedShown`): the property speaks of the end of an exchange, the
  invariant `GInv` of every moment of it. Its heart is `Claims`: who has a version of the
  server's log has heard of no deletion that is not in `Covering`, that is, marked on a
  header of the file, in a block of patches on its way to the index, at most `del_up_to`, or
  `forgotten`. It holds of the stored state, of every request (the version it asks with),
  of every job and result that carries a state, and of an answer together with its own
  patches; those enter `OnTheWay` in the very step that posts the new version
  (`OnHistory`), and leave it only when `RunUpdate` has marked their headers. So the order
  "state first, patches later" is safe as long as nothing dies or is dropped in between, and
  the four steps that call `Forget` are all there are. `Swept` adds that a loaded index which
  has messages below `del_up_to` has a deletion of them coming, promised by a callback or
  queued as a job, and `IsFit` that a header which waits for its message (a patch) is one of
  a deleted message. When all is handled, nothing is on its way and nothing is promised,
  and what remains is the property.

`PostTimerProofs`, from `Punctual` (`MaxBacklog = 1`: a timer's function is handled before the
next period is over, without which `post_timer_late` refutes what is proved here):

- `TimersAreStopped` (`NoTimerLeaks`), `OneLoopPosts` (`PostedOnceAtATime`): an active loop is
  exactly one of a call that waits for either thread, a request under way, or a timer
  (`OneLoop`, a sum of counts); that timer is the only one, and its function waits once at most
  (`FiredOnce`), so that the function which restarts the loop without looking at its flag finds
  nothing else of it. The lemmas `AppendFacts` and `TailFacts` count calls in queues.

`DownloadsProofs`, from `UrlsAssumption` (urls are not requests):

- `OneLoopAndOneAnswer` (`OneLoopOneAnswer`): not inductive, since it says nothing of a process
  that has been through the race, and counts instead of saying where things are. `Placed`
  states it as sets: the loops of the downloads lie in three disjoint ones (asking curl,
  about to be pushed, queued), a request that was not answered in one of its meta data, the
  queue and the handlers of the download of its url. Without the race nothing is missing
  from them; with it something may be, but nothing is ever there twice, which is why the
  handler is called at most once even then. The lemmas `...Placed` say what each kind of
  move does to it, `CountFacts` turns it back into counts.
- `MovedFilesAreWhole` (`FileIsWhole`): what is in a file is a sequence of words, and words of
  one url only, no more than the file has, are its beginning (the only order a server gives
  them in; the lemma `PartWords`). `FInv` says so of the temporary file of every download whose
  file was not spoilt, and that the file of a running request holds exactly the words that are
  counted, those of an answer that has come included; the next range therefore begins where the
  file ends. What is excepted is what `spoiled` and `mixed` name.

Model-checked only: every liveness property (fairness and ENABLED are outside the prover);
`CompleteWhenOpened` of `HistorySync`, which is false
for some constants, since a dialog with more holes than the safety limit of the loop stays
incomplete; and all of `ContactFiles`, which reads its files by recursive functions, whose values
for every file would need induction over data. No module uses RECURSIVE.

## What the code does that it should not

Two are runs that end in a violation:

- `post_timer_late`: `post_pending_messages` asserts that no timer runs when it
  starts one (`wim_im.cpp:2976`). A core thread late by more than a period of one
  second runs the function of one timer twice, which starts a second loop; its
  answer starts a timer while the first one's runs. Without assertions the first
  id is overwritten, and its timer fires for ever.
- `history_edge`: history cleared up to the oldest stored message while the index
  is not loaded leaves that message, which is then shown
  (`contact_archive.cpp:409` compares with `>`, and 262 calls it obsolete).

Others are exceptions written into the properties, or were met while modelling:

- the destructor of the pool, and `cleanup` of the multi handler, notify once and
  without the mutex; a thread about to wait sleeps on (`threadpool.cpp:155`,
  `curl_multi_handler.cpp:413`);
- once `stop` is set `timer_cb` does nothing (`curl_multi_handler.cpp:141`), so that no timeout
  ends a transfer any more: a request that is queued behind the last `cancel_tasks` and whose
  server is silent keeps `io_service.run` from returning, and `cleanup` from joining the thread;
- the service thread waits without looking at its queue
  (`curl_multi_handler.cpp:401`); requests over the limit wait for the next push;
- an asynchronous packet refused by the rate limit clears a flag it never set
  (`wim_im.cpp:338`), which lets a second packet through;
- an edit or a deletion that finds its pending entry just confirmed is dropped
  (`wim_im.cpp:7076`, `:7765`), as is a deletion the server answers with any
  error that is not a network error (`:3076`);
- a copy of an entry that was sent overwrites a later edit (`:7441`);
- `clear_last_message_in_dlg_state` stores the state it read, over what was stored
  in between; the clearing of the last id in `delete_messages_up_to` has no
  effect, since `merge_state` sees nothing new;
- the branch of `get_history_from_server` for a clear patch answers nobody
  (`wim_im.cpp:4717-4734`): `OnDropped` starts the search again only if the dialog
  is open. Nor are the other patches of the answer applied, though the version that counts
  them is stored already; and the drop is posted at once, while the messages and patches of an
  older answer are still two hops from the index (`forgotten`);
- the version of the patches is stored before the patches are applied
  (`wim_im.cpp:4709`, `:4744`): a process that dies in between never asks for them again,
  and the deleted messages are shown until the history is cleared (`forgotten`);
- `delete_messages_up_to` on an index that is not loaded writes the empty index over the file
  (`contact_archive.cpp:486`): marks of deleted messages above `del_up_to` go with it, and a
  late event that carries such a message brings it back (`forgotten`);
- a search for holes that starts at a message which is in the stored state and not in the
  index yet finds nothing and ends (`archive_index.cpp:495` asserts that it is there): the
  hole stays until the next search (`skipped`);
- `download_holes` remembers a failed request for a hole only after an error of the network
  (`wim_im.cpp:5372`); after any other one, the server's or one in the answer's format, its loop
  ends and the open dialog stays incomplete until something starts the next search (`skipped`);
- `cleanup` of the easy handler notifies the fetch and the protocol thread without their
  mutexes (`curl_easy_handler.cpp:98`), so that one which is about to wait sleeps on, and
  cleanup never joins it;
- the easy handler tests `stop_` before it locks anything (`curl_easy_handler.cpp:122`): a
  request may be queued after its loop has ended, and is never completed, or for a pool
  whose pointer cleanup has reset;
- cleanup holds the mutex of a pool while it destroys it (`curl_easy_handler.cpp:86`); a
  completion function that performs the next request for that pool waits for the mutex on
  the thread cleanup waits for: `async_loader` asks for the next chunk that way;
- `suspended_tasks_` of the loader is used by the core thread and by curl's threads without a
  mutex (`async_loader.cpp:892`);
- a chunk that breaks off has written its beginning to the temporary file; asked for again
  in the same process it is appended behind it (`async_loader.cpp:834`);
- a transfer that fails may leave words in the temporary file that do not continue it: the text
  of an error, or, from a server that ignores the range, the beginning of the file. A later
  process counts them by the size of the file, and moves it when the size is right
  (`async_loader.cpp:619-632`);
- a request for a url in progress joins its download, whose file is then not in the place the
  caller chose (`async_loader.cpp:437`, `:640`);
- two downloads of files of one name can choose the same place, and write one temporary
  file (`async_loader.cpp:619`);
- `insert_history_block` asserts that an obsolete message is a patch
  (`contact_archive.cpp:268`), which an answer under way when history is cleared
  refutes; `get_next_hole` asserts that its message is in the index
  (`archive_index.cpp:495`), which a dialog closed in between refutes as well;
- `download_holes` admits a page size of one (`wim_im.cpp:5324`), for which
  `validate_hole_request` does not pass a hole that cannot be closed: with
  `PageSize = 1` and a deletion, the loop runs to its limit. The page size of the program
  is larger, and so is that of the runs.

## Not modelled

Data and input/output without a protocol of its own: assembly and parsing of
requests, TLV and JSON, settings, logins, stickers, themes, the updater, disk
caches, statistics, the remote configuration, the installer. VoIP is a facade over a
closed library. The user interface appears as the commands it sends.

Components with steps of their own that are left out, and why:

- the poll loop (`fetch.cpp`, `start_session.cpp`) posts one request after the other; its
  effects are in `SendThread` (restart of the session), `MessageSending`, `HistorySync` and
  `Downloads` (what a successful poll starts again);
- uploads ask for one part after the other and resume behind the last one answered; a part
  that breaks off is sent again whole, so that they lack what makes `Downloads` hard;
- the avatar loader is a queue with one request at a time, over images that are asked
  for again at will;
- the gallery keeps its own list of holes, over data that is asked for again;
- the contact list, the active dialogs, favourites and mailboxes merge what the server
  sends into data the user sees;
- the asynchronous executer is a thread pool and the hop back to the core thread: it appears
  as the queues between the threads, in every module.

Of the modelled components: in history, `optimize`, the modified and updated flags, intro
messages, the text search above `FastRead`, requests for updated messages, prefetch; in
sending, file sharing entries, several contacts, the statistics, torn writes of the store of
pending operations; in the request queue, which of the server's codes gives which outcome;
in downloads, previews and images, whose handlers differ only in what they are told. A
contact is modelled alone, because nothing in these components relates two contacts but
the order of the loop over them.

Larger instances than those of the runs (two edits of two messages with a crash, three
pages of holes with deletions, a third url) exceed what TLC explores in minutes; the theorems
cover every size for the components they are about.
