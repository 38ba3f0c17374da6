---------------------------- MODULE HistorySync ----------------------------
(***************************************************************************)
(* How the stored history of one contact follows the server's: the events  *)
(* about the state of the dialog, the requests of history and the loop     *)
(* that closes the holes (core/connections/wim/wim_im.cpp), over the       *)
(* archive of the contact (contact_archive.cpp, archive_index.cpp,         *)
(* dlg_state.cpp), which lives on a thread of its own.                     *)
(*                                                                         *)
(* The core thread reads and writes the archive by jobs and goes on with   *)
(* their results; a result carries what the callback captured.  Events,    *)
(* answers and loops fall between any two of those steps.  The server is   *)
(* external: it numbers messages upwards, deletes single messages (a patch *)
(* of its log), clears up to an id (delUpTo) or clears by a patch.         *)
(***************************************************************************)
EXTENDS HistoryIndex, Sequences

CONSTANTS Stored,       \* messages the archive holds at the start
          Tails,        \* how many messages an event may bring
          PageSize,     \* history_request_page_size
          MaxRecursion, \* the safety limit of the loop
          Budgets       \* bounds: the messages the server has at the start, and
                        \* how many are written later, are deleted, how often
                        \* history is cleared by a patch and up to a message, the
                        \* user opens and closes the dialog, requests fail and the
                        \* process dies

ASSUME HistoryAssumption ==
    /\ Stored \in Nat /\ Tails \subseteq Nat
    /\ PageSize \in Nat \ {0} /\ MaxRecursion \in Nat
    /\ \A b \in Budgets :
          /\ {b.existing, b.news, b.deletes, b.clears, b.upTo, b.opens, b.closes,
              b.failures, b.crashes} \subseteq Nat
          /\ Stored <= b.existing

VARIABLES
    server,     \* messages, deleted ones, cleared up to, log of patches
    fetched,    \* events the poll has brought, not yet popped
    handling,   \* the handling of an event is under way
    requests,   \* history requests, first the one in the network
    answer,     \* the server's answer to it, not yet arrived
    memory,     \* headers_index_
    file,       \* what loading the index file would give
    loaded,     \* local_loaded_
    state,      \* archive_state, saved with every change
    jobs,       \* closures queued for the archive's thread
    results,    \* results queued for the core thread
    opened,     \* the contact is in opened_dialogs_
    failed,     \* the contact's entry of failed_holes_requests_
    skipped,    \* history: a hole was left alone because its lower end was deleted
                \* or its request failed with an error that is not repeated, or a
                \* search began at a message that is not in the index
    forgotten,  \* history: deletions the state knows of and the file has lost
    budget      \* what of the bounds is left

network == <<server, fetched, requests, answer>>
archive == <<memory, file, loaded, state>>
threads == <<jobs, results>>
observed == <<skipped, forgotten>>
vars == <<network, handling, archive, threads, opened, failed, observed, budget>>

-----------------------------------------------------------------------------
(* The server. *)

\* The messages that are not deleted.
Live == {i \in 1..server.last : i > server.delUpTo /\ i \notin server.gone}

Version == Len(server.log) + 1
Newest(S) == IF S = {} THEN None ELSE Highest(S)

\* The n highest of a set.
Top(S, n) == {i \in S : Cardinality({j \in S : i <= j}) <= n}

\* Messages as the server sends them, each linked to the one before it.
Messages(S) ==
    [i \in S |-> Header(Newest({j \in Live : j < i}), FALSE, FALSE)]

\* A dlg_state event with the last n messages.
Snapshot(n) ==
    [last |-> Newest(Live), version |-> Version, delUpTo |-> server.delUpTo,
     tail |-> Messages(Top(Live, n))]

Spend(what) == budget[what] > 0 /\ budget' = [budget EXCEPT ![what] = @ - 1]

Announce(n) == fetched' = Append(fetched, Snapshot(n)')

ServerChanges ==
    UNCHANGED <<handling, requests, answer, archive, threads, opened, failed, observed>>

\* A new message; its event brings it alone or brings nothing but its id.
NewMessage ==
    /\ Spend("news")
    /\ server' = [server EXCEPT !.last = @ + 1]
    /\ \E n \in Tails : Announce(n)
    /\ ServerChanges

Log(kind, id) == Append(server.log, [kind |-> kind, id |-> id])

DeleteMessage ==
    /\ Spend("deletes")
    /\ \E i \in Live :
         server' = [server EXCEPT !.gone = @ \cup {i}, !.log = Log("delete", i)]
    /\ Announce(0)
    /\ ServerChanges

\* History cleared up to a message, on another device or by this one.
ClearUpTo ==
    /\ Spend("upTo")
    /\ \E i \in Live : server' = [server EXCEPT !.delUpTo = i]
    /\ Announce(0)
    /\ ServerChanges

\* History cleared by a patch, which also moves delUpTo.
ClearByPatch ==
    /\ Live # {} /\ Spend("clears")
    /\ server' = [server EXCEPT !.delUpTo = Highest(Live),
                                !.log = Log("clear", Highest(Live))]
    /\ Announce(0)
    /\ ServerChanges

Patches(kind, since) ==
    {server.log[i].id : i \in {j \in since..Len(server.log) : server.log[j].kind = kind}}

\* What getHistory answers: the newest messages between till and from, patches
\* since the version the client has ("init", here 0, means all of them), and
\* whether there are older messages (olderMsgId).
Answer(r) ==
    LET range == {i \in Live : (r.from = None \/ i < r.from) /\ i > r.till}
        page == Top(range, r.count)
        since == IF r.version = 0 THEN 1 ELSE r.version
        below == {i \in Live : IF page = {} THEN r.from = None \/ i < r.from
                               ELSE i < Lowest(page)}
    IN [messages |-> Messages(page),
        patches  |-> [i \in Patches("delete", since) |-> Header(None, TRUE, TRUE)],
        clear    |-> Patches("clear", since) # {},
        older    |-> below # {},
        last     |-> Newest(Live),
        version  |-> Version]

NoAnswer == [version |-> 0]

ServerAnswers ==
    /\ requests # <<>> /\ answer = NoAnswer
    /\ answer' = Answer(Head(requests))
    /\ UNCHANGED <<server, fetched, handling, requests, archive, threads, opened,
                   failed, observed, budget>>

-----------------------------------------------------------------------------
(* Jobs and results.  A job names what is to be done and the step of the   *)
(* core thread that follows it; Nothing follows a job nobody waits for.    *)

Nothing == [step |-> "nothing"]
Job(op, arg, then) == [op |-> op, arg |-> arg, then |-> then]
Post(job) == jobs' = Append(jobs, job)

Then(step) == [step |-> step]

TakeResult(step) ==
    /\ results # <<>> /\ Head(results).then.step = step
    /\ results' = Tail(results)

Result == Head(results).value
Captured == Head(results).then

TakeJob(op) ==
    /\ jobs # <<>> /\ Head(jobs).op = op
    /\ jobs' = Tail(jobs)

Arg == Head(jobs).arg

Return(value) ==
    results' = IF Head(jobs).then = Nothing THEN results
               ELSE Append(results, [then |-> Head(jobs).then, value |-> value])

\* The core thread waits for a job of the archive without another effect.
Hop(step, next) ==
    /\ TakeResult(step)
    /\ Post(Job("pass", 0, [Captured EXCEPT !.step = next]))
    /\ UNCHANGED <<network, handling, archive, opened, failed, observed, budget>>

JobChanges == UNCHANGED <<network, handling, opened, failed, budget>>
JobOnly == JobChanges /\ UNCHANGED observed
CoreChanges == UNCHANGED <<server, fetched, answer, archive, budget>>
CoreOnly == CoreChanges /\ UNCHANGED observed

-----------------------------------------------------------------------------
(* The archive's thread. *)

\* archive_state::set_state.  The incoming state is an event's, which knows the
\* server's patch version and delUpTo, or a history answer's, whose version is
\* the one that is stored.
MergeState(new) ==
    LET newPatches == new.history # 0 /\ new.history # state.version
        moved == new.dialog # 0 /\ state.version < new.dialog
        cleared == new.delUpTo > state.delUpTo
    IN IF ~newPatches /\ new.last = None /\ new.delUpTo \in {None, state.delUpTo}
       THEN state
       ELSE IF /\ ~newPatches /\ ~moved
               /\ new.last # None /\ new.last < state.last
       THEN state
       ELSE IF cleared /\ state.last = new.delUpTo
       THEN [state EXCEPT !.delUpTo = new.delUpTo]
       ELSE [last    |-> new.last,
             version |-> IF newPatches THEN new.history ELSE state.version,
             delUpTo |-> IF cleared THEN new.delUpTo ELSE state.delUpTo]

RunGetState ==
    /\ TakeJob("getState")
    /\ Return(state)
    /\ UNCHANGED archive /\ JobOnly

RunSetState ==
    /\ TakeJob("setState")
    /\ state' = MergeState(Arg)
    /\ Return(state')
    /\ UNCHANGED <<memory, file, loaded>> /\ JobOnly

\* Jobs on messages that are not sent yet, whose effect is in PendingOperations,
\* updates with the intro messages of an event, which are left out, and reads
\* whose value goes to the user only.
RunPass ==
    /\ TakeJob("pass")
    /\ Return(0)
    /\ UNCHANGED archive /\ JobOnly

\* Mutant: an empty block ends the list whether or not older messages exist.
MutantClosing(index, from, older) ==
    IF from \in Kept(index)
    THEN [i \in {from} |-> [index[from] EXCEPT !.prev = None]] ELSE EmptyIndex

\* insert_history_block has nothing to insert: when the server has no older
\* messages, the message the request started from becomes the first one.
Closing(index, from, older) ==
    IF ~older /\ from \in Kept(index)
    THEN [i \in {from} |-> [index[from] EXCEPT !.prev = None]] ELSE EmptyIndex

\* insert_history_block: to the index in memory and to the end of its file.
RunUpdate ==
    /\ TakeJob("update")
    /\ LET found == Accepted(memory, state.delUpTo, Arg.messages)
           patches == Accepted(memory, state.delUpTo, Arg.patches)
           messages == IF DOMAIN found \cup DOMAIN patches = {}
                       THEN Closing(memory, Arg.from, Arg.older) ELSE found
           between == InsertBlock(memory, messages)
       IN /\ memory' = InsertBlock(between, patches)
          /\ file' = InsertBlock(InsertBlock(file, SavedBlock(memory, messages)),
                                 SavedBlock(between, patches))
    /\ Return(0)
    /\ UNCHANGED <<loaded, state>> /\ JobOnly

\* Headers of deleted messages keep these from coming back with a block that is
\* under way, unless the file loses them.
Flagged(index) == {i \in DOMAIN index : index[i].deleted}
Forget(ids) == forgotten' = forgotten \cup {i \in ids : i > state.delUpTo}

RunDrop ==
    /\ TakeJob("drop")
    /\ memory' = EmptyIndex /\ file' = EmptyIndex
    /\ Forget(Flagged(file))
    /\ Return(0)
    /\ UNCHANGED <<loaded, state, skipped>> /\ JobChanges

\* get_next_hole finds nothing below a message that is not there, which it asserts
\* does not happen.
Astray(from) ==
    DOMAIN memory # {} /\ from \in 0..Highest(DOMAIN memory) /\ from \notin DOMAIN memory

RunNextHole ==
    /\ TakeJob("nextHole")
    /\ Return(NextHole(memory, Arg.from, Arg.depth))
    /\ skipped' = (skipped \/ Astray(Arg.from))
    /\ UNCHANGED <<archive, forgotten>> /\ JobChanges

RunValidate ==
    /\ TakeJob("validate")
    /\ Return(ValidateHoleRequest(memory, Arg, PageSize))
    /\ UNCHANGED archive /\ JobOnly

\* contact_archive::delete_messages_up_to.  It also clears the last message of
\* the state, which merge_state refuses because nothing else is new.
RunDeleteUpTo ==
    /\ TakeJob("deleteUpTo")
    /\ memory' = DeleteUpTo(memory, Arg)
    /\ file' = IF DeletesFromFile(memory, Arg) THEN memory' ELSE file
    /\ Forget(Flagged(file) \ Flagged(file'))
    /\ Return(0)
    /\ UNCHANGED <<loaded, state, skipped>> /\ JobChanges

\* The index after load_from_local: what was stored, and over it what has come
\* since.  What is deleted is removed, if the oldest message is older than it.
Loading == InsertBlock(file, memory)
LoadDeletes == DOMAIN Loading # {} /\ state.delUpTo > Lowest(DOMAIN Loading)
Load == IF loaded THEN memory
        ELSE IF LoadDeletes THEN DeleteUpTo(Loading, state.delUpTo) ELSE Loading

RunGetMessages ==
    /\ TakeJob("getMessages")
    /\ memory' = Load /\ loaded' = TRUE
    /\ file' = IF ~loaded /\ LoadDeletes THEN Load ELSE file
    /\ Return(0)
    /\ UNCHANGED state /\ JobOnly

RunFree ==
    /\ TakeJob("free")
    /\ memory' = EmptyIndex /\ loaded' = FALSE
    /\ Return(0)
    /\ UNCHANGED <<file, state>> /\ JobOnly

RunArchive ==
    \/ RunGetState \/ RunSetState \/ RunPass \/ RunUpdate \/ RunDrop \/ RunNextHole
    \/ RunValidate \/ RunDeleteUpTo \/ RunGetMessages \/ RunFree

-----------------------------------------------------------------------------
(* Requests of history (get_history_from_server).                          *)

Request(from, till, count, version, then) ==
    [from |-> from, till |-> till, count |-> count, version |-> version,
     then |-> then]

AskHistory(request) == requests' = Append(requests, request)

\* download_holes for a contact: from the last message of the stored state.
DownloadHoles == Post(Job("getState", 0, Then("holesFrom")))

GetNextHole(from, depth, recursion) ==
    Post(Job("nextHole", [from |-> from, depth |-> depth],
             [step |-> "hole", from |-> from, depth |-> depth,
              recursion |-> recursion]))

\* What the caller of get_history_from_server does when it succeeded.
Succeeded(then) ==
    CASE then.step = "holeAnswered" ->
            Post(Job("validate", then.hole,
                     [step |-> "validated", depth |-> then.tail,
                      recursion |-> then.recursion]))
      [] then.step = "opened" -> DownloadHoles
      [] OTHER -> UNCHANGED jobs

\* The answer arrives; its state is stored before its messages.  The code first
\* reads the state for fields that are left out here.
OnHistory ==
    /\ requests # <<>> /\ answer # NoAnswer
    /\ requests' = Tail(requests) /\ answer' = NoAnswer
    /\ Post(Job("setState",
                [last |-> answer.last, history |-> answer.version, dialog |-> 0,
                 delUpTo |-> None],
                [step |-> "stateStored", request |-> Head(requests),
                 answer |-> answer]))
    /\ UNCHANGED <<server, fetched, handling, archive, results, opened, failed, observed,
                   budget>>

NoRequest == [from |-> 0, depth |-> 0, recursion |-> 0]

\* Mutant: a request that failed is forgotten.
MutantAddFailed(then) == UNCHANGED failed

\* failed_requests::add.
AddFailed(then) ==
    failed' = IF failed = NoRequest
              THEN [from |-> then.from, depth |-> then.depth,
                    recursion |-> then.recursion]
              ELSE [from |-> None, depth |-> None, recursion |-> -1]

\* The request failed.  A hole whose request failed for want of a network is remembered
\* (needs_to_repeat_failed); after any other error, the server's or one in the answer's
\* format, the loop ends and nothing remembers it.
OnHistoryFailed ==
    /\ requests # <<>> /\ Spend("failures")
    /\ requests' = Tail(requests) /\ answer' = NoAnswer
    /\ LET then == Head(requests).then IN
       /\ IF then.step = "opened" THEN DownloadHoles ELSE UNCHANGED jobs
       /\ \/ then.step # "holeAnswered" /\ UNCHANGED <<failed, skipped>>
          \/ then.step = "holeAnswered" /\ AddFailed(then) /\ UNCHANGED skipped
          \/ then.step = "holeAnswered" /\ UNCHANGED failed /\ skipped' = TRUE
    /\ UNCHANGED <<server, fetched, handling, archive, results, opened, forgotten>>

\* A clear patch drops the history; nobody is told of the answer, whose other patches
\* are not applied.
OnStateStored ==
    /\ TakeResult("stateStored")
    /\ IF Captured.answer.clear
       THEN /\ Post(Job("drop", 0, Then("dropped")))
            /\ Forget(DOMAIN Captured.answer.patches)
       ELSE /\ Post(Job("pass", 0, [Captured EXCEPT !.step = "notSentRemoved"]))
            /\ UNCHANGED forgotten
    /\ UNCHANGED <<handling, requests, opened, failed, skipped>> /\ CoreChanges

OnDropped ==
    /\ TakeResult("dropped")
    /\ IF opened THEN DownloadHoles ELSE UNCHANGED jobs
    /\ UNCHANGED <<handling, requests, opened, failed>> /\ CoreOnly

OnNotSentRemoved ==
    /\ TakeResult("notSentRemoved")
    /\ LET a == Captured.answer IN
       Post(Job("update", [messages |-> a.messages, patches |-> a.patches,
                           from |-> Captured.request.from, older |-> a.older],
                [step |-> "historyUpdated", then |-> Captured.request.then]))
    /\ UNCHANGED <<handling, requests, opened, failed>> /\ CoreOnly

OnHistoryUpdated ==
    /\ TakeResult("historyUpdated")
    /\ Succeeded(Captured.then)
    /\ UNCHANGED <<handling, requests, opened, failed>> /\ CoreOnly

-----------------------------------------------------------------------------
(* The loop that closes the holes (download_holes).                        *)

OnHolesFrom ==
    /\ TakeResult("holesFrom")
    /\ GetNextHole(Result.last, None, 0)
    /\ UNCHANGED <<handling, requests, opened, failed>> /\ CoreOnly

LoopEnds(hole, recursion) ==
    \/ hole = NoHole
    \/ recursion > 0 /\ hole.from = None
    \/ recursion > MaxRecursion

OnHole ==
    /\ TakeResult("hole")
    /\ IF LoopEnds(Result, Captured.recursion) THEN UNCHANGED jobs
       ELSE Post(Job("getState", 0, [step |-> "holeState", hole |-> Result,
                                     from |-> Captured.from, depth |-> Captured.depth,
                                     recursion |-> Captured.recursion]))
    /\ UNCHANGED <<handling, requests, opened, failed>> /\ CoreOnly

\* A hole that is deleted meanwhile is left alone; so is one that is too deep.
Obsolete(hole, delUpTo) ==
    hole.from \in 1..delUpTo \/ hole.to \in 1..delUpTo

DepthTail(depth, hole) ==
    IF depth = None THEN None ELSE depth - hole.depth + PageSize + 1

OnHoleState ==
    /\ TakeResult("holeState")
    /\ LET hole == Captured.hole
           tooDeep == Captured.depth # None /\ Captured.depth - hole.depth <= 0
       IN IF Obsolete(hole, Result.delUpTo) \/ tooDeep THEN UNCHANGED requests
          ELSE AskHistory(Request(hole.from, hole.to, PageSize, Result.version,
                   [step |-> "holeAnswered", hole |-> hole, from |-> Captured.from,
                    depth |-> Captured.depth, recursion |-> Captured.recursion,
                    tail |-> DepthTail(Captured.depth, hole)]))
    /\ skipped' = (skipped \/ (/\ Captured.hole.to \in 1..Result.delUpTo
                               /\ Captured.hole.from \notin 1..Result.delUpTo))
    /\ UNCHANGED <<handling, jobs, opened, failed, forgotten>> /\ CoreChanges

OnValidated ==
    /\ TakeResult("validated")
    /\ GetNextHole(Result, Captured.depth, Captured.recursion + 1)
    /\ UNCHANGED <<handling, requests, opened, failed>> /\ CoreOnly

\* download_failed_holes, after a successful poll.
DownloadFailedHoles ==
    /\ failed # NoRequest
    /\ failed' = NoRequest
    /\ GetNextHole(failed.from, failed.depth, failed.recursion)
    /\ UNCHANGED <<handling, requests, results, opened>> /\ CoreOnly

-----------------------------------------------------------------------------
(* Events about the state of the dialog (on_event_dlg_state).  The next    *)
(* one is handled when this one is done.                                   *)

OnEventDlgState ==
    /\ fetched # <<>> /\ ~handling
    /\ fetched' = Tail(fetched) /\ handling' = TRUE
    /\ Post(Job("getState", 0, [step |-> "localLoaded", event |-> Head(fetched)]))
    /\ UNCHANGED <<server, requests, answer, archive, results, opened, failed, observed,
                   budget>>

OnLocalStateLoaded ==
    /\ TakeResult("localLoaded")
    /\ LET e == Captured.event
           local == Result
       IN Post(Job("setState",
                   [last |-> e.last, history |-> 0, dialog |-> e.version,
                    delUpTo |-> e.delUpTo],
                   [step |-> "localUpdated", tail |-> e.tail,
                    patched |-> local.last # None /\ e.version # local.version,
                    cleared |-> e.delUpTo > local.delUpTo,
                    moved   |-> e.last > local.last]))
    /\ UNCHANGED <<handling, requests, opened, failed>> /\ CoreOnly

\* on_event_dlg_state_local_state_updated.  New patches, or a last message the
\* event does not bring, are asked for.
OnLocalStateUpdated ==
    /\ TakeResult("localUpdated")
    /\ LET c == Captured IN
       /\ IF c.patched \/ (c.moved /\ Result.last \notin DOMAIN c.tail)
          THEN AskHistory(Request(None, None, 1, Result.version, Nothing))
          ELSE UNCHANGED requests
       /\ IF c.cleared /\ DOMAIN c.tail = {}
          THEN jobs' = jobs \o <<Job("deleteUpTo", Result.delUpTo, Then("eventDone")),
                                 Job("getState", 0, Then("clearLast"))>>
          ELSE Post(Job("pass", 0,
                        [step |-> "eventNotSentRemoved", tail |-> c.tail,
                         last |-> IF DOMAIN c.tail = {} THEN Result.last
                                  ELSE Highest(DOMAIN c.tail),
                         delUpTo |-> Result.delUpTo, patched |-> c.patched,
                         cleared |-> c.cleared, moved |-> c.moved]))
    /\ UNCHANGED <<handling, opened, failed>> /\ CoreOnly

\* clear_last_message_in_dlg_state: sets the state that was read, so that what
\* was set in between may be undone.
OnClearLast ==
    /\ TakeResult("clearLast")
    /\ Post(Job("setState",
                [last |-> Result.last, history |-> Result.version, dialog |-> 0,
                 delUpTo |-> Result.delUpTo], Nothing))
    /\ UNCHANGED <<handling, requests, opened, failed>> /\ CoreOnly

OnEventNotSentRemoved ==
    /\ TakeResult("eventNotSentRemoved")
    /\ Post(Job("update", [messages |-> Captured.tail, patches |-> EmptyIndex,
                           from |-> None, older |-> TRUE],
                [Captured EXCEPT !.step = "tailUpdated"]))
    /\ UNCHANGED <<handling, requests, opened, failed>> /\ CoreOnly

OnTailUpdated == Hop("tailUpdated", "introUpdated")
OnIntroUpdated == Hop("introUpdated", "eventUpdated")

\* on_event_dlg_state_history_updated: holes are looked for near the new
\* messages when the dialog is opened or has pending messages.
OnEventUpdated ==
    /\ TakeResult("eventUpdated")
    /\ LET c == Captured
           count == Cardinality(DOMAIN c.tail)
           news == count > 0 \/ c.patched \/ c.moved
           search == Job("nextHole",
                         [from |-> c.last, depth |-> IF count > 0 THEN count + 1 ELSE None],
                         [step |-> "hole", from |-> c.last, recursion |-> 0,
                          depth |-> IF count > 0 THEN count + 1 ELSE None])
           delete == Job("deleteUpTo", c.delUpTo, Then("eventDone"))
       IN \E pending \in BOOLEAN :
          /\ jobs' = jobs \o (IF news /\ c.last > 0 /\ (opened \/ pending)
                              THEN <<search>> ELSE <<>>)
                          \o (IF c.cleared THEN <<delete>> ELSE <<>>)
          /\ handling' = c.cleared
    /\ UNCHANGED <<requests, opened, failed>> /\ CoreOnly

\* Mutant: nobody is told that the event is handled.
MutantOnEventDone ==
    /\ TakeResult("eventDone")
    /\ UNCHANGED <<handling, requests, jobs, opened, failed>> /\ CoreOnly

\* dispatch_events goes on with the next event.
OnEventDone ==
    /\ TakeResult("eventDone")
    /\ handling' = FALSE
    /\ UNCHANGED <<requests, jobs, opened, failed>> /\ CoreOnly

-----------------------------------------------------------------------------
(* The user opens and closes the dialog.                                   *)

\* get_archive_messages, the first request of a dialog.
OpenDialog ==
    /\ ~opened /\ Spend("opens")
    /\ opened' = TRUE /\ skipped' = FALSE
    /\ Post(Job("getMessages", 0, Then("messagesLoaded")))
    /\ UNCHANGED <<network, handling, archive, results, failed, forgotten>>

OnMessagesLoaded == Hop("messagesLoaded", "stateOfMessages")
OnStateOfMessages == Hop("stateOfMessages", "messagesShown")

OnMessagesShown ==
    /\ TakeResult("messagesShown")
    /\ Post(Job("getState", 0, Then("stateOfOpened")))
    /\ UNCHANGED <<handling, requests, opened, failed>> /\ CoreOnly

OnStateOfOpened ==
    /\ TakeResult("stateOfOpened")
    /\ AskHistory(Request(None, None, 1, Result.version, Then("opened")))
    /\ UNCHANGED <<handling, jobs, opened, failed>> /\ CoreOnly

\* remove_opened_dialog.
CloseDialog ==
    /\ opened /\ Spend("closes")
    /\ opened' = FALSE
    /\ Post(Job("free", 0, Nothing))
    /\ UNCHANGED <<network, handling, archive, results, failed, observed>>

RunCore ==
    \/ OnHistory \/ OnStateStored \/ OnDropped \/ OnNotSentRemoved \/ OnHistoryUpdated
    \/ OnHolesFrom \/ OnHole \/ OnHoleState \/ OnValidated \/ DownloadFailedHoles
    \/ OnEventDlgState \/ OnLocalStateLoaded \/ OnLocalStateUpdated
    \/ OnClearLast \/ OnEventNotSentRemoved \/ OnTailUpdated \/ OnIntroUpdated
    \/ OnEventUpdated \/ OnEventDone
    \/ OnMessagesLoaded \/ OnStateOfMessages \/ OnMessagesShown \/ OnStateOfOpened

\* Deletions that a client which has the patch version does not ask for again.
KnownDeleted(version) ==
    {server.log[k].id : k \in {j \in DOMAIN server.log :
                                  j < version /\ server.log[j].kind = "delete"}}

\* The process dies and starts again; the new session brings the dialog's state.
\* The patches of an answer whose version was stored before it died are not asked for.
Crash ==
    /\ Spend("crashes")
    /\ \E n \in Tails : fetched' = <<Snapshot(n)>>
    /\ handling' = FALSE /\ requests' = <<>> /\ answer' = NoAnswer
    /\ jobs' = <<>> /\ results' = <<>>
    /\ memory' = EmptyIndex /\ loaded' = FALSE
    /\ opened' = FALSE /\ failed' = NoRequest /\ skipped' = FALSE
    /\ Forget(KnownDeleted(state.version) \ Flagged(file))
    /\ UNCHANGED <<server, file, state>>

-----------------------------------------------------------------------------
\* The archive holds the first messages, up to where the client was last
\* connected; the session starts with an event.
Init ==
    /\ budget \in Budgets
    /\ server = [last |-> budget.existing, gone |-> {}, delUpTo |-> None, log |-> <<>>]
    /\ \E n \in Tails : fetched = <<Snapshot(n)>>
    /\ handling = FALSE /\ requests = <<>> /\ answer = NoAnswer
    /\ memory = EmptyIndex /\ loaded = FALSE
    /\ file = Messages(1..Stored)
    /\ state = [last |-> IF Stored = 0 THEN None ELSE Stored,
                version |-> IF Stored = 0 THEN 0 ELSE 1, delUpTo |-> None]
    /\ jobs = <<>> /\ results = <<>>
    /\ opened = FALSE /\ failed = NoRequest /\ skipped = FALSE /\ forgotten = {}

ServerMoves == NewMessage \/ DeleteMessage \/ ClearUpTo \/ ClearByPatch
UserMoves == OpenDialog \/ CloseDialog
Next ==
    \/ ServerMoves \/ UserMoves \/ ServerAnswers \/ OnHistoryFailed
    \/ RunArchive \/ RunCore \/ Crash

Spec == Init /\ [][Next]_vars

\* Requests are answered and threads run.  All other steps are bounded, so that
\* fairness to each of these implies fairness to all of them together.
Fairness == WF_vars(ServerAnswers \/ RunArchive \/ RunCore)

FairSpec == Spec /\ Fairness

-----------------------------------------------------------------------------
(* Properties. *)

\* Where the index of the archive claims that nothing is missing, nothing is: no message of
\* the server lies between two messages linked to each other, or below a first
\* message without a link.
LinksSound ==
    \A index \in {memory, file} : \A i \in Kept(index) :
        ~Broken(index, i) => \A m \in Live : ~(Below(index, i) < m /\ m < i)

\* While the index is loaded, its file holds the same headers: a restart would load
\* what the user has seen.
FileFollowsMemory == loaded => file = memory

Quiet == fetched = <<>> /\ ~handling /\ requests = <<>> /\ jobs = <<>> /\ results = <<>>

\* Messages the user sees when the dialog is opened.
Visible(index) == {i \in Kept(index) : ~index[i].deleted}

\* When all is handled, no message is shown which the stored state knows to be deleted:
\* by its patch, or by what was cleared; whatever brings it came late, was cut off by
\* a crash or overtaken.  But for the one message load_from_local forgets, see
\* ClearedIsGone, and for deletions the archive has lost.
NothingDeletedShown ==
    Quiet => \A i \in Visible(Load) :
        /\ i >= state.delUpTo
        /\ i \in KnownDeleted(state.version) => i \in forgotten \cup {state.delUpTo}

\* A message whose id is at most del_up_to is obsolete (insert_history_block):
\* when all is handled, none is shown.
ClearedIsGone == Quiet => \A i \in Visible(Load) : i > state.delUpTo

\* When all is handled and the dialog is open, nothing is missing below the
\* newest message that is there; unless a hole was left alone because its lower end
\* was deleted, its request failed with an error that is not repeated, or a search
\* went astray: then it stays open until something starts the next search.
CompleteWhenOpened ==
    Quiet /\ opened /\ failed = NoRequest /\ ~skipped =>
        \A m \in Live : m \in Kept(memory) \/ m > Newest(Kept(memory))

\* The loop's safety limit: "archive logic bug".
LimitReached ==
    \E i \in DOMAIN results :
        results[i].then.step = "hole" /\ results[i].then.recursion > MaxRecursion

\* Everything is handled in the end: the handling of an event completes, and the
\* loop that closes the holes ends by itself, never at its safety limit.
EventuallyQuiet == []~LimitReached /\ <>[]Quiet
=============================================================================
