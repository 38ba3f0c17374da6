----------------------------- MODULE Downloads ------------------------------
(***************************************************************************)
(* async_loader's downloads of shared files                                *)
(* (src/core/connections/wim/async_loader/async_loader.cpp): the meta data *)
(* of a file is asked for, then the file, chunk by chunk, into a temporary *)
(* file that is moved to its place when it is complete.  Requests for a    *)
(* url that is being downloaded share its download; one that fails is      *)
(* suspended until the network is back.                                    *)
(*                                                                         *)
(* The core thread accepts requests, cancels, handles meta data and        *)
(* resumes; the threads of curl write chunks and run what follows them.    *)
(* in_progress_ has a mutex, suspended_tasks_ has none.                    *)
(*                                                                         *)
(* Sizes are counted in words of a file.                                   *)
(***************************************************************************)
EXTENDS Naturals, Sequences, FiniteSets

CONSTANTS Requests,       \* calls of download_file_sharing, a handler each
          UrlOf(_),       \* the url of a request
          Raised(_),      \* whether its priority is the highest or above
          Chosen(_),      \* the place its caller wants the file in, or None
          Paths,          \* places for files
          Candidates(_),  \* the places generate_unique_path tries for a url
          Size(_),        \* the size of the file behind a url
          MaxChunk,       \* max_chunk_size
          Budgets,        \* bounds: how many failures of the network and the disk,
                          \* calls of cancel_file_sharing and deaths of the process
          None

Urls == {UrlOf(r) : r \in Requests}

ASSUME UrlsAssumption ==
    /\ Urls \cap Requests = {}
    /\ \A u \in Urls : /\ Size(u) \in Nat \ {0}
                       /\ Candidates(u) \in Seq(Paths) /\ Candidates(u) # <<>>
ASSUME BoundsAssumption ==
    /\ MaxChunk \in Nat \ {0}
    /\ \A b \in Budgets : {b.failures, b.cancels, b.crashes} \subseteq Nat
    /\ None \notin Paths \cup Urls
    /\ \A r \in Requests : Chosen(r) \in Paths \cup {None}

VARIABLES
    metas,      \* requests whose meta data is under way
    local,      \* _file_name of each: Chosen, or where its file was downloaded to earlier
    progress,   \* in_progress_: urls and their chunks
    curl,       \* the requests for a chunk, by url
    pushing,    \* urls whose thread is about to push to suspended_tasks_
    suspended,  \* suspended_tasks_: requests for meta data, and urls
    core,       \* whether the core thread runs resume_suspended_tasks
    tmp,        \* the temporary file of each place
    file,       \* the file in each place, or None
    saved,      \* the meta data on the disk: None, or its local_path_, which may be ""
    unsaved,    \* local paths that are still to be written there
    budget,     \* failures, cancels and crashes that may still happen
    requested,  \* history: the requests of this process
    told,       \* history: what the handler of each request was called with
    spoiled,    \* history: places whose temporary file has words of a broken answer
                \* that are not the next of the file, or got words behind uncounted ones
    mixed,      \* history: places two downloads wrote to
    raced       \* history: suspended_tasks_ was used by two threads at a time

memory == <<metas, local, progress, curl, pushing, suspended, core, unsaved>>
disk == <<tmp, file, saved, spoiled, mixed>>
vars == <<memory, disk, budget, requested, told, raced>>

Whole(u) == [i \in 1..Size(u) |-> <<u, i>>]

\* A word of an answer that is no part of a file, as the text of an error.
Junk == <<None, 0>>

\* The temporary file of p holds words of another file than u's.
Foreign(p, u) == \E i \in DOMAIN tmp[p] : tmp[p][i][1] # u

\* The maps from urls: an empty one, one with x for u, one without u.
Nobody == [u \in {} |-> 0]
With(map, u, x) == [v \in DOMAIN map \cup {u} |-> IF v = u THEN x ELSE map[v]]
Without(map, u) == [v \in DOMAIN map \ {u} |-> map[v]]

Init ==
    /\ metas = {} /\ local = [r \in Requests |-> Chosen(r)]
    /\ progress = Nobody /\ curl = Nobody
    /\ pushing = {} /\ suspended = <<>> /\ core = "free"
    /\ tmp = [p \in Paths |-> <<>>] /\ file = [p \in Paths |-> None]
    /\ saved = [u \in Urls |-> None] /\ unsaved = {}
    /\ budget \in Budgets
    /\ requested = {} /\ told = [r \in Requests |-> <<>>]
    /\ spoiled = {} /\ mixed = {} /\ raced = FALSE

Spend(what) == budget[what] > 0 /\ budget' = [budget EXCEPT ![what] = @ - 1]

Tell(rs, what) ==
    told' = [r \in Requests |-> IF r \in rs THEN Append(told[r], what) ELSE told[r]]

\* What save_filesharing_local_path recorded is still there.
Valid(u, p) ==
    p \in Paths /\ saved[u] = p /\ file[p] # None /\ Len(file[p].words) = Size(u)

-----------------------------------------------------------------------------
(* Chunks: download_file_sharing_impl and what follows it. *)

\* The files after the temporary one of p became words.
TmpBecomes(p, words) ==
    /\ tmp' = [tmp EXCEPT ![p] = words]
    /\ spoiled' = IF words = <<>> THEN spoiled \ {p} ELSE spoiled

\* fire_chunks_callback.
Fire(u, what) ==
    /\ Tell(progress[u].handlers, what)
    /\ progress' = Without(progress, u)

\* The range of a request includes its end.
Asked(chunks, u) ==
    LET left == Size(u) - chunks.downloaded
        size == IF chunks.high \/ left < MaxChunk THEN left ELSE MaxChunk IN
    IF size + 1 < left THEN size + 1 ELSE left

Others(u, p) == {v \in DOMAIN progress \ {u} : progress[v].path = p}

\* The temporary file is opened, and truncated if nothing counts as downloaded yet.
Opens(u, chunks) ==
    LET p == chunks.path IN
    /\ curl' = With(curl, u, [stage |-> "asked", words |-> Asked(chunks, u)])
    /\ progress' = With(progress, u, chunks)
    /\ tmp' = [tmp EXCEPT ![p] = IF chunks.downloaded = 0 THEN <<>> ELSE @]
    /\ spoiled' = CASE chunks.downloaded = 0 -> spoiled \ {p}
                    [] chunks.downloaded = Len(tmp[p]) -> spoiled
                    [] OTHER -> spoiled \cup {p}
    /\ mixed' = IF Others(u, p) = {} /\ ~Foreign(p, u) THEN mixed ELSE mixed \cup {p}
    /\ UNCHANGED <<told, budget>>

OpenFails(u, chunks) ==
    /\ Spend("failures")
    /\ Tell(chunks.handlers, "error")
    /\ progress' = Without(progress, u)
    /\ curl' = Without(curl, u)

\* download_file_sharing_impl for the chunks of u.
AskChunk(u, chunks) ==
    IF chunks.cancel
    THEN /\ TmpBecomes(chunks.path, <<>>)
         /\ Tell(chunks.handlers, "cancelled")
         /\ progress' = Without(progress, u)
         /\ curl' = Without(curl, u)
         /\ UNCHANGED <<mixed, budget>>
    ELSE \/ Opens(u, chunks)
         \/ OpenFails(u, chunks) /\ UNCHANGED <<tmp, spoiled, mixed>>

\* The words the server sends: n of the file, those behind the first k.
Part(u, k, n) == [i \in 1..n |-> Whole(u)[k + i]]

\* Whether words are the next of the file, behind those that are counted.
InLine(u, words) ==
    \A i \in DOMAIN words : words[i] = <<u, progress[u].downloaded + i>>

\* A transfer that did not succeed leaves its words in the temporary file, uncounted.
Received(u, words, stage) ==
    LET p == progress[u].path IN
    /\ tmp' = [tmp EXCEPT ![p] = @ \o words]
    /\ curl' = With(curl, u, [stage |-> stage, words |-> Len(words)])
    /\ spoiled' = IF stage = "done" \/ InLine(u, words) THEN spoiled ELSE spoiled \cup {p}

\* A thread of curl writes what the server sends: the range; or all of the file, if
\* the server ignores it; or the text of an error; or some words of the range or of
\* all of the file before the transfer fails, or is aborted because the download was
\* cancelled.
Receive(u) ==
    /\ u \in DOMAIN curl /\ curl[u].stage = "asked"
    /\ LET k == progress[u].downloaded IN
       \/ Received(u, Part(u, k, curl[u].words), "done") /\ UNCHANGED budget
       \/ Received(u, Whole(u), "done") /\ Spend("failures")
       \/ \E stage \in {"failed", "gone"} :
             Received(u, <<Junk>>, stage) /\ Spend("failures")
       \/ /\ \/ \E n \in 0..(curl[u].words - 1) : Received(u, Part(u, k, n), "failed")
             \/ \E n \in 1..(Size(u) - 1) : Received(u, Part(u, 0, n), "failed")
          /\ IF progress[u].cancel THEN UNCHANGED budget ELSE Spend("failures")
    /\ UNCHANGED <<metas, local, progress, pushing, suspended, core, unsaved, file,
                   saved, mixed, requested, told, raced>>

Moved(p, u) ==
    [words |-> tmp[p], url |-> u, bad |-> p \in spoiled \cup mixed \/ Foreign(p, u)]

\* The callback of a chunk that was received.  move_file may fail.
ChunkDone(u) ==
    /\ u \in DOMAIN curl /\ curl[u].stage = "done"
    /\ LET chunks == [progress[u] EXCEPT !.downloaded = @ + curl[u].words]
           p == chunks.path IN
       \/ /\ chunks.downloaded = Size(u)
          /\ curl' = Without(curl, u)
          /\ \/ /\ tmp[p] # <<>>
                /\ file' = [file EXCEPT ![p] = Moved(p, u)]
                /\ TmpBecomes(p, <<>>)
                /\ Fire(u, "success")
                /\ unsaved' = unsaved \cup {<<u, p>>}
                /\ UNCHANGED budget
             \/ /\ IF tmp[p] = <<>> \/ p \in mixed THEN UNCHANGED budget
                   ELSE Spend("failures")
                /\ Fire(u, "error")
                /\ UNCHANGED <<file, tmp, spoiled, unsaved>>
          /\ UNCHANGED mixed
       \/ /\ chunks.downloaded > Size(u)
          /\ curl' = Without(curl, u)
          /\ Fire(u, "error")
          /\ UNCHANGED <<file, tmp, spoiled, mixed, unsaved, budget>>
       \/ /\ chunks.downloaded < Size(u)
          /\ AskChunk(u, chunks)
          /\ UNCHANGED <<file, unsaved>>
    /\ UNCHANGED <<metas, local, pushing, suspended, core, saved, requested, raced>>

\* The callback of one that was not.
ChunkFailed(u) ==
    /\ u \in DOMAIN curl /\ curl[u].stage \in {"failed", "gone"}
    /\ curl' = Without(curl, u)
    /\ IF progress[u].cancel \/ curl[u].stage = "gone"
       THEN /\ TmpBecomes(progress[u].path, <<>>)
            /\ Fire(u, "cancelled")
            /\ UNCHANGED <<pushing, raced>>
       ELSE /\ pushing' = pushing \cup {u}
            /\ raced' = (raced \/ pushing # {} \/ core = "resuming")
            /\ UNCHANGED <<tmp, spoiled, progress, told>>
    /\ UNCHANGED <<metas, local, suspended, core, unsaved, file, saved, mixed, budget,
                   requested>>

\* Mutant: the download is not suspended.
MutantSuspend(u) ==
    /\ u \in pushing
    /\ pushing' = pushing \ {u}
    /\ UNCHANGED <<metas, local, progress, curl, suspended, core, unsaved, disk, budget,
                   requested, told, raced>>

\* suspended_tasks_.push.  What it does when another thread uses the queue at the
\* same time is undefined: tasks may get lost.
Suspend(u) ==
    /\ u \in pushing
    /\ pushing' = pushing \ {u}
    /\ \/ suspended' = Append(suspended, u)
       \/ raced /\ suspended' \in {suspended, <<u>>}
    /\ UNCHANGED <<metas, local, progress, curl, core, unsaved, disk, budget, requested,
                   told, raced>>

-----------------------------------------------------------------------------
(* The core thread. *)

\* Mutant: a request for a url in progress starts anew.
MutantDownload(r) ==
    LET u == UrlOf(r) IN
    /\ core = "free" /\ r \notin requested /\ told[r] = <<>>
    /\ requested' = requested \cup {r}
    /\ metas' = metas \cup {r}
    /\ progress' = Without(progress, u)
    /\ UNCHANGED <<local, curl, pushing, suspended, core, unsaved, disk, budget, told, raced>>

\* What download_file_sharing does: a request for a url in progress joins it; for
\* another the meta data is asked for.  Meta data on the disk that names no valid
\* file is deleted.
Accept(r) ==
    LET u == UrlOf(r) IN
    IF u \in DOMAIN progress
    THEN /\ progress' = [progress EXCEPT ![u].handlers = @ \cup {r},
                                         ![u].high = @ \/ Raised(r)]
         /\ UNCHANGED <<metas, local, saved>>
    ELSE /\ metas' = metas \cup {r}
         /\ IF Valid(u, saved[u])
            THEN /\ local' = [local EXCEPT ![r] = IF @ = None THEN saved[u] ELSE @]
                 /\ UNCHANGED saved
            ELSE saved' = [saved EXCEPT ![u] = None] /\ UNCHANGED local
         /\ UNCHANGED progress

\* download_file_sharing.
Download(r) ==
    /\ core = "free" /\ r \notin requested /\ told[r] = <<>>
    /\ requested' = requested \cup {r}
    /\ Accept(r)
    /\ UNCHANGED <<curl, pushing, suspended, core, unsaved, tmp, file, spoiled, mixed,
                   budget, told, raced>>

\* cancel_file_sharing, which does nothing while the meta data is under way.
Cancel(u) ==
    /\ core = "free" /\ u \in DOMAIN progress
    /\ Spend("cancels")
    /\ progress' = [progress EXCEPT ![u].cancel = TRUE]
    /\ UNCHANGED <<metas, local, curl, pushing, suspended, core, unsaved, disk, requested,
                   told, raced>>

\* The place for the file of a request: the one its caller chose, or where it was;
\* else the first free one of the candidates, else the last, where it replaces what
\* is there.
Place(r) ==
    LET c == Candidates(UrlOf(r))
        free == {i \in DOMAIN c : file[c[i]] = None} IN
    IF local[r] # None THEN local[r]
    ELSE IF free = {} THEN c[Len(c)]
    ELSE c[CHOOSE i \in free : \A j \in free : i <= j]

\* The meta data could not be had: for now, or at all.
MetaFails(r) ==
    /\ core = "free" /\ r \in metas
    /\ Spend("failures")
    /\ metas' = metas \ {r}
    /\ \/ /\ suspended' = Append(suspended, r)
          /\ raced' = (raced \/ pushing # {})
          /\ UNCHANGED told
       \/ /\ Tell({r}, "error")
          /\ UNCHANGED <<suspended, raced>>
    /\ UNCHANGED <<local, progress, curl, pushing, core, unsaved, disk, requested>>

\* The meta data names a valid file, which is the one asked for or is copied there.
Found(r) ==
    LET p == saved[UrlOf(r)] IN
    Valid(UrlOf(r), p) /\ (local[r] # None \/ p = Place(r))

MetaFound(r) ==
    /\ core = "free" /\ r \in metas /\ Found(r)
    /\ metas' = metas \ {r}
    /\ file' = [file EXCEPT ![Place(r)] = file[saved[UrlOf(r)]]]
    /\ Tell({r}, "success")
    /\ unsaved' = unsaved \cup {<<UrlOf(r), Place(r)>>}
    /\ UNCHANGED <<local, progress, curl, pushing, suspended, core, tmp, saved, spoiled,
                   mixed, budget, requested, raced>>

\* Mutant: a temporary file that is too long is not deleted.
MutantMetaArrives(r) ==
    LET u == UrlOf(r)
        p == Place(r)
        chunks == [path |-> p, downloaded |-> Len(tmp[p]), handlers |-> {r},
                   cancel |-> FALSE, high |-> Raised(r)] IN
    /\ core = "free" /\ r \in metas /\ ~Found(r)
    /\ metas' = metas \ {r}
    /\ IF Len(tmp[p]) >= Size(u)
       THEN /\ file' = [file EXCEPT ![p] = Moved(p, u)]
            /\ TmpBecomes(p, <<>>)
            /\ Tell({r}, "success")
            /\ UNCHANGED <<progress, curl, budget, mixed, unsaved>>
       ELSE IF u \in DOMAIN progress
       THEN /\ progress' = [progress EXCEPT ![u].handlers = @ \cup {r}]
            /\ UNCHANGED <<curl, told, budget, file, tmp, spoiled, mixed, unsaved>>
       ELSE AskChunk(u, chunks) /\ UNCHANGED <<file, unsaved>>
    /\ UNCHANGED <<local, pushing, suspended, core, saved, requested, raced>>

\* The meta data is there.  The file in the place of the new one is deleted; what the
\* temporary file holds counts as downloaded, by its size alone; one that is complete
\* is moved (or cannot be), one that is too long deleted; then the request joins the
\* download in progress, wherever that puts its file, or starts one.
MetaArrives(r) ==
    LET u == UrlOf(r)
        p == Place(r)
        used == Others(None, p) # {}
        complete == Len(tmp[p]) = Size(u)
        tooLong == Len(tmp[p]) > Size(u)
        chunks == [path |-> p, downloaded |-> IF tooLong THEN 0 ELSE Len(tmp[p]),
                   handlers |-> {r}, cancel |-> FALSE, high |-> Raised(r)] IN
    /\ core = "free" /\ r \in metas /\ ~Found(r)
    /\ metas' = metas \ {r}
    /\ \/ /\ complete
          /\ file' = [file EXCEPT ![p] = Moved(p, u)]
          /\ TmpBecomes(p, <<>>)
          /\ mixed' = IF used THEN mixed \cup {p} ELSE mixed
          /\ Tell({r}, "success")
          /\ unsaved' = unsaved \cup {<<u, p>>}
          /\ UNCHANGED <<progress, curl, budget>>
       \/ /\ complete /\ Spend("failures")
          /\ file' = [file EXCEPT ![p] = None]
          /\ Tell({r}, "error")
          /\ UNCHANGED <<progress, curl, tmp, spoiled, mixed, unsaved>>
       \/ /\ ~complete /\ u \in DOMAIN progress
          /\ IF tooLong THEN TmpBecomes(p, <<>>) ELSE UNCHANGED <<tmp, spoiled>>
          /\ mixed' = IF tooLong /\ used THEN mixed \cup {p} ELSE mixed
          /\ file' = [file EXCEPT ![p] = None]
          /\ progress' = [progress EXCEPT ![u].handlers = @ \cup {r},
                                          ![u].high = @ \/ Raised(r)]
          /\ UNCHANGED <<curl, told, budget, unsaved>>
       \/ /\ ~complete /\ u \notin DOMAIN progress
          /\ file' = [file EXCEPT ![p] = None]
          /\ IF tooLong
             THEN \/ Opens(u, chunks)
                  \/ /\ OpenFails(u, chunks)
                     /\ TmpBecomes(p, <<>>)
                     /\ mixed' = IF used THEN mixed \cup {p} ELSE mixed
             ELSE AskChunk(u, chunks)
          /\ UNCHANGED unsaved
    /\ saved' = [saved EXCEPT ![u] = IF @ = None THEN "" ELSE @]
    /\ UNCHANGED <<local, pushing, suspended, core, requested, raced>>

\* The handler of im: the place is recorded in the meta data, on another thread.
SaveLocalPath ==
    /\ \E s \in unsaved :
         /\ unsaved' = unsaved \ {s}
         /\ saved' = [saved EXCEPT ![s[1]] = IF @ = None THEN None ELSE s[2]]
    /\ UNCHANGED <<metas, local, progress, curl, pushing, suspended, core, tmp, file,
                   spoiled, mixed, budget, requested, told, raced>>

\* resume_suspended_tasks, until the queue is empty: a request starts anew, a download
\* asks for its next chunk.
BeginResume ==
    /\ core = "free" /\ suspended # <<>>
    /\ core' = "resuming"
    /\ raced' = (raced \/ pushing # {})
    /\ UNCHANGED <<metas, local, progress, curl, pushing, suspended, unsaved, disk, budget,
                   requested, told>>

Resume ==
    /\ core = "resuming" /\ suspended # <<>>
    /\ suspended' = Tail(suspended)
    /\ IF Head(suspended) \in Requests
       THEN /\ Accept(Head(suspended))
            /\ UNCHANGED <<curl, tmp, spoiled, mixed, told, budget>>
       ELSE /\ AskChunk(Head(suspended), progress[Head(suspended)])
            /\ UNCHANGED <<metas, local, saved>>
    /\ UNCHANGED <<pushing, core, unsaved, file, requested, raced>>

EndResume ==
    /\ core = "resuming" /\ suspended = <<>>
    /\ core' = "free"
    /\ UNCHANGED <<metas, local, progress, curl, pushing, suspended, unsaved, disk, budget,
                   requested, told, raced>>

-----------------------------------------------------------------------------

\* The process dies, and starts again; its requests are forgotten.
Crash ==
    /\ Spend("crashes")
    /\ metas' = {} /\ local' = [r \in Requests |-> Chosen(r)]
    /\ progress' = Nobody /\ curl' = Nobody
    /\ pushing' = {} /\ suspended' = <<>> /\ core' = "free" /\ unsaved' = {}
    /\ requested' = {r \in requested : told[r] # <<>>}
    /\ raced' = FALSE
    /\ UNCHANGED <<disk, told>>

Chunk(u) == Receive(u) \/ ChunkDone(u) \/ ChunkFailed(u) \/ Suspend(u)

Meta(r) == MetaFails(r) \/ MetaFound(r) \/ MetaArrives(r)

Resuming == BeginResume \/ Resume \/ EndResume

Next ==
    \/ \E r \in Requests : Download(r) \/ Meta(r)
    \/ \E u \in Urls : Cancel(u) \/ Chunk(u)
    \/ SaveLocalPath
    \/ Resuming
    \/ Crash

Spec == Init /\ [][Next]_vars

\* Threads run, every request of curl ends, and the network comes back as often as
\* it fails: resume_failed_network_requests is called then.  All other steps are
\* bounded, so that fairness to each of these implies fairness to all together.
Fairness ==
    WF_vars(\/ \E u \in Urls : Chunk(u)
            \/ \E r \in Requests : Meta(r)
            \/ Resuming)

FairSpec == Spec /\ Fairness

-----------------------------------------------------------------------------

\* Where the loop over the chunks of u is.
LoopsOf(u) ==
    (IF u \in DOMAIN curl THEN 1 ELSE 0) + (IF u \in pushing THEN 1 ELSE 0)
    + Cardinality({i \in DOMAIN suspended : suspended[i] = u})

OneLoop ==
    \A u \in Urls : LoopsOf(u) = IF u \in DOMAIN progress THEN 1 ELSE 0

\* The places that will lead to the handler of a request: its meta data, a suspended
\* task or a download in progress.
PlacesOf(r) ==
    (IF r \in metas THEN 1 ELSE 0)
    + Cardinality({i \in DOMAIN suspended : suspended[i] = r})
    + Cardinality({u \in DOMAIN progress : r \in progress[u].handlers})

\* Every download in progress has one loop that will end it (later requests for its
\* url only join it, and would wait for ever), and only one (two would write the
\* same file); the handler of a request is called at most once, and until it is, one
\* place leads to it.  This holds while the race for suspended_tasks_ was not run.
OneLoopOneAnswer ==
    /\ ~raced => OneLoop
    /\ \A r \in Requests :
          /\ Len(told[r]) <= 1
          /\ r \in requested /\ ~raced => PlacesOf(r) = 1 - Len(told[r])

\* A file in its place is the file of its url, whatever chunks failed, were asked
\* for again, or were left by a process that died; except in three cases, each until
\* the temporary file is truncated or deleted:
\*   - words were appended to it behind some that are not counted, since a chunk broke
\*     off and was asked for again in the same process;
\*   - a transfer that failed left words in it that are not the next of the file: the
\*     text of an error, or the beginning of the file, sent by a server that ignores
\*     the range and broke off; a later process or download counts them;
\*   - two downloads wrote it.
FileIsWhole ==
    \A p \in Paths : file[p] # None => file[p].bad \/ file[p].words = Whole(file[p].url)

\* Every request is answered, if no task gets lost in the race for the queue.
EveryRequestTold ==
    \A r \in Requests : (r \in requested) ~> (told[r] # <<>> \/ r \notin requested \/ raced)
=============================================================================
