---------------------------- MODULE ContactFiles ----------------------------
(***************************************************************************)
(* The files of one contact: the messages (messages_data.cpp), the index   *)
(* that says where in them each message is (archive_index.cpp), and how    *)
(* contact_archive.cpp writes both, drops them and repairs the index, with *)
(* a process that dies at any word it writes.                              *)
(*                                                                         *)
(* All of it runs on the archive's thread, one operation after the other,  *)
(* so that only a restart sees a file in the middle of one.                *)
(***************************************************************************)
EXTENDS Storage, SequencesExt

CONSTANTS Ids,         \* ids of messages
          Lengths,     \* lengths of messages, in words
          BlockSize,   \* history_block_size
          MaxUpdates,  \* bound: blocks of history
          MaxRewrites, \* bound: deletions and drops
          MaxCrashes   \* bound: deaths of the process

ASSUME FilesAssumption ==
    /\ Ids \subseteq Nat \ {0} /\ IsFiniteSet(Ids) /\ Lengths \subseteq Nat \ {0}
    /\ BlockSize \in Nat \ {0} /\ {MaxUpdates, MaxRewrites, MaxCrashes} \subseteq Nat

VARIABLES
    data,     \* the file of the messages
    index,    \* the file of the index
    memory,   \* headers_index_: the position in data of each message
    loaded,   \* local_loaded_
    spent,    \* blocks, rewrites and crashes so far
    lost      \* history: the headers that were being written at the last crash

vars == <<data, index, memory, loaded, spent, lost>>

NoHeaders == [i \in {} |-> 0]

\* insert_block: the newer header's position is taken.
InsertBlock(headers, block) == block @@ headers

Disk == INSTANCE IndexFile WITH Insert <- InsertBlock, NoBlock <- NoHeaders

-----------------------------------------------------------------------------
(* What is in the files. *)

\* A block of history: messages in the order of their ids.
Blocks == {b \in SeqOf([id : Ids, length : Lengths], 2) :
               b # <<>> /\ \A j, k \in DOMAIN b : j < k => b[j].id < b[k].id}

\* messages_data::update writes one frame for each message.
Frames(block) ==
    [k \in DOMAIN block |->
        Frame([n \in 1..block[k].length |-> <<block[k].id, spent.updates, n>>])]

\* A header is an id and the position its message was written at.
Entries(block) ==
    [k \in DOMAIN block |->
        <<block[k].id, Len(data) + Len(FlattenSeq(SubSeq(Frames(block), 1, k - 1))) + 1>>]

Headers(entries) ==
    FoldLeft(LAMBDA h, e : InsertBlock(h, e[1] :> e[2]), NoHeaders, entries)

\* save_all: the headers in the order of their ids, in blocks.
SavedBlocks(headers) ==
    LET all == SetToSortSeq({<<i, headers[i]>> : i \in DOMAIN headers},
                            LAMBDA d, e : d[1] < e[1])
        Block(k) == SelectSeq(all, LAMBDA e :
            Cardinality({i \in DOMAIN headers : i < e[1]}) \div BlockSize = k - 1)
    IN [k \in 1..((Len(all) + BlockSize - 1) \div BlockSize) |-> Block(k)]

SavedWords(headers) ==
    LET blocks == SavedBlocks(headers) IN
    FlattenSeq([k \in DOMAIN blocks |-> Frame(blocks[k])])

\* unserialize_block: the headers up to the first that is none.
Parsed(payload) ==
    SubSeq(payload, 1, SelectInSeq(payload \o <<<<>>>>, LAMBDA e : e = <<>>) - 1)

\* load_from_local: what it reads, and whether it succeeds.
Loading(file) ==
    LET read == ReadAll(file)
        bad == SelectInSeq(read.blocks, LAMBDA p : Parsed(p) # p)
        used == IF bad = 0 THEN read.blocks ELSE SubSeq(read.blocks, 1, bad)
    IN [headers |-> Headers(FlattenSeq([k \in DOMAIN used |-> Parsed(used[k])])),
        complete |-> read.complete /\ bad = 0]

-----------------------------------------------------------------------------
(* The operations. *)

Spend(what) == spent' = [spent EXCEPT ![what] = @ + 1]

\* insert_history_block, of messages that are new or have changed: to the file of
\* the messages, to the index in memory, to the end of its file.
Update ==
    /\ spent.updates < MaxUpdates
    /\ \E block \in Blocks :
         LET entries == Entries(block) IN
         /\ data' = data \o FlattenSeq(Frames(block))
         /\ memory' = InsertBlock(memory, Headers(entries))
         /\ index' = index \o Frame(entries)
    /\ Spend("updates")
    /\ UNCHANGED <<loaded, lost>>

Saved(headers) == index' = SavedWords(headers)

\* Mutant: an index that ends in damage is left as it is.
MutantLoad ==
    /\ ~loaded
    /\ loaded' = TRUE
    /\ memory' = InsertBlock(Loading(index).headers, memory)
    /\ UNCHANGED <<data, index, spent, lost>>

\* contact_archive::load_from_local: the index is repaired when the file ends in
\* damage.
Load ==
    /\ ~loaded
    /\ loaded' = TRUE
    /\ memory' = InsertBlock(Loading(index).headers, memory)
    /\ IF Loading(index).complete THEN UNCHANGED <<index, lost>>
       ELSE Saved(memory') /\ lost' = NoHeaders
    /\ UNCHANGED <<data, spent>>

\* archive_index::delete_up_to, which writes nothing if it deletes nothing.
Rest(to) == Disk!Only(memory, {i \in Ids : i > to})
DeletesFromFile(to) == memory = NoHeaders \/ Rest(to) # memory

DeleteUpTo ==
    /\ spent.rewrites < MaxRewrites
    /\ \E to \in Ids :
         /\ DeletesFromFile(to)
         /\ memory' = Rest(to)
         /\ Saved(Rest(to)) /\ lost' = NoHeaders
    /\ Spend("rewrites")
    /\ UNCHANGED <<data, loaded>>

\* drop_history: the index first, then the messages.
Drop ==
    /\ spent.rewrites < MaxRewrites
    /\ memory' = NoHeaders /\ index' = <<>> /\ data' = <<>> /\ lost' = NoHeaders
    /\ Spend("rewrites")
    /\ UNCHANGED loaded

\* The dialog is closed.
Free ==
    /\ memory' = NoHeaders /\ loaded' = FALSE
    /\ UNCHANGED <<data, index, spent, lost>>

-----------------------------------------------------------------------------
(* The process dies while it writes, and starts again. *)

Restart ==
    /\ spent.crashes < MaxCrashes
    /\ memory' = NoHeaders /\ loaded' = FALSE
    /\ Spend("crashes")

\* Mutant: the index is written before the messages.
MutantUpdateCut ==
    /\ spent.updates < MaxUpdates
    /\ \E block \in Blocks :
       LET words == FlattenSeq(Frames(block))
           frame == Frame(Entries(block)) IN
       \/ /\ index' \in Torn(index, frame)
          /\ lost' = IF Loading(index).complete /\ index' # index THEN Headers(Entries(block)) ELSE lost
          /\ UNCHANGED data
       \/ /\ index' = index \o frame /\ data' \in Torn(data, words)
          /\ UNCHANGED lost
    /\ Restart

UpdateCut ==
    /\ spent.updates < MaxUpdates
    /\ \E block \in Blocks :
       LET words == FlattenSeq(Frames(block))
           frame == Frame(Entries(block)) IN
       \/ /\ data' \in Torn(data, words)
          /\ UNCHANGED <<index, lost>>
       \/ /\ data' = data \o words /\ index' \in Torn(index, frame)
          /\ lost' = IF Loading(index).complete /\ index' # index THEN Headers(Entries(block)) ELSE lost
    /\ Restart

SaveCut(headers) ==
    /\ index' \in Torn(<<>>, SavedWords(headers))
    /\ lost' = headers
    /\ UNCHANGED data

LoadCut ==
    /\ ~loaded /\ ~Loading(index).complete
    /\ SaveCut(InsertBlock(Loading(index).headers, memory))
    /\ Restart

DeleteUpToCut ==
    /\ \E to \in Ids : DeletesFromFile(to) /\ SaveCut(Rest(to))
    /\ Restart

DropCut ==
    /\ index' = <<>> /\ lost' = NoHeaders
    /\ UNCHANGED data
    /\ Restart

-----------------------------------------------------------------------------

Init ==
    /\ data = <<>> /\ index = <<>>
    /\ memory = NoHeaders /\ loaded = FALSE
    /\ spent = [updates |-> 0, rewrites |-> 0, crashes |-> 0]
    /\ lost = NoHeaders

Next ==
    \/ Update \/ Load \/ DeleteUpTo \/ Drop \/ Free
    \/ UpdateCut \/ LoadCut \/ DeleteUpToCut \/ DropCut

Spec == Init /\ [][Next]_vars

-----------------------------------------------------------------------------
(* Properties. *)

\* get_messages finds at the position a header gives a message with the header's
\* id: for every header in memory, and every one a restart would load.
HeadersHaveData ==
    \A headers \in {memory, Loading(index).headers} : \A i \in DOMAIN headers :
        /\ IsBlock(data, headers[i])
        /\ \A k \in DOMAIN Payload(data, headers[i]) : Payload(data, headers[i])[k][1] = i

\* Once the index is loaded, its file and the index in memory agree, whatever
\* had happened to the file: a restart would find the same.
RepairedWhenLoaded ==
    loaded => Loading(index) = [headers |-> memory, complete |-> TRUE]

\* A search finds every message of the index that lies before the first damage in
\* the file of the messages, whatever the damage behind it looks like.
SearchFinds ==
    \A i \in DOMAIN Loading(index).headers :
        LET p == Loading(index).headers[i] IN
        ReadAll(SubSeq(data, 1, p - 1)).complete => p \in FastRead(data)

\* A file of the index as IndexFile describes it.
Described(file, block) ==
    [file |-> Loading(file).headers, torn |-> ~Loading(file).complete, lost |-> block]

\* Every write of the index, also one that is cut by the death of the process, does
\* to what a later load reads only what IndexFile says: a block is added, or lost
\* behind earlier damage, or the index in memory replaces the file, or of it as
\* much as was written; nothing is ever found that was not written.
IndexIsAFile ==
    [][\E file \in {index'}, block \in {lost'} :
       LET old == Described(index, lost)
           new == Described(file, block) IN
       \/ new = Disk!Intact(memory')
       \/ \E b \in Blocks : \E headers \in {Headers(Entries(b))} :
            new \in Disk!Appended(old, headers) \cup Disk!AppendCut(old, headers)
       \/ \E headers \in {InsertBlock(old.file, memory)} \cup {Rest(to) : to \in Ids} :
            new \in Disk!SaveCut(headers)]_<<index, lost>>
=============================================================================
